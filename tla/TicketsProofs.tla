----------------------------- MODULE TicketsProofs -----------------------------
(***************************************************************************)
(* Theorems about Tickets, for any number of seats, scans and issuers and  *)
(* any number of versions.                                                 *)
(*                                                                         *)
(* The operations lock in different orders and issuance locks nothing but  *)
(* its request, so the properties rest on what each operation may still    *)
(* believe of the rows it read: an issuer that the seats it arms have no   *)
(* active credential and no accepted scan, staff that the credential they  *)
(* saw is still the active one, a settlement that the credentials it       *)
(* revokes are of its own tickets.  The rows themselves keep one shape:    *)
(* above an active version there is none.  The request's times and counts  *)
(* play no part in this; their types are an invariant of their own.  The   *)
(* refinement of Admission reads the committed steps off that invariant.   *)
(***************************************************************************)
EXTENDS Tickets, FiniteSetTheorems, WellFoundedInduction, TLAPS

CredentialStatus == {"NONE", "ACTIVE", "REVOKED", "REPLACED", "USED"}
TicketStatus == {"NONE", "ACTIVE", "REVOKED", "USED"}
ScanRow == [phase : {"locked"}, seat : BookedSeats, version : Versions, here : BOOLEAN, now : Nat]
StaffRow == [phase : {"ticket", "both"}, op : {"ROTATE", "REVOKE"}, seat : BookedSeats, version : 0..MaxVersion]
SettleRow == [phase : {"read", "waiting", "revoking"}, seats : SUBSET BookedSeats, tickets : SUBSET BookedSeats,
              credentials : SUBSET (BookedSeats \X Versions)]

RowsTyped ==
  /\ ticketStatus \in [BookedSeats -> TicketStatus]
  /\ credential \in [BookedSeats -> [Versions -> CredentialStatus]]
  /\ redemption = [k \in Scans |-> redemption[k]]
  /\ request = [status |-> request.status, attemptCount |-> request.attemptCount,
                availableAt |-> request.availableAt]
WorkTyped ==
  /\ issuer = [w \in Issuers |-> issuer[w]]
  /\ \A w \in Issuers : issuer[w].phase = "issuing" => issuer[w].arms \subseteq BookedSeats
  /\ scan \in [Scans -> ScanRow \cup {NoScan}]
  /\ staff \in StaffRow \cup {NoStaff}
  /\ settling \in SettleRow \cup {NoSettle}

-----------------------------------------------------------------------------
\* The rows of one seat: a seat without a ticket has no credential, above an
\* active version there is none, and the accepted scans are none or one,
\* which uses the ticket and leaves no active credential.
Accepted(s) == {k \in Scans : redemption[k].outcome = "ACCEPTED" /\ redemption[k].seat = s}
SeatIsSound(s) ==
  /\ ticketStatus[s] = "NONE" => \A v \in Versions : credential[s][v] = "NONE"
  /\ \A v, u \in Versions : credential[s][v] = "ACTIVE" /\ u > v => credential[s][u] = "NONE"
  /\ ticketStatus[s] # "USED" => Accepted(s) = {}
  /\ ticketStatus[s] = "USED" => Active(s) = {} /\ \E k \in Scans : Accepted(s) = {k}
SeatsAreSound == \A s \in BookedSeats : SeatIsSound(s)

\* What a scan that holds a credential may rely on: the credential exists and
\* the request has no answer yet.
ScansHoldCredentials ==
  \A k \in Scans : scan[k] # NoScan =>
    redemption[k] = NotScanned /\ credential[scan[k].seat][scan[k].version] # "NONE"

\* What staff may rely on: the ticket is active, and the credential they saw too.
StaffIsCurrent ==
  staff # NoStaff =>
    /\ ticketStatus[staff.seat] = "ACTIVE"
    /\ staff.phase = "both" => staff.version # 0
    /\ staff.version # 0 => staff.version \in Versions /\ credential[staff.seat][staff.version] = "ACTIVE"

\* What a settlement may rely on: its credentials exist and are of its tickets.
SettlementIsOfItsTickets ==
  settling # NoSettle =>
    \A sv \in settling.credentials :
      sv[1] \in settling.tickets /\ credential[sv[1]][sv[2]] # "NONE"

\* What an issuer may rely on: nobody else issues, the tickets it creates are
\* the missing ones, the seats it arms have no active credential, no accepted
\* scan and room for a version, and every other active ticket is armed.
IssuerIsCurrent(w) ==
  /\ request.status = "PENDING"
  /\ \A x \in Issuers : issuer[x].phase = "issuing" => x = w
  /\ issuer[w].creates = MissingTickets /\ MissingTickets \subseteq issuer[w].arms
  /\ \A s \in issuer[w].arms :
       Active(s) = {} /\ ticketStatus[s] # "USED" /\ NextVersion(s) <= MaxVersion
  /\ \A s \in BookedSeats \ issuer[w].arms : ticketStatus[s] = "ACTIVE" => Active(s) # {}
IssuersAreCurrent == \A w \in Issuers : issuer[w].phase = "issuing" => IssuerIsCurrent(w)

\* Issuance is over exactly when the owner is told, and then it is whole.
CompletedIsWhole ==
  /\ request.status = "COMPLETED" <=> <<"BOOKING_TICKETS_READY", "booking", 1>> \in notices
  /\ request.status = "COMPLETED" =>
       \A s \in BookedSeats : ticketStatus[s] # "NONE" /\ (ticketStatus[s] = "ACTIVE" => Active(s) # {})

TicketsInv ==
  /\ RowsTyped /\ WorkTyped /\ SeatsAreSound /\ ScansHoldCredentials /\ StaffIsCurrent
  /\ SettlementIsOfItsTickets /\ IssuersAreCurrent /\ CompletedIsWhole

\* A step leaves the rows of a seat alone, or spends its active ticket: entry
\* or a revocation, which take active credentials away and give none.
Same(s) == /\ credential'[s] = credential[s] /\ ticketStatus'[s] = ticketStatus[s]
           /\ Accepted(s)' = Accepted(s)
Spent(s) ==
  /\ ticketStatus[s] = "ACTIVE" /\ ticketStatus'[s] \in {"USED", "REVOKED"}
  /\ \A v \in Versions : \/ credential'[s][v] = credential[s][v]
                         \/ credential[s][v] # "NONE" /\ credential'[s][v] \in {"USED", "REVOKED"}
  /\ ticketStatus'[s] = "REVOKED" => Accepted(s)' = Accepted(s)
  /\ ticketStatus'[s] = "USED" =>
       Active(s) # {} /\ Active(s)' = {} /\ \E k \in Scans : Accepted(s)' = {k}

Ready == <<"BOOKING_TICKETS_READY", "booking", 1>>

-----------------------------------------------------------------------------
(* The largest of a set of versions *)

\* A set of bounded naturals that is not empty has a largest member, which is its Max.
LEMMA MaxIsTop ==
  ASSUME NEW N \in Nat, NEW S, S \subseteq 0..N, S # {}
  PROVE  Max(S) \in S /\ \A y \in S : y <= Max(S)
<1> DEFINE T == {n \in Nat : \E x \in S : n = N - x}
<1>1. T \subseteq Nat /\ T # {}
  <2>1. PICK x \in S : TRUE
    OBVIOUS
  <2>2. N - x \in T
    BY <2>1
  <2> QED
    BY <2>2
<1>2. PICK n \in T : \A m \in T : ~(<<m, n>> \in OpToRel(<, Nat))
  BY <1>1, NatLessThanWellFounded, WFMin
<1>3. \A m \in T : ~(m < n)
  BY <1>2 DEF OpToRel
<1>4. PICK x \in S : n = N - x
  BY <1>2
<1>5. ASSUME NEW y \in S
      PROVE  x >= y
  <2>1. N - y \in T
    OBVIOUS
  <2>2. ~(N - y < n)
    BY <1>3, <2>1
  <2> QED
    BY <1>4, <2>2
<1>6. \E z \in S : \A y \in S : z >= y
  BY <1>5
<1>7. Max(S) \in S /\ \A y \in S : Max(S) >= y
  BY <1>6 DEF Max
<1> QED
  BY <1>7

\* The version an issuer gives a seat is above every version there is.
LEMMA NextIsNew ==
  ASSUME RowsTyped, NEW s \in BookedSeats
  PROVE  /\ NextVersion(s) \in Nat /\ NextVersion(s) >= 1
         /\ \A v \in Versions : credential[s][v] # "NONE" => v < NextVersion(s)
<1> DEFINE S == {0} \cup {v \in Versions : credential[s][v] # "NONE"}
<1>1. S \subseteq 0..MaxVersion /\ S # {} /\ MaxVersion \in Nat
  BY TicketConstants DEF Versions
<1>2. Max(S) \in S /\ \A y \in S : y <= Max(S)
  BY <1>1, MaxIsTop
<1>3. NextVersion(s) = 1 + Max(S)
  BY DEF NextVersion
<1>4. S \subseteq Nat
  BY <1>1
<1>5. NextVersion(s) \in Nat /\ NextVersion(s) >= 1
  BY <1>2, <1>3, <1>4
<1>6. ASSUME NEW v \in Versions, credential[s][v] # "NONE"
      PROVE  v < NextVersion(s)
  <2>1. v \in S
    BY <1>6
  <2> QED
    BY <1>2, <1>3, <1>4, <2>1
<1> QED
  BY <1>5, <1>6

\* It depends on which versions there are, and on nothing else.
LEMMA SameNext ==
  ASSUME NEW s, \A v \in Versions : credential'[s][v] = "NONE" <=> credential[s][v] = "NONE"
  PROVE  NextVersion(s)' = NextVersion(s)
<1>1. {v \in Versions : credential'[s][v] # "NONE"} = {v \in Versions : credential[s][v] # "NONE"}
  OBVIOUS
<1> QED
  BY <1>1 DEF NextVersion, Versions

\* Staff read the active version, or 0 when there is none.
LEMMA ActiveTop ==
  ASSUME RowsTyped, NEW s \in BookedSeats
  PROVE  /\ Max({0} \cup Active(s)) \in {0} \cup Active(s)
         /\ Active(s) # {} => Max({0} \cup Active(s)) # 0
<1> DEFINE S == {0} \cup Active(s)
<1>1. S \subseteq 0..MaxVersion /\ S # {} /\ MaxVersion \in Nat
  BY TicketConstants DEF Versions, Active
<1>2. Max(S) \in S /\ \A y \in S : y <= Max(S)
  BY <1>1, MaxIsTop
<1>3. \A y \in Active(s) : y \in S /\ y \in Nat /\ y >= 1
  BY TicketConstants DEF Versions, Active
<1>4. ASSUME NEW y \in Active(s)
      PROVE  Max(S) # 0
  <2>1. y <= Max(S) /\ y \in Nat /\ y >= 1
    BY <1>2, <1>3
  <2> QED
    BY <2>1
<1> QED
  BY <1>2, <1>4

-----------------------------------------------------------------------------
(* Steps that spend tickets *)

\* Spending keeps the rows of a seat sound.
LEMMA SpentIsSound ==
  ASSUME NEW s \in BookedSeats, SeatIsSound(s), Same(s) \/ Spent(s)
  PROVE  /\ SeatIsSound(s)'
         /\ \A v \in Versions : credential'[s][v] = "NONE" <=> credential[s][v] = "NONE"
         /\ Active(s)' \subseteq Active(s)
         /\ ticketStatus'[s] = "NONE" <=> ticketStatus[s] = "NONE"
         /\ ticketStatus'[s] = "USED" => ticketStatus[s] = "USED" \/ Active(s) # {}
         /\ ticketStatus'[s] = "ACTIVE" => ticketStatus[s] = "ACTIVE" /\ Active(s)' = Active(s)
<1>1. CASE Same(s)
  <2>1. Active(s)' = Active(s)
    BY <1>1 DEF Same, Active, Versions
  <2> QED
    BY <1>1, <2>1 DEF Same, SeatIsSound, Versions
<1>2. CASE Spent(s)
  <2>1. /\ \A v \in Versions : credential'[s][v] = "NONE" <=> credential[s][v] = "NONE"
        /\ \A v \in Versions : credential'[s][v] = "ACTIVE" => credential[s][v] = "ACTIVE"
    BY <1>2 DEF Spent
  <2>2. Active(s)' \subseteq Active(s)
    BY <2>1 DEF Active, Versions
  <2>3. ticketStatus'[s] \in {"USED", "REVOKED"} /\ ticketStatus[s] = "ACTIVE"
    BY <1>2 DEF Spent
  <2>4. SeatIsSound(s)'
    <3>1. \A v, u \in Versions : credential'[s][v] = "ACTIVE" /\ u > v => credential'[s][u] = "NONE"
      BY <2>1 DEF SeatIsSound
    <3>2. ticketStatus'[s] # "USED" => Accepted(s)' = {}
      BY <1>2, <2>3 DEF Spent, SeatIsSound
    <3>3. ticketStatus'[s] = "USED" => Active(s)' = {} /\ \E k \in Scans : Accepted(s)' = {k}
      BY <1>2 DEF Spent
    <3> QED
      BY <2>3, <3>1, <3>2, <3>3 DEF SeatIsSound, Versions
  <2> QED
    BY <1>2, <2>1, <2>2, <2>3, <2>4 DEF Spent
<1> QED
  BY <1>1, <1>2

\* A step that spends tickets of which staff hold none, and lets transactions
\* end, keeps the invariant.
LEMMA SpendingKeeps ==
  ASSUME TicketsInv, RowsTyped', WorkTyped',
         \A s \in BookedSeats : Same(s) \/ Spent(s),
         UNCHANGED <<issuer, request>>, Ready \in notices' <=> Ready \in notices,
         staff' = NoStaff \/ (staff' = staff /\ Same(staff.seat)),
         settling' \in {settling, NoSettle},
         \A k \in Scans : scan'[k] = NoScan \/ (scan'[k] = scan[k] /\ redemption'[k] = redemption[k])
  PROVE  TicketsInv'
<1>1. /\ RowsTyped /\ WorkTyped /\ SeatsAreSound /\ ScansHoldCredentials /\ StaffIsCurrent
      /\ SettlementIsOfItsTickets /\ IssuersAreCurrent /\ CompletedIsWhole
  BY DEF TicketsInv
<1>2. ASSUME NEW s \in BookedSeats
      PROVE  /\ SeatIsSound(s)'
             /\ \A v \in Versions : credential'[s][v] = "NONE" <=> credential[s][v] = "NONE"
             /\ Active(s)' \subseteq Active(s)
             /\ ticketStatus'[s] = "NONE" <=> ticketStatus[s] = "NONE"
             /\ ticketStatus'[s] = "USED" => ticketStatus[s] = "USED" \/ Active(s) # {}
             /\ ticketStatus'[s] = "ACTIVE" => ticketStatus[s] = "ACTIVE" /\ Active(s)' = Active(s)
  BY <1>1, SpentIsSound DEF SeatsAreSound
<1>3. SeatsAreSound'
  BY <1>2 DEF SeatsAreSound
<1>4. ScansHoldCredentials'
  <2> SUFFICES ASSUME NEW k \in Scans, scan'[k] # NoScan
               PROVE  redemption'[k] = NotScanned /\ credential'[scan'[k].seat][scan'[k].version] # "NONE"
    BY DEF ScansHoldCredentials, NoScan, NotScanned
  <2>1. scan'[k] = scan[k] /\ redemption'[k] = redemption[k] /\ scan[k] # NoScan
    OBVIOUS
  <2>2. scan[k].seat \in BookedSeats /\ scan[k].version \in Versions
    BY <1>1, <2>1 DEF WorkTyped, ScanRow
  <2> QED
    BY <1>1, <1>2, <2>1, <2>2 DEF ScansHoldCredentials
<1>5. StaffIsCurrent'
  BY <1>1 DEF StaffIsCurrent, Same, NoStaff, Versions
<1>6. SettlementIsOfItsTickets'
  <2> SUFFICES ASSUME settling' = settling, settling # NoSettle, NEW sv \in settling.credentials
               PROVE  sv[1] \in settling.tickets /\ credential'[sv[1]][sv[2]] # "NONE"
    BY DEF SettlementIsOfItsTickets, NoSettle
  <2>1. sv[1] \in BookedSeats /\ sv[2] \in Versions
    BY <1>1 DEF WorkTyped, SettleRow
  <2> QED
    BY <1>1, <1>2, <2>1 DEF SettlementIsOfItsTickets
<1>7. MissingTickets' = MissingTickets
  BY <1>2 DEF MissingTickets
<1>8. IssuersAreCurrent'
  <2> SUFFICES ASSUME NEW w \in Issuers, issuer[w].phase = "issuing"
               PROVE  IssuerIsCurrent(w)'
    BY DEF IssuersAreCurrent
  <2>1. IssuerIsCurrent(w) /\ issuer[w].arms \subseteq BookedSeats
    BY <1>1 DEF IssuersAreCurrent, WorkTyped
  <2>2. ASSUME NEW s \in issuer[w].arms
        PROVE  Active(s)' = {} /\ ticketStatus'[s] # "USED" /\ NextVersion(s)' <= MaxVersion
    <3>1. s \in BookedSeats /\ Active(s) = {} /\ ticketStatus[s] # "USED" /\ NextVersion(s) <= MaxVersion
      BY <2>1 DEF IssuerIsCurrent
    <3>2. NextVersion(s)' = NextVersion(s)
      BY <1>2, <3>1, SameNext
    <3> QED
      BY <1>2, <3>1, <3>2
  <2>3. ASSUME NEW s \in BookedSeats \ issuer[w].arms, ticketStatus'[s] = "ACTIVE"
        PROVE  Active(s)' # {}
    BY <1>2, <2>1, <2>3 DEF IssuerIsCurrent
  <2> QED
    BY <1>7, <2>1, <2>2, <2>3 DEF IssuerIsCurrent
<1>9. CompletedIsWhole'
  BY <1>1, <1>2 DEF CompletedIsWhole, Ready
<1> QED
  BY <1>3, <1>4, <1>5, <1>6, <1>8, <1>9 DEF TicketsInv

\* The shapes of the rows, when the request is not written.
LEMMA RowsTypedNext ==
  ASSUME request' = request, RowsTyped,
         ticketStatus' \in [BookedSeats -> TicketStatus],
         credential' \in [BookedSeats -> [Versions -> CredentialStatus]],
         redemption' = [k \in Scans |-> redemption'[k]]
  PROVE  RowsTyped'
BY DEF RowsTyped, TicketStatus, CredentialStatus, Versions

\* The shapes of the work in flight.
LEMMA WorkTypedNext ==
  ASSUME WorkTyped, issuer' = issuer, scan' \in [Scans -> ScanRow \cup {NoScan}],
         staff' \in StaffRow \cup {NoStaff}, settling' \in SettleRow \cup {NoSettle}
  PROVE  WorkTyped'
BY DEF WorkTyped, ScanRow, StaffRow, SettleRow, NoScan, NoStaff, NoSettle, Versions

\* An answer that does not admit leaves the accepted scans as they are.
LEMMA NotAdmitted ==
  ASSUME RowsTyped, NEW k \in Scans, redemption[k] = NotScanned, NEW r, r.outcome # "ACCEPTED",
         redemption' = [redemption EXCEPT ![k] = r]
  PROVE  \A s \in BookedSeats : Accepted(s)' = Accepted(s)
<1>1. redemption[k].outcome # "ACCEPTED"
  BY DEF NotScanned
<1>2. redemption'[k] = r /\ \A j \in Scans : j # k => redemption'[j] = redemption[j]
  BY DEF RowsTyped
<1> QED
  BY <1>1, <1>2 DEF Accepted

\* Transactions that end without writing, the clock and the end of the sale.
LEMMA EndingKeeps ==
  ASSUME TicketsInv,
         UNCHANGED <<ticketStatus, credential, redemption, notices, issuer, request>>,
         staff' \in {staff, NoStaff}, settling' \in {settling, NoSettle},
         scan' = scan \/ \E k \in Scans : scan' = [scan EXCEPT ![k] = NoScan]
  PROVE  TicketsInv'
<1>1. RowsTyped /\ WorkTyped
  BY DEF TicketsInv
<1>2. RowsTyped'
  BY <1>1, RowsTypedNext DEF RowsTyped
<1>3. scan' \in [Scans -> ScanRow \cup {NoScan}] /\ \A k \in Scans : scan'[k] \in {scan[k], NoScan}
  BY <1>1 DEF WorkTyped
<1>4. WorkTyped'
  BY <1>1, <1>3, WorkTypedNext DEF WorkTyped
<1>5. \A s : Same(s)
  BY DEF Same, Accepted
<1>6. /\ Ready \in notices' <=> Ready \in notices
      /\ \A k \in Scans : scan'[k] = NoScan \/ (scan'[k] = scan[k] /\ redemption'[k] = redemption[k])
  BY <1>3
<1> QED
  BY <1>2, <1>4, <1>5, <1>6, SpendingKeeps

\* A scan that is turned away at once.
LEMMA RejectKeeps ==
  ASSUME TicketsInv, NEW k \in Scans, NEW outcome \in {"INVALID", "UNAUTHORIZED_SCANNER"}, RejectScan(k, outcome)
  PROVE  TicketsInv'
<1>1. RowsTyped /\ WorkTyped
  BY DEF TicketsInv
<1>2. /\ redemption[k] = NotScanned /\ scan[k] = NoScan
      /\ redemption' = [redemption EXCEPT ![k] = [outcome |-> outcome]]
      /\ UNCHANGED <<ticketStatus, credential, notices, issuer, request, staff, settling, scan>>
  BY DEF RejectScan
<1>3. \A s \in BookedSeats : Accepted(s)' = Accepted(s)
  <2>1. [outcome |-> outcome].outcome # "ACCEPTED"
    OBVIOUS
  <2> QED
    BY <1>1, <1>2, <2>1, NotAdmitted
<1>4. \A s \in BookedSeats : Same(s)
  BY <1>2, <1>3 DEF Same
<1>5. redemption' = [j \in Scans |-> redemption'[j]] /\ \A j \in Scans : j # k => redemption'[j] = redemption[j]
  BY <1>1, <1>2 DEF RowsTyped
<1>6. RowsTyped'
  BY <1>1, <1>2, <1>5, RowsTypedNext DEF RowsTyped
<1>7. WorkTyped'
  BY <1>1, <1>2, WorkTypedNext DEF WorkTyped
<1>8. staff' = NoStaff \/ (staff' = staff /\ Same(staff.seat))
  BY <1>1, <1>2, <1>4 DEF WorkTyped, StaffRow
<1>9. /\ Ready \in notices' <=> Ready \in notices
      /\ \A j \in Scans : scan'[j] = NoScan \/ (scan'[j] = scan[j] /\ redemption'[j] = redemption[j])
  BY <1>2, <1>5
<1> QED
  BY <1>2, <1>4, <1>6, <1>7, <1>8, <1>9, SpendingKeeps

\* A scan that reaches the ticket.  When it admits, its credential is active,
\* so it is the only active one, and the ticket has no accepted scan yet.
LEMMA CommitScanKeeps ==
  ASSUME TicketsInv, NEW k \in Scans, CommitScan(k)
  PROVE  TicketsInv'
<1>1. /\ RowsTyped /\ WorkTyped /\ SeatsAreSound /\ ScansHoldCredentials
  BY DEF TicketsInv
<1>2. scan[k] # NoScan /\ scan[k].phase = "locked"
  BY DEF CommitScan, NoScan
<1>3. scan[k] \in ScanRow
  BY <1>1, <1>2 DEF WorkTyped
<1>4. PICK s \in BookedSeats, v \in Versions : s = scan[k].seat /\ v = scan[k].version
  BY <1>3 DEF ScanRow
<1>5. PICK outcome : outcome = ScanOutcome(s, v, scan[k].here, scan[k].now)
  OBVIOUS
<1>6. /\ ~TicketLocked(s)
      /\ redemption' = [redemption EXCEPT ![k] = [outcome |-> outcome, seat |-> s, version |-> v]]
      /\ credential' = [credential EXCEPT ![s][v] = IF outcome = "ACCEPTED" THEN "USED" ELSE @]
      /\ ticketStatus' = [ticketStatus EXCEPT ![s] = IF outcome = "ACCEPTED" THEN "USED" ELSE @]
      /\ scan' = [scan EXCEPT ![k] = NoScan]
      /\ UNCHANGED <<notices, request, issuer, staff, settling>>
  BY <1>4, <1>5 DEF CommitScan, StatusAfter
<1>7. redemption[k] = NotScanned /\ credential[s][v] # "NONE"
  BY <1>1, <1>2, <1>4 DEF ScansHoldCredentials
<1>8. /\ ticketStatus' \in [BookedSeats -> TicketStatus]
      /\ credential' \in [BookedSeats -> [Versions -> CredentialStatus]]
      /\ redemption' = [j \in Scans |-> redemption'[j]]
  BY <1>1, <1>6 DEF RowsTyped, TicketStatus, CredentialStatus
<1>9. RowsTyped'
  BY <1>1, <1>6, <1>8, RowsTypedNext
<1>10. /\ scan' \in [Scans -> ScanRow \cup {NoScan}]
       /\ \A j \in Scans : scan'[j] = NoScan \/ (scan'[j] = scan[j] /\ redemption'[j] = redemption[j])
  BY <1>1, <1>6 DEF WorkTyped, RowsTyped
<1>11. WorkTyped'
  BY <1>1, <1>6, <1>10, WorkTypedNext DEF WorkTyped
<1>12. /\ credential'[s] = [credential[s] EXCEPT ![v] = IF outcome = "ACCEPTED" THEN "USED" ELSE @]
       /\ ticketStatus'[s] = IF outcome = "ACCEPTED" THEN "USED" ELSE ticketStatus[s]
       /\ \A x \in BookedSeats : x # s => credential'[x] = credential[x] /\ ticketStatus'[x] = ticketStatus[x]
  BY <1>1, <1>6 DEF RowsTyped
<1>13. \A x \in BookedSeats : x # s => Same(x)
  <2>1. redemption[k].outcome # "ACCEPTED"
    BY <1>7 DEF NotScanned
  <2>2. redemption'[k].seat = s /\ \A j \in Scans : j # k => redemption'[j] = redemption[j]
    BY <1>1, <1>6 DEF RowsTyped
  <2>3. \A x \in BookedSeats : x # s => Accepted(x)' = Accepted(x)
    BY <2>1, <2>2 DEF Accepted
  <2> QED
    BY <1>12, <2>3 DEF Same
<1>14. CASE outcome = "ACCEPTED"
  <2>1. /\ credential[s][v] \notin {"USED", "REVOKED", "REPLACED"}
        /\ ticketStatus[s] \notin {"USED", "REVOKED"}
    BY <1>5, <1>14 DEF ScanOutcome
  <2>2. credential[s][v] = "ACTIVE"
    BY <1>1, <1>7, <2>1 DEF RowsTyped, CredentialStatus
  <2>3. ticketStatus[s] = "ACTIVE"
    BY <1>1, <1>7, <2>1 DEF RowsTyped, TicketStatus, SeatsAreSound, SeatIsSound
  <2>4. /\ Accepted(s) = {}
        /\ \A u, x \in Versions : credential[s][x] = "ACTIVE" /\ u > x => credential[s][u] = "NONE"
    BY <1>1, <2>3 DEF SeatsAreSound, SeatIsSound
  <2>5. \A u \in Versions : u # v => credential[s][u] # "ACTIVE"
    <3> SUFFICES ASSUME NEW u \in Versions, u # v, credential[s][u] = "ACTIVE"
                 PROVE  FALSE
      OBVIOUS
    <3>1. u > v \/ v > u
      BY TicketConstants DEF Versions
    <3> QED
      BY <2>2, <2>4, <3>1
  <2>6. /\ credential'[s][v] = "USED" /\ \A u \in Versions : u # v => credential'[s][u] = credential[s][u]
    BY <1>1, <1>12, <1>14 DEF RowsTyped
  <2>7. Active(s)' = {} /\ Active(s) # {}
    BY <2>2, <2>5, <2>6 DEF Active, Versions
  <2>8. Accepted(s)' = {k}
    <3>1. /\ redemption'[k].outcome = "ACCEPTED" /\ redemption'[k].seat = s
          /\ \A j \in Scans : j # k => redemption'[j] = redemption[j]
      BY <1>1, <1>6, <1>14 DEF RowsTyped
    <3> QED
      BY <2>4, <3>1 DEF Accepted
  <2>9. Spent(s)
    BY <1>12, <1>14, <2>2, <2>3, <2>6, <2>7, <2>8 DEF Spent
  <2>10. staff' = NoStaff \/ (staff' = staff /\ Same(staff.seat))
    <3> SUFFICES ASSUME staff # NoStaff
                 PROVE  Same(staff.seat)
      BY <1>6
    <3>1. staff.seat \in BookedSeats /\ staff.phase \in {"ticket", "both"}
      BY <1>1 DEF WorkTyped, StaffRow
    <3> QED
      BY <1>6, <1>13, <3>1 DEF TicketLocked
  <2>11. \A x \in BookedSeats : Same(x) \/ Spent(x)
    BY <1>13, <2>9
  <2> QED
    BY <1>6, <1>9, <1>10, <1>11, <2>10, <2>11, SpendingKeeps
<1>15. CASE outcome # "ACCEPTED"
  <2>1. credential'[s] = credential[s] /\ ticketStatus'[s] = ticketStatus[s]
    BY <1>1, <1>12, <1>15 DEF RowsTyped
  <2>2. Accepted(s)' = Accepted(s)
    <3> DEFINE r == [outcome |-> outcome, seat |-> s, version |-> v]
    <3>1. r.outcome # "ACCEPTED" /\ redemption' = [redemption EXCEPT ![k] = r]
      BY <1>6, <1>15
    <3> HIDE DEF r
    <3> QED
      BY <1>1, <1>7, <3>1, NotAdmitted
  <2>3. \A x \in BookedSeats : Same(x)
    BY <1>13, <2>1, <2>2 DEF Same
  <2>4. staff' = NoStaff \/ (staff' = staff /\ Same(staff.seat))
    BY <1>1, <1>6, <2>3 DEF WorkTyped, StaffRow
  <2> QED
    BY <1>6, <1>9, <1>10, <1>11, <2>3, <2>4, SpendingKeeps
<1> QED
  BY <1>14, <1>15

\* Staff revoke the ticket they hold; nobody has used it meanwhile.
LEMMA CommitRevokeKeeps ==
  ASSUME TicketsInv, CommitRevoke
  PROVE  TicketsInv'
<1>1. RowsTyped /\ WorkTyped /\ StaffIsCurrent /\ staff # NoStaff
  BY DEF TicketsInv, CommitRevoke
<1>2. PICK s \in BookedSeats : s = staff.seat
  BY <1>1 DEF WorkTyped, StaffRow
<1>3. /\ credential' = [credential EXCEPT ![s] =
            [u \in Versions |-> IF u = staff.version THEN "REVOKED" ELSE credential[s][u]]]
      /\ ticketStatus' = [ticketStatus EXCEPT ![s] = "REVOKED"]
      /\ notices' = notices \cup {<<"TICKET_REVOKED", s, 1>>}
      /\ staff' = NoStaff
      /\ UNCHANGED <<redemption, request, issuer, scan, settling>>
  BY <1>2 DEF CommitRevoke
<1>4. /\ ticketStatus[s] = "ACTIVE"
      /\ \A u \in Versions : u = staff.version => credential[s][u] = "ACTIVE"
  BY <1>1, <1>2, TicketConstants DEF StaffIsCurrent, Versions
<1>5. /\ ticketStatus' \in [BookedSeats -> TicketStatus]
      /\ credential' \in [BookedSeats -> [Versions -> CredentialStatus]]
  BY <1>1, <1>3 DEF RowsTyped, TicketStatus, CredentialStatus
<1>6. RowsTyped'
  BY <1>1, <1>3, <1>5, RowsTypedNext DEF RowsTyped
<1>7. WorkTyped'
  BY <1>1, <1>3, WorkTypedNext DEF WorkTyped
<1>8. \A x : Accepted(x)' = Accepted(x)
  BY <1>3 DEF Accepted
<1>9. /\ ticketStatus'[s] = "REVOKED"
      /\ \A u \in Versions : credential'[s][u] = IF u = staff.version THEN "REVOKED" ELSE credential[s][u]
  BY <1>1, <1>3 DEF RowsTyped
<1>10. Spent(s)
  BY <1>4, <1>8, <1>9 DEF Spent
<1>11. \A x \in BookedSeats : x # s => Same(x)
  BY <1>1, <1>3, <1>8 DEF Same, RowsTyped
<1>12. Ready \in notices' <=> Ready \in notices
  <2>1. Ready # <<"TICKET_REVOKED", s, 1>>
    BY DEF Ready
  <2> QED
    BY <1>3, <2>1
<1>13. \A x \in BookedSeats : Same(x) \/ Spent(x)
  BY <1>10, <1>11
<1> QED
  BY <1>3, <1>6, <1>7, <1>12, <1>13, SpendingKeeps

\* A settlement revokes the tickets it read, all of which are still active.
LEMMA CommitSettleKeeps ==
  ASSUME TicketsInv, CommitSettle
  PROVE  TicketsInv'
<1>1. RowsTyped /\ WorkTyped /\ SettlementIsOfItsTickets
  BY DEF TicketsInv
<1>2. settling # NoSettle
  BY DEF CommitSettle, NoSettle
<1>3. settling \in SettleRow
  BY <1>1, <1>2 DEF WorkTyped
<1>4. /\ settling.tickets \subseteq BookedSeats
      /\ \A s \in BookedSeats, v \in Versions : <<s, v>> \in settling.credentials =>
           s \in settling.tickets /\ credential[s][v] # "NONE"
  BY <1>1, <1>2, <1>3 DEF SettleRow, SettlementIsOfItsTickets
<1>5. /\ \A s \in settling.tickets : ~TicketLocked(s) /\ ticketStatus[s] = "ACTIVE"
      /\ credential' = [s \in BookedSeats |-> [v \in Versions |->
           IF <<s, v>> \in settling.credentials THEN "REVOKED" ELSE credential[s][v]]]
      /\ ticketStatus' = [s \in BookedSeats |-> IF s \in settling.tickets THEN "REVOKED" ELSE ticketStatus[s]]
      /\ settling' = NoSettle
      /\ UNCHANGED <<redemption, notices, request, issuer, scan, staff>>
  BY DEF CommitSettle, TriggerAllows
<1>6. /\ ticketStatus' \in [BookedSeats -> TicketStatus]
      /\ credential' \in [BookedSeats -> [Versions -> CredentialStatus]]
  BY <1>1, <1>5 DEF RowsTyped, TicketStatus, CredentialStatus
<1>7. RowsTyped'
  BY <1>1, <1>5, <1>6, RowsTypedNext DEF RowsTyped
<1>8. WorkTyped'
  BY <1>1, <1>5, WorkTypedNext DEF WorkTyped
<1>9. \A x : Accepted(x)' = Accepted(x)
  BY <1>5 DEF Accepted
<1>10. ASSUME NEW s \in BookedSeats, s \in settling.tickets
       PROVE  Spent(s)
  <2>1. /\ ticketStatus[s] = "ACTIVE" /\ ticketStatus'[s] = "REVOKED"
        /\ \A v \in Versions : credential'[s][v] = IF <<s, v>> \in settling.credentials THEN "REVOKED" ELSE credential[s][v]
    BY <1>5, <1>10
  <2> QED
    BY <1>4, <1>9, <2>1 DEF Spent
<1>11. ASSUME NEW s \in BookedSeats, s \notin settling.tickets
       PROVE  Same(s)
  <2>1. ticketStatus'[s] = ticketStatus[s]
    BY <1>5, <1>11
  <2>2. credential'[s] = credential[s]
    <3>1. credential'[s] = [v \in Versions |-> credential[s][v]]
      BY <1>4, <1>5, <1>11
    <3> QED
      BY <1>1, <3>1 DEF RowsTyped
  <2> QED
    BY <1>9, <2>1, <2>2 DEF Same
<1>12. staff' = NoStaff \/ (staff' = staff /\ Same(staff.seat))
  <2> SUFFICES ASSUME staff # NoStaff
               PROVE  Same(staff.seat)
    BY <1>5
  <2>1. staff.seat \in BookedSeats /\ staff.phase \in {"ticket", "both"}
    BY <1>1 DEF WorkTyped, StaffRow
  <2> QED
    BY <1>5, <1>11, <2>1 DEF TicketLocked
<1>13. \A x \in BookedSeats : Same(x) \/ Spent(x)
  BY <1>10, <1>11
<1> QED
  BY <1>5, <1>7, <1>8, <1>12, <1>13, SpendingKeeps

-----------------------------------------------------------------------------
(* Steps that only take locks and read *)

\* A scan, staff or a settlement goes on without writing.
LEMMA ReadingKeeps ==
  ASSUME TicketsInv, UNCHANGED <<ticketStatus, credential, redemption, notices, issuer, request>>,
         WorkTyped', ScansHoldCredentials', StaffIsCurrent', SettlementIsOfItsTickets'
  PROVE  TicketsInv'
<1>1. RowsTyped /\ SeatsAreSound /\ IssuersAreCurrent /\ CompletedIsWhole
  BY DEF TicketsInv
<1>2. RowsTyped'
  BY <1>1, RowsTypedNext DEF RowsTyped
<1>3. SeatsAreSound'
  BY <1>1 DEF SeatsAreSound, SeatIsSound, Accepted, Active, Versions
<1>4. CompletedIsWhole'
  BY <1>1 DEF CompletedIsWhole, Active, Versions
<1>5. IssuersAreCurrent'
  <2>1. \A s : Active(s)' = Active(s) /\ NextVersion(s)' = NextVersion(s)
    BY DEF Active, NextVersion, Versions
  <2>2. MissingTickets' = MissingTickets
    BY DEF MissingTickets
  <2> QED
    BY <1>1, <2>1, <2>2 DEF IssuersAreCurrent, IssuerIsCurrent
<1> QED
  BY <1>2, <1>3, <1>4, <1>5 DEF TicketsInv

\* A scan locks a credential that exists.
LEMMA LockCredentialKeeps ==
  ASSUME TicketsInv, NEW k \in Scans, NEW s \in BookedSeats, NEW v \in Versions, NEW here \in BOOLEAN, NEW now \in 0..time,
         LockCredential(k, s, v, here, now)
  PROVE  TicketsInv'
<1> DEFINE row == [phase |-> "locked", seat |-> s, version |-> v, here |-> here, now |-> now]
<1>1. WorkTyped /\ ScansHoldCredentials /\ StaffIsCurrent /\ SettlementIsOfItsTickets
  BY DEF TicketsInv
<1>2. /\ redemption[k] = NotScanned /\ credential[s][v] # "NONE"
      /\ scan' = [scan EXCEPT ![k] = row]
      /\ UNCHANGED <<ticketStatus, credential, redemption, notices, issuer, request, staff, settling>>
  BY DEF LockCredential, ticketRows
<1>3. row \in ScanRow /\ row.seat = s /\ row.version = v
  BY DEF ScanRow
<1> HIDE DEF row
<1>4. /\ scan' \in [Scans -> ScanRow \cup {NoScan}]
      /\ scan'[k] = row /\ \A j \in Scans : j # k => scan'[j] = scan[j]
  BY <1>1, <1>2, <1>3 DEF WorkTyped
<1>5. WorkTyped'
  BY <1>1, <1>2, <1>4, WorkTypedNext DEF WorkTyped
<1>6. ScansHoldCredentials'
  BY <1>1, <1>2, <1>3, <1>4 DEF ScansHoldCredentials, NoScan, NotScanned
<1>7. StaffIsCurrent' /\ SettlementIsOfItsTickets'
  BY <1>1, <1>2 DEF StaffIsCurrent, SettlementIsOfItsTickets, NoStaff, NoSettle, Versions
<1> QED
  BY <1>2, <1>5, <1>6, <1>7, ReadingKeeps

\* Staff read the ticket and its credential, and then lock the credential.
LEMMA StaffKeeps ==
  ASSUME TicketsInv,
         (\E op \in {"ROTATE", "REVOKE"}, s \in BookedSeats : StartStaff(op, s)) \/ StaffLocksCredential
  PROVE  TicketsInv'
<1>1. RowsTyped /\ WorkTyped /\ ScansHoldCredentials /\ StaffIsCurrent /\ SettlementIsOfItsTickets
  BY DEF TicketsInv
<1>2. UNCHANGED <<ticketStatus, credential, redemption, notices, issuer, request, scan, settling>>
  BY DEF StartStaff, StaffLocksCredential, ticketRows
<1>3. staff' \in StaffRow /\ StaffIsCurrent'
  <2>1. ASSUME NEW op \in {"ROTATE", "REVOKE"}, NEW s \in BookedSeats, StartStaff(op, s)
        PROVE  staff' \in StaffRow /\ StaffIsCurrent'
    <3>1. PICK v : v = Max({0} \cup Active(s))
      OBVIOUS
    <3>2. v = 0 \/ (v \in Versions /\ credential[s][v] = "ACTIVE")
      BY <1>1, <3>1, ActiveTop DEF Active
    <3>3. v \in 0..MaxVersion
      BY <3>2, TicketConstants DEF Versions
    <3>4. /\ staff' = [phase |-> "ticket", op |-> op, seat |-> s, version |-> v]
          /\ ticketStatus[s] = "ACTIVE"
      BY <2>1, <3>1 DEF StartStaff
    <3>5. staff' \in StaffRow /\ staff'.seat = s /\ staff'.version = v /\ staff'.phase = "ticket"
      BY <3>3, <3>4 DEF StaffRow
    <3> QED
      BY <1>2, <3>2, <3>4, <3>5 DEF StaffIsCurrent, NoStaff, Versions
  <2>2. ASSUME StaffLocksCredential
        PROVE  staff' \in StaffRow /\ StaffIsCurrent'
    <3>1. staff # NoStaff /\ staff.version # 0 /\ staff' = [staff EXCEPT !.phase = "both"]
      BY <2>2 DEF StaffLocksCredential, NoStaff
    <3>2. staff \in StaffRow
      BY <1>1, <3>1 DEF WorkTyped
    <3>3. staff' \in StaffRow /\ staff'.seat = staff.seat /\ staff'.version = staff.version
      BY <3>1, <3>2 DEF StaffRow
    <3> QED
      BY <1>1, <1>2, <3>1, <3>3 DEF StaffIsCurrent, NoStaff, Versions
  <2> QED
    BY <2>1, <2>2
<1>4. WorkTyped'
  BY <1>1, <1>2, <1>3, WorkTypedNext DEF WorkTyped
<1>5. ScansHoldCredentials' /\ SettlementIsOfItsTickets'
  BY <1>1, <1>2 DEF ScansHoldCredentials, SettlementIsOfItsTickets, NoScan, NotScanned, NoSettle
<1> QED
  BY <1>2, <1>3, <1>4, <1>5, ReadingKeeps

\* A settlement reads its tickets and then their active credentials.
LEMMA SettlingKeeps ==
  ASSUME TicketsInv,
         (\E S \in SUBSET BookedSeats \ {{}} : StartSettle(S)) \/ SettleCredentials \/ SettleAfterWait
  PROVE  TicketsInv'
<1>1. WorkTyped /\ ScansHoldCredentials /\ StaffIsCurrent /\ SettlementIsOfItsTickets
  BY DEF TicketsInv
<1>2. UNCHANGED <<ticketStatus, credential, redemption, notices, issuer, request, scan, staff>>
  BY DEF StartSettle, SettleCredentials, SettleAfterWait, ticketRows
<1>3. /\ settling' \in SettleRow
      /\ \A sv \in settling'.credentials : sv[1] \in settling'.tickets /\ credential[sv[1]][sv[2]] # "NONE"
  <2>1. ASSUME NEW S \in SUBSET BookedSeats \ {{}}, StartSettle(S)
        PROVE  settling' \in SettleRow /\ settling'.credentials = {}
    BY <2>1 DEF StartSettle, SettleRow
  <2>2. ASSUME SettleCredentials
        PROVE  /\ settling' \in SettleRow
               /\ \A sv \in settling'.credentials : sv[1] \in settling'.tickets /\ credential[sv[1]][sv[2]] # "NONE"
    <3> DEFINE seen == {sv \in settling.tickets \X Versions : credential[sv[1]][sv[2]] = "ACTIVE"}
               phase == IF \E sv \in seen : CredentialLocked(sv[1], sv[2]) THEN "waiting" ELSE "revoking"
    <3>1. settling # NoSettle
      BY <2>2 DEF SettleCredentials, NoSettle
    <3>2. settling \in SettleRow
      BY <1>1, <3>1 DEF WorkTyped
    <3>3. settling' = [settling EXCEPT !.credentials = seen, !.phase = phase]
      BY <2>2 DEF SettleCredentials
    <3>4. settling.tickets \subseteq BookedSeats
      BY <3>2 DEF SettleRow
    <3>5. /\ seen \subseteq BookedSeats \X Versions
          /\ \A sv \in seen : sv[1] \in settling.tickets /\ credential[sv[1]][sv[2]] # "NONE"
      BY <3>4
    <3>6. phase \in {"waiting", "revoking"}
      OBVIOUS
    <3> HIDE DEF seen, phase
    <3>7. settling' \in SettleRow /\ settling'.credentials = seen /\ settling'.tickets = settling.tickets
      BY <3>2, <3>3, <3>5, <3>6 DEF SettleRow
    <3> QED
      BY <3>5, <3>7
  <2>3. ASSUME SettleAfterWait
        PROVE  /\ settling' \in SettleRow
               /\ \A sv \in settling'.credentials : sv[1] \in settling'.tickets /\ credential[sv[1]][sv[2]] # "NONE"
    <3> DEFINE left == {sv \in settling.credentials : credential[sv[1]][sv[2]] = "ACTIVE"}
    <3>1. settling # NoSettle
      BY <2>3 DEF SettleAfterWait, NoSettle
    <3>2. settling \in SettleRow
      BY <1>1, <3>1 DEF WorkTyped
    <3>3. settling' = [settling EXCEPT !.phase = "revoking", !.credentials = left]
      BY <2>3, <3>2 DEF SettleAfterWait, SettleRow
    <3>4. /\ left \subseteq settling.credentials
          /\ \A sv \in left : sv[1] \in settling.tickets /\ credential[sv[1]][sv[2]] # "NONE"
      BY <1>1, <3>1 DEF SettlementIsOfItsTickets
    <3> HIDE DEF left
    <3>5. settling' \in SettleRow /\ settling'.credentials = left /\ settling'.tickets = settling.tickets
      BY <3>2, <3>3, <3>4 DEF SettleRow
    <3> QED
      BY <3>4, <3>5
  <2> QED
    BY <2>1, <2>2, <2>3
<1>4. WorkTyped'
  BY <1>1, <1>2, <1>3, WorkTypedNext DEF WorkTyped
<1>5. ScansHoldCredentials' /\ StaffIsCurrent'
  BY <1>1, <1>2 DEF ScansHoldCredentials, StaffIsCurrent, NoScan, NotScanned, NoStaff, Versions
<1>6. SettlementIsOfItsTickets'
  BY <1>2, <1>3 DEF SettlementIsOfItsTickets
<1> QED
  BY <1>2, <1>4, <1>5, <1>6, ReadingKeeps

-----------------------------------------------------------------------------
(* Steps of the issuers and the request *)

\* An issuer or the request changes and no row does.
LEMMA IssuerFrame ==
  ASSUME TicketsInv, UNCHANGED <<ticketStatus, credential, redemption, notices, scan, staff, settling>>,
         request' = [status |-> request'.status, attemptCount |-> request'.attemptCount,
                     availableAt |-> request'.availableAt],
         request'.status = "COMPLETED" <=> request.status = "COMPLETED",
         issuer' = [w \in Issuers |-> issuer'[w]],
         \A w \in Issuers : issuer'[w].phase = "issuing" => issuer'[w].arms \subseteq BookedSeats,
         IssuersAreCurrent'
  PROVE  TicketsInv'
<1>1. /\ RowsTyped /\ WorkTyped /\ SeatsAreSound /\ ScansHoldCredentials /\ StaffIsCurrent
      /\ SettlementIsOfItsTickets /\ CompletedIsWhole
  BY DEF TicketsInv
<1>2. RowsTyped'
  BY <1>1 DEF RowsTyped, TicketStatus, CredentialStatus, Versions
<1>3. WorkTyped'
  BY <1>1 DEF WorkTyped, ScanRow, StaffRow, SettleRow, NoScan, NoStaff, NoSettle, Versions
<1>4. SeatsAreSound'
  BY <1>1 DEF SeatsAreSound, SeatIsSound, Accepted, Active, Versions
<1>5. ScansHoldCredentials' /\ StaffIsCurrent' /\ SettlementIsOfItsTickets'
  BY <1>1 DEF ScansHoldCredentials, StaffIsCurrent, SettlementIsOfItsTickets, NoScan, NotScanned, NoStaff,
     NoSettle, Versions
<1>6. CompletedIsWhole'
  BY <1>1 DEF CompletedIsWhole, Active, Versions
<1> QED
  BY <1>2, <1>3, <1>4, <1>5, <1>6 DEF TicketsInv

\* What an issuer finds when it claims the request is what it may rely on.
LEMMA ClaimKeeps ==
  ASSUME TicketsInv, NEW w \in Issuers, NEW immediate \in BOOLEAN, ClaimRequest(w, immediate)
  PROVE  TicketsInv'
<1> DEFINE issuing == [phase |-> "issuing", immediate |-> immediate, now |-> time,
                       creates |-> MissingTickets, arms |-> Unarmed]
           other == IF immediate THEN NoIssue ELSE [phase |-> "failed", now |-> time]
<1>1. RowsTyped /\ WorkTyped /\ SeatsAreSound /\ IssuersAreCurrent
  BY DEF TicketsInv
<1>2. /\ ~RequestLocked /\ request.status = "PENDING"
      /\ \A s \in Unarmed : NextVersion(s) <= MaxVersion
      /\ issuer' = [issuer EXCEPT ![w] = IF CanIssue THEN issuing ELSE other]
      /\ UNCHANGED <<ticketStatus, credential, redemption, notices, scan, staff, settling, request>>
  BY DEF ClaimRequest, ticketRows
<1>3. issuing.phase = "issuing" /\ issuing.creates = MissingTickets /\ issuing.arms = Unarmed
  OBVIOUS
<1>4. other.phase # "issuing"
  BY DEF NoIssue
<1> HIDE DEF issuing, other
<1>5. \A x \in Issuers : issuer[x].phase # "issuing"
  BY <1>2 DEF RequestLocked
<1>6. /\ issuer' = [x \in Issuers |-> issuer'[x]]
      /\ issuer'[w] = (IF CanIssue THEN issuing ELSE other)
      /\ \A x \in Issuers : x # w => issuer'[x] = issuer[x]
  BY <1>1, <1>2 DEF WorkTyped
<1>7. Unarmed \subseteq BookedSeats
  BY DEF Unarmed
<1>8. \A x \in Issuers : issuer'[x].phase = "issuing" => x = w /\ issuer'[x] = issuing
  BY <1>4, <1>5, <1>6
<1>9. IssuersAreCurrent'
  <2> SUFFICES ASSUME issuer'[w] = issuing
               PROVE  IssuerIsCurrent(w)'
    BY <1>8 DEF IssuersAreCurrent
  <2>1. \A s \in BookedSeats : Active(s)' = Active(s) /\ NextVersion(s)' = NextVersion(s)
    BY <1>2 DEF Active, NextVersion, Versions
  <2>2. MissingTickets' = MissingTickets
    BY <1>2 DEF MissingTickets
  <2>3. MissingTickets \subseteq Unarmed
    BY <1>1 DEF MissingTickets, Unarmed, SeatsAreSound, SeatIsSound, Active
  <2>4. \A s \in Unarmed : Active(s) = {} /\ ticketStatus[s] # "USED" /\ NextVersion(s) <= MaxVersion
    BY <1>2 DEF Unarmed
  <2>5. \A s \in BookedSeats \ Unarmed : ticketStatus[s] = "ACTIVE" => Active(s) # {}
    BY DEF Unarmed
  <2> QED
    BY <1>2, <1>3, <1>7, <1>8, <2>1, <2>2, <2>3, <2>4, <2>5 DEF IssuerIsCurrent
<1>10. \A x \in Issuers : issuer'[x].phase = "issuing" => issuer'[x].arms \subseteq BookedSeats
  BY <1>3, <1>7, <1>8
<1>11. request' = [status |-> request'.status, attemptCount |-> request'.attemptCount,
                   availableAt |-> request'.availableAt]
  BY <1>1, <1>2 DEF RowsTyped
<1> QED
  BY <1>2, <1>6, <1>9, <1>10, <1>11, IssuerFrame

\* A failed attempt is rolled back, and recorded by a second transaction;
\* an operator requeues.  Nobody issues while the request is written.
LEMMA FailureKeeps ==
  ASSUME TicketsInv,
         (\E w \in Issuers : AbortIssue(w) \/ RecordFailure(w)) \/ RetryDeadLetter
  PROVE  TicketsInv'
<1>1. RowsTyped /\ WorkTyped /\ IssuersAreCurrent
  BY DEF TicketsInv
<1>2. UNCHANGED <<ticketStatus, credential, redemption, notices, scan, staff, settling>>
  BY DEF AbortIssue, RecordFailure, RetryDeadLetter, ticketRows
<1>3. \A s : Active(s)' = Active(s) /\ NextVersion(s)' = NextVersion(s)
  BY <1>2 DEF Active, NextVersion, Versions
<1>4. MissingTickets' = MissingTickets
  BY <1>2 DEF MissingTickets
<1>5. ASSUME NEW w \in Issuers, NEW x, x.phase # "issuing", issuer' = [issuer EXCEPT ![w] = x]
      PROVE  /\ issuer' = [y \in Issuers |-> issuer'[y]]
             /\ \A y \in Issuers : issuer'[y].phase = "issuing" => y # w /\ issuer'[y] = issuer[y]
  BY <1>1, <1>5 DEF WorkTyped
<1>6. ASSUME NEW w \in Issuers, AbortIssue(w)
      PROVE  TicketsInv'
  <2>1. PICK x : x = IF issuer[w].immediate THEN NoIssue ELSE [phase |-> "failed", now |-> issuer[w].now]
    OBVIOUS
  <2>2. x.phase # "issuing"
    BY <2>1 DEF NoIssue
  <2>3. issuer' = [issuer EXCEPT ![w] = x] /\ request' = request /\ issuer[w].phase = "issuing"
    BY <1>1, <1>6, <2>1 DEF AbortIssue, WorkTyped
  <2>4. \A y \in Issuers : issuer'[y].phase # "issuing"
    BY <1>1, <1>5, <2>2, <2>3 DEF IssuersAreCurrent, IssuerIsCurrent
  <2>5. IssuersAreCurrent'
    BY <2>4 DEF IssuersAreCurrent
  <2>6. request' = [status |-> request'.status, attemptCount |-> request'.attemptCount,
                    availableAt |-> request'.availableAt]
    BY <1>1, <2>3 DEF RowsTyped
  <2> QED
    BY <1>2, <1>5, <2>2, <2>3, <2>4, <2>5, <2>6, IssuerFrame
<1>7. ASSUME NEW w \in Issuers, RecordFailure(w)
      PROVE  TicketsInv'
  <2>1. /\ issuer' = [issuer EXCEPT ![w] = NoIssue] /\ NoIssue.phase # "issuing"
        /\ \A y \in Issuers : issuer[y].phase # "issuing"
    BY <1>7 DEF RecordFailure, RequestLocked, NoIssue
  <2>2. \A y \in Issuers : issuer'[y].phase # "issuing"
    BY <1>5, <2>1
  <2>3. IssuersAreCurrent'
    BY <2>2 DEF IssuersAreCurrent
  <2>4. /\ request' = [status |-> request'.status, attemptCount |-> request'.attemptCount,
                       availableAt |-> request'.availableAt]
        /\ request'.status = "COMPLETED" <=> request.status = "COMPLETED"
    <3>1. CASE StillDue(w)
      <4>1. \E n, a : \E st \in {"DEAD_LETTER", "PENDING"} :
              request' = [status |-> st, attemptCount |-> n, availableAt |-> a]
        BY <1>7, <3>1 DEF RecordFailure
      <4> QED
        BY <3>1, <4>1 DEF StillDue
    <3>2. CASE ~StillDue(w)
      <4>1. request' = request
        BY <1>7, <3>2 DEF RecordFailure
      <4> QED
        BY <1>1, <4>1 DEF RowsTyped
    <3> QED
      BY <3>1, <3>2
  <2> QED
    BY <1>2, <1>5, <2>1, <2>2, <2>3, <2>4, IssuerFrame
<1>8. ASSUME RetryDeadLetter
      PROVE  TicketsInv'
  <2>1. /\ request.status = "DEAD_LETTER" /\ issuer' = issuer
        /\ request' = [status |-> "PENDING", attemptCount |-> 0, availableAt |-> time]
    BY <1>8 DEF RetryDeadLetter
  <2>2. \A y \in Issuers : issuer[y].phase # "issuing"
    BY <1>1, <2>1 DEF IssuersAreCurrent, IssuerIsCurrent
  <2>3. IssuersAreCurrent'
    BY <2>1, <2>2 DEF IssuersAreCurrent
  <2>4. /\ request' = [status |-> request'.status, attemptCount |-> request'.attemptCount,
                       availableAt |-> request'.availableAt]
        /\ request'.status = "COMPLETED" <=> request.status = "COMPLETED"
    BY <2>1
  <2>5. issuer' = [w \in Issuers |-> issuer'[w]]
    BY <1>1, <2>1 DEF WorkTyped
  <2> QED
    BY <1>2, <2>1, <2>2, <2>3, <2>4, <2>5, IssuerFrame
<1> QED
  BY <1>6, <1>7, <1>8

-----------------------------------------------------------------------------
(* Steps that give credentials *)

\* A rotation replaces the active version by the next one, which was free.
\* The seat is not one an issuer arms, because it has an active credential.
LEMMA CommitRotateKeeps ==
  ASSUME TicketsInv, CommitRotate
  PROVE  TicketsInv'
<1>1. /\ RowsTyped /\ WorkTyped /\ SeatsAreSound /\ ScansHoldCredentials /\ StaffIsCurrent
      /\ SettlementIsOfItsTickets /\ IssuersAreCurrent /\ CompletedIsWhole
  BY DEF TicketsInv
<1>2. staff # NoStaff /\ staff.phase = "both"
  BY DEF CommitRotate, NoStaff
<1>3. PICK s \in BookedSeats : s = staff.seat
  BY <1>1, <1>2 DEF WorkTyped, StaffRow
<1>4. PICK v \in 0..MaxVersion : v = staff.version
  BY <1>1, <1>2 DEF WorkTyped, StaffRow
<1>5. /\ v < MaxVersion
      /\ credential' = [credential EXCEPT ![s][v] = "REPLACED", ![s][v + 1] = "ACTIVE"]
      /\ notices' = notices \cup {<<"CREDENTIAL_ROTATED", s, v + 1>>}
      /\ staff' = NoStaff
      /\ UNCHANGED <<ticketStatus, redemption, request, issuer, scan, settling>>
  BY <1>3, <1>4 DEF CommitRotate
<1>6. v \in Versions /\ credential[s][v] = "ACTIVE" /\ ticketStatus[s] = "ACTIVE"
  BY <1>1, <1>2, <1>3, <1>4 DEF StaffIsCurrent
<1>7. v + 1 \in Versions /\ v + 1 > v /\ v + 1 # v
  BY <1>5, TicketConstants DEF Versions
<1>8. PICK f : f = credential[s]
  OBVIOUS
<1>9. f \in [Versions -> CredentialStatus] /\ f[v] = "ACTIVE"
  BY <1>1, <1>6, <1>8 DEF RowsTyped
<1>10. PICK g : g = [f EXCEPT ![v] = "REPLACED", ![v + 1] = "ACTIVE"]
  OBVIOUS
<1>11. /\ g \in [Versions -> CredentialStatus]
       /\ g[v] = "REPLACED" /\ g[v + 1] = "ACTIVE"
       /\ \A u \in Versions : u # v /\ u # v + 1 => g[u] = f[u]
  BY <1>6, <1>7, <1>9, <1>10 DEF CredentialStatus
<1>12. credential' = [credential EXCEPT ![s] = g]
  BY <1>1, <1>5, <1>8, <1>10 DEF RowsTyped
<1>13. /\ credential' \in [BookedSeats -> [Versions -> CredentialStatus]]
       /\ credential'[s] = g /\ \A x \in BookedSeats : x # s => credential'[x] = credential[x]
  BY <1>1, <1>11, <1>12 DEF RowsTyped
<1>14. \A u \in Versions : u > v => f[u] = "NONE"
  BY <1>1, <1>6, <1>8 DEF SeatsAreSound, SeatIsSound
<1>15. \A x : Accepted(x)' = Accepted(x)
  BY <1>5 DEF Accepted
<1>16. \A x \in BookedSeats : x # s => Active(x)' = Active(x) /\ NextVersion(x)' = NextVersion(x)
  BY <1>13 DEF Active, NextVersion, Versions
<1>17. v \in Active(s) /\ v + 1 \in Active(s)'
  BY <1>6, <1>7, <1>11, <1>13 DEF Active, Versions
<1>18. RowsTyped' /\ WorkTyped'
  <2>1. RowsTyped'
    BY <1>1, <1>5, <1>13, RowsTypedNext DEF RowsTyped
  <2>2. WorkTyped'
    BY <1>1, <1>5, WorkTypedNext DEF WorkTyped
  <2> QED
    BY <2>1, <2>2
<1>19. SeatsAreSound'
  <2>1. SeatIsSound(s)'
    <3>1. ASSUME NEW x \in Versions, NEW u \in Versions, g[x] = "ACTIVE", u > x
          PROVE  g[u] = "NONE"
      <4>1. x = v + 1
        <5> SUFFICES ASSUME x # v + 1
                     PROVE  FALSE
          OBVIOUS
        <5>1. x # v /\ f[x] = "ACTIVE"
          BY <1>11, <3>1
        <5>2. x > v \/ v > x
          BY <5>1, TicketConstants DEF Versions
        <5>3. v > x => f[v] = "NONE"
          BY <1>1, <1>6, <1>8, <5>1 DEF SeatsAreSound, SeatIsSound
        <5> QED
          BY <1>9, <1>14, <5>1, <5>2, <5>3
      <4>2. u # v /\ u # v + 1 /\ u > v
        BY <3>1, <4>1, TicketConstants DEF Versions
      <4> QED
        BY <1>11, <1>14, <4>2
    <3>2. ticketStatus'[s] = "ACTIVE" /\ Accepted(s)' = {}
      BY <1>1, <1>5, <1>6, <1>15 DEF SeatsAreSound, SeatIsSound
    <3> QED
      BY <1>13, <3>1, <3>2 DEF SeatIsSound, Versions
  <2>2. ASSUME NEW x \in BookedSeats, x # s
        PROVE  SeatIsSound(x)'
    <3>1. Same(x)
      BY <1>5, <1>13, <1>15, <2>2 DEF Same
    <3> QED
      BY <1>1, <3>1, SpentIsSound DEF SeatsAreSound
  <2> QED
    BY <2>1, <2>2 DEF SeatsAreSound
<1>20. ASSUME NEW x \in BookedSeats, NEW u \in Versions, credential[x][u] # "NONE"
       PROVE  credential'[x][u] # "NONE"
  BY <1>8, <1>11, <1>13, <1>20
<1>21. ScansHoldCredentials'
  <2> SUFFICES ASSUME NEW k \in Scans, scan[k] # NoScan
               PROVE  redemption[k] = NotScanned /\ credential'[scan[k].seat][scan[k].version] # "NONE"
    BY <1>5 DEF ScansHoldCredentials, NoScan, NotScanned
  <2>1. scan[k].seat \in BookedSeats /\ scan[k].version \in Versions
    BY <1>1 DEF WorkTyped, ScanRow
  <2> QED
    BY <1>1, <1>20, <2>1 DEF ScansHoldCredentials
<1>22. StaffIsCurrent'
  BY <1>5 DEF StaffIsCurrent, NoStaff
<1>23. SettlementIsOfItsTickets'
  <2> SUFFICES ASSUME settling # NoSettle, NEW sv \in settling.credentials
               PROVE  sv[1] \in settling.tickets /\ credential'[sv[1]][sv[2]] # "NONE"
    BY <1>5 DEF SettlementIsOfItsTickets, NoSettle
  <2>1. sv[1] \in BookedSeats /\ sv[2] \in Versions
    BY <1>1 DEF WorkTyped, SettleRow
  <2> QED
    BY <1>1, <1>20, <2>1 DEF SettlementIsOfItsTickets
<1>24. IssuersAreCurrent'
  <2> SUFFICES ASSUME NEW w \in Issuers, issuer[w].phase = "issuing"
               PROVE  IssuerIsCurrent(w)'
    BY <1>5 DEF IssuersAreCurrent
  <2>1. IssuerIsCurrent(w) /\ issuer[w].arms \subseteq BookedSeats
    BY <1>1 DEF IssuersAreCurrent, WorkTyped
  <2>2. s \notin issuer[w].arms
    BY <1>17, <2>1 DEF IssuerIsCurrent
  <2>3. MissingTickets' = MissingTickets
    BY <1>5 DEF MissingTickets
  <2>4. \A x \in issuer[w].arms : Active(x)' = {} /\ ticketStatus'[x] # "USED" /\ NextVersion(x)' <= MaxVersion
    BY <1>5, <1>16, <2>1, <2>2 DEF IssuerIsCurrent
  <2>5. \A x \in BookedSeats \ issuer[w].arms : ticketStatus'[x] = "ACTIVE" => Active(x)' # {}
    BY <1>5, <1>16, <1>17, <2>1 DEF IssuerIsCurrent
  <2> QED
    BY <1>5, <2>1, <2>3, <2>4, <2>5 DEF IssuerIsCurrent
<1>25. CompletedIsWhole'
  <2>1. <<"BOOKING_TICKETS_READY", "booking", 1>> # <<"CREDENTIAL_ROTATED", s, v + 1>>
    OBVIOUS
  <2>2. \A x \in BookedSeats : ticketStatus[x] = "ACTIVE" /\ Active(x) # {} => Active(x)' # {}
    BY <1>16, <1>17
  <2> QED
    BY <1>1, <1>5, <2>1, <2>2 DEF CompletedIsWhole
<1> QED
  BY <1>18, <1>19, <1>21, <1>22, <1>23, <1>24, <1>25 DEF TicketsInv

\* An issuer commits: the seats it arms still have no active credential, so
\* the new one is the only one and above all others, and none is used.
LEMMA CommitIssueKeeps ==
  ASSUME TicketsInv, NEW w \in Issuers, CommitIssue(w)
  PROVE  TicketsInv'
<1>1. /\ RowsTyped /\ WorkTyped /\ SeatsAreSound /\ ScansHoldCredentials /\ StaffIsCurrent
      /\ SettlementIsOfItsTickets /\ IssuersAreCurrent /\ CompletedIsWhole
  BY DEF TicketsInv
<1>2. issuer[w].phase = "issuing"
  BY DEF CommitIssue
<1>3. IssuerIsCurrent(w) /\ issuer[w].arms \subseteq BookedSeats
  BY <1>1, <1>2 DEF IssuersAreCurrent, WorkTyped
<1>4. PICK arms \in SUBSET BookedSeats : arms = issuer[w].arms
  BY <1>3
<1>5. /\ ticketStatus' = [s \in BookedSeats |-> IF s \in MissingTickets THEN "ACTIVE" ELSE ticketStatus[s]]
      /\ credential' = [s \in BookedSeats |->
           IF s \in arms THEN [credential[s] EXCEPT ![NextVersion(s)] = "ACTIVE"] ELSE credential[s]]
      /\ request' = [request EXCEPT !.status = "COMPLETED"]
      /\ notices' = notices \cup {<<"BOOKING_TICKETS_READY", "booking", 1>>}
      /\ issuer' = [issuer EXCEPT ![w] = NoIssue]
      /\ UNCHANGED <<redemption, scan, staff, settling>>
  BY <1>3, <1>4 DEF CommitIssue, Armed, IssuerIsCurrent
<1>6. /\ MissingTickets \subseteq arms
      /\ \A s \in arms : Active(s) = {} /\ ticketStatus[s] # "USED" /\ NextVersion(s) <= MaxVersion
      /\ \A s \in BookedSeats \ arms : ticketStatus[s] = "ACTIVE" => Active(s) # {}
  BY <1>3, <1>4 DEF IssuerIsCurrent
<1>7. \A s \in BookedSeats : s \in MissingTickets <=> ticketStatus[s] = "NONE"
  BY DEF MissingTickets
<1>8. ASSUME NEW s \in arms
      PROVE  /\ NextVersion(s) \in Versions
             /\ \A v \in Versions : credential[s][v] # "NONE" => v < NextVersion(s)
             /\ \A v \in Versions : credential[s][v] # "ACTIVE"
             /\ credential[s] \in [Versions -> CredentialStatus]
             /\ credential'[s] = [credential[s] EXCEPT ![NextVersion(s)] = "ACTIVE"]
  <2>1. s \in BookedSeats
    OBVIOUS
  <2>2. /\ NextVersion(s) \in Nat /\ NextVersion(s) >= 1
        /\ \A v \in Versions : credential[s][v] # "NONE" => v < NextVersion(s)
    BY <1>1, <2>1, NextIsNew
  <2>3. NextVersion(s) \in Versions
    BY <1>6, <2>2, TicketConstants DEF Versions
  <2>4. \A v \in Versions : credential[s][v] # "ACTIVE"
    BY <1>6 DEF Active
  <2> QED
    BY <1>1, <1>5, <2>1, <2>2, <2>3, <2>4 DEF RowsTyped
<1>9. ASSUME NEW s \in arms
      PROVE  /\ credential'[s] \in [Versions -> CredentialStatus]
             /\ \E n \in Versions :
                  /\ credential'[s][n] = "ACTIVE"
                  /\ \A v \in Versions : v # n => credential'[s][v] = credential[s][v] /\ credential'[s][v] # "ACTIVE"
                  /\ \A v \in Versions : v > n => credential'[s][v] = "NONE"
                  /\ credential[s][n] = "NONE"
  <2>1. PICK n \in Versions : n = NextVersion(s)
    BY <1>8
  <2>2. /\ \A v \in Versions : credential[s][v] # "NONE" => v < n
        /\ \A v \in Versions : credential[s][v] # "ACTIVE"
        /\ credential[s] \in [Versions -> CredentialStatus]
        /\ credential'[s] = [credential[s] EXCEPT ![n] = "ACTIVE"]
    BY <1>8, <2>1
  <2>3. /\ credential'[s] \in [Versions -> CredentialStatus] /\ credential'[s][n] = "ACTIVE"
        /\ \A v \in Versions : v # n => credential'[s][v] = credential[s][v]
    <3>1. PICK f, g : f = credential[s] /\ g = credential'[s]
      OBVIOUS
    <3>2. f \in [Versions -> CredentialStatus] /\ g = [f EXCEPT ![n] = "ACTIVE"]
      BY <2>2, <3>1
    <3>3. g \in [Versions -> CredentialStatus] /\ g[n] = "ACTIVE" /\ \A v \in Versions : v # n => g[v] = f[v]
      BY <3>2 DEF CredentialStatus
    <3> QED
      BY <3>1, <3>3
  <2>4. \A v \in Versions : v \in Int /\ n \in Int
    BY TicketConstants DEF Versions
  <2>5. ASSUME NEW v \in Versions, ~(v < n)
        PROVE  credential[s][v] = "NONE"
    BY <2>2, <2>5
  <2>6. credential[s][n] = "NONE"
    BY <2>4, <2>5
  <2>7. ASSUME NEW v \in Versions, v > n
        PROVE  credential'[s][v] = "NONE"
    <3>1. v # n /\ ~(v < n)
      BY <2>4, <2>7
    <3> QED
      BY <2>3, <2>5, <3>1
  <2> QED
    BY <2>2, <2>3, <2>6, <2>7
<1>10. \A s \in BookedSeats \ arms : credential'[s] = credential[s] /\ ticketStatus'[s] = ticketStatus[s]
  BY <1>5, <1>6
<1>11. /\ ticketStatus' \in [BookedSeats -> TicketStatus]
       /\ credential' \in [BookedSeats -> [Versions -> CredentialStatus]]
  <2>1. ticketStatus' \in [BookedSeats -> TicketStatus]
    BY <1>1, <1>5 DEF RowsTyped, TicketStatus
  <2>2. \A s \in BookedSeats : credential'[s] \in [Versions -> CredentialStatus]
    BY <1>1, <1>9, <1>10 DEF RowsTyped
  <2>3. credential' = [s \in BookedSeats |-> credential'[s]]
    BY <1>5
  <2> QED
    BY <2>1, <2>2, <2>3
<1>12. /\ request' = [status |-> request'.status, attemptCount |-> request'.attemptCount,
                      availableAt |-> request'.availableAt]
       /\ request'.status = "COMPLETED"
  <2>1. PICK st, n, a : request = [status |-> st, attemptCount |-> n, availableAt |-> a]
    BY <1>1 DEF RowsTyped
  <2>2. request' = [status |-> "COMPLETED", attemptCount |-> n, availableAt |-> a]
    BY <1>5, <2>1
  <2> QED
    BY <2>2
<1>13. RowsTyped'
  <2>1. redemption' = [k \in Scans |-> redemption'[k]]
    BY <1>1, <1>5 DEF RowsTyped
  <2> QED
    BY <1>11, <1>12, <2>1 DEF RowsTyped, TicketStatus, CredentialStatus, Versions
<1>14. /\ issuer' = [x \in Issuers |-> issuer'[x]]
       /\ \A x \in Issuers : issuer'[x].phase # "issuing"
  <2>1. NoIssue.phase # "issuing"
    BY DEF NoIssue
  <2>2. \A x \in Issuers : x # w => issuer[x].phase # "issuing"
    BY <1>3 DEF IssuerIsCurrent
  <2> QED
    BY <1>1, <1>5, <2>1, <2>2 DEF WorkTyped
<1>15. WorkTyped' /\ IssuersAreCurrent'
  <2>1. WorkTyped'
    BY <1>1, <1>5, <1>14 DEF WorkTyped, ScanRow, StaffRow, SettleRow, NoScan, NoStaff, NoSettle, Versions
  <2> QED
    BY <1>14, <2>1 DEF IssuersAreCurrent
<1>16. \A s : Accepted(s)' = Accepted(s)
  BY <1>5 DEF Accepted
<1>17. ASSUME NEW s \in arms
       PROVE  SeatIsSound(s)' /\ ticketStatus'[s] # "NONE" /\ Active(s)' # {}
  <2>1. s \in BookedSeats /\ SeatIsSound(s)
    BY <1>1 DEF SeatsAreSound
  <2>2. ticketStatus'[s] # "NONE" /\ ticketStatus'[s] # "USED" /\ ticketStatus[s] # "USED"
    BY <1>5, <1>6, <1>7, <2>1
  <2>3. Accepted(s)' = {}
    BY <1>16, <2>1, <2>2 DEF SeatIsSound
  <2>4. PICK n \in Versions :
                  /\ credential'[s][n] = "ACTIVE"
                  /\ \A v \in Versions : v # n => credential'[s][v] = credential[s][v] /\ credential'[s][v] # "ACTIVE"
                  /\ \A v \in Versions : v > n => credential'[s][v] = "NONE"
    BY <1>9
  <2>5. n \in Active(s)'
    BY <2>4 DEF Active, Versions
  <2>6. \A v, u \in Versions : credential'[s][v] = "ACTIVE" /\ u > v => credential'[s][u] = "NONE"
    BY <2>4
  <2> QED
    BY <2>2, <2>3, <2>5, <2>6 DEF SeatIsSound, Versions
<1>18. ASSUME NEW s \in BookedSeats \ arms
       PROVE  SeatIsSound(s)' /\ ticketStatus'[s] # "NONE" /\ (ticketStatus'[s] = "ACTIVE" => Active(s)' # {})
  <2>1. Same(s)
    BY <1>10, <1>16 DEF Same
  <2>2. SeatIsSound(s)' /\ (ticketStatus'[s] = "ACTIVE" => Active(s)' = Active(s))
    BY <1>1, <2>1, SpentIsSound DEF SeatsAreSound
  <2> QED
    BY <1>6, <1>7, <1>10, <2>2
<1>19. SeatsAreSound' /\ CompletedIsWhole'
  <2>1. SeatsAreSound'
    BY <1>17, <1>18 DEF SeatsAreSound
  <2>2. CompletedIsWhole'
    BY <1>5, <1>12, <1>17, <1>18 DEF CompletedIsWhole
  <2> QED
    BY <2>1, <2>2
<1>20. ASSUME NEW s \in BookedSeats, NEW v \in Versions, credential[s][v] # "NONE"
       PROVE  credential'[s][v] = credential[s][v]
  <2>1. CASE s \in arms
    BY <1>9, <1>20, <2>1
  <2>2. CASE s \notin arms
    BY <1>10, <2>2
  <2> QED
    BY <2>1, <2>2
<1>21. ScansHoldCredentials'
  <2> SUFFICES ASSUME NEW k \in Scans, scan[k] # NoScan
               PROVE  redemption[k] = NotScanned /\ credential'[scan[k].seat][scan[k].version] # "NONE"
    BY <1>5 DEF ScansHoldCredentials, NoScan, NotScanned
  <2>1. scan[k].seat \in BookedSeats /\ scan[k].version \in Versions
    BY <1>1 DEF WorkTyped, ScanRow
  <2> QED
    BY <1>1, <1>20, <2>1 DEF ScansHoldCredentials
<1>22. StaffIsCurrent'
  <2> SUFFICES ASSUME staff # NoStaff
               PROVE  /\ ticketStatus'[staff.seat] = "ACTIVE"
                      /\ staff.phase = "both" => staff.version # 0
                      /\ staff.version # 0 =>
                           staff.version \in Versions /\ credential'[staff.seat][staff.version] = "ACTIVE"
    BY <1>5 DEF StaffIsCurrent, NoStaff, Versions
  <2>1. staff.seat \in BookedSeats /\ ticketStatus[staff.seat] = "ACTIVE"
    BY <1>1 DEF WorkTyped, StaffRow, StaffIsCurrent
  <2>2. ticketStatus'[staff.seat] = "ACTIVE"
    BY <1>5, <2>1
  <2> QED
    BY <1>1, <1>20, <2>1, <2>2 DEF StaffIsCurrent
<1>23. SettlementIsOfItsTickets'
  <2> SUFFICES ASSUME settling # NoSettle, NEW sv \in settling.credentials
               PROVE  sv[1] \in settling.tickets /\ credential'[sv[1]][sv[2]] # "NONE"
    BY <1>5 DEF SettlementIsOfItsTickets, NoSettle
  <2>1. sv[1] \in BookedSeats /\ sv[2] \in Versions
    BY <1>1 DEF WorkTyped, SettleRow
  <2> QED
    BY <1>1, <1>20, <2>1 DEF SettlementIsOfItsTickets
<1> QED
  BY <1>13, <1>15, <1>19, <1>21, <1>22, <1>23 DEF TicketsInv

-----------------------------------------------------------------------------
(* The theorems *)

\* Nothing is in flight at first, and there is no credential.
LEMMA TicketsStart ==
  ASSUME TicketsInit
  PROVE  TicketsInv
<1>1. PICK backfilled \in BOOLEAN : ticketStatus = [s \in BookedSeats |-> IF backfilled THEN "ACTIVE" ELSE "NONE"]
  BY DEF TicketsInit
<1>2. /\ credential = [s \in BookedSeats |-> [v \in Versions |-> "NONE"]]
      /\ redemption = [k \in Scans |-> NotScanned] /\ scan = [k \in Scans |-> NoScan]
      /\ issuer = [w \in Issuers |-> NoIssue] /\ staff = NoStaff /\ settling = NoSettle /\ notices = {}
      /\ request = [status |-> "PENDING", attemptCount |-> 0, availableAt |-> 0]
  BY DEF TicketsInit
<1>3. RowsTyped
  BY <1>1, <1>2 DEF RowsTyped, TicketStatus, CredentialStatus
<1>4. NoIssue.phase # "issuing" /\ NotScanned.outcome # "ACCEPTED"
  BY DEF NoIssue, NotScanned
<1>5. WorkTyped /\ IssuersAreCurrent
  BY <1>2, <1>4 DEF WorkTyped, IssuersAreCurrent
<1>6. SeatsAreSound
  BY <1>1, <1>2, <1>4 DEF SeatsAreSound, SeatIsSound, Accepted
<1>7. ScansHoldCredentials /\ StaffIsCurrent /\ SettlementIsOfItsTickets /\ CompletedIsWhole
  BY <1>2 DEF ScansHoldCredentials, StaffIsCurrent, SettlementIsOfItsTickets, CompletedIsWhole
<1> QED
  BY <1>3, <1>5, <1>6, <1>7 DEF TicketsInv

\* Every step keeps the invariant.
LEMMA TicketsStep ==
  ASSUME TicketsInv, [TicketsNext]_ticketVars
  PROVE  TicketsInv'
<1>1. ASSUME NEW w \in Issuers, Issue(w)
      PROVE  TicketsInv'
  BY <1>1, ClaimKeeps, CommitIssueKeeps, FailureKeeps DEF Issue
<1>2. ASSUME RetryDeadLetter
      PROVE  TicketsInv'
  BY <1>2, FailureKeeps
<1>3. ASSUME NEW k \in Scans, ScanTicket(k)
      PROVE  TicketsInv'
  <2>1. CASE AbortScan(k)
    BY <2>1, EndingKeeps DEF AbortScan, ticketRows
  <2> QED
    BY <1>3, <2>1, RejectKeeps, LockCredentialKeeps, CommitScanKeeps DEF ScanTicket
<1>4. ASSUME Manage
      PROVE  TicketsInv'
  <2>1. CASE AbortStaff
    BY <2>1, EndingKeeps DEF AbortStaff, ticketRows
  <2> QED
    BY <1>4, <2>1, StaffKeeps, CommitRotateKeeps, CommitRevokeKeeps DEF Manage
<1>5. ASSUME Settle
      PROVE  TicketsInv'
  <2>1. CASE AbortSettle
    BY <2>1, EndingKeeps DEF AbortSettle, ticketRows
  <2> QED
    BY <1>5, <2>1, SettlingKeeps, CommitSettleKeeps DEF Settle
<1>6. ASSUME CancelSessionOfTickets \/ TicketTime
      PROVE  TicketsInv'
  BY <1>6, EndingKeeps DEF CancelSessionOfTickets, TicketTime, ticketRows
<1>7. CASE UNCHANGED ticketVars
  BY <1>7, EndingKeeps DEF ticketVars, ticketRows
<1>8. CASE TicketsNext
  BY <1>1, <1>2, <1>3, <1>4, <1>5, <1>6, <1>8 DEF TicketsNext
<1> QED
  BY <1>7, <1>8

\* However scans, rotations, revocations, settlements and issuance interleave,
\* a ticket is used exactly when one scan was accepted, and then no credential
\* of it is active.
THEOREM OneAdmission == TicketsSpec => []AdmittedOnce
<1>1. TicketsInit => TicketsInv
  BY TicketsStart
<1>2. TicketsInv /\ [TicketsNext]_ticketVars => TicketsInv'
  BY TicketsStep
<1>3. TicketsInv => AdmittedOnce
  <2> SUFFICES ASSUME TicketsInv, NEW s \in BookedSeats
               PROVE  /\ Cardinality(Accepted(s)) = (IF ticketStatus[s] = "USED" THEN 1 ELSE 0)
                      /\ ticketStatus[s] = "USED" => Active(s) = {}
    BY DEF AdmittedOnce, Accepted
  <2>1. SeatIsSound(s)
    BY DEF TicketsInv, SeatsAreSound
  <2>2. CASE ticketStatus[s] = "USED"
    BY <2>1, <2>2, FS_Singleton DEF SeatIsSound
  <2>3. CASE ticketStatus[s] # "USED"
    BY <2>1, <2>3, FS_EmptySet DEF SeatIsSound
  <2> QED
    BY <2>2, <2>3
<1> QED
  BY <1>1, <1>2, <1>3, PTL DEF TicketsSpec

\* When issuance is complete every seat has a ticket, every ticket good for
\* entry has exactly one active credential, and the owner has been told.
THEOREM IssuanceIsWhole == TicketsSpec => []CompletedIssuanceIsWhole
<1>1. TicketsInit => TicketsInv
  BY TicketsStart
<1>2. TicketsInv /\ [TicketsNext]_ticketVars => TicketsInv'
  BY TicketsStep
<1>3. TicketsInv => CompletedIssuanceIsWhole
  <2> SUFFICES ASSUME TicketsInv
               PROVE  CompletedIssuanceIsWhole
    OBVIOUS
  <2>1. CompletedIsWhole
    BY DEF TicketsInv
  <2>2. ASSUME NEW s \in BookedSeats, Active(s) # {}
        PROVE  Cardinality(Active(s)) = 1
    <3>1. PICK v \in Active(s) : TRUE
      BY <2>2
    <3>2. SeatIsSound(s)
      BY DEF TicketsInv, SeatsAreSound
    <3>3. \A u \in Active(s) : u = v
      <4> SUFFICES ASSUME NEW u \in Active(s), u # v
                   PROVE  FALSE
        OBVIOUS
      <4>1. u \in Versions /\ v \in Versions /\ credential[s][u] = "ACTIVE" /\ credential[s][v] = "ACTIVE"
        BY DEF Active
      <4>2. u > v \/ v > u
        BY <4>1, TicketConstants DEF Versions
      <4> QED
        BY <3>2, <4>1, <4>2 DEF SeatIsSound
    <3>4. Active(s) = {v}
      BY <3>3
    <3> QED
      BY <3>4, FS_Singleton
  <2> QED
    BY <2>1, <2>2 DEF CompletedIsWhole, CompletedIssuanceIsWhole
<1> QED
  BY <1>1, <1>2, <1>3, PTL DEF TicketsSpec

\* A scan admits only with the newest credential of its ticket, although it
\* read and locked that credential before it could see the ticket.
THEOREM NewestAdmits == TicketsSpec => OnlyNewestCredentialAdmits
<1> DEFINE Step ==
      \A k \in Scans :
        redemption[k] = NotScanned /\ redemption'[k].outcome = "ACCEPTED" =>
          LET s == redemption'[k].seat IN
          \A v \in Versions : credential[s][v] # "NONE" => v <= redemption'[k].version
<1>1. TicketsInit => TicketsInv
  BY TicketsStart
<1>2. TicketsInv /\ [TicketsNext]_ticketVars => TicketsInv'
  BY TicketsStep
<1>3. TicketsInv /\ [TicketsNext]_ticketVars => [Step]_ticketVars
  <2> SUFFICES ASSUME TicketsInv, TicketsNext, NEW k \in Scans,
                      redemption[k] = NotScanned, redemption'[k].outcome = "ACCEPTED"
               PROVE  LET s == redemption'[k].seat IN
                      \A v \in Versions : credential[s][v] # "NONE" => v <= redemption'[k].version
    BY DEF ticketVars
  <2>1. redemption'[k] # redemption[k]
    BY DEF NotScanned
  <2>2. \E j \in Scans : CommitScan(j) \/ \E o \in {"INVALID", "UNAUTHORIZED_SCANNER"} : RejectScan(j, o)
    BY <2>1 DEF TicketsNext, Issue, ClaimRequest, CommitIssue, AbortIssue, RecordFailure, RetryDeadLetter,
       ScanTicket, LockCredential, AbortScan, Manage, StartStaff, StaffLocksCredential, CommitRotate,
       CommitRevoke, AbortStaff, Settle, StartSettle, SettleCredentials, SettleAfterWait, CommitSettle,
       AbortSettle, CancelSessionOfTickets, TicketTime, ticketRows
  <2>3. RowsTyped /\ WorkTyped /\ SeatsAreSound /\ ScansHoldCredentials
    BY DEF TicketsInv
  <2>4. ASSUME NEW j \in Scans, NEW o \in {"INVALID", "UNAUTHORIZED_SCANNER"}, RejectScan(j, o)
        PROVE  FALSE
    BY <2>1, <2>3, <2>4 DEF RejectScan, RowsTyped
  <2>5. CommitScan(k)
    BY <2>1, <2>2, <2>3, <2>4 DEF CommitScan, RowsTyped
  <2>6. scan[k] # NoScan
    BY <2>5 DEF CommitScan, NoScan
  <2>7. PICK s \in BookedSeats, v \in Versions : s = scan[k].seat /\ v = scan[k].version
    BY <2>3, <2>6 DEF WorkTyped, ScanRow
  <2>8. /\ redemption'[k] = [outcome |-> ScanOutcome(s, v, scan[k].here, scan[k].now), seat |-> s, version |-> v]
    BY <2>3, <2>5, <2>7 DEF CommitScan, RowsTyped
  <2>9. ScanOutcome(s, v, scan[k].here, scan[k].now) = "ACCEPTED" /\ redemption'[k].seat = s /\ redemption'[k].version = v
    BY <2>8
  <2>10. credential[s][v] \notin {"NONE", "USED", "REVOKED", "REPLACED"}
    BY <2>3, <2>6, <2>7, <2>9 DEF ScanOutcome, ScansHoldCredentials
  <2>11. credential[s][v] = "ACTIVE"
    BY <2>3, <2>10 DEF RowsTyped, CredentialStatus
  <2>12. ASSUME NEW u \in Versions, credential[s][u] # "NONE"
         PROVE  u <= v
    <3>1. ~(u > v)
      BY <2>3, <2>11, <2>12 DEF SeatsAreSound, SeatIsSound
    <3> QED
      BY <3>1, TicketConstants DEF Versions
  <2> QED
    BY <2>9, <2>12
<1> QED
  BY <1>1, <1>2, <1>3, PTL DEF TicketsSpec, OnlyNewestCredentialAdmits


-----------------------------------------------------------------------------
(* Refinement of Admission *)

\* An active ticket answers to one credential.
KeysAreSingle == \A s \in BookedSeats : \A v \in Active(s) : v \in Versions /\ Active(s) = {v}

LEMMA OneKey == TicketsInv => KeysAreSingle
<1> SUFFICES ASSUME TicketsInv, NEW s \in BookedSeats, NEW v \in Active(s)
             PROVE  v \in Versions /\ Active(s) = {v}
  BY DEF KeysAreSingle
<1>1. SeatIsSound(s)
  BY DEF TicketsInv, SeatsAreSound
<1>2. \A u \in Active(s) : u = v
  <2> SUFFICES ASSUME NEW u \in Active(s), u # v
               PROVE  FALSE
    OBVIOUS
  <2>1. u \in Versions /\ v \in Versions /\ credential[s][u] = "ACTIVE" /\ credential[s][v] = "ACTIVE"
    BY DEF Active
  <2>2. u > v \/ v > u
    BY <2>1, TicketConstants DEF Versions
  <2> QED
    BY <1>1, <2>1, <2>2 DEF SeatIsSound
<1> QED
  BY <1>2 DEF Active

\* What the pass of a seat is, by the status of its ticket.
PassesAre ==
  \A s \in BookedSeats :
    /\ ticketStatus[s] = "NONE" => Pass(s) = Passes!Missing
    /\ ticketStatus[s] = "ACTIVE" => Pass(s) = Passes!Good(Active(s))
    /\ ticketStatus[s] = "REVOKED" => Pass(s) = Passes!Voided
    /\ ticketStatus[s] = "USED" =>
         \A k \in Scans : Accepted(s) = {k} => Pass(s) = Passes!Used(redemption[k].version)

LEMMA PassCases == PassesAre
<1> SUFFICES ASSUME NEW s \in BookedSeats
             PROVE  /\ ticketStatus[s] = "NONE" => Pass(s) = Passes!Missing
                    /\ ticketStatus[s] = "ACTIVE" => Pass(s) = Passes!Good(Active(s))
                    /\ ticketStatus[s] = "REVOKED" => Pass(s) = Passes!Voided
                    /\ ticketStatus[s] = "USED" =>
                         \A k \in Scans : Accepted(s) = {k} => Pass(s) = Passes!Used(redemption[k].version)
  BY DEF PassesAre
<1>1. ticketStatus[s] = "NONE" => Pass(s) = Passes!Missing
  BY DEF Pass, Passes!Missing
<1>2. ticketStatus[s] = "ACTIVE" => Pass(s) = Passes!Good(Active(s))
  BY DEF Pass, Passes!Good
<1>3. ticketStatus[s] = "REVOKED" => Pass(s) = Passes!Voided
  BY DEF Pass, Passes!Voided
<1>4. ASSUME ticketStatus[s] = "USED", NEW k \in Scans, Accepted(s) = {k}
      PROVE  Pass(s) = Passes!Used(redemption[k].version)
  <2>1. Pass(s) = [ticket |-> ticketStatus[s], keys |-> {redemption[j].version : j \in Accepted(s)}]
    BY <1>4 DEF Pass, Accepted
  <2>2. {redemption[j].version : j \in Accepted(s)} = {redemption[k].version}
    BY <1>4
  <2> QED
    BY <1>4, <2>1, <2>2 DEF Passes!Used
<1> QED
  BY <1>1, <1>2, <1>3, <1>4

\* An accepted scan keeps its answer.
LEMMA AnswersStay ==
  ASSUME TicketsInv, TicketsNext, NEW k \in Scans, redemption[k].outcome = "ACCEPTED"
  PROVE  redemption'[k] = redemption[k]
<1>1. RowsTyped /\ ScansHoldCredentials /\ NotScanned.outcome # "ACCEPTED"
  BY DEF TicketsInv, NotScanned
<1>2. ASSUME NEW j \in Scans, CommitScan(j)
      PROVE  redemption'[k] = redemption[k]
  <2>1. scan[j] # NoScan
    BY <1>2 DEF CommitScan, NoScan
  <2>2. j # k
    BY <1>1, <2>1 DEF ScansHoldCredentials
  <2> QED
    BY <1>1, <1>2, <2>2 DEF CommitScan, RowsTyped
<1>3. ASSUME NEW j \in Scans, NEW o \in {"INVALID", "UNAUTHORIZED_SCANNER"}, RejectScan(j, o)
      PROVE  redemption'[k] = redemption[k]
  BY <1>1, <1>3 DEF RejectScan, RowsTyped
<1>4. \/ UNCHANGED redemption
      \/ \E j \in Scans : CommitScan(j) \/ \E o \in {"INVALID", "UNAUTHORIZED_SCANNER"} : RejectScan(j, o)
  BY DEF TicketsNext, Issue, ClaimRequest, CommitIssue, AbortIssue, RecordFailure, RetryDeadLetter,
     ScanTicket, LockCredential, AbortScan, Manage, StartStaff, StaffLocksCredential, CommitRotate,
     CommitRevoke, AbortStaff, Settle, StartSettle, SettleCredentials, SettleAfterWait, CommitSettle,
     AbortSettle, CancelSessionOfTickets, TicketTime, ticketRows
<1> QED
  BY <1>2, <1>3, <1>4

\* A seat the rows of which stay as they are keeps its pass.
LEMMA SamePass ==
  ASSUME TicketsInv, TicketsInv', PassesAre, PassesAre', TicketsNext, NEW s \in BookedSeats, Same(s)
  PROVE  Pass(s)' = Pass(s)
<1>1. Active(s)' = Active(s) /\ ticketStatus'[s] = ticketStatus[s]
  BY DEF Same, Active, Versions
<1>2. ticketStatus[s] \in TicketStatus /\ SeatIsSound(s)
  BY DEF TicketsInv, RowsTyped, SeatsAreSound
<1>3. CASE ticketStatus[s] = "USED"
  <2>1. PICK k \in Scans : Accepted(s) = {k}
    BY <1>2, <1>3 DEF SeatIsSound
  <2>2. Accepted(s)' = {k} /\ redemption[k].outcome = "ACCEPTED"
    BY <2>1 DEF Same, Accepted
  <2>3. redemption'[k] = redemption[k]
    BY <2>2, AnswersStay
  <2>4. Pass(s) = Passes!Used(redemption[k].version) /\ Pass(s)' = Passes!Used(redemption'[k].version)
    BY <1>1, <1>3, <2>1, <2>2 DEF PassesAre, Passes!Used
  <2> QED
    BY <2>3, <2>4
<1>4. CASE ticketStatus[s] = "NONE"
  BY <1>1, <1>4 DEF PassesAre, Passes!Missing
<1>5. CASE ticketStatus[s] = "ACTIVE"
  BY <1>1, <1>5 DEF PassesAre, Passes!Good
<1>6. CASE ticketStatus[s] = "REVOKED"
  BY <1>1, <1>6 DEF PassesAre, Passes!Voided
<1> QED
  BY <1>2, <1>3, <1>4, <1>5, <1>6 DEF TicketStatus

\* A step that touches one seat changes one pass.
LEMMA OnePass ==
  ASSUME TicketsInv, TicketsInv', PassesAre, PassesAre', TicketsNext, NEW s \in BookedSeats, NEW p,
         Pass(s)' = p, \A x \in BookedSeats : x # s => Same(x)
  PROVE  PassView' = [PassView EXCEPT ![s] = p]
<1>1. \A x \in BookedSeats : x # s => Pass(x)' = Pass(x)
  BY SamePass
<1> QED
  BY <1>1 DEF PassView

\* What the steps of the refinement may rely on, before and after.
Seen == TicketsInv /\ KeysAreSingle /\ PassesAre

LEMMA SeenHolds == TicketsInv => Seen
BY OneKey, PassCases DEF Seen

\* A scan enters with the one key the pass answers to, or changes no pass.
LEMMA ScanEnters ==
  ASSUME Seen, Seen', TicketsNext, NEW k \in Scans, CommitScan(k)
  PROVE  PassView' = PassView \/ \E s \in BookedSeats, v \in Versions : Passes!Enter(s, v)
<1>1. /\ TicketsInv /\ RowsTyped /\ WorkTyped /\ SeatsAreSound /\ ScansHoldCredentials
      /\ TicketsInv' /\ SeatsAreSound' /\ PassesAre /\ PassesAre' /\ KeysAreSingle
  BY DEF Seen, TicketsInv
<1>2. scan[k] # NoScan
  BY DEF CommitScan, NoScan
<1>3. PICK s \in BookedSeats, v \in Versions : s = scan[k].seat /\ v = scan[k].version
  BY <1>1, <1>2 DEF WorkTyped, ScanRow
<1>4. PICK outcome : outcome = ScanOutcome(s, v, scan[k].here, scan[k].now)
  OBVIOUS
<1>5. /\ redemption' = [redemption EXCEPT ![k] = [outcome |-> outcome, seat |-> s, version |-> v]]
      /\ credential' = [credential EXCEPT ![s][v] = IF outcome = "ACCEPTED" THEN "USED" ELSE @]
      /\ ticketStatus' = [ticketStatus EXCEPT ![s] = IF outcome = "ACCEPTED" THEN "USED" ELSE @]
  BY <1>3, <1>4 DEF CommitScan, StatusAfter
<1>6. redemption[k] = NotScanned /\ redemption[k].outcome # "ACCEPTED" /\ credential[s][v] # "NONE"
  BY <1>1, <1>2, <1>3 DEF ScansHoldCredentials, NotScanned
<1>7. /\ redemption'[k] = [outcome |-> outcome, seat |-> s, version |-> v]
      /\ \A j \in Scans : j # k => redemption'[j] = redemption[j]
      /\ \A x \in BookedSeats : x # s => credential'[x] = credential[x] /\ ticketStatus'[x] = ticketStatus[x]
  BY <1>1, <1>5 DEF RowsTyped
<1>8. \A x \in BookedSeats : x # s => Same(x)
  <2>1. redemption'[k].seat = s
    BY <1>7
  <2>2. \A x \in BookedSeats : x # s => Accepted(x)' = Accepted(x)
    BY <1>6, <1>7, <2>1 DEF Accepted
  <2> QED
    BY <1>7, <2>2 DEF Same
<1>9. CASE outcome = "ACCEPTED"
  <2>1. /\ credential[s][v] \notin {"USED", "REVOKED", "REPLACED"}
        /\ ticketStatus[s] \notin {"USED", "REVOKED"}
    BY <1>4, <1>9 DEF ScanOutcome
  <2>2. credential[s][v] = "ACTIVE"
    BY <1>1, <1>6, <2>1 DEF RowsTyped, CredentialStatus
  <2>3. ticketStatus[s] = "ACTIVE" /\ ticketStatus'[s] = "USED"
    BY <1>1, <1>5, <1>6, <1>9, <2>1 DEF RowsTyped, TicketStatus, SeatsAreSound, SeatIsSound
  <2>4. Active(s) = {v}
    <3>1. v \in Active(s)
      BY <2>2 DEF Active
    <3> QED
      BY <1>1, <3>1 DEF KeysAreSingle
  <2>5. PICK j \in Scans : Accepted(s)' = {j}
    BY <1>1, <2>3 DEF SeatsAreSound, SeatIsSound
  <2>6. k \in Accepted(s)' /\ redemption'[k].version = v
    BY <1>7, <1>9 DEF Accepted
  <2>7. Pass(s) = Passes!Good({v}) /\ Pass(s)' = Passes!Used(v)
    <3>1. Pass(s) = Passes!Good({v})
      BY <1>1, <2>3, <2>4 DEF PassesAre
    <3>2. j = k
      BY <2>5, <2>6
    <3>3. Pass(s)' = Passes!Used(redemption'[k].version)
      BY <1>1, <2>3, <2>5, <3>2 DEF PassesAre, Passes!Used
    <3> QED
      BY <2>6, <3>1, <3>3
  <2>8. PassView' = [PassView EXCEPT ![s] = Passes!Used(v)]
    BY <1>1, <1>8, <2>7, OnePass
  <2>9. PassView[s] = Passes!Good({v})
    BY <2>7 DEF PassView
  <2> QED
    BY <2>8, <2>9 DEF Passes!Enter
<1>10. CASE outcome # "ACCEPTED"
  <2>1. credential'[s] = credential[s] /\ ticketStatus'[s] = ticketStatus[s]
    BY <1>1, <1>5, <1>10 DEF RowsTyped
  <2>2. Accepted(s)' = Accepted(s)
    <3>1. redemption'[k].outcome # "ACCEPTED"
      BY <1>7, <1>10
    <3> QED
      BY <1>6, <1>7, <3>1 DEF Accepted
  <2>3. \A x \in BookedSeats : Same(x)
    BY <1>8, <2>1, <2>2 DEF Same
  <2> QED
    BY <1>1, <2>3, SamePass DEF PassView
<1> QED
  BY <1>9, <1>10

\* A rotation renews the pass of the ticket that staff hold.
LEMMA RotationRenews ==
  ASSUME Seen, Seen', TicketsNext, CommitRotate
  PROVE  \E s \in BookedSeats, v, w \in Versions : Passes!Renew(s, v, w)
<1>1. /\ TicketsInv /\ RowsTyped /\ WorkTyped /\ StaffIsCurrent /\ TicketsInv' /\ PassesAre /\ PassesAre'
      /\ KeysAreSingle /\ KeysAreSingle'
  BY DEF Seen, TicketsInv
<1>2. staff # NoStaff /\ staff.phase = "both"
  BY DEF CommitRotate, NoStaff
<1>3. PICK s \in BookedSeats, v \in 0..MaxVersion : s = staff.seat /\ v = staff.version
  BY <1>1, <1>2 DEF WorkTyped, StaffRow
<1>4. /\ v < MaxVersion
      /\ credential' = [credential EXCEPT ![s][v] = "REPLACED", ![s][v + 1] = "ACTIVE"]
      /\ UNCHANGED <<ticketStatus, redemption>>
  BY <1>3 DEF CommitRotate
<1>5. v \in Versions /\ credential[s][v] = "ACTIVE" /\ ticketStatus[s] = "ACTIVE"
  BY <1>1, <1>2, <1>3 DEF StaffIsCurrent
<1>6. v + 1 \in Versions /\ v < v + 1
  BY <1>4, TicketConstants DEF Versions
<1>7. PICK f \in [Versions -> CredentialStatus] : f = credential[s]
  BY <1>1 DEF RowsTyped
<1>8. credential' = [credential EXCEPT ![s] = [f EXCEPT ![v] = "REPLACED", ![v + 1] = "ACTIVE"]]
  BY <1>1, <1>4, <1>7 DEF RowsTyped
<1>9. credential'[s][v + 1] = "ACTIVE" /\ \A x \in BookedSeats : x # s => credential'[x] = credential[x]
  BY <1>1, <1>6, <1>8 DEF RowsTyped
<1>10. Active(s) = {v} /\ Active(s)' = {v + 1}
  <2>1. v \in Active(s) /\ v + 1 \in Active(s)'
    BY <1>5, <1>6, <1>9 DEF Active, Versions
  <2> QED
    BY <1>1, <2>1 DEF KeysAreSingle
<1>11. \A x \in BookedSeats : x # s => Same(x)
  BY <1>4, <1>9 DEF Same, Accepted
<1>12. Pass(s) = Passes!Good({v}) /\ Pass(s)' = Passes!Good({v + 1})
  BY <1>1, <1>4, <1>5, <1>10 DEF PassesAre, Passes!Good
<1>13. PassView' = [PassView EXCEPT ![s] = Passes!Good({v + 1})]
  BY <1>1, <1>11, <1>12, OnePass
<1>14. PassView[s] = Passes!Good({v})
  BY <1>12 DEF PassView
<1> QED
  BY <1>5, <1>6, <1>13, <1>14 DEF Passes!Renew

\* The tickets that staff or a settlement revoke lose their passes together.
LEMMA RevocationVoids ==
  ASSUME Seen, Seen', TicketsNext, NEW S \in SUBSET BookedSeats,
         \A s \in S : ticketStatus[s] = "ACTIVE" /\ ticketStatus'[s] = "REVOKED",
         \A s \in BookedSeats \ S : Same(s)
  PROVE  Passes!Revoke(S)
<1>1. TicketsInv /\ TicketsInv' /\ PassesAre /\ PassesAre'
  BY DEF Seen
<1>2. \A s \in S : Pass(s) = Passes!Good(Active(s)) /\ Pass(s)' = Passes!Voided
  BY <1>1 DEF PassesAre, Passes!Voided
<1>3. \A s \in BookedSeats \ S : Pass(s)' = Pass(s)
  BY <1>1, SamePass
<1>4. \A s \in S : PassView[s].ticket = "ACTIVE"
  BY <1>2 DEF PassView, Passes!Good
<1>5. PassView' = [s \in BookedSeats |-> IF s \in S THEN Passes!Voided ELSE PassView[s]]
  BY <1>2, <1>3 DEF PassView
<1> QED
  BY <1>4, <1>5 DEF Passes!Revoke

\* Issuance hands out every pass that opens no door yet, each with one key,
\* and leaves the others; a ticket revoked since the issuer read it may get a
\* credential, its pass stays void.
LEMMA IssuanceHandsOut ==
  ASSUME Seen, Seen', TicketsNext, NEW w \in Issuers, CommitIssue(w)
  PROVE  Passes!HandOut
<1>1. /\ TicketsInv /\ RowsTyped /\ WorkTyped /\ IssuersAreCurrent /\ TicketsInv' /\ PassesAre /\ PassesAre'
      /\ KeysAreSingle' /\ CompletedIsWhole'
  BY DEF Seen, TicketsInv
<1>2. IssuerIsCurrent(w) /\ issuer[w].arms \subseteq BookedSeats
  BY <1>1 DEF IssuersAreCurrent, WorkTyped, CommitIssue
<1>3. PICK arms \in SUBSET BookedSeats : arms = issuer[w].arms
  BY <1>2
<1>4. /\ ticketStatus' = [s \in BookedSeats |-> IF s \in MissingTickets THEN "ACTIVE" ELSE ticketStatus[s]]
      /\ credential' = [s \in BookedSeats |->
           IF s \in arms THEN [credential[s] EXCEPT ![NextVersion(s)] = "ACTIVE"] ELSE credential[s]]
      /\ request' = [request EXCEPT !.status = "COMPLETED"] /\ UNCHANGED redemption
  BY <1>2, <1>3 DEF CommitIssue, Armed, IssuerIsCurrent
<1>5. /\ MissingTickets \subseteq arms
      /\ \A s \in arms : Active(s) = {} /\ ticketStatus[s] # "USED"
  BY <1>2, <1>3 DEF IssuerIsCurrent
<1>6. \A s \in BookedSeats : s \in MissingTickets <=> ticketStatus[s] = "NONE"
  BY DEF MissingTickets
<1>7. \A s \in BookedSeats : ticketStatus'[s] = "ACTIVE" => Active(s)' # {}
  <2>1. request'.status = "COMPLETED"
    <3>1. PICK st, n, a : request = [status |-> st, attemptCount |-> n, availableAt |-> a]
      BY <1>1 DEF RowsTyped
    <3>2. request' = [status |-> "COMPLETED", attemptCount |-> n, availableAt |-> a]
      BY <1>4, <3>1
    <3> QED
      BY <3>2
  <2> QED
    BY <1>1, <2>1 DEF CompletedIsWhole
<1> DEFINE key == [s \in BookedSeats |-> IF ticketStatus'[s] = "ACTIVE" THEN CHOOSE v \in Versions : v \in Active(s)' ELSE 1]
<1>8. ASSUME NEW s \in BookedSeats, ticketStatus'[s] = "ACTIVE"
      PROVE  key[s] \in Versions /\ Pass(s)' = Passes!Good({key[s]})
  <2>1. PICK u \in Versions : u \in Active(s)'
    BY <1>7, <1>8 DEF Active, Versions
  <2>2. key[s] \in Versions /\ key[s] \in Active(s)'
    BY <1>8, <2>1
  <2>3. PICK v \in Versions : v = key[s]
    BY <2>2
  <2>4. v \in Active(s)'
    BY <2>2, <2>3
  <2> HIDE DEF key
  <2>5. Active(s)' = {v}
    BY <1>1, <2>4 DEF KeysAreSingle
  <2>6. Pass(s)' = Passes!Good({v})
    BY <1>1, <1>8, <2>5 DEF PassesAre, Passes!Good
  <2> QED
    BY <2>3, <2>6
<1>9. key \in [BookedSeats -> Versions]
  <2>1. 1 \in Versions
    BY TicketConstants DEF Versions
  <2>2. \A s \in BookedSeats : ticketStatus'[s] = "ACTIVE" => key[s] \in Versions
    BY <1>8
  <2>3. \A s \in BookedSeats : ticketStatus'[s] # "ACTIVE" => key[s] = 1
    OBVIOUS
  <2>4. \A s \in BookedSeats : key[s] \in Versions
    BY <2>1, <2>2, <2>3
  <2>5. key = [s \in BookedSeats |-> key[s]]
    OBVIOUS
  <2> HIDE DEF key
  <2> QED
    BY <2>4, <2>5
<1> HIDE DEF key
<1>10. ASSUME NEW s \in BookedSeats
       PROVE  Pass(s)' = IF Pass(s) \in Passes!Blank THEN Passes!Good({key[s]}) ELSE Pass(s)
  <2>1. ticketStatus[s] \in TicketStatus
    BY <1>1 DEF RowsTyped
  <2>2. CASE ticketStatus[s] = "NONE"
    <3>1. Pass(s) \in Passes!Blank
      BY <1>1, <2>2 DEF PassesAre, Passes!Blank
    <3>2. ticketStatus'[s] = "ACTIVE"
      BY <1>4, <1>6, <2>2
    <3> QED
      BY <1>8, <3>1, <3>2
  <2>3. CASE ticketStatus[s] = "ACTIVE" /\ Active(s) = {}
    <3>1. Pass(s) \in Passes!Blank
      BY <1>1, <2>3 DEF PassesAre, Passes!Blank
    <3>2. ticketStatus'[s] = "ACTIVE"
      BY <1>4, <1>6, <2>3
    <3> QED
      BY <1>8, <3>1, <3>2
  <2>4. CASE ticketStatus[s] = "REVOKED"
    <3>1. ticketStatus'[s] = "REVOKED"
      BY <1>4, <1>6, <2>4
    <3>2. Pass(s) = Passes!Voided /\ Pass(s)' = Passes!Voided
      BY <1>1, <2>4, <3>1 DEF PassesAre, Passes!Voided
    <3>3. Passes!Voided \notin Passes!Blank
      BY DEF Passes!Voided, Passes!Blank, Passes!Missing, Passes!Good
    <3> QED
      BY <3>2, <3>3
  <2>5. CASE ticketStatus[s] = "USED" \/ (ticketStatus[s] = "ACTIVE" /\ Active(s) # {})
    <3>1. s \notin arms /\ s \notin MissingTickets
      BY <1>5, <1>6, <2>5
    <3>2. Same(s)
      BY <1>4, <3>1 DEF Same, Accepted
    <3>3. Pass(s)' = Pass(s)
      BY <1>1, <3>2, SamePass
    <3>4. Pass(s).ticket = ticketStatus[s] /\ (ticketStatus[s] = "ACTIVE" => Pass(s).keys = Active(s))
      BY DEF Pass
    <3>5. Pass(s) \notin Passes!Blank
      BY <2>5, <3>4 DEF Passes!Blank, Passes!Missing, Passes!Good
    <3> QED
      BY <3>3, <3>5
  <2> QED
    BY <2>1, <2>2, <2>3, <2>4, <2>5 DEF TicketStatus
<1>11. PassView' = [s \in BookedSeats |-> IF PassView[s] \in Passes!Blank THEN Passes!Good({key[s]}) ELSE PassView[s]]
  BY <1>10 DEF PassView
<1> QED
  BY <1>9, <1>11 DEF Passes!HandOut

\* The other steps change no pass.
LEMMA OthersUnseen ==
  ASSUME Seen, Seen', TicketsNext
  PROVE  \/ UNCHANGED PassView
         \/ \E w \in Issuers : CommitIssue(w)
         \/ \E k \in Scans : CommitScan(k)
         \/ CommitRotate \/ CommitRevoke \/ CommitSettle
<1>1. TicketsInv /\ TicketsInv' /\ PassesAre /\ PassesAre' /\ RowsTyped
  BY DEF Seen, TicketsInv
<1>2. ASSUME UNCHANGED <<ticketStatus, credential, redemption>>
      PROVE  UNCHANGED PassView
  <2>1. \A s : Same(s)
    BY <1>2 DEF Same, Accepted
  <2> QED
    BY <1>1, <2>1, SamePass DEF PassView
<1>3. ASSUME NEW k \in Scans, NEW o \in {"INVALID", "UNAUTHORIZED_SCANNER"}, RejectScan(k, o)
      PROVE  UNCHANGED PassView
  <2>1. redemption[k] = NotScanned /\ redemption' = [redemption EXCEPT ![k] = [outcome |-> o]]
        /\ UNCHANGED <<ticketStatus, credential>>
    BY <1>3 DEF RejectScan
  <2>2. [outcome |-> o].outcome # "ACCEPTED"
    OBVIOUS
  <2>3. \A s \in BookedSeats : Accepted(s)' = Accepted(s)
    BY <1>1, <2>1, <2>2, NotAdmitted
  <2>4. \A s \in BookedSeats : Same(s)
    BY <2>1, <2>3 DEF Same
  <2> QED
    BY <1>1, <2>4, SamePass DEF PassView
<1>4. \/ UNCHANGED <<ticketStatus, credential, redemption>>
      \/ \E k \in Scans, o \in {"INVALID", "UNAUTHORIZED_SCANNER"} : RejectScan(k, o)
      \/ \E w \in Issuers : CommitIssue(w)
      \/ \E k \in Scans : CommitScan(k)
      \/ CommitRotate \/ CommitRevoke \/ CommitSettle
  BY DEF TicketsNext, Issue, ClaimRequest, AbortIssue, RecordFailure, RetryDeadLetter,
     ScanTicket, LockCredential, AbortScan, Manage, StartStaff, StaffLocksCredential,
     AbortStaff, Settle, StartSettle, SettleCredentials, SettleAfterWait,
     AbortSettle, CancelSessionOfTickets, TicketTime, ticketRows
<1> QED
  BY <1>2, <1>3, <1>4

\* However scans, staff, settlements and issuers take their locks, what they
\* commit is a whole step of Admission: every pass is handed out together, it
\* has one key at a time and opens once, with the newest, and it ends used or
\* void.
THEOREM TicketsAdmit == TicketsSpec => ImplementsAdmission
<1>1. TicketsInit => TicketsInv
  BY TicketsStart
<1>2. TicketsInv /\ [TicketsNext]_ticketVars => TicketsInv'
  BY TicketsStep
<1>3. TicketsInit => Passes!Init
  <2> SUFFICES ASSUME TicketsInit
               PROVE  Passes!Init
    OBVIOUS
  <2>1. PICK backfilled \in BOOLEAN : ticketStatus = [s \in BookedSeats |-> IF backfilled THEN "ACTIVE" ELSE "NONE"]
    BY DEF TicketsInit
  <2>2. \A s \in BookedSeats : Active(s) = {}
    BY DEF TicketsInit, Active
  <2>3. \A s \in BookedSeats : Pass(s) \in Passes!Blank
    BY <2>1, <2>2, PassCases DEF PassesAre, Passes!Blank
  <2> QED
    BY <2>3 DEF Passes!Init, PassView
<1>4. Seen /\ Seen' /\ [TicketsNext]_ticketVars => [Passes!Next]_PassView
  <2> SUFFICES ASSUME Seen, Seen', TicketsNext, ~UNCHANGED PassView
               PROVE  Passes!Next
    BY DEF ticketVars, ticketRows, PassView, Pass, Active
  <2>1. ASSUME NEW w \in Issuers, CommitIssue(w)
        PROVE  Passes!Next
    BY <2>1, IssuanceHandsOut DEF Passes!Next
  <2>2. ASSUME NEW k \in Scans, CommitScan(k)
        PROVE  Passes!Next
    BY <2>2, ScanEnters DEF Passes!Next
  <2>3. CASE CommitRotate
    BY <2>3, RotationRenews DEF Passes!Next
  <2>4. CASE CommitRevoke
    <3>1. RowsTyped /\ WorkTyped /\ staff # NoStaff
      BY <2>4 DEF Seen, TicketsInv, CommitRevoke
    <3>2. PICK s \in BookedSeats : s = staff.seat
      BY <3>1 DEF WorkTyped, StaffRow
    <3>3. /\ ticketStatus[s] = "ACTIVE" /\ ticketStatus' = [ticketStatus EXCEPT ![s] = "REVOKED"]
          /\ \A x \in BookedSeats : x # s => credential'[x] = credential[x]
          /\ UNCHANGED redemption
      BY <2>4, <3>1, <3>2 DEF CommitRevoke, TriggerAllows, RowsTyped
    <3>4. ticketStatus'[s] = "REVOKED" /\ \A x \in BookedSeats \ {s} : Same(x)
      BY <3>1, <3>3 DEF RowsTyped, Same, Accepted
    <3>5. Passes!Revoke({s})
      BY <3>3, <3>4, RevocationVoids
    <3> QED
      BY <3>5 DEF Passes!Next
  <2>5. CASE CommitSettle
    <3>1. RowsTyped /\ WorkTyped /\ SettlementIsOfItsTickets /\ settling # NoSettle
      BY <2>5 DEF Seen, TicketsInv, CommitSettle, NoSettle
    <3>2. PICK S \in SUBSET BookedSeats : S = settling.tickets
      BY <3>1 DEF WorkTyped, SettleRow
    <3>3. \A s \in BookedSeats, v \in Versions : <<s, v>> \in settling.credentials => s \in S
      BY <3>1, <3>2 DEF SettlementIsOfItsTickets
    <3>4. /\ \A s \in S : ticketStatus[s] = "ACTIVE"
          /\ credential' = [s \in BookedSeats |-> [v \in Versions |->
               IF <<s, v>> \in settling.credentials THEN "REVOKED" ELSE credential[s][v]]]
          /\ ticketStatus' = [s \in BookedSeats |-> IF s \in S THEN "REVOKED" ELSE ticketStatus[s]]
          /\ UNCHANGED redemption
      BY <2>5, <3>2 DEF CommitSettle, TriggerAllows
    <3>5. ASSUME NEW s \in BookedSeats \ S
          PROVE  Same(s)
      <4>1. credential'[s] = [v \in Versions |-> credential[s][v]]
        BY <3>3, <3>4
      <4>2. credential'[s] = credential[s] /\ ticketStatus'[s] = ticketStatus[s]
        BY <3>1, <3>4, <4>1 DEF RowsTyped
      <4> QED
        BY <3>4, <4>2 DEF Same, Accepted
    <3>6. Passes!Revoke(S)
      BY <3>4, <3>5, RevocationVoids
    <3> QED
      BY <3>6 DEF Passes!Next
  <2> QED
    BY <2>1, <2>2, <2>3, <2>4, <2>5, OthersUnseen
<1>5. TicketsInv => Seen
  BY SeenHolds
<1> QED
  BY <1>1, <1>2, <1>3, <1>4, <1>5, PTL DEF TicketsSpec, ImplementsAdmission, Passes!Spec

-----------------------------------------------------------------------------
(* Types *)

\* The smaller of two integers.
LEMMA MinOfTwo ==
  ASSUME NEW a \in Int, NEW b \in Int
  PROVE  Min({a, b}) \in {a, b} /\ Min({a, b}) <= a /\ Min({a, b}) <= b
<1>1. \E x \in {a, b} : \A y \in {a, b} : x <= y
  <2>1. CASE a <= b
    BY <2>1
  <2>2. CASE ~(a <= b)
    <3>1. b <= a
      BY <2>2
    <3> QED
      BY <3>1
  <2> QED
    BY <2>1, <2>2
<1>2. Min({a, b}) \in {a, b} /\ \A y \in {a, b} : Min({a, b}) <= y
  BY <1>1 DEF Min
<1> QED
  BY <1>2

\* The wait before a retry is a time, and never more than the maximum.
LEMMA BackoffIsBounded ==
  ASSUME NEW attempt \in Nat, attempt >= 1
  PROVE  calculateBackoff(attempt) \in 0..BackoffMaximum
<1>1. PICK n : n = Min({attempt - 1, 30})
  OBVIOUS
<1>2. attempt - 1 \in Int /\ 30 \in Int
  OBVIOUS
<1>3. n \in {attempt - 1, 30} /\ n <= attempt - 1 /\ n <= 30
  BY <1>1, <1>2, MinOfTwo
<1>4. n \in 0..30
  BY <1>3
<1>5. PICK p \in Nat : p = 2^n
  BY <1>4, PowersOfTwo
<1>6. PICK q \in Nat : q = BackoffBase * p
  BY TicketConstants
<1>7. calculateBackoff(attempt) = Min({BackoffMaximum, q})
  BY <1>1, <1>5, <1>6 DEF calculateBackoff
<1>8. BackoffMaximum \in Nat
  BY TicketConstants
<1>9. Min({BackoffMaximum, q}) \in {BackoffMaximum, q} /\ Min({BackoffMaximum, q}) <= BackoffMaximum
  BY <1>8, MinOfTwo
<1> QED
  BY <1>7, <1>8, <1>9

\* The fields the rows of the invariant above leave open: the statuses, the
\* request with its attempts, and the times issuers remember.
RequestTyped ==
  /\ request \in [status : {"PENDING", "COMPLETED", "DEAD_LETTER"}, attemptCount : 0..MaximumAttempts,
                  availableAt : Nat]
  /\ request.status = "PENDING" => request.attemptCount < MaximumAttempts
IssuersTyped ==
  \A w \in Issuers : /\ issuer[w].phase \in {"idle", "issuing", "failed"}
                     /\ issuer[w].phase # "idle" => issuer[w].now \in Nat
RestTyped ==
  /\ bookingStatus \in {"CONFIRMED", "REFUNDED"} /\ refundedSeats \subseteq BookedSeats
  /\ sessionStatus \in {"PUBLISHED", "CANCELLED"} /\ time \in 0..MaxTime
  /\ \A k \in Scans : redemption[k].outcome \in EntryOutcomes \cup {"NONE"}
TypesInv == RequestTyped /\ IssuersTyped /\ RestTyped

\* The answer of a scan is one of the nine outcomes.
LEMMA OutcomesTyped ==
  ASSUME NEW s, NEW v, NEW here, NEW now
  PROVE  ScanOutcome(s, v, here, now) \in EntryOutcomes
BY DEF ScanOutcome, decideEntryWindow, EntryOutcomes

\* Issuers and the request.
LEMMA IssueTypes ==
  ASSUME TicketsInv, TypesInv, NEW w \in Issuers, Issue(w)
  PROVE  TypesInv'
<1>1. RequestTyped /\ IssuersTyped /\ RestTyped /\ issuer = [x \in Issuers |-> issuer[x]]
  BY DEF TypesInv, TicketsInv, WorkTyped
<1>2. time \in Nat /\ UNCHANGED time
  BY <1>1, TicketConstants DEF RestTyped, Issue, ClaimRequest, CommitIssue, AbortIssue, RecordFailure
<1>3. RestTyped'
  BY <1>1 DEF RestTyped, Issue, ClaimRequest, CommitIssue, AbortIssue, RecordFailure, ticketRows, EntryOutcomes
<1>4. ASSUME NEW e, issuer' = [issuer EXCEPT ![w] = e], e.phase \in {"idle", "issuing", "failed"},
             e.phase # "idle" => e.now \in Nat
      PROVE  IssuersTyped'
  BY <1>1, <1>4 DEF IssuersTyped
<1>5. NoIssue.phase = "idle"
  BY DEF NoIssue
<1>6. ASSUME NEW immediate \in BOOLEAN, ClaimRequest(w, immediate)
      PROVE  TypesInv'
  <2> DEFINE i == [phase |-> "issuing", immediate |-> immediate, now |-> time, creates |-> MissingTickets, arms |-> Unarmed]
             f == [phase |-> "failed", now |-> time]
  <2>1. i.phase = "issuing" /\ i.now = time /\ f.phase = "failed" /\ f.now = time
    OBVIOUS
  <2>2. \/ issuer' = [issuer EXCEPT ![w] = i]
        \/ issuer' = [issuer EXCEPT ![w] = NoIssue]
        \/ issuer' = [issuer EXCEPT ![w] = f]
    BY <1>6 DEF ClaimRequest
  <2> HIDE DEF i, f
  <2>3. IssuersTyped'
    BY <1>2, <1>4, <1>5, <2>1, <2>2
  <2>4. RequestTyped'
    BY <1>1, <1>6 DEF ClaimRequest, RequestTyped
  <2> QED
    BY <1>3, <2>3, <2>4 DEF TypesInv
<1>7. CASE CommitIssue(w)
  <2>1. IssuersTyped'
    BY <1>4, <1>5, <1>7 DEF CommitIssue
  <2>2. RequestTyped'
    BY <1>1, <1>7 DEF CommitIssue, RequestTyped
  <2> QED
    BY <1>3, <2>1, <2>2 DEF TypesInv
<1>8. CASE AbortIssue(w)
  <2>1. issuer[w].now \in Nat
    BY <1>1, <1>8 DEF AbortIssue, IssuersTyped
  <2> DEFINE f == [phase |-> "failed", now |-> issuer[w].now]
  <2>2. issuer' = [issuer EXCEPT ![w] = NoIssue] \/ issuer' = [issuer EXCEPT ![w] = f]
    BY <1>8 DEF AbortIssue
  <2>3. f.phase = "failed" /\ f.now = issuer[w].now
    OBVIOUS
  <2> HIDE DEF f
  <2>4. IssuersTyped'
    BY <1>4, <1>5, <2>1, <2>2, <2>3
  <2>5. RequestTyped'
    BY <1>1, <1>8 DEF AbortIssue, RequestTyped
  <2> QED
    BY <1>3, <2>4, <2>5 DEF TypesInv
<1>9. CASE RecordFailure(w)
  <2>1. IssuersTyped'
    BY <1>4, <1>5, <1>9 DEF RecordFailure
  <2>2. RequestTyped'
    <3>1. CASE ~StillDue(w)
      BY <1>1, <1>9, <3>1 DEF RecordFailure, RequestTyped
    <3>2. CASE StillDue(w)
      <4>1. PICK attempt : attempt = request.attemptCount + 1
        OBVIOUS
      <4>2. /\ request.attemptCount \in 0..MaximumAttempts /\ request.attemptCount < MaximumAttempts
            /\ MaximumAttempts \in Nat /\ issuer[w].now \in Nat
        BY <1>1, <1>9, <3>2, TicketConstants DEF RequestTyped, StillDue, IssuersTyped, RecordFailure
      <4>3. attempt \in 1..MaximumAttempts /\ attempt \in Nat /\ attempt >= 1
        BY <4>1, <4>2
      <4>4. PICK b \in Nat : b = calculateBackoff(attempt)
        BY <4>3, BackoffIsBounded, TicketConstants
      <4>5. PICK a \in Nat : a = issuer[w].now + b
        BY <4>2, <4>4
      <4>6. request' = [status |-> IF attempt >= MaximumAttempts THEN "DEAD_LETTER" ELSE "PENDING",
                        attemptCount |-> attempt, availableAt |-> a]
        BY <1>9, <3>2, <4>1, <4>4, <4>5 DEF RecordFailure
      <4> QED
        BY <4>2, <4>3, <4>6 DEF RequestTyped
    <3> QED
      BY <3>1, <3>2
  <2> QED
    BY <1>3, <2>1, <2>2 DEF TypesInv
<1> QED
  BY <1>6, <1>7, <1>8, <1>9 DEF Issue

\* The other steps.
LEMMA RestTypes ==
  ASSUME TicketsInv, TypesInv, [TicketsNext]_ticketVars, \A w \in Issuers : ~Issue(w)
  PROVE  TypesInv'
<1>1. RequestTyped /\ IssuersTyped /\ RestTyped /\ RowsTyped /\ WorkTyped
  BY DEF TypesInv, TicketsInv
<1>2. ASSUME UNCHANGED <<request, issuer>>, RestTyped'
      PROVE  TypesInv'
  BY <1>1, <1>2 DEF TypesInv, RequestTyped, IssuersTyped
<1>3. ASSUME NEW k \in Scans, ScanTicket(k)
      PROVE  TypesInv'
  <2>1. /\ UNCHANGED <<request, issuer>>
        /\ UNCHANGED <<bookingStatus, refundedSeats, sessionStatus, time>>
    BY <1>3 DEF ScanTicket, RejectScan, LockCredential, CommitScan, AbortScan, ticketRows
  <2>2. ASSUME NEW r, redemption' = [redemption EXCEPT ![k] = r], r.outcome \in EntryOutcomes
        PROVE  TypesInv'
    BY <1>1, <1>2, <2>1, <2>2 DEF RestTyped, RowsTyped
  <2>3. ASSUME NEW o \in {"INVALID", "UNAUTHORIZED_SCANNER"}, RejectScan(k, o)
        PROVE  TypesInv'
    <3>1. redemption' = [redemption EXCEPT ![k] = [outcome |-> o]] /\ [outcome |-> o].outcome \in EntryOutcomes
      BY <2>3 DEF RejectScan, EntryOutcomes
    <3> QED
      BY <2>2, <3>1
  <2>4. ASSUME CommitScan(k)
        PROVE  TypesInv'
    <3>1. PICK o \in EntryOutcomes : o = ScanOutcome(scan[k].seat, scan[k].version, scan[k].here, scan[k].now)
      BY OutcomesTyped
    <3> DEFINE r == [outcome |-> o, seat |-> scan[k].seat, version |-> scan[k].version]
    <3>2. redemption' = [redemption EXCEPT ![k] = r]
      BY <2>4, <3>1 DEF CommitScan
    <3>3. r.outcome \in EntryOutcomes
      OBVIOUS
    <3> HIDE DEF r
    <3> QED
      BY <2>2, <3>2, <3>3
  <2>5. ASSUME UNCHANGED redemption
        PROVE  TypesInv'
    BY <1>1, <1>2, <2>1, <2>5 DEF RestTyped
  <2>6. \/ UNCHANGED redemption \/ CommitScan(k)
        \/ \E o \in {"INVALID", "UNAUTHORIZED_SCANNER"} : RejectScan(k, o)
    BY <1>3 DEF ScanTicket, LockCredential, AbortScan, ticketRows
  <2> QED
    BY <2>3, <2>4, <2>5, <2>6
<1>4. CASE Manage
  BY <1>1, <1>2, <1>4 DEF Manage, StartStaff, StaffLocksCredential, CommitRotate, CommitRevoke, AbortStaff,
     ticketRows, RestTyped
<1>5. CASE Settle
  <2>1. CASE CommitSettle
    <3>1. settling # NoSettle
      BY <2>1 DEF CommitSettle, NoSettle
    <3>2. settling.seats \subseteq BookedSeats
      BY <1>1, <3>1 DEF WorkTyped, SettleRow
    <3> QED
      BY <1>1, <1>2, <2>1, <3>2 DEF CommitSettle, RestTyped
  <2> QED
    BY <1>1, <1>2, <1>5, <2>1 DEF Settle, StartSettle, SettleCredentials, SettleAfterWait, AbortSettle,
       ticketRows, RestTyped
<1>6. CASE RetryDeadLetter
  <2>1. request' = [status |-> "PENDING", attemptCount |-> 0, availableAt |-> time] /\ time \in Nat
    BY <1>1, <1>6, TicketConstants DEF RetryDeadLetter, RestTyped
  <2>2. RequestTyped'
    BY <2>1, TicketConstants DEF RequestTyped
  <2> QED
    BY <1>1, <1>6, <2>2 DEF RetryDeadLetter, ticketRows, TypesInv, IssuersTyped, RestTyped
<1>7. CASE CancelSessionOfTickets
  BY <1>1, <1>2, <1>7 DEF CancelSessionOfTickets, ticketRows, RestTyped
<1>8. CASE TicketTime
  BY <1>1, <1>2, <1>8, TicketConstants DEF TicketTime, ticketRows, RestTyped
<1>9. CASE UNCHANGED ticketVars
  BY <1>1, <1>2, <1>9 DEF ticketVars, ticketRows, RestTyped
<1> QED
  BY <1>3, <1>4, <1>5, <1>6, <1>7, <1>8, <1>9 DEF TicketsNext

\* Every table of issuance and entry keeps its type; in particular a request
\* that may still be tried has an attempt left, so its count stays in range.
THEOREM TicketTypes == TicketsSpec => []TicketsTypeOK
<1>1. TicketsInit => TicketsInv
  BY TicketsStart
<1>2. TicketsInv /\ [TicketsNext]_ticketVars => TicketsInv'
  BY TicketsStep
<1>3. TicketsInit => TypesInv
  <2> SUFFICES ASSUME TicketsInit
               PROVE  TypesInv
    OBVIOUS
  <2>1. NoIssue.phase = "idle" /\ NotScanned.outcome = "NONE"
    BY DEF NoIssue, NotScanned
  <2>2. RequestTyped
    BY TicketConstants DEF TicketsInit, RequestTyped
  <2>3. IssuersTyped
    BY <2>1 DEF TicketsInit, IssuersTyped
  <2>4. RestTyped
    BY <2>1, TicketConstants DEF TicketsInit, RestTyped
  <2> QED
    BY <2>2, <2>3, <2>4 DEF TypesInv
<1>4. TicketsInv /\ TypesInv /\ [TicketsNext]_ticketVars => TypesInv'
  BY IssueTypes, RestTypes
<1>5. TicketsInv /\ TypesInv => TicketsTypeOK
  <2> SUFFICES ASSUME TicketsInv, TypesInv
               PROVE  TicketsTypeOK
    OBVIOUS
  <2>1. RowsTyped /\ WorkTyped /\ RequestTyped /\ IssuersTyped /\ RestTyped
    BY DEF TicketsInv, TypesInv
  <2>2. \A k \in Scans : scan[k].phase \in {"idle", "locked"}
    BY <2>1 DEF WorkTyped, ScanRow, NoScan
  <2>3. staff.phase \in {"idle", "ticket", "both"}
    BY <2>1 DEF WorkTyped, StaffRow, NoStaff
  <2>4. settling.phase \in {"idle", "read", "waiting", "revoking"}
    BY <2>1 DEF WorkTyped, SettleRow, NoSettle
  <2> QED
    BY <2>1, <2>2, <2>3, <2>4 DEF TicketsTypeOK, RowsTyped, RequestTyped, IssuersTyped, RestTyped,
       CredentialStatus, TicketStatus
<1> QED
  BY <1>1, <1>2, <1>3, <1>4, <1>5, PTL DEF TicketsSpec
=============================================================================
