----------------------------- MODULE Notifications -----------------------------
(***************************************************************************)
(* The notification outbox: dispatchers that claim the oldest due row with *)
(* FOR UPDATE SKIP LOCKED, create a download grant, call the mail provider *)
(* inside the transaction and record the attempt, and the single-use       *)
(* grants the mail links to.                                               *)
(*                                                                         *)
(* The provider keeps what it accepted when the transaction rolls back.    *)
(* Its idempotency key and the grant's token are derived from the row and  *)
(* the number of the attempt, so the pair stands for both.  A backoff is   *)
(* over when MakeDue says so; the grant's lifetime when ExpireGrant does.  *)
(***************************************************************************)
EXTENDS Integers, FiniteSets, FiniteSetsExt

CONSTANTS
  NoticeCount,      \* rows of NotificationOutbox, in order of creation
  MailDispatchers,  \* processes that dispatch notifications
  Downloads,        \* download requests
  MaxDeliveries     \* NOTIFICATION_DISPATCH_MAX_ATTEMPTS

ASSUME NotificationConstants == NoticeCount \in Nat /\ MaxDeliveries \in Nat \ {0}

VARIABLES
  notice,        \* NotificationOutbox
  mailBooking,   \* Booking.status of the booking each notice is about
  mailTx,        \* transaction of each dispatcher
  mailbox,       \* idempotency keys under which the provider sent a mail
  delivery,      \* NotificationDeliveryAttempt
  grant,         \* TicketDownloadGrant of each key
  download,      \* download requests in flight
  served         \* <<download, grant>> of every PDF handed out

mailVars == <<notice, mailBooking, mailTx, mailbox, delivery, grant, download, served>>
grantVars == <<grant, download, served>>

-----------------------------------------------------------------------------
Notices == 1..NoticeCount
DeliveryKeys == Notices \X (1..MaxDeliveries)
SendResults == {"SUCCEEDED", "RETRYABLE_FAILURE", "PERMANENT_FAILURE", "TIMEOUT"}
NoNotice == [status |-> "NONE", attemptCount |-> 0, due |-> FALSE]
NoMailTx == [phase |-> "idle"]
NoDownload == [phase |-> "idle"]

NotificationsTypeOK ==
  /\ notice \in [Notices -> [status : {"NONE", "PENDING", "PROCESSED", "DEAD_LETTER"},
                             attemptCount : 0..MaxDeliveries, due : BOOLEAN]]
  /\ mailBooking \in [Notices -> {"CONFIRMED", "REFUNDED"}]
  /\ \A w \in MailDispatchers : mailTx[w].phase \in {"idle", "claimed", "sent"}
  /\ mailbox \subseteq DeliveryKeys /\ served \subseteq Downloads \X DeliveryKeys
  /\ delivery \subseteq [key : DeliveryKeys, status : SendResults]
  /\ grant \in [DeliveryKeys -> {"NONE", "USABLE", "USED", "EXPIRED"}]

NotificationsInit ==
  /\ notice = [n \in Notices |-> NoNotice]
  /\ mailBooking = [n \in Notices |-> "CONFIRMED"]
  /\ mailTx = [w \in MailDispatchers |-> NoMailTx]
  /\ mailbox = {} /\ delivery = {}
  /\ grant = [k \in DeliveryKeys |-> "NONE"]
  /\ download = [d \in Downloads |-> NoDownload] /\ served = {}

-----------------------------------------------------------------------------
\* Ticket operations insert a row together with their own change.
EnqueueNotice(n) ==
  /\ notice[n] = NoNotice /\ \A m \in 1..(n - 1) : notice[m] # NoNotice
  /\ mailBooking[n] = "CONFIRMED"
  /\ notice' = [notice EXCEPT ![n] = [status |-> "PENDING", attemptCount |-> 0, due |-> TRUE]]
  /\ UNCHANGED <<mailBooking, mailTx, mailbox, delivery, grantVars>>

\* A refund of the whole booking settles.
RefundNotifiedBooking(n) ==
  /\ notice[n] # NoNotice /\ mailBooking[n] = "CONFIRMED"
  /\ mailBooking' = [mailBooking EXCEPT ![n] = "REFUNDED"]
  /\ UNCHANGED <<notice, mailTx, mailbox, delivery, grantVars>>

RowLocked(n) == \E w \in MailDispatchers : mailTx[w] # NoMailTx /\ mailTx[w].notice = n

DueUnlocked == {n \in Notices : notice[n].status = "PENDING" /\ notice[n].due /\ ~RowLocked(n)}

\* createBookingPdfGrant finds no CONFIRMED booking after a refund; the error it
\* leads to ends the transaction and the batch before anything is recorded.
ClaimNotice(w) ==
  /\ mailTx[w] = NoMailTx /\ DueUnlocked # {}
  /\ LET n == Min(DueUnlocked) IN
     /\ mailBooking[n] = "CONFIRMED"
     /\ mailTx' = [mailTx EXCEPT ![w] = [phase |-> "claimed", notice |-> n,
                                         attempt |-> notice[n].attemptCount + 1]]
  /\ UNCHANGED <<notice, mailBooking, mailbox, delivery, grantVars>>

KeyOf(w) == <<mailTx[w].notice, mailTx[w].attempt>>

\* The provider: a known key is not sent again; a mail may be out although the
\* answer is lost.
SendMail(w, result, accepted) ==
  /\ mailTx[w].phase = "claimed"
  /\ result = "SUCCEEDED" => accepted
  /\ result \in {"RETRYABLE_FAILURE", "PERMANENT_FAILURE"} => ~accepted
  /\ mailbox' = IF accepted THEN mailbox \cup {KeyOf(w)} ELSE mailbox
  /\ mailTx' = [mailTx EXCEPT ![w] = [phase |-> "sent", notice |-> @.notice,
                                      attempt |-> @.attempt, result |-> result]]
  /\ UNCHANGED <<notice, mailBooking, delivery, grantVars>>

\* A mutant: only a permanent failure ends the retries.
NeverExhausted(result, attempt) == result = "PERMANENT_FAILURE"
shouldDeadLetterNotification(result, attempt) ==
  result = "PERMANENT_FAILURE" \/ attempt >= MaxDeliveries

NoticeAfter(result, attempt) ==
  [status |-> IF result = "SUCCEEDED" THEN "PROCESSED"
              ELSE IF shouldDeadLetterNotification(result, attempt) THEN "DEAD_LETTER" ELSE "PENDING",
   attemptCount |-> attempt, due |-> FALSE]

\* NotificationOutbox_protect_identity.
TerminalNoticeStands(n) == notice[n].status \notin {"PROCESSED", "DEAD_LETTER"}

\* tokenHash and the attempt's number are unique.
CommitNotice(w) ==
  LET n == mailTx[w].notice  result == mailTx[w].result  attempt == mailTx[w].attempt IN
  /\ mailTx[w].phase = "sent" /\ TerminalNoticeStands(n) /\ grant[KeyOf(w)] = "NONE"
  /\ notice' = [notice EXCEPT ![n] = NoticeAfter(result, attempt)]
  /\ delivery' = delivery \cup {[key |-> KeyOf(w), status |-> result]}
  /\ grant' = [grant EXCEPT ![KeyOf(w)] = "USABLE"]
  /\ mailTx' = [mailTx EXCEPT ![w] = NoMailTx]
  /\ UNCHANGED <<mailBooking, mailbox, download, served>>

\* The transaction times out or its process dies, also after the provider's answer.
AbortNotice(w) ==
  /\ mailTx[w] # NoMailTx /\ mailTx' = [mailTx EXCEPT ![w] = NoMailTx]
  /\ UNCHANGED <<notice, mailBooking, mailbox, delivery, grantVars>>

\* The backoff elapses, or retryPendingNotifications or retrySafeNotificationFailures
\* makes the row available; dead letters are left alone.
MakeDue(n) ==
  /\ notice[n].status = "PENDING" /\ ~notice[n].due /\ ~RowLocked(n)
  /\ notice' = [notice EXCEPT ![n].due = TRUE]
  /\ UNCHANGED <<mailBooking, mailTx, mailbox, delivery, grantVars>>

-----------------------------------------------------------------------------
GrantUnlocked(k) == \A d \in Downloads : download[d] # NoDownload => download[d].key # k

\* consumeBookingPdfGrant: the grant is judged under its lock, the PDF rendered,
\* and the grant marked as the transaction commits.
LockGrant(d, k) ==
  /\ download[d] = NoDownload /\ GrantUnlocked(k)
  /\ grant[k] = "USABLE" /\ mailBooking[k[1]] = "CONFIRMED"
  /\ download' = [download EXCEPT ![d] = [phase |-> "rendering", key |-> k]]
  /\ UNCHANGED <<notice, mailBooking, mailTx, mailbox, delivery, grant, served>>
CommitDownload(d) ==
  /\ download[d].phase = "rendering"
  /\ grant' = [grant EXCEPT ![download[d].key] = "USED"]
  /\ served' = served \cup {<<d, download[d].key>>}
  /\ download' = [download EXCEPT ![d] = [phase |-> "done", key |-> @.key]]
  /\ UNCHANGED <<notice, mailBooking, mailTx, mailbox, delivery>>
\* A dead process; a finished request lets go of its lock.
EndDownload(d) ==
  /\ download[d] # NoDownload /\ download' = [download EXCEPT ![d] = NoDownload]
  /\ UNCHANGED <<notice, mailBooking, mailTx, mailbox, delivery, grant, served>>
ExpireGrant(k) ==
  /\ grant[k] = "USABLE" /\ GrantUnlocked(k) /\ grant' = [grant EXCEPT ![k] = "EXPIRED"]
  /\ UNCHANGED <<notice, mailBooking, mailTx, mailbox, delivery, download, served>>

DispatchNotice(w) ==
  ClaimNotice(w) \/ CommitNotice(w) \/ \E result \in SendResults, accepted \in BOOLEAN : SendMail(w, result, accepted)

NotificationsNext ==
  \/ \E n \in Notices : EnqueueNotice(n) \/ RefundNotifiedBooking(n) \/ MakeDue(n)
  \/ \E w \in MailDispatchers : DispatchNotice(w) \/ AbortNotice(w)
  \/ \E d \in Downloads, k \in DeliveryKeys : LockGrant(d, k)
  \/ \E d \in Downloads : CommitDownload(d) \/ EndDownload(d)
  \/ \E k \in DeliveryKeys : ExpireGrant(k)

NotificationsSpec == NotificationsInit /\ [][NotificationsNext]_mailVars

-----------------------------------------------------------------------------
\* The attempts recorded for a notice are 1 up to its count, each once, and the
\* last of them explains its status, with any number of dispatchers and crashes.
DeliveryHistoryExplainsStatus ==
  \A n \in Notices :
    LET mine == {a \in delivery : a.key[1] = n}
        last == {a.status : a \in {x \in mine : x.key[2] = notice[n].attemptCount}}
    IN /\ {a.key[2] : a \in mine} = 1..notice[n].attemptCount
       /\ Cardinality(mine) = notice[n].attemptCount
       /\ notice[n].status = "PROCESSED" <=> last = {"SUCCEEDED"}
       /\ notice[n].status = "DEAD_LETTER" <=>
            last = {"PERMANENT_FAILURE"} \/ (notice[n].attemptCount = MaxDeliveries /\ last # {"SUCCEEDED"})

\* A link hands out the PDF once, although two requests for it overlap or one dies
\* while it renders, and what counts as delivered has left the provider
\* (consumeBookingPdfGrant, dispatchNotificationBatch).
LinkServesOnce ==
  /\ \A k \in DeliveryKeys :
       Cardinality({d \in Downloads : <<d, k>> \in served}) = (IF grant[k] = "USED" THEN 1 ELSE 0)
  /\ \A n \in Notices : notice[n].status = "PROCESSED" => <<n, notice[n].attemptCount>> \in mailbox

\* The mails and the links they carry.
NoticesAndLinksHold == DeliveryHistoryExplainsStatus /\ LinkServesOnce
=============================================================================
