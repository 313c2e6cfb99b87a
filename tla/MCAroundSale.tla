----------------------------- MODULE MCAroundSale -----------------------------
(* Instances for TLC of the modules around the sale that have no fairness: *)
(* Deployment, SeatMaps and Catalogue before it, RateLimit during it, and  *)
(* Tickets, Disputes and Notifications after it.  They share no variable,  *)
(* so a run explores their parts side by side: a focus is one part of one  *)
(* module, chosen in the initial state, that moves while the rest stands   *)
(* still.                                                                  *)
EXTENDS Deployment, SeatMaps, Catalogue, RateLimit, Tickets, Disputes, Notifications, TLC

CONSTANTS Foci,   \* the parts a run explores
          cs1, cs2, ca, cb, cc

VARIABLE focus

-----------------------------------------------------------------------------
(* SeatMaps *)

FirstSection == CHOOSE c \in SectionCodes : TRUE
PlacesReady == place = [p \in Places |-> "ACTIVE"] /\ placeWrites = {}
ReadyForMaps ==
  /\ PlacesReady
  /\ mapStatus = [v \in MapVersions |-> "NONE"] /\ mapSource = [v \in MapVersions |-> 0]
  /\ layout = [v \in MapVersions |-> EmptyLayout]
  /\ editing = [w \in Editors |-> NoEdit]
  /\ publishing = [v \in MapVersions |-> NoPublication]

\* Versions, publications and deletions around layouts of at most one seat; deletions
\* are over when there is a third version.
SmallLayouts ==
  /\ PlacesReady
  /\ mapStatus[3] # "NONE" => editing = [w \in Editors |-> NoEdit]
  /\ \A v \in MapVersions :
       /\ Elements(layout[v].sections) \subseteq {FirstSection}
       /\ Elements(layout[v].rows[FirstSection]) \subseteq {1}
       /\ \A q \in layout[v].seats : <<q.label, q.x, q.y, q.kind>> = <<1, 0, 0, "STANDARD">>
\* One draft, the seats of which are in one section.
OneDraft ==
  /\ PlacesReady /\ mapStatus[2] = "NONE" /\ mapStatus[1] \in {"NONE", "DRAFT"}
  /\ editing = [w \in Editors |-> NoEdit] /\ publishing[1] = NoPublication
  /\ \A q \in layout[1].seats : q.section = FirstSection

-----------------------------------------------------------------------------
(* Catalogue: the first map has two sections, the second another one. *)

SectionsOfMaps == <<{ca, cb}, {cc}>>
OneSeatEach == ca :> {"a1"} @@ cb :> {"b1"} @@ cc :> {"c1"}

\* A session has been drafted.
Drafted ==
  /\ access = TRUE /\ placeActive = TRUE /\ currentMap = 1
  /\ eventStatus = [is |-> "DRAFT", was |-> "NONE"]
  /\ eventSession = [s \in SessionIds |->
       IF s = cs1 THEN [status |-> "DRAFT", map |-> 1, slot |-> 1, publishedAt |-> "never"] ELSE NoSession]
  /\ tier = [t \in TierIds |-> NoTier] /\ tierWrite = [t \in TierIds |-> NoTierWrite]
  /\ assigned = [s \in SessionIds |-> [c \in AllSections |-> Unassigned]]
  /\ publication = [s \in SessionIds |-> NotPublishing]
  /\ stock = [s \in SessionIds |-> {}]

\* The prices of that session; the dearer price is in the first currency.
OneSessionPriced ==
  /\ access /\ placeActive /\ eventStatus.is = "DRAFT" /\ eventSession[cs2] = NoSession
  /\ \A t \in TierIds : tier[t].price = 2 => tier[t].currency = "EUR"
  /\ \A t \in TierIds : tierWrite[t].kind = "update" /\ tierWrite[t].price = 2 => tierWrite[t].currency = "EUR"
\* Everything else, with one tier at most.
OnePrice ==
  /\ tierWrite = [t \in TierIds |-> NoTierWrite]
  /\ Cardinality({t \in TierIds : tier[t] # NoTier}) <= 1
  /\ \A t \in TierIds : tier[t].currency # "USD" /\ tier[t].price < 2

-----------------------------------------------------------------------------
(* Tickets *)

DoorSeat == CHOOSE s \in BookedSeats : TRUE

\* Issuance is complete and every ticket has its first credential.
Issued ==
  /\ bookingStatus = "CONFIRMED" /\ refundedSeats = {} /\ sessionStatus = "PUBLISHED"
  /\ request = [status |-> "COMPLETED", attemptCount |-> 0, availableAt |-> 0]
  /\ issuer = [w \in Issuers |-> NoIssue]
  /\ ticketStatus = [s \in BookedSeats |-> "ACTIVE"]
  /\ credential = [s \in BookedSeats |-> [v \in Versions |-> IF v = 1 THEN "ACTIVE" ELSE "NONE"]]
  /\ redemption = [k \in Scans |-> NotScanned] /\ scan = [k \in Scans |-> NoScan]
  /\ staff = NoStaff /\ settling = NoSettle
  /\ notices = {<<"BOOKING_TICKETS_READY", "booking", 1>>}
  /\ audit = {<<"ISSUED", s, 1>> : s \in BookedSeats} /\ time = 0

\* Everyone meets at the ticket of one seat.
AtDoor ==
  /\ \A k \in Scans : scan[k] # NoScan => scan[k].seat = DoorSeat
  /\ staff # NoStaff => staff.seat = DoorSeat
  /\ settling # NoSettle => DoorSeat \in settling.seats

\* Issuers, staff and refunds, and nobody at the door yet.
BeforeDoor ==
  /\ scan = [k \in Scans |-> NoScan] /\ redemption = [k \in Scans |-> NotScanned]
  /\ staff # NoStaff => staff.seat = DoorSeat
  /\ sessionStatus = "PUBLISHED"
  /\ \A s \in BookedSeats, v \in Versions : v > 1 => credential[s][v] = "NONE"

-----------------------------------------------------------------------------
(* Disputes *)

\* Three events of one amount race to open, advance and contradict a dispute.
EventsRace ==
  /\ refundedTotal = 0 /\ ~bookingMade
  /\ \A e \in DisputeEvents : Received(e) => inbox[e].amount = 1 /\ inbox[e].status # "NEEDS_RESPONSE"
\* Two of them, of any amount, meet fulfilment, entry and refunds.
MoneyMoves ==
  /\ orderReview # "REFUND_REVIEW"
  /\ Cardinality({e \in DisputeEvents : Received(e)}) <= 2
  /\ \A e \in DisputeEvents : Received(e) => inbox[e].status \in {"OPEN", "WON", "LOST"}

-----------------------------------------------------------------------------
(* Notifications *)

MailOnly == download = [d \in Downloads |-> NoDownload] /\ \A k \in DeliveryKeys : grant[k] # "EXPIRED"
OneNotice == \A n \in 2..NoticeCount : notice[n] = NoNotice

-----------------------------------------------------------------------------
(* RateLimit *)

\* Requests have no identity of their own, so they start in one order.
StartInOrder == \A r, s \in LimitedCalls : r < s /\ call[r] = NewCall => call[s] = NewCall

-----------------------------------------------------------------------------
(* Deployment *)

\* Nothing is configured while another module moves.
Undeployed ==
  /\ hosted = <<>> /\ edits = 0 /\ day = 0
  /\ release = NotReleased /\ adapter = NoAdapter /\ answered = NoDelivery

\* Deliveries are answered once the process runs what is configured, and days
\* pass for an adapter that has a secret to retire.
OneRelease ==
  /\ hosted # release.config => answered = NoDelivery
  /\ day > 0 => release.running /\ Has(release.config, "STRIPE_WEBHOOK_SECRET_PREVIOUS")

-----------------------------------------------------------------------------
aroundVars == <<focus, deploymentVars, seatMapVars, catalogueVars, limitVars, ticketVars, disputeVars, mailVars>>

AroundSaleInit ==
  /\ focus \in Foci
  /\ IF focus = "release" THEN DeploymentInit ELSE Undeployed
  /\ IF focus \in {"maps", "layout"} THEN ReadyForMaps ELSE SeatMapsInit
  /\ IF focus = "calendar" THEN CatalogueInit ELSE Drafted
  /\ RateLimitInit /\ (focus # "budget" => failureMode = "fail_open")
  /\ IF focus = "issuance" THEN TicketsInit ELSE Issued
  /\ DisputesInit /\ NotificationsInit

ReleaseMoves ==
  DeploymentNext
    /\ UNCHANGED <<seatMapVars, catalogueVars, limitVars, ticketVars, disputeVars, mailVars>>
MapsMove == SeatMapsNext /\ UNCHANGED <<deploymentVars, catalogueVars, limitVars, ticketVars, disputeVars, mailVars>>
CatalogueMoves == CatalogueNext /\ UNCHANGED <<deploymentVars, seatMapVars, limitVars, ticketVars, disputeVars, mailVars>>
LimiterMoves == RateLimitNext /\ UNCHANGED <<deploymentVars, seatMapVars, catalogueVars, ticketVars, disputeVars, mailVars>>
TicketsMove == TicketsNext /\ UNCHANGED <<deploymentVars, seatMapVars, catalogueVars, limitVars, disputeVars, mailVars>>
DisputesMove == DisputesNext /\ UNCHANGED <<deploymentVars, seatMapVars, catalogueVars, limitVars, ticketVars, mailVars>>
MailMoves == NotificationsNext /\ UNCHANGED <<deploymentVars, seatMapVars, catalogueVars, limitVars, ticketVars, disputeVars>>

AroundSaleNext ==
  /\ UNCHANGED focus
  /\ \/ focus = "places"   /\ MapsMove       /\ layout' = layout
     \/ focus = "maps"     /\ MapsMove       /\ SmallLayouts'
     \/ focus = "layout"   /\ MapsMove       /\ OneDraft'
     \/ focus = "calendar" /\ CatalogueMoves /\ OnePrice'
     \/ focus = "pricing"  /\ CatalogueMoves /\ OneSessionPriced'
     \/ focus = "budget"   /\ LimiterMoves   /\ StartInOrder'
     \/ focus = "issuance" /\ TicketsMove    /\ BeforeDoor'
     \/ focus = "door"     /\ TicketsMove    /\ AtDoor'
     \/ focus = "order"    /\ DisputesMove   /\ EventsRace'
     \/ focus = "money"    /\ DisputesMove   /\ MoneyMoves'
     \/ focus = "mail"     /\ MailMoves      /\ MailOnly'
     \/ focus = "release"  /\ ReleaseMoves   /\ OneRelease'
     \/ focus = "pdf"      /\ MailMoves      /\ OneNotice'

AroundSaleSpec == AroundSaleInit /\ [][AroundSaleNext]_aroundVars

\* Scans and dispute events have no identity of their own.
Symmetric == Permutations(Scans) \cup Permutations(DisputeEvents)
=============================================================================
