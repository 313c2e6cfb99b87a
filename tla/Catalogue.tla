------------------------------- MODULE Catalogue -------------------------------
(***************************************************************************)
(* An event of an organizer and its sessions until they are on sale: venue *)
(* access, the draft of a session, price tiers, the assignment of tiers to *)
(* sections, and the publication that turns the seats of the map into      *)
(* inventory.                                                              *)
(*                                                                         *)
(* SERIALIZABLE transactions are one step; one that changes what a         *)
(* publication has read makes it start over.  Updates and deletions of a   *)
(* price tier are single statements under READ COMMITTED, which do not:    *)
(* the trigger on inventory reads the tier in the publication's snapshot,  *)
(* and the foreign key's lock passes over a committed update of a price or *)
(* a currency, so the publication commits what it has read.  A new code of *)
(* a tier, which is a key, aborts it.                                      *)
(* A map goes by its version; published maps do not change.  Whether a     *)
(* date is past only keeps a publication from happening.  Sales control of *)
(* published sessions is in SeatHolds.                                     *)
(***************************************************************************)
EXTENDS Integers, FiniteSets

CONSTANTS
  MapIds,       \* published versions of the space's map, 1..n
  SectionsOf,   \* sections of each map
  SellableIn,   \* ACTIVE seats of each section
  SessionIds,
  TimeSlots,    \* times a session can have; two sessions at one time overlap
  TierIds,
  PriceOptions, Currencies

ASSUME CatalogueConstants ==
  /\ MapIds \subseteq Nat \ {0} /\ 1 \in MapIds /\ PriceOptions \subseteq Nat
  /\ PriceOptions # {} /\ Currencies # {}
  /\ "NONE" \notin SessionIds /\ IsFiniteSet(TierIds)
  /\ \A m \in MapIds :
       /\ IsFiniteSet(SectionsOf[m]) /\ \A c \in SectionsOf[m] : IsFiniteSet(SellableIn[c])
       /\ \A c, d \in SectionsOf[m] : c # d => SellableIn[c] \cap SellableIn[d] = {}
  /\ \A m, n \in MapIds : m # n => SectionsOf[m] \cap SectionsOf[n] = {}

VARIABLES
  access,       \* an ACTIVE VenueAccessGrant exists
  placeActive,  \* venue and space are ACTIVE
  currentMap,   \* the version that is PUBLISHED
  eventStatus,  \* Event.status; an archived one with its preArchiveStatus
  eventSession, \* EventSession
  tier,         \* SessionPriceTier, and whether its updatedAt is later than its createdAt
  tierWrite,    \* statements on a tier that have passed its trigger
  assigned,     \* SessionSectionPricing: the tier of each section
  publication,  \* publications in flight
  stock         \* SessionSeatInventory of each session

catalogueVars == <<access, placeActive, currentMap, eventStatus, eventSession, tier, tierWrite,
                   assigned, publication, stock>>
venueSide == <<access, placeActive, currentMap>>

-----------------------------------------------------------------------------
NoSession == [status |-> "NONE", map |-> 0, slot |-> 0, publishedAt |-> "never"]
NoTier == [session |-> "NONE", price |-> 0, currency |-> "NONE", updated |-> FALSE]
NoTierWrite == [kind |-> "NONE"]
NotPublishing == [phase |-> "idle"]
Unassigned == "NONE"
AllSections == UNION {SectionsOf[m] : m \in MapIds}

TiersOf(s) == {t \in TierIds : tier[t].session = s}
SellableSeats(m) == UNION {SellableIn[c] : c \in SectionsOf[m]}

CatalogueTypeOK ==
  /\ currentMap \in MapIds /\ eventStatus \in [is : {"NONE", "DRAFT", "PUBLISHED", "CANCELLED", "ARCHIVED"},
                                               was : {"NONE", "DRAFT", "PUBLISHED", "CANCELLED"}]
  /\ \A s \in SessionIds : eventSession[s].status \in {"NONE", "DRAFT", "SCHEDULED", "ON_SALE", "CANCELLED"}
  /\ \A t \in TierIds : tier[t] # NoTier => tier[t] \in [session : SessionIds, price : PriceOptions, currency : Currencies,
                                                     updated : BOOLEAN]
  /\ \A s \in SessionIds, c \in AllSections : assigned[s][c] = Unassigned \/ tier[assigned[s][c]].session = s

\* A session published before there was any inventory, its sections at one price.
PublishedBefore(s, t) ==
  /\ access = TRUE /\ eventStatus = [is |-> "PUBLISHED", was |-> "NONE"]
  /\ eventSession = [o \in SessionIds |->
       IF o = s THEN [status |-> "ON_SALE", map |-> 1, slot |-> CHOOSE i \in TimeSlots : TRUE,
                      publishedAt |-> "before inventory"]
       ELSE NoSession]
  /\ tier = [u \in TierIds |->
       IF u = t THEN [session |-> s, price |-> CHOOSE p \in PriceOptions : TRUE, currency |-> CHOOSE c \in Currencies : TRUE,
                     updated |-> FALSE]
       ELSE NoTier]
  /\ assigned = [o \in SessionIds |-> [c \in AllSections |-> IF o = s /\ c \in SectionsOf[1] THEN t ELSE Unassigned]]
NoEvent ==
  /\ access = FALSE /\ eventStatus = [is |-> "NONE", was |-> "NONE"]
  /\ eventSession = [s \in SessionIds |-> NoSession]
  /\ tier = [t \in TierIds |-> NoTier]
  /\ assigned = [s \in SessionIds |-> [c \in AllSections |-> Unassigned]]

CatalogueInit ==
  /\ NoEvent \/ \E s \in SessionIds, t \in TierIds : PublishedBefore(s, t)
  /\ placeActive = TRUE /\ currentMap = 1
  /\ tierWrite = [t \in TierIds |-> NoTierWrite]
  /\ publication = [s \in SessionIds |-> NotPublishing]
  /\ stock = [s \in SessionIds |-> {}]

-----------------------------------------------------------------------------
(* The operator's side *)

OnlyVenueSide == UNCHANGED <<eventStatus, eventSession, tier, tierWrite, assigned, publication, stock>>

grantVenueAccess == ~access /\ access' = TRUE /\ OnlyVenueSide /\ UNCHANGED <<placeActive, currentMap>>
revokeVenueAccess == access /\ access' = FALSE /\ OnlyVenueSide /\ UNCHANGED <<placeActive, currentMap>>
\* SeatMaps, as far as sessions look at it.
PlaceChanges == placeActive' = ~placeActive /\ OnlyVenueSide /\ UNCHANGED <<access, currentMap>>
MapPublished ==
  /\ currentMap + 1 \in MapIds /\ currentMap' = currentMap + 1
  /\ OnlyVenueSide /\ UNCHANGED <<access, placeActive>>

-----------------------------------------------------------------------------
(* The event *)

OnlyEvent == UNCHANGED <<venueSide, tier, tierWrite, assigned, stock>>
SetEvent(st, was) == eventStatus' = [is |-> st, was |-> was]

createEvent ==
  /\ eventStatus.is = "NONE" /\ SetEvent("DRAFT", "NONE")
  /\ OnlyEvent /\ UNCHANGED <<eventSession, publication>>
\* The foreign key keeps a session from losing its event in between.
deleteEmptyDraftEvent ==
  /\ eventStatus.is = "DRAFT" /\ \A s \in SessionIds : eventSession[s] = NoSession
  /\ SetEvent("NONE", "NONE")
  /\ OnlyEvent /\ UNCHANGED <<eventSession, publication>>
\* Event_lifecycle_check refuses an archival that was decided on an older status.
archiveEvent ==
  /\ eventStatus.is \in {"DRAFT", "PUBLISHED", "CANCELLED"} /\ SetEvent("ARCHIVED", eventStatus.is)
  /\ OnlyEvent /\ UNCHANGED <<eventSession, publication>>
restoreEvent ==
  /\ eventStatus.is = "ARCHIVED" /\ eventStatus.was \in {"DRAFT", "PUBLISHED"} /\ SetEvent(eventStatus.was, "NONE")
  /\ OnlyEvent /\ UNCHANGED <<eventSession, publication>>

canCancel(st) == st \notin {"NONE", "CANCELLED"}
Cancelled(session) == [session EXCEPT !.status = "CANCELLED"]
cancelEvent ==
  /\ eventStatus.is \in {"DRAFT", "PUBLISHED"} /\ SetEvent("CANCELLED", "NONE")
  /\ eventSession' = [s \in SessionIds |-> IF canCancel(eventSession[s].status) THEN Cancelled(eventSession[s])
                                           ELSE eventSession[s]]
  /\ publication' = [s \in SessionIds |-> NotPublishing]
  /\ OnlyEvent
cancelEventSession(s) ==
  /\ canCancel(eventSession[s].status)
  /\ eventSession' = [eventSession EXCEPT ![s] = Cancelled(@)]
  /\ publication' = [publication EXCEPT ![s] = NotPublishing]
  /\ OnlyEvent /\ UNCHANGED eventStatus

-----------------------------------------------------------------------------
(* Drafts of sessions *)

EventOpen == eventStatus.is \in {"DRAFT", "PUBLISHED"}
\* loadAuthorizedConfiguration.
Authorized(m) == access /\ placeActive /\ m = currentMap
findConflict(s, slot) ==
  \E o \in SessionIds \ {s} : eventSession[o].status \notin {"NONE", "CANCELLED"} /\ eventSession[o].slot = slot

OnlySession(s) ==
  /\ publication' = [publication EXCEPT ![s] = NotPublishing]
  /\ UNCHANGED <<venueSide, eventStatus, tier, tierWrite, assigned, stock>>

createEventSession(s, slot) ==
  /\ eventSession[s] = NoSession /\ EventOpen /\ Authorized(currentMap) /\ ~findConflict(s, slot)
  /\ eventSession' = [eventSession EXCEPT ![s] = [status |-> "DRAFT", map |-> currentMap, slot |-> slot,
                                                  publishedAt |-> "never"]]
  /\ OnlySession(s)
\* The prices of sections stay as they are, also when the map is another one.
updateDraftEventSession(s, slot) ==
  /\ eventSession[s].status = "DRAFT" /\ EventOpen /\ Authorized(currentMap) /\ ~findConflict(s, slot)
  /\ eventSession' = [eventSession EXCEPT ![s].map = currentMap, ![s].slot = slot]
  /\ OnlySession(s)

-----------------------------------------------------------------------------
(* Pricing *)

\* SessionPriceTier_enforce_draft_and_currency, over what is committed.
TierTrigger(t, s, currency) ==
  /\ eventSession[s].status = "DRAFT"
  /\ \A u \in TiersOf(s) \ {t} : tier[u].currency = currency

createSessionPriceTier(t, s, price, currency) ==
  /\ tier[t] = NoTier /\ TierTrigger(t, s, currency)
  /\ tier' = [tier EXCEPT ![t] = [session |-> s, price |-> price, currency |-> currency, updated |-> FALSE]]
  /\ publication' = [publication EXCEPT ![s] = NotPublishing]
  /\ UNCHANGED <<venueSide, eventStatus, eventSession, tierWrite, assigned, stock>>

OnlyTierWrite == UNCHANGED <<venueSide, eventStatus, eventSession, assigned, publication, stock>>

\* The statement holds the tier's row and has passed the trigger; its request has
\* seen a draft before.
WriteTier(t, price, currency) ==
  /\ tier[t] # NoTier /\ tierWrite[t] = NoTierWrite /\ TierTrigger(t, tier[t].session, currency)
  /\ tierWrite' = [tierWrite EXCEPT ![t] = [kind |-> "update", price |-> price, currency |-> currency]]
  /\ UNCHANGED tier /\ OnlyTierWrite
DeleteTier(t) ==
  LET s == tier[t].session IN
  /\ tier[t] # NoTier /\ tierWrite[t] = NoTierWrite /\ eventSession[s].status = "DRAFT"
  /\ \A c \in AllSections : assigned[s][c] # t
  /\ tierWrite' = [tierWrite EXCEPT ![t] = [kind |-> "delete"]]
  /\ UNCHANGED tier /\ OnlyTierWrite
CommitTier(t) ==
  /\ tierWrite[t] # NoTierWrite /\ tierWrite' = [tierWrite EXCEPT ![t] = NoTierWrite]
  /\ tier' = [tier EXCEPT ![t] = IF tierWrite[t].kind = "delete" THEN NoTier
                                 ELSE [@ EXCEPT !.price = tierWrite[t].price, !.currency = tierWrite[t].currency,
                                                !.updated = TRUE]]
  /\ OnlyTierWrite
AbortTier(t) ==
  /\ tierWrite[t] # NoTierWrite /\ tierWrite' = [tierWrite EXCEPT ![t] = NoTierWrite]
  /\ UNCHANGED tier /\ OnlyTierWrite

\* All assignments of the session are replaced.  The key of a tier that is being
\* deleted cannot be referred to.
assignSessionSectionPricing(s, f) ==
  /\ eventSession[s].status = "DRAFT"
  /\ \A c \in AllSections : f[c] # Unassigned =>
       c \in SectionsOf[eventSession[s].map] /\ f[c] \in TiersOf(s) /\ tierWrite[f[c]].kind # "delete"
  /\ assigned' = [assigned EXCEPT ![s] = f]
  /\ publication' = [publication EXCEPT ![s] = NotPublishing]
  /\ UNCHANGED <<venueSide, eventStatus, eventSession, tier, tierWrite, stock>>

\* calculatePricingCoverage finds no issue.
calculatePricingCoverage(s) ==
  LET m == eventSession[s].map IN
  /\ \A c \in AllSections : assigned[s][c] # Unassigned => c \in SectionsOf[m]
  /\ \A c \in SectionsOf[m] : SellableIn[c] # {} => assigned[s][c] # Unassigned
  /\ Cardinality({tier[t].currency : t \in TiersOf(s)}) <= 1

Covered(s) == calculatePricingCoverage(s) /\ SellableSeats(eventSession[s].map) # {} /\ TiersOf(s) # {}

\* A mutant: the first tier of the session prices every row.
RowsAtTheFirstPrice(s) ==
  LET first == CHOOSE t \in TiersOf(s) : TRUE IN
  UNION {{[seat |-> q, tier |-> assigned[s][c], price |-> tier[first].price, currency |-> tier[first].currency] :
          q \in SellableIn[c]} : c \in {d \in SectionsOf[eventSession[s].map] : assigned[s][d] # Unassigned}}
computeSessionInventoryRows(s) ==
  UNION {{[seat |-> q, tier |-> assigned[s][c], price |-> tier[assigned[s][c]].price,
           currency |-> tier[assigned[s][c]].currency] : q \in SellableIn[c]} :
         c \in {d \in SectionsOf[eventSession[s].map] : assigned[s][d] # Unassigned}}

-----------------------------------------------------------------------------
(* Publication *)

\* The snapshot passes every check.
ReadForSale(s) ==
  /\ eventSession[s].status = "DRAFT" /\ publication[s] = NotPublishing /\ EventOpen
  /\ Authorized(eventSession[s].map) /\ Covered(s) /\ ~findConflict(s, eventSession[s].slot)
  /\ publication' = [publication EXCEPT ![s] = [phase |-> "read", rows |-> computeSessionInventoryRows(s)]]
  /\ UNCHANGED <<venueSide, eventStatus, eventSession, tier, tierWrite, assigned, stock>>

\* The rows go in as they were computed, whatever has become of the tiers since.
CommitSale(s, st) ==
  /\ publication[s].phase = "read"
  /\ eventSession' = [eventSession EXCEPT ![s].status = st, ![s].publishedAt = "with inventory"]
  /\ stock' = [stock EXCEPT ![s] = publication[s].rows]
  /\ publication' = [publication EXCEPT ![s] = NotPublishing]
  /\ UNCHANGED <<venueSide, eventStatus, tier, tierWrite, assigned>>
AbortSale(s) ==
  /\ publication[s] # NotPublishing /\ publication' = [publication EXCEPT ![s] = NotPublishing]
  /\ UNCHANGED <<venueSide, eventStatus, eventSession, tier, tierWrite, assigned, stock>>

OnSale(s) == eventSession[s].status \in {"SCHEDULED", "ON_SALE"} /\ eventSession[s].publishedAt # "never"
publishEvent ==
  /\ eventStatus.is = "DRAFT" /\ \E s \in SessionIds : OnSale(s) /\ Covered(s)
  /\ SetEvent("PUBLISHED", "NONE")
  /\ OnlyEvent /\ UNCHANGED <<eventSession, publication>>

\* backfillPublishedSessionInventory: only a session without any inventory gets it.
BackfillInventory(s) ==
  /\ OnSale(s) /\ eventStatus.is = "PUBLISHED" /\ Covered(s) /\ stock[s] = {}
  /\ stock' = [stock EXCEPT ![s] = computeSessionInventoryRows(s)]
  /\ UNCHANGED <<venueSide, eventStatus, eventSession, tier, tierWrite, assigned, publication>>

-----------------------------------------------------------------------------
ManageTier(t) ==
  \/ \E s \in SessionIds, p \in PriceOptions, c \in Currencies : createSessionPriceTier(t, s, p, c)
  \/ \E p \in PriceOptions, c \in Currencies : WriteTier(t, p, c)
  \/ DeleteTier(t) \/ CommitTier(t) \/ AbortTier(t)

ManageSession(s) ==
  \/ \E slot \in TimeSlots : createEventSession(s, slot) \/ updateDraftEventSession(s, slot)
  \/ \E f \in [AllSections -> TierIds \cup {Unassigned}] : assignSessionSectionPricing(s, f)
  \/ cancelEventSession(s) \/ ReadForSale(s) \/ AbortSale(s) \/ BackfillInventory(s)
  \/ \E st \in {"SCHEDULED", "ON_SALE"} : CommitSale(s, st)

CatalogueNext ==
  \/ grantVenueAccess \/ revokeVenueAccess \/ PlaceChanges \/ MapPublished
  \/ createEvent \/ deleteEmptyDraftEvent \/ archiveEvent \/ restoreEvent \/ cancelEvent \/ publishEvent
  \/ \E t \in TierIds : ManageTier(t)
  \/ \E s \in SessionIds : ManageSession(s)
CatalogueSpec == CatalogueInit /\ [][CatalogueNext]_catalogueVars

-----------------------------------------------------------------------------
\* A published session has a row of inventory for each sellable seat of its map and no
\* other, of the tier its section is assigned to, at the tier's own price unless the tier
\* was ever updated and then still at one price, and all rows in one currency, although
\* tiers, assignments and the map change until it commits and tiers also after; a session
\* that was published before there was inventory has none of it or all of it
\* (publishEventSession, ensureSessionInventory, backfillPublishedSessionInventory).
InventoryIsWhole ==
  \A s \in SessionIds : stock[s] # {} \/ eventSession[s].publishedAt = "with inventory" =>
    LET rows == stock[s]  m == eventSession[s].map IN
    /\ {r.seat : r \in rows} = SellableSeats(m) /\ Cardinality(rows) = Cardinality(SellableSeats(m))
    /\ \A r \in rows, c \in SectionsOf[m] : r.seat \in SellableIn[c] => assigned[s][c] = r.tier
    /\ \A q, r \in rows : q.tier = r.tier => q.price = r.price
    /\ Cardinality({r.currency : r \in rows}) = 1
    /\ \A r \in rows :
         ~tier[r.tier].updated => <<r.price, r.currency>> = <<tier[r.tier].price, tier[r.tier].currency>>
=============================================================================
