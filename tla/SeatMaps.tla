------------------------------- MODULE SeatMaps -------------------------------
(***************************************************************************)
(* The venue, the space and the versions of its seat map: drafting a       *)
(* layout, publishing it, and cloning the published version.               *)
(*                                                                         *)
(* Most edits are SERIALIZABLE transactions that check the status of the   *)
(* map again, so each is one step, and a publication that has read the     *)
(* layout before is undone and starts over.  Deletions are single          *)
(* statements under READ COMMITTED: a check by the application, a check by *)
(* a trigger, and the commit, of which a publication takes no notice.      *)
(* Sections, rows and seats go by their codes and labels.  The sequences   *)
(* stand for displayOrder; names, and the renaming of sections, rows and   *)
(* seats, are left out.                                                    *)
(***************************************************************************)
EXTENDS Integers, Sequences, FiniteSets, FiniteSetsExt

CONSTANTS
  MaxMapVersions,  \* bound: versions of the map
  SectionCodes, RowCount, LabelCount,   \* codes, row labels 1.. and seat labels 1..
  SeatKinds,       \* subset of STANDARD, ACCESSIBLE, COMPANION
  Editors,         \* deletions that may be in flight at once
  MaximumSections, MaximumRowsPerSection, MaximumSeatsPerRow, MaximumSeatsPerMap,
  MaximumCoordinate, MaximumSpacing     \* SEAT_MAP_LIMITS

ASSUME SeatMapConstants ==
  /\ {MaxMapVersions, RowCount, LabelCount, MaximumSections, MaximumRowsPerSection, MaximumSeatsPerRow,
      MaximumSeatsPerMap, MaximumCoordinate, MaximumSpacing} \subseteq Nat
  /\ SeatKinds \subseteq {"STANDARD", "ACCESSIBLE", "COMPANION"} /\ "STANDARD" \in SeatKinds

VARIABLES
  place,       \* Venue.status and Space.status
  placeWrites, \* updates of their status that have passed their check
  mapStatus,   \* SeatMap.status of each version
  mapSource,   \* SeatMap.sourceSeatMapId
  layout,      \* sections, rows and seats of each version
  editing,     \* deletions in flight
  publishing   \* publications in flight

placeVars == <<place, placeWrites>>
seatMapVars == <<placeVars, mapStatus, mapSource, layout, editing, publishing>>

-----------------------------------------------------------------------------
MapVersions == 1..MaxMapVersions
RowLabels == 1..RowCount
LabelsOfSeats == 1..LabelCount
Coordinates == 0..MaximumCoordinate
Places == {"venue", "space"}
InUse == {"DRAFT", "ACTIVE"}
NoEdit == [phase |-> "idle"]
NoPublication == [phase |-> "idle"]
EmptyLayout == [sections |-> <<>>, rows |-> [c \in SectionCodes |-> <<>>], seats |-> {}]
SeatRecords == [section : SectionCodes, row : RowLabels, label : LabelsOfSeats,
                x : Coordinates, y : Coordinates, kind : SeatKinds]

Elements(s) == {s[i] : i \in 1..Len(s)}
Position(s, e) == CHOOSE i \in 1..Len(s) : s[i] = e
Without(s, e) == SubSeq(s, 1, Position(s, e) - 1) \o SubSeq(s, Position(s, e) + 1, Len(s))

SeatMapsTypeOK ==
  /\ place \in [Places -> InUse \cup {"NONE", "ARCHIVED"}]
  /\ placeWrites \subseteq Places \X (InUse \cup {"ARCHIVED"})
  /\ mapStatus \in [MapVersions -> {"NONE", "DRAFT", "PUBLISHED", "ARCHIVED"}]
  /\ \A v \in MapVersions :
       /\ mapSource[v] \in 0..(v - 1)
       /\ layout[v].sections \in Seq(SectionCodes) /\ layout[v].rows \in [SectionCodes -> Seq(RowLabels)]
       /\ layout[v].seats \subseteq SeatRecords
  /\ \A w \in Editors : editing[w].phase \in {"idle", "checked", "written"}

SeatMapsInit ==
  /\ place = [p \in Places |-> "NONE"] /\ placeWrites = {}
  /\ mapStatus = [v \in MapVersions |-> "NONE"] /\ mapSource = [v \in MapVersions |-> 0]
  /\ layout = [v \in MapVersions |-> EmptyLayout]
  /\ editing = [w \in Editors |-> NoEdit]
  /\ publishing = [v \in MapVersions |-> NoPublication]

-----------------------------------------------------------------------------
(* Venue and space *)

OnlyPlaces == UNCHANGED <<mapStatus, mapSource, layout, editing, publishing>>
VenueAllows(p) == p = "space" => place["venue"] \in InUse

CreatePlace(p, st) ==
  /\ place[p] = "NONE" /\ VenueAllows(p) /\ st \in InUse
  /\ place' = [place EXCEPT ![p] = st]
  /\ UNCHANGED placeWrites /\ OnlyPlaces

\* update, archive and restore check the status they read and write later, without a
\* condition on it.
AskPlace(p, st) ==
  /\ VenueAllows(p)
  /\ \/ place[p] \in InUse
     \/ place[p] = "ARCHIVED" /\ st = "ACTIVE"
  /\ placeWrites' = placeWrites \cup {<<p, st>>}
  /\ UNCHANGED place /\ OnlyPlaces
WritePlace(p, st) ==
  /\ <<p, st>> \in placeWrites /\ placeWrites' = placeWrites \ {<<p, st>>}
  /\ place' = [place EXCEPT ![p] = st]
  /\ OnlyPlaces

-----------------------------------------------------------------------------
(* Versions *)

hasOperationalParents == \A p \in Places : place[p] \in InUse
canEditSeatMap(v) == mapStatus[v] = "DRAFT" /\ hasOperationalParents
NextMapVersion == 1 + Max({0} \cup {v \in MapVersions : mapStatus[v] # "NONE"})

\* The status of the space is checked before the transaction only.
createDraftSeatMap ==
  /\ place["space"] # "NONE" /\ NextMapVersion <= MaxMapVersions
  /\ mapStatus' = [mapStatus EXCEPT ![NextMapVersion] = "DRAFT"]
  /\ UNCHANGED <<placeVars, mapSource, layout, editing, publishing>>

clonePublishedSeatMap(v) ==
  /\ mapStatus[v] = "PUBLISHED" /\ hasOperationalParents /\ NextMapVersion <= MaxMapVersions
  /\ mapStatus' = [mapStatus EXCEPT ![NextMapVersion] = "DRAFT"]
  /\ mapSource' = [mapSource EXCEPT ![NextMapVersion] = v]
  /\ layout' = [layout EXCEPT ![NextMapVersion] = layout[v]]
  /\ UNCHANGED <<placeVars, editing, publishing>>

-----------------------------------------------------------------------------
(* Edits in a SERIALIZABLE transaction *)

SeatsOfRow(l, c, r) == {q \in l.seats : q.section = c /\ q.row = r}
SeatsOfSection(l, c) == {q \in l.seats : q.section = c}

\* The rest waits for a row that a deletion has locked, and then finds it gone.
BeingDeleted(v, target) == \E w \in Editors : editing[w].phase = "written" /\ editing[w].version = v
                                              /\ editing[w].target = target

\* The transaction and a publication that has read the layout conflict; the
\* publication is undone, and retried from its beginning.
Edit(v, new) ==
  /\ layout' = [layout EXCEPT ![v] = new]
  /\ publishing' = [publishing EXCEPT ![v] = NoPublication]
  /\ UNCHANGED <<placeVars, mapStatus, mapSource, editing>>

createSection(v, c) ==
  LET l == layout[v] IN
  /\ canEditSeatMap(v) /\ c \notin Elements(l.sections) /\ Len(l.sections) < MaximumSections
  /\ Edit(v, [l EXCEPT !.sections = Append(@, c)])

createRow(v, c, r) ==
  LET l == layout[v] IN
  /\ canEditSeatMap(v) /\ c \in Elements(l.sections) /\ ~BeingDeleted(v, <<c>>)
  /\ r \notin Elements(l.rows[c]) /\ Len(l.rows[c]) < MaximumRowsPerSection
  /\ Edit(v, [l EXCEPT !.rows[c] = Append(@, r)])

SpotIsFree(seats, q) == \A o \in seats : <<o.x, o.y>> # <<q.x, q.y>>

createSeat(v, q) ==
  LET l == layout[v] IN
  /\ canEditSeatMap(v)
  /\ q.row \in Elements(l.rows[q.section]) /\ ~BeingDeleted(v, <<q.section, q.row>>)
  /\ Cardinality(SeatsOfRow(l, q.section, q.row)) < MaximumSeatsPerRow
  /\ Cardinality(l.seats) < MaximumSeatsPerMap
  /\ SpotIsFree(SeatsOfSection(l, q.section), q)
  /\ \A o \in SeatsOfRow(l, q.section, q.row) : o.label # q.label
  /\ Edit(v, [l EXCEPT !.seats = @ \cup {q}])

updateSeat(v, old, q) ==
  LET l == layout[v] IN
  /\ canEditSeatMap(v) /\ old \in l.seats
  /\ <<q.section, q.row, q.label>> = <<old.section, old.row, old.label>>
  /\ ~BeingDeleted(v, <<old.section, old.row, old.label>>)
  /\ SpotIsFree(SeatsOfSection(l, q.section) \ {old}, q)
  /\ Edit(v, [l EXCEPT !.seats = (@ \ {old}) \cup {q}])

\* A mutant: the spacing below the last seat is forgotten.
FirstOnTheLastRow(l, c, vertical) == Max({0} \cup {q.y : q \in SeatsOfSection(l, c)})
\* Where the first generated row is drawn: below every seat of the section.
FirstFreeY(l, c, vertical) == Max({-vertical} \cup {q.y : q \in SeatsOfSection(l, c)}) + vertical

GeneratedSeats(c, first, rows, perRow, firstY, horizontal, vertical) ==
  {[section |-> c, row |-> first + i, label |-> j + 1, x |-> j * horizontal, y |-> firstY + i * vertical,
    kind |-> "STANDARD"] : i \in 0..(rows - 1), j \in 0..(perRow - 1)}

bulkGenerateRows(v, c, first, rows, perRow, horizontal, vertical) ==
  LET l == layout[v]  firstY == FirstFreeY(l, c, vertical) IN
  /\ canEditSeatMap(v) /\ c \in Elements(l.sections) /\ ~BeingDeleted(v, <<c>>)
  /\ first + rows - 1 <= RowCount /\ perRow <= LabelCount
  /\ (perRow - 1) * horizontal <= MaximumCoordinate
  /\ \A i \in 0..(rows - 1) : first + i \notin Elements(l.rows[c])
  /\ Len(l.rows[c]) + rows <= MaximumRowsPerSection
  /\ Cardinality(l.seats) + rows * perRow <= MaximumSeatsPerMap
  /\ firstY + (rows - 1) * vertical <= MaximumCoordinate
  /\ Edit(v, [l EXCEPT !.rows[c] = @ \o [i \in 1..rows |-> first + i - 1],
                       !.seats = @ \cup GeneratedSeats(c, first, rows, perRow, firstY, horizontal, vertical)])

Swapped(s, i) == [s EXCEPT ![i] = s[i + 1], ![i + 1] = s[i]]

\* Only the trigger looks at the status inside the transaction.
moveSection(v, i) ==
  /\ mapStatus[v] = "DRAFT" /\ i < Len(layout[v].sections)
  /\ \A c \in {layout[v].sections[i], layout[v].sections[i + 1]} : ~BeingDeleted(v, <<c>>)
  /\ Edit(v, [layout[v] EXCEPT !.sections = Swapped(@, i)])
moveRow(v, c, i) ==
  LET rows == layout[v].rows[c] IN
  /\ mapStatus[v] = "DRAFT" /\ i < Len(rows)
  /\ \A r \in {rows[i], rows[i + 1]} : ~BeingDeleted(v, <<c, r>>)
  /\ Edit(v, [layout[v] EXCEPT !.rows[c] = Swapped(@, i)])

-----------------------------------------------------------------------------
(* Deletions.  A target is a path: a section, a row or a seat. *)

Targets(l) ==
  {<<c>> : c \in Elements(l.sections)} \cup {<<q.section, q.row, q.label>> : q \in l.seats} \cup
  UNION {{<<c, r>> : r \in Elements(l.rows[c])} : c \in SectionCodes}

\* What hangs below the target.  Its cascade fails: the trigger of the child no longer
\* finds the parent, and so no draft.
IsLeaf(l, t) ==
  CASE Len(t) = 1 -> l.rows[t[1]] = <<>>
    [] Len(t) = 2 -> SeatsOfRow(l, t[1], t[2]) = {}
    [] OTHER -> TRUE
Removed(l, t) ==
  CASE Len(t) = 1 -> [l EXCEPT !.sections = Without(@, t[1])]
    [] Len(t) = 2 -> [l EXCEPT !.rows[t[1]] = Without(@, t[2])]
    [] OTHER -> [l EXCEPT !.seats = {q \in @ : <<q.section, q.row, q.label>> # t}]

OnlyEditing == UNCHANGED <<placeVars, mapStatus, mapSource, layout, publishing>>

CheckDelete(w, v, t) ==
  /\ editing[w] = NoEdit /\ canEditSeatMap(v) /\ t \in Targets(layout[v])
  /\ editing' = [editing EXCEPT ![w] = [phase |-> "checked", version |-> v, target |-> t]]
  /\ OnlyEditing

\* The statement has its row lock and has passed the trigger.
WriteDelete(w) ==
  LET v == editing[w].version  t == editing[w].target IN
  /\ editing[w].phase = "checked" /\ mapStatus[v] = "DRAFT"
  /\ t \in Targets(layout[v]) /\ IsLeaf(layout[v], t) /\ ~BeingDeleted(v, t)
  /\ editing' = [editing EXCEPT ![w].phase = "written"]
  /\ OnlyEditing

\* Other deletions of the same row find it gone.
CommitDelete(w) ==
  LET v == editing[w].version  t == editing[w].target IN
  /\ editing[w].phase = "written"
  /\ layout' = [layout EXCEPT ![v] = Removed(@, t)]
  /\ editing' = [o \in Editors |-> IF o = w \/ (editing[o] # NoEdit /\ editing[o].version = v
                                                /\ editing[o].target = t)
                                   THEN NoEdit ELSE editing[o]]
  /\ UNCHANGED <<placeVars, mapStatus, mapSource, publishing>>

AbortDelete(w) ==
  /\ editing[w] # NoEdit /\ editing' = [editing EXCEPT ![w] = NoEdit]
  /\ OnlyEditing

-----------------------------------------------------------------------------
(* Publication *)

validateSeatMapForPublication(l) ==
  /\ Len(l.sections) \in 1..MaximumSections /\ Cardinality(l.seats) \in 1..MaximumSeatsPerMap
  /\ \A c \in Elements(l.sections) :
       /\ Len(l.rows[c]) \in 1..MaximumRowsPerSection
       /\ \A q \in SeatsOfSection(l, c) : SpotIsFree(SeatsOfSection(l, c) \ {q}, q)
       /\ \A r \in Elements(l.rows[c]) :
            LET Of(kind) == Cardinality({q \in SeatsOfRow(l, c, r) : q.kind = kind}) IN
            /\ Cardinality(SeatsOfRow(l, c, r)) \in 1..MaximumSeatsPerRow
            /\ Of("COMPANION") <= Of("ACCESSIBLE")

\* The snapshot: the draft is valid, and these versions are published.
ReadForPublication(v) ==
  /\ canEditSeatMap(v) /\ validateSeatMapForPublication(layout[v])
  /\ publishing' = [publishing EXCEPT ![v] =
       [phase |-> "read", archives |-> {u \in MapVersions : mapStatus[u] = "PUBLISHED"}]]
  /\ UNCHANGED <<placeVars, mapStatus, mapSource, layout, editing>>

\* SeatMap_one_published_per_space_key.
OnePublishedPerSpace(v) ==
  \A u \in MapVersions \ {v} : mapStatus[u] = "PUBLISHED" => u \in publishing[v].archives

\* Rows another transaction has updated since the snapshot cannot be updated.
CommitPublication(v) ==
  /\ publishing[v].phase = "read" /\ mapStatus[v] = "DRAFT"
  /\ \A u \in publishing[v].archives : mapStatus[u] = "PUBLISHED"
  /\ OnePublishedPerSpace(v)
  /\ mapStatus' = [u \in MapVersions |-> IF u = v THEN "PUBLISHED"
                                         ELSE IF u \in publishing[v].archives THEN "ARCHIVED" ELSE mapStatus[u]]
  /\ publishing' = [publishing EXCEPT ![v] = NoPublication]
  /\ UNCHANGED <<placeVars, mapSource, layout, editing>>

AbortPublication(v) ==
  /\ publishing[v] # NoPublication /\ publishing' = [publishing EXCEPT ![v] = NoPublication]
  /\ UNCHANGED <<placeVars, mapStatus, mapSource, layout, editing>>

-----------------------------------------------------------------------------
EditDraft(v) ==
  \/ \E c \in SectionCodes : createSection(v, c)
  \/ \E c \in SectionCodes, r \in RowLabels : createRow(v, c, r)
  \/ \E q \in SeatRecords : createSeat(v, q) \/ \E old \in layout[v].seats : updateSeat(v, old, q)
  \/ \E c \in SectionCodes, first \in RowLabels, rows \in 1..RowCount, perRow \in 1..LabelCount,
        horizontal, vertical \in 1..MaximumSpacing : bulkGenerateRows(v, c, first, rows, perRow, horizontal, vertical)
  \/ \E i \in 1..MaximumSections : moveSection(v, i)
  \/ \E c \in SectionCodes, i \in 1..MaximumRowsPerSection : moveRow(v, c, i)

SeatMapsNext ==
  \/ \E p \in Places, st \in InUse \cup {"ARCHIVED"} : CreatePlace(p, st) \/ AskPlace(p, st) \/ WritePlace(p, st)
  \/ createDraftSeatMap
  \/ \E v \in MapVersions :
       \/ clonePublishedSeatMap(v) \/ EditDraft(v)
       \/ ReadForPublication(v) \/ CommitPublication(v) \/ AbortPublication(v)
       \/ \E w \in Editors, t \in Targets(layout[v]) : CheckDelete(w, v, t)
  \/ \E w \in Editors : WriteDelete(w) \/ CommitDelete(w) \/ AbortDelete(w)
SeatMapsSpec == SeatMapsInit /\ [][SeatMapsNext]_seatMapVars

-----------------------------------------------------------------------------
\* A row is in a section that is there, and a seat in a row that is there, although a
\* deletion checks that nothing hangs below its target in one step and commits in another.
NothingHangsLoose ==
  \A v \in MapVersions :
    /\ \A c \in SectionCodes : layout[v].rows[c] # <<>> => c \in Elements(layout[v].sections)
    /\ \A q \in layout[v].seats : q.row \in Elements(layout[v].rows[q.section])

\* No two seats of a section are drawn at one spot, whether they were created one by
\* one, moved, generated in bulk below others or cloned.
SpotsAreDistinct ==
  \A v \in MapVersions : \A a, b \in layout[v].seats :
    a # b /\ a.section = b.section => <<a.x, a.y>> # <<b.x, b.y>>

\* What the operations guide says of a published version: its layout passed the
\* validation and does not change.  A deletion whose trigger saw a draft commits after it.
PublishedLayoutIsValid ==
  \A v \in MapVersions : mapStatus[v] = "PUBLISHED" => validateSeatMapForPublication(layout[v])
=============================================================================
