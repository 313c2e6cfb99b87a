--------------------------- MODULE BeforeSaleProofs ---------------------------
(***************************************************************************)
(* Theorems about what is settled before the first seat is sold: the seats *)
(* of a map (SeatMaps), the inventory of a published session (Catalogue),  *)
(* and what a process may become (Deployment).  They hold for any number   *)
(* of versions, sections, seats, sessions, tiers and days.                 *)
(***************************************************************************)
EXTENDS SeatMaps, Catalogue, Deployment, FiniteSetTheorems, WellFoundedInduction, TLAPS

-----------------------------------------------------------------------------
(* The largest of a bounded set of integers, where the first generated row *)
(* is drawn from.                                                          *)

\* A set of integers between two bounds that is not empty has a largest member, which is its Max.
LEMMA MaxIsTop ==
  ASSUME NEW M \in Int, NEW N \in Int, NEW S, S \subseteq M..N, S # {}
  PROVE  Max(S) \in S /\ \A y \in S : y <= Max(S)
<1> DEFINE T == {n \in Nat : \E x \in S : n = N - x}
<1>1. T \subseteq Nat /\ T # {}
  <2>1. PICK x \in S : TRUE
    OBVIOUS
  <2>2. N - x \in T
    BY <2>1
  <2> QED
    BY <2>2
<1>2. PICK n \in T : \A m \in T : ~(<<m, n>> \in OpToRel(<, Nat))
  BY <1>1, NatLessThanWellFounded, WFMin
<1>3. \A m \in T : ~(m < n)
  BY <1>2 DEF OpToRel
<1>4. PICK x \in S : n = N - x
  BY <1>2
<1>5. ASSUME NEW y \in S
      PROVE  x >= y
  <2>1. N - y \in T
    OBVIOUS
  <2>2. ~(N - y < n)
    BY <1>3, <2>1
  <2> QED
    BY <1>4, <2>2
<1>6. \E z \in S : \A y \in S : z >= y
  BY <1>5
<1>7. Max(S) \in S /\ \A y \in S : Max(S) >= y
  BY <1>6 DEF Max
<1> QED
  BY <1>7

\* The first generated row lies in the drawing and below every seat of its section.
LEMMA BelowEverySeat ==
  ASSUME NEW l, NEW c, NEW vertical \in Nat \ {0},
         \A q \in l.seats : q.y \in Coordinates
  PROVE  /\ FirstFreeY(l, c, vertical) \in Nat
         /\ \A q \in SeatsOfSection(l, c) : q.y < FirstFreeY(l, c, vertical)
<1>0. MaximumCoordinate \in Nat
  BY SeatMapConstants
<1>1. PICK S : S = {-vertical} \cup {q.y : q \in SeatsOfSection(l, c)}
  OBVIOUS
<1>2. \A q \in SeatsOfSection(l, c) : q.y \in 0..MaximumCoordinate
  BY DEF SeatsOfSection, Coordinates
<1>3. S \subseteq (-vertical)..MaximumCoordinate /\ S # {}
  BY <1>0, <1>1, <1>2
<1>4. -vertical \in Int
  OBVIOUS
<1>5. Max(S) \in S /\ \A y \in S : y <= Max(S)
  BY <1>0, <1>3, <1>4, MaxIsTop
<1>6. FirstFreeY(l, c, vertical) = Max(S) + vertical
  BY <1>1 DEF FirstFreeY
<1>7. Max(S) \in Int /\ Max(S) >= -vertical
  BY <1>0, <1>1, <1>3, <1>5
<1>8. \A q \in SeatsOfSection(l, c) : q.y <= Max(S)
  BY <1>1, <1>5
<1> QED
  BY <1>0, <1>2, <1>6, <1>7, <1>8

\* Places at a distance of at least one are told apart by their number.
LEMMA SpacingTellsApart ==
  ASSUME NEW i \in Nat, NEW j \in Nat, NEW h \in Nat \ {0}, i * h = j * h
  PROVE  i = j
<1>1. CASE i < j
  <2>1. PICK d \in Nat \ {0} : j = i + d
    <3>1. j - i \in Nat \ {0} /\ j = i + (j - i)
      BY <1>1
    <3> QED
      BY <3>1
  <2>2. j * h = i * h + d * h
    BY <2>1
  <2>3. d * h > 0
    BY <2>1
  <2> QED
    BY <2>2, <2>3
<1>2. CASE j < i
  <2>1. PICK d \in Nat \ {0} : i = j + d
    <3>1. i - j \in Nat \ {0} /\ i = j + (i - j)
      BY <1>2
    <3> QED
      BY <3>1
  <2>2. i * h = j * h + d * h
    BY <2>1
  <2>3. d * h > 0
    BY <2>1
  <2> QED
    BY <2>2, <2>3
<1> QED
  BY <1>1, <1>2

-----------------------------------------------------------------------------
(* SeatMaps.  Rows are only generated below seats that are drawn at all,   *)
(* so the invariant adds to SpotsAreDistinct where seats can be.  Then that*)
(* a layout hangs together, and the types.                                 *)

DrawnApart(seats) ==
  /\ \A q \in seats : q.y \in Coordinates
  /\ \A a, b \in seats : a # b /\ a.section = b.section => <<a.x, a.y>> # <<b.x, b.y>>

IsLayout(l) == l = [sections |-> l.sections, rows |-> l.rows, seats |-> l.seats]

LayoutsInv ==
  /\ layout = [v \in MapVersions |-> layout[v]]
  /\ \A v \in MapVersions : IsLayout(layout[v]) /\ DrawnApart(layout[v].seats)

\* One layout is replaced by another one that is drawn well.
LEMMA ReplacedLayout ==
  ASSUME LayoutsInv, NEW v, NEW new, IsLayout(new), DrawnApart(new.seats),
         layout' = [layout EXCEPT ![v] = new]
  PROVE  LayoutsInv'
<1>1. layout' = [u \in MapVersions |-> IF u = v THEN new ELSE layout[u]]
  BY DEF LayoutsInv
<1>2. \A u \in MapVersions : layout'[u] = IF u = v THEN new ELSE layout[u]
  BY <1>1
<1>3. layout' = [u \in MapVersions |-> layout'[u]]
  BY <1>1
<1>4. \A u \in MapVersions : IsLayout(layout'[u]) /\ DrawnApart(layout'[u].seats)
  BY <1>2 DEF LayoutsInv
<1> QED
  BY <1>3, <1>4 DEF LayoutsInv, IsLayout, DrawnApart, MapVersions, Coordinates

\* Fewer seats are still apart.
LEMMA FewerSeatsApart ==
  ASSUME NEW S, NEW T, DrawnApart(T), S \subseteq T
  PROVE  DrawnApart(S)
  BY DEF DrawnApart

\* A seat at a spot no other seat of its section has, in a drawing that is well.
LEMMA OneMoreSeat ==
  ASSUME NEW S, DrawnApart(S), NEW q, q.y \in Coordinates,
         \A o \in S : o.section = q.section => <<o.x, o.y>> # <<q.x, q.y>>
  PROVE  DrawnApart(S \cup {q})
  BY DEF DrawnApart

\* Fewer steps of one length lead less far.
LEMMA FewerSteps ==
  ASSUME NEW n \in Nat \ {0}, NEW step \in Nat \ {0}, NEW i \in 0..(n - 1)
  PROVE  i * step \in Nat /\ i * step <= (n - 1) * step
<1>1. PICK d \in Nat : n - 1 = i + d
  <2>1. n - 1 - i \in Nat /\ n - 1 = i + (n - 1 - i)
    OBVIOUS
  <2> QED
    BY <2>1
<1>2. (n - 1) * step = i * step + d * step
  BY <1>1
<1>3. d * step \in Nat /\ i * step \in Nat
  BY <1>1
<1> QED
  BY <1>2, <1>3

\* The generated seats are apart from each other and from what was drawn above them.
LEMMA GeneratedApart ==
  ASSUME NEW l, DrawnApart(l.seats), NEW c, NEW first \in Nat, NEW rows \in Nat \ {0}, NEW perRow \in Nat \ {0},
         NEW horizontal \in Nat \ {0}, NEW vertical \in Nat \ {0},
         FirstFreeY(l, c, vertical) + (rows - 1) * vertical <= MaximumCoordinate
  PROVE  DrawnApart(l.seats \cup
           GeneratedSeats(c, first, rows, perRow, FirstFreeY(l, c, vertical), horizontal, vertical))
<1>0. MaximumCoordinate \in Nat
  BY SeatMapConstants
<1>1. PICK y0 : y0 = FirstFreeY(l, c, vertical)
  OBVIOUS
<1>2. y0 \in Nat /\ \A q \in SeatsOfSection(l, c) : q.y < y0
  BY <1>1, BelowEverySeat DEF DrawnApart
<1>3. PICK G : G = GeneratedSeats(c, first, rows, perRow, y0, horizontal, vertical)
  OBVIOUS
<1>4. \A q \in G : \E i \in 0..(rows - 1), j \in 0..(perRow - 1) :
        q = [section |-> c, row |-> first + i, label |-> j + 1, x |-> j * horizontal, y |-> y0 + i * vertical,
             kind |-> "STANDARD"]
  BY <1>3 DEF GeneratedSeats
<1>5. \A i \in 0..(rows - 1) : i * vertical \in Nat /\ i * vertical <= (rows - 1) * vertical
  BY FewerSteps
<1>6. \A q \in G : q.section = c /\ q.y \in Nat /\ q.y >= y0 /\ q.y <= MaximumCoordinate
  <2> TAKE q \in G
  <2>1. PICK i \in 0..(rows - 1), j \in 0..(perRow - 1) :
          q = [section |-> c, row |-> first + i, label |-> j + 1, x |-> j * horizontal, y |-> y0 + i * vertical,
               kind |-> "STANDARD"]
    BY <1>4
  <2>2. q.section = c /\ q.y = y0 + i * vertical
    BY <2>1
  <2>3. i * vertical \in Nat /\ i * vertical <= (rows - 1) * vertical
    BY <1>5
  <2>4. (rows - 1) * vertical \in Int
    OBVIOUS
  <2>5. PICK p \in Int : p = (rows - 1) * vertical
    BY <2>4
  <2>6. PICK k \in Nat : k = i * vertical /\ k <= p
    BY <2>3, <2>5
  <2>7. y0 + p <= MaximumCoordinate
    BY <1>1, <2>5
  <2>8. q.y = y0 + k
    BY <2>2, <2>6
  <2> QED
    BY <1>0, <1>2, <2>2, <2>6, <2>7, <2>8
<1>7. ASSUME NEW a \in G, NEW b \in G, <<a.x, a.y>> = <<b.x, b.y>>
      PROVE  a = b
  <2>1. PICK i \in 0..(rows - 1), j \in 0..(perRow - 1) :
          a = [section |-> c, row |-> first + i, label |-> j + 1, x |-> j * horizontal, y |-> y0 + i * vertical,
               kind |-> "STANDARD"]
    BY <1>4
  <2>2. PICK m \in 0..(rows - 1), n \in 0..(perRow - 1) :
          b = [section |-> c, row |-> first + m, label |-> n + 1, x |-> n * horizontal, y |-> y0 + m * vertical,
               kind |-> "STANDARD"]
    BY <1>4
  <2>3. i \in Nat /\ j \in Nat /\ m \in Nat /\ n \in Nat
    OBVIOUS
  <2>4. j * horizontal = n * horizontal
    BY <1>7, <2>1, <2>2
  <2>5. y0 + i * vertical = y0 + m * vertical
    BY <1>7, <2>1, <2>2
  <2>6. i * vertical \in Int /\ m * vertical \in Int
    BY <2>3
  <2>7. i * vertical = m * vertical
    BY <1>2, <2>5, <2>6
  <2>8. j = n /\ i = m
    BY <2>3, <2>4, <2>7, SpacingTellsApart
  <2> QED
    BY <2>1, <2>2, <2>8
<1>8. ASSUME NEW a \in l.seats, NEW b \in G, a.section = b.section
      PROVE  a.y # b.y
  <2>1. a \in SeatsOfSection(l, c)
    BY <1>6, <1>8 DEF SeatsOfSection
  <2>2. a.y < y0 /\ a.y \in 0..MaximumCoordinate
    BY <1>2, <2>1 DEF DrawnApart, Coordinates
  <2> QED
    BY <1>0, <1>2, <1>6, <2>2
<1>9. \A q \in l.seats \cup G : q.y \in Coordinates
  BY <1>0, <1>6 DEF DrawnApart, Coordinates
<1>10. ASSUME NEW a \in l.seats \cup G, NEW b \in l.seats \cup G, a # b, a.section = b.section
       PROVE  <<a.x, a.y>> # <<b.x, b.y>>
  <2>1. CASE a \in l.seats /\ b \in l.seats
    BY <1>10, <2>1 DEF DrawnApart
  <2>2. CASE a \in l.seats /\ b \in G
    BY <1>8, <1>10, <2>2
  <2>3. CASE a \in G /\ b \in l.seats
    BY <1>8, <1>10, <2>3
  <2>4. CASE a \in G /\ b \in G
    BY <1>7, <1>10, <2>4
  <2> QED
    BY <2>1, <2>2, <2>3, <2>4
<1> QED
  BY <1>1, <1>3, <1>9, <1>10 DEF DrawnApart

\* The layout that bulk generation leaves, part by part.
LEMMA BulkByParts ==
  ASSUME NEW v, NEW c, NEW first, NEW rows, NEW perRow, NEW horizontal, NEW vertical,
         bulkGenerateRows(v, c, first, rows, perRow, horizontal, vertical), IsLayout(layout[v])
  PROVE  \E new, G :
           /\ new = [i \in 1..rows |-> first + i - 1]
           /\ G = GeneratedSeats(c, first, rows, perRow, FirstFreeY(layout[v], c, vertical), horizontal, vertical)
           /\ layout' = [layout EXCEPT ![v] = [sections |-> layout[v].sections,
                                               rows |-> [layout[v].rows EXCEPT ![c] = @ \o new],
                                               seats |-> layout[v].seats \cup G]]
           /\ mapStatus' = mapStatus /\ editing' = editing
<1>0. PICK l, new, G :
        /\ l = layout[v] /\ new = [i \in 1..rows |-> first + i - 1]
        /\ G = GeneratedSeats(c, first, rows, perRow, FirstFreeY(l, c, vertical), horizontal, vertical)
  OBVIOUS
<1>1. Edit(v, [l EXCEPT !.rows[c] = @ \o new, !.seats = @ \cup G])
  <2>1. Edit(v, [l EXCEPT !.rows[c] = @ \o [i \in 1..rows |-> first + i - 1],
                          !.seats = @ \cup GeneratedSeats(c, first, rows, perRow, FirstFreeY(l, c, vertical),
                                                          horizontal, vertical)])
    BY <1>0, Zenon DEF bulkGenerateRows
  <2> QED
    BY <1>0, <2>1, Zenon
<1>2. [l EXCEPT !.rows[c] = @ \o new, !.seats = @ \cup G]
        = [sections |-> l.sections, rows |-> [l.rows EXCEPT ![c] = @ \o new], seats |-> l.seats \cup G]
  <2>1. PICK m, more, sections, seats :
          /\ m = [l EXCEPT !.rows[c] = @ \o new] /\ more = [l.rows EXCEPT ![c] = @ \o new]
          /\ sections = l.sections /\ seats = l.seats
    OBVIOUS
  <2>0. l = [sections |-> l.sections, rows |-> l.rows, seats |-> l.seats]
    BY <1>0 DEF IsLayout
  <2>2. m = [sections |-> sections, rows |-> more, seats |-> seats]
    BY <2>0, <2>1
  <2>3. [m EXCEPT !.seats = @ \cup G] = [sections |-> sections, rows |-> more, seats |-> seats \cup G]
    <3>1. \A S : [m EXCEPT !.seats = S] = [sections |-> sections, rows |-> more, seats |-> S]
      BY <2>2
    <3>2. m.seats = seats
      BY <2>2
    <3> QED
      BY <3>1, <3>2
  <2>4. [l EXCEPT !.rows[c] = @ \o new, !.seats = @ \cup G]
          = [[l EXCEPT !.rows[c] = @ \o new] EXCEPT !.seats = @ \cup G]
    BY <2>0, SMT
  <2> QED
    BY <2>1, <2>3, <2>4, Zenon
<1>3. /\ layout' = [layout EXCEPT ![v] = [sections |-> l.sections, rows |-> [l.rows EXCEPT ![c] = @ \o new],
                                          seats |-> l.seats \cup G]]
      /\ mapStatus' = mapStatus /\ editing' = editing
  BY <1>1, <1>2, Zenon DEF Edit
<1> QED
  BY <1>0, <1>3, Zenon

\* The edits of a draft, each in its transaction.
LEMMA EditsKeepLayouts ==
  ASSUME LayoutsInv, NEW v \in MapVersions, EditDraft(v)
  PROVE  LayoutsInv'
<1>0. PICK l : l = layout[v]
  OBVIOUS
<1>1. IsLayout(l) /\ DrawnApart(l.seats)
  BY <1>0 DEF LayoutsInv
<1>2. ASSUME NEW rows, NEW sections,
             layout' = [layout EXCEPT ![v] = [sections |-> sections, rows |-> rows, seats |-> l.seats]]
      PROVE  LayoutsInv'
  <2>1. PICK new : new = [sections |-> sections, rows |-> rows, seats |-> l.seats]
    OBVIOUS
  <2>2. IsLayout(new) /\ DrawnApart(new.seats)
    BY <1>1, <2>1 DEF IsLayout
  <2> QED
    BY <1>2, <2>1, <2>2, ReplacedLayout
<1>3. ASSUME NEW seats, DrawnApart(seats), NEW rows,
             layout' = [layout EXCEPT ![v] = [sections |-> l.sections, rows |-> rows, seats |-> seats]]
      PROVE  LayoutsInv'
  <2>1. PICK new : new = [sections |-> l.sections, rows |-> rows, seats |-> seats]
    OBVIOUS
  <2>2. IsLayout(new) /\ DrawnApart(new.seats)
    BY <1>3, <2>1 DEF IsLayout
  <2> QED
    BY <1>3, <2>1, <2>2, ReplacedLayout
<1>4. ASSUME NEW c \in SectionCodes, createSection(v, c)
      PROVE  LayoutsInv'
  <2>1. layout' = [layout EXCEPT ![v] = [l EXCEPT !.sections = Append(@, c)]]
    BY <1>0, <1>4 DEF createSection, Edit
  <2>2. [l EXCEPT !.sections = Append(@, c)] = [sections |-> Append(l.sections, c), rows |-> l.rows, seats |-> l.seats]
    BY <1>1 DEF IsLayout
  <2> QED
    BY <1>2, <2>1, <2>2
<1>5. ASSUME NEW c \in SectionCodes, NEW r \in RowLabels, createRow(v, c, r)
      PROVE  LayoutsInv'
  <2>1. layout' = [layout EXCEPT ![v] = [l EXCEPT !.rows[c] = Append(@, r)]]
    BY <1>0, <1>5 DEF createRow, Edit
  <2>2. [l EXCEPT !.rows[c] = Append(@, r)]
          = [sections |-> l.sections, rows |-> [l.rows EXCEPT ![c] = Append(@, r)], seats |-> l.seats]
    BY <1>1 DEF IsLayout
  <2> QED
    BY <1>2, <2>1, <2>2
<1>6. ASSUME NEW q \in SeatRecords, createSeat(v, q)
      PROVE  LayoutsInv'
  <2>1. layout' = [layout EXCEPT ![v] = [l EXCEPT !.seats = @ \cup {q}]]
    BY <1>0, <1>6 DEF createSeat, Edit
  <2>2. [l EXCEPT !.seats = @ \cup {q}] = [sections |-> l.sections, rows |-> l.rows, seats |-> l.seats \cup {q}]
    BY <1>1 DEF IsLayout
  <2>3. SpotIsFree(SeatsOfSection(l, q.section), q)
    BY <1>0, <1>6 DEF createSeat
  <2>4. q.y \in Coordinates
    BY DEF SeatRecords
  <2>5. DrawnApart(l.seats \cup {q})
    BY <1>1, <2>3, <2>4, OneMoreSeat DEF SpotIsFree, SeatsOfSection
  <2> QED
    BY <1>3, <2>1, <2>2, <2>5
<1>7. ASSUME NEW q \in SeatRecords, NEW old \in layout[v].seats, updateSeat(v, old, q)
      PROVE  LayoutsInv'
  <2>1. layout' = [layout EXCEPT ![v] = [l EXCEPT !.seats = (@ \ {old}) \cup {q}]]
    BY <1>0, <1>7 DEF updateSeat, Edit
  <2>2. [l EXCEPT !.seats = (@ \ {old}) \cup {q}]
          = [sections |-> l.sections, rows |-> l.rows, seats |-> (l.seats \ {old}) \cup {q}]
    BY <1>1 DEF IsLayout
  <2>3. SpotIsFree(SeatsOfSection(l, q.section) \ {old}, q)
    BY <1>0, <1>7 DEF updateSeat
  <2>4. q.y \in Coordinates
    BY DEF SeatRecords
  <2>5. DrawnApart(l.seats \ {old})
    BY <1>1, FewerSeatsApart
  <2>6. DrawnApart((l.seats \ {old}) \cup {q})
    BY <2>3, <2>4, <2>5, OneMoreSeat DEF SpotIsFree, SeatsOfSection
  <2> QED
    BY <1>3, <2>1, <2>2, <2>6
<1>8. ASSUME NEW c \in SectionCodes, NEW first \in RowLabels, NEW rows \in 1..RowCount, NEW perRow \in 1..LabelCount,
             NEW horizontal \in 1..MaximumSpacing, NEW vertical \in 1..MaximumSpacing,
             bulkGenerateRows(v, c, first, rows, perRow, horizontal, vertical)
      PROVE  LayoutsInv'
  <2>0. {RowCount, LabelCount, MaximumSpacing} \subseteq Nat
    BY SeatMapConstants
  <2>1. PICK new, G :
          /\ G = GeneratedSeats(c, first, rows, perRow, FirstFreeY(l, c, vertical), horizontal, vertical)
          /\ layout' = [layout EXCEPT ![v] = [sections |-> l.sections, rows |-> [l.rows EXCEPT ![c] = @ \o new],
                                              seats |-> l.seats \cup G]]
    <3>1. IsLayout(layout[v])
      BY <1>0, <1>1
    <3>2. PICK new, G :
            /\ new = [i \in 1..rows |-> first + i - 1]
            /\ G = GeneratedSeats(c, first, rows, perRow, FirstFreeY(layout[v], c, vertical), horizontal, vertical)
            /\ layout' = [layout EXCEPT ![v] = [sections |-> layout[v].sections,
                                                rows |-> [layout[v].rows EXCEPT ![c] = @ \o new],
                                                seats |-> layout[v].seats \cup G]]
            /\ mapStatus' = mapStatus /\ editing' = editing
      BY <1>8, <3>1, BulkByParts
    <3> QED
      BY <1>0, <3>2, Zenon
  <2>4. FirstFreeY(l, c, vertical) + (rows - 1) * vertical <= MaximumCoordinate
    BY <1>0, <1>8 DEF bulkGenerateRows
  <2>5. /\ first \in Nat /\ rows \in Nat \ {0} /\ perRow \in Nat \ {0}
        /\ horizontal \in Nat \ {0} /\ vertical \in Nat \ {0}
    BY <2>0 DEF RowLabels
  <2>6. DrawnApart(l.seats \cup G)
    BY <1>1, <2>1, <2>4, <2>5, GeneratedApart
  <2> QED
    BY <1>3, <2>1, <2>6
<1>9. ASSUME NEW i \in 1..MaximumSections, moveSection(v, i)
      PROVE  LayoutsInv'
  <2>1. layout' = [layout EXCEPT ![v] = [l EXCEPT !.sections = Swapped(@, i)]]
    BY <1>0, <1>9 DEF moveSection, Edit
  <2>2. [l EXCEPT !.sections = Swapped(@, i)]
          = [sections |-> Swapped(l.sections, i), rows |-> l.rows, seats |-> l.seats]
    BY <1>1 DEF IsLayout
  <2> QED
    BY <1>2, <2>1, <2>2
<1>10. ASSUME NEW c \in SectionCodes, NEW i \in 1..MaximumRowsPerSection, moveRow(v, c, i)
       PROVE  LayoutsInv'
  <2>1. layout' = [layout EXCEPT ![v] = [l EXCEPT !.rows[c] = Swapped(@, i)]]
    BY <1>0, <1>10 DEF moveRow, Edit
  <2>2. [l EXCEPT !.rows[c] = Swapped(@, i)]
          = [sections |-> l.sections, rows |-> [l.rows EXCEPT ![c] = Swapped(@, i)], seats |-> l.seats]
    BY <1>1 DEF IsLayout
  <2> QED
    BY <1>2, <2>1, <2>2
<1> QED
  BY <1>4, <1>5, <1>6, <1>7, <1>8, <1>9, <1>10 DEF EditDraft

\* A deletion takes seats away or none.
LEMMA DeletionKeepsLayouts ==
  ASSUME LayoutsInv, NEW w \in Editors, CommitDelete(w)
  PROVE  LayoutsInv'
<1>0. PICK v, t : v = editing[w].version /\ t = editing[w].target
  OBVIOUS
<1>1. layout' = [layout EXCEPT ![v] = Removed(@, t)]
  BY <1>0 DEF CommitDelete
<1>2. CASE v \notin MapVersions
  <2>1. layout' = layout
    BY <1>1, <1>2 DEF LayoutsInv
  <2> QED
    BY <2>1 DEF LayoutsInv, IsLayout, DrawnApart, MapVersions, Coordinates
<1>3. CASE v \in MapVersions
  <2>1. PICK l : l = layout[v]
    OBVIOUS
  <2>2. IsLayout(l) /\ DrawnApart(l.seats)
    BY <1>3, <2>1 DEF LayoutsInv
  <2>3. layout' = [layout EXCEPT ![v] = Removed(l, t)]
    BY <1>1, <1>3, <2>1 DEF LayoutsInv
  <2>4. IsLayout(Removed(l, t)) /\ Removed(l, t).seats \subseteq l.seats
    BY <2>2 DEF IsLayout, Removed
  <2>5. DrawnApart(Removed(l, t).seats)
    BY <2>2, <2>4, FewerSeatsApart
  <2> QED
    BY <2>3, <2>4, <2>5, ReplacedLayout
<1> QED
  BY <1>2, <1>3

\* Every step of the maps keeps every layout drawn well.
LEMMA LayoutsStep ==
  LayoutsInv /\ [SeatMapsNext]_seatMapVars => LayoutsInv'
<1> SUFFICES ASSUME LayoutsInv, [SeatMapsNext]_seatMapVars
             PROVE  LayoutsInv'
  OBVIOUS
<1>1. ASSUME layout' = layout
      PROVE  LayoutsInv'
  BY <1>1 DEF LayoutsInv, IsLayout, DrawnApart, MapVersions, Coordinates
<1>2. CASE UNCHANGED seatMapVars
  BY <1>1, <1>2 DEF seatMapVars
<1>3. ASSUME NEW p, NEW st, CreatePlace(p, st) \/ AskPlace(p, st) \/ WritePlace(p, st)
      PROVE  LayoutsInv'
  BY <1>1, <1>3 DEF CreatePlace, AskPlace, WritePlace, OnlyPlaces
<1>4. CASE createDraftSeatMap
  BY <1>1, <1>4 DEF createDraftSeatMap
<1>5. ASSUME NEW v \in MapVersions, clonePublishedSeatMap(v)
      PROVE  LayoutsInv'
  <2>1. layout' = [layout EXCEPT ![NextMapVersion] = layout[v]]
    BY <1>5 DEF clonePublishedSeatMap
  <2>2. IsLayout(layout[v]) /\ DrawnApart(layout[v].seats)
    BY DEF LayoutsInv
  <2> QED
    BY <2>1, <2>2, ReplacedLayout
<1>6. ASSUME NEW v \in MapVersions, ReadForPublication(v) \/ CommitPublication(v) \/ AbortPublication(v)
      PROVE  LayoutsInv'
  BY <1>1, <1>6 DEF ReadForPublication, CommitPublication, AbortPublication
<1>7. ASSUME NEW w, NEW v, NEW t, CheckDelete(w, v, t)
      PROVE  LayoutsInv'
  BY <1>1, <1>7 DEF CheckDelete, OnlyEditing
<1>8. ASSUME NEW w, WriteDelete(w) \/ AbortDelete(w)
      PROVE  LayoutsInv'
  BY <1>1, <1>8 DEF WriteDelete, AbortDelete, OnlyEditing
<1>9. CASE SeatMapsNext
  BY <1>3, <1>4, <1>5, <1>6, <1>7, <1>8, <1>9, EditsKeepLayouts, DeletionKeepsLayouts DEF SeatMapsNext
<1> QED
  BY <1>2, <1>9

LEMMA LayoutsInvariant == SeatMapsSpec => []LayoutsInv
<1>1. SeatMapsInit => LayoutsInv
  <2> SUFFICES ASSUME SeatMapsInit
               PROVE  LayoutsInv
    OBVIOUS
  <2>1. EmptyLayout.seats = {}
    BY DEF EmptyLayout
  <2>2. IsLayout(EmptyLayout)
    BY DEF IsLayout, EmptyLayout
  <2>3. layout = [v \in MapVersions |-> EmptyLayout]
    BY DEF SeatMapsInit
  <2>4. \A v \in MapVersions : layout[v] = EmptyLayout
    BY <2>3
  <2>5. layout = [v \in MapVersions |-> layout[v]]
    BY <2>3
  <2> QED
    BY <2>1, <2>2, <2>4, <2>5 DEF LayoutsInv, DrawnApart
<1> QED
  BY <1>1, LayoutsStep, PTL DEF SeatMapsSpec

\* However seats are created, moved, generated, deleted and cloned, no two seats of a
\* section are drawn at one spot: for any number of versions, sections and seats.
THEOREM SeatsAreApart == SeatMapsSpec => []SpotsAreDistinct
<1>1. LayoutsInv => SpotsAreDistinct
  BY DEF LayoutsInv, DrawnApart, SpotsAreDistinct
<1> QED
  BY <1>1, LayoutsInvariant, PTL

\* The members of a sequence after each kind of edit.
LEMMA JoinedByParts ==
  ASSUME NEW S, NEW s \in Seq(S), NEW t \in Seq(S)
  PROVE  /\ s \o t \in Seq(S) /\ Len(s \o t) = Len(s) + Len(t)
         /\ \A i \in 1..Len(s) : (s \o t)[i] = s[i]
         /\ \A i \in 1..Len(t) : (s \o t)[Len(s) + i] = t[i]
  OBVIOUS
LEMMA WithoutOne ==
  ASSUME NEW S, NEW s \in Seq(S), NEW e \in Elements(s)
  PROVE  /\ Without(s, e) \in Seq(S)
         /\ Elements(Without(s, e)) \subseteq Elements(s) /\ Elements(s) \ {e} \subseteq Elements(Without(s, e))
<1>1. PICK k : k = Position(s, e)
  OBVIOUS
<1>2. k \in 1..Len(s) /\ s[k] = e
  BY <1>1 DEF Position, Elements
<1>3. Len(s) \in Nat
  OBVIOUS
<1>4. PICK a, b : a = SubSeq(s, 1, k - 1) /\ b = SubSeq(s, k + 1, Len(s))
  OBVIOUS
<1>5. a \in Seq(S) /\ Len(a) = k - 1 /\ \A i \in 1..(k - 1) : a[i] = s[i]
  BY <1>2, <1>3, <1>4
<1>6. b \in Seq(S) /\ Len(b) = Len(s) - k /\ \A i \in 1..(Len(s) - k) : b[i] = s[k + i]
  BY <1>2, <1>3, <1>4
<1>7. PICK w : w = a \o b
  OBVIOUS
<1>8. /\ w \in Seq(S) /\ Len(w) = Len(s) - 1
      /\ \A i \in 1..(Len(s) - 1) : w[i] = IF i < k THEN s[i] ELSE s[i + 1]
  <2>1. /\ w \in Seq(S) /\ Len(w) = Len(a) + Len(b)
        /\ \A i \in 1..Len(a) : w[i] = a[i]
        /\ \A i \in 1..Len(b) : w[Len(a) + i] = b[i]
    <3>1. a \in Seq(S) /\ b \in Seq(S)
      BY <1>5, <1>6
    <3>2. /\ a \o b \in Seq(S) /\ Len(a \o b) = Len(a) + Len(b)
          /\ \A i \in 1..Len(a) : (a \o b)[i] = a[i]
          /\ \A i \in 1..Len(b) : (a \o b)[Len(a) + i] = b[i]
      BY <3>1
    <3>3. QED
      BY <1>7, <3>2, Zenon
  <2>2. Len(w) = Len(s) - 1
    BY <1>2, <1>3, <1>5, <1>6, <2>1
  <2>3. ASSUME NEW i \in 1..(Len(s) - 1) PROVE w[i] = IF i < k THEN s[i] ELSE s[i + 1]
    <3>1. CASE i < k
      BY <1>2, <1>3, <1>5, <2>1, <2>2, <3>1
    <3>2. CASE i >= k
      <4>1. PICK j \in 1..(Len(s) - k) : i = (k - 1) + j
        <5>1. i - (k - 1) \in 1..(Len(s) - k) /\ i = (k - 1) + (i - (k - 1))
          BY <1>2, <1>3, <3>2
        <5>2. QED
          BY <5>1
      <4>2. w[i] = b[j] /\ b[j] = s[k + j]
        BY <1>5, <1>6, <2>1, <4>1
      <4>3. k + j = i + 1 /\ ~(i < k)
        BY <1>2, <1>3, <4>1
      <4>4. QED
        BY <4>2, <4>3
    <3>3. QED
      BY <1>2, <3>1, <3>2
  <2>4. QED
    BY <2>1, <2>2, <2>3
<1>9. Without(s, e) = w
  BY <1>1, <1>4, <1>7 DEF Without
<1>10. Elements(w) \subseteq Elements(s)
  <2>1. SUFFICES ASSUME NEW x \in Elements(w) PROVE x \in Elements(s)
    OBVIOUS
  <2>2. PICK i \in 1..(Len(s) - 1) : w[i] = x
    BY <1>8, <2>1 DEF Elements
  <2>3. i \in 1..Len(s) /\ i + 1 \in 1..Len(s)
    BY <1>3, <2>2
  <2>4. x = s[i] \/ x = s[i + 1]
    BY <1>8, <2>2
  <2>5. QED
    BY <2>3, <2>4 DEF Elements
<1>11. ASSUME NEW x \in Elements(s), x # e PROVE x \in Elements(w)
  <2>1. PICK i \in 1..Len(s) : s[i] = x /\ i # k
    BY <1>2, <1>11 DEF Elements
  <2>2. i < k => i \in 1..Len(w) /\ w[i] = x
    BY <1>2, <1>3, <1>8, <2>1
  <2>3. i > k => i - 1 \in 1..Len(w) /\ w[i - 1] = x
    BY <1>2, <1>3, <1>8, <2>1
  <2>4. QED
    BY <1>2, <2>1, <2>2, <2>3 DEF Elements
<1>12. QED
  BY <1>8, <1>9, <1>10, <1>11
LEMMA OneAppended ==
  ASSUME NEW S, NEW s \in Seq(S), NEW e \in S
  PROVE  Append(s, e) \in Seq(S) /\ Elements(Append(s, e)) = Elements(s) \cup {e}
<1>1. /\ Append(s, e) \in Seq(S) /\ Len(Append(s, e)) = Len(s) + 1 /\ Len(s) \in Nat
      /\ \A i \in 1..Len(s) : Append(s, e)[i] = s[i]
      /\ Append(s, e)[Len(s) + 1] = e
  OBVIOUS
<1>2. QED
  BY <1>1 DEF Elements
LEMMA BothJoined ==
  ASSUME NEW S, NEW s \in Seq(S), NEW t \in Seq(S)
  PROVE  s \o t \in Seq(S) /\ Elements(s \o t) = Elements(s) \cup Elements(t)
<1>1. /\ s \o t \in Seq(S) /\ Len(s \o t) = Len(s) + Len(t) /\ Len(s) \in Nat /\ Len(t) \in Nat
      /\ \A i \in 1..Len(s) : (s \o t)[i] = s[i]
      /\ \A i \in 1..Len(t) : (s \o t)[Len(s) + i] = t[i]
  BY JoinedByParts
<1>2. Elements(s \o t) \subseteq Elements(s) \cup Elements(t)
  <2> SUFFICES ASSUME NEW i \in 1..(Len(s) + Len(t)) PROVE (s \o t)[i] \in Elements(s) \cup Elements(t)
    BY <1>1 DEF Elements
  <2>1. i \in 1..Len(s) \/ \E j \in 1..Len(t) : i = Len(s) + j
    <3>1. i <= Len(s) \/ (i - Len(s) \in 1..Len(t) /\ i = Len(s) + (i - Len(s)))
      BY <1>1
    <3>2. QED
      BY <1>1, <3>1
  <2>2. QED
    BY <1>1, <2>1 DEF Elements
<1>3. Elements(s) \cup Elements(t) \subseteq Elements(s \o t)
  BY <1>1 DEF Elements
<1>4. QED
  BY <1>1, <1>2, <1>3
LEMMA NeighboursSwapped ==
  ASSUME NEW S, NEW s \in Seq(S), NEW i \in Nat \ {0}, i < Len(s)
  PROVE  Swapped(s, i) \in Seq(S) /\ Elements(Swapped(s, i)) = Elements(s)
<1>1. PICK w : w = Swapped(s, i)
  OBVIOUS
<1>2. Len(s) \in Nat /\ s \in [1..Len(s) -> S] /\ \A k \in 1..Len(s) : s[k] \in S
  OBVIOUS
<1>3. w = [k \in 1..Len(s) |-> IF k = i + 1 THEN s[i] ELSE IF k = i THEN s[i + 1] ELSE s[k]]
  BY <1>1, <1>2 DEF Swapped
<1>4. w \in Seq(S) /\ Len(w) = Len(s)
  BY <1>2, <1>3
<1>5. Elements(w) = Elements(s)
  <2>1. i \in 1..Len(s) /\ i + 1 \in 1..Len(s) /\ w[i] = s[i + 1] /\ w[i + 1] = s[i]
    BY <1>2, <1>3
  <2>2. \A k \in 1..Len(s) : k # i /\ k # i + 1 => w[k] = s[k]
    BY <1>3
  <2>3. QED
    BY <1>4, <2>1, <2>2 DEF Elements
<1>6. QED
  BY <1>1, <1>4, <1>5

\* The parts of a layout hang together; and a target that is there with nothing below it.
TreeOf(sections, rows, seats) ==
  /\ sections \in Seq(SectionCodes) /\ rows \in [SectionCodes -> Seq(RowLabels)] /\ seats \subseteq SeatRecords
  /\ \A c \in SectionCodes : rows[c] # <<>> => c \in Elements(sections)
  /\ \A q \in seats : q.row \in Elements(rows[q.section])
Removable(sections, rows, seats, t) ==
  \/ \E c \in Elements(sections) : t = <<c>> /\ rows[c] = <<>>
  \/ \E c \in SectionCodes : \E r \in Elements(rows[c]) :
       t = <<c, r>> /\ \A q \in seats : ~(q.section = c /\ q.row = r)
  \/ \E q \in seats : t = <<q.section, q.row, q.label>>

\* A path of two is a row's, a path of one a section's.
LEMMA RowPath ==
  ASSUME NEW sections, NEW rows, NEW seats, NEW c, NEW r, Removable(sections, rows, seats, <<c, r>>)
  PROVE  r \in Elements(rows[c])
<1>1. ASSUME NEW a, NEW b PROVE <<c, r>> # <<a>> /\ (<<c, r>> = <<a, b>> => c = a /\ r = b)
  OBVIOUS
<1>2. ASSUME NEW q PROVE <<c, r>> # <<q.section, q.row, q.label>>
  OBVIOUS
<1>3. QED
  BY <1>1, <1>2 DEF Removable

LEMMA SectionPath ==
  ASSUME NEW sections, NEW rows, NEW seats, NEW c, Removable(sections, rows, seats, <<c>>)
  PROVE  rows[c] = <<>>
<1>1. ASSUME NEW a, NEW b PROVE <<c>> # <<a, b>> /\ (<<c>> = <<a>> => c = a)
  OBVIOUS
<1>2. ASSUME NEW q PROVE <<c>> # <<q.section, q.row, q.label>>
  OBVIOUS
<1>3. QED
  BY <1>1, <1>2 DEF Removable

\* Sections are created or moved, or one without rows is deleted.
LEMMA SectionsChange ==
  ASSUME NEW sections, NEW rows, NEW seats, TreeOf(sections, rows, seats), NEW more \in Seq(SectionCodes), NEW gone,
         Elements(sections) \ {gone} \subseteq Elements(more),
         gone \in SectionCodes => rows[gone] = <<>> \/ gone \in Elements(more)
  PROVE  /\ TreeOf(more, rows, seats)
         /\ \A u : Removable(sections, rows, seats, u) /\ u # <<gone>> => Removable(more, rows, seats, u)
<1>1. TreeOf(more, rows, seats)
  BY DEF TreeOf
<1>2. ASSUME NEW u, Removable(sections, rows, seats, u), u # <<gone>> PROVE Removable(more, rows, seats, u)
  BY <1>2 DEF Removable
<1>3. QED
  BY <1>1, <1>2

\* Rows are added to a section, moved in it, or one without seats is deleted from it; with
\* new rows come their seats.
LEMMA RowsChange ==
  ASSUME NEW sections, NEW rows, NEW seats, TreeOf(sections, rows, seats), NEW c \in Elements(sections), c \in SectionCodes,
         NEW more \in Seq(RowLabels), NEW gone,
         Elements(rows[c]) \ {gone} \subseteq Elements(more),
         gone \in Elements(more) \/ \A q \in seats : ~(q.section = c /\ q.row = gone),
         NEW new, new \subseteq SeatRecords,
         \A q \in new : q.section = c /\ q.row \in Elements(more) \ Elements(rows[c])
  PROVE  /\ TreeOf(sections, [rows EXCEPT ![c] = more], seats \cup new)
         /\ \A u : Removable(sections, rows, seats, u) /\ u # <<c>> /\ u # <<c, gone>>
                     => Removable(sections, [rows EXCEPT ![c] = more], seats \cup new, u)
<1>1. PICK later : later = [rows EXCEPT ![c] = more]
  OBVIOUS
<1>2. /\ later \in [SectionCodes -> Seq(RowLabels)] /\ later[c] = more
      /\ \A d \in SectionCodes : d # c => later[d] = rows[d]
  BY <1>1 DEF TreeOf
<1>3. TreeOf(sections, later, seats \cup new)
  <2>1. \A q \in SeatRecords : q.section \in SectionCodes
    BY DEF SeatRecords
  <2>2. ASSUME NEW q \in seats PROVE q.row \in Elements(later[q.section])
    BY <1>2, <2>1 DEF TreeOf
  <2>3. ASSUME NEW q \in new PROVE q.row \in Elements(later[q.section])
    BY <1>2
  <2>4. QED
    BY <1>2, <2>2, <2>3 DEF TreeOf
<1>4. ASSUME NEW u, Removable(sections, rows, seats, u), u # <<c>>, u # <<c, gone>>
      PROVE  Removable(sections, later, seats \cup new, u)
  <2>1. ASSUME NEW d \in Elements(sections), u = <<d>>, rows[d] = <<>>
        PROVE  Removable(sections, later, seats \cup new, u)
    <3>1. d \in SectionCodes /\ d # c
      BY <1>4, <2>1 DEF TreeOf, Elements
    <3>2. later[d] = <<>>
      BY <1>2, <2>1, <3>1
    <3>3. QED
      BY <2>1, <3>2 DEF Removable
  <2>2. ASSUME NEW d \in SectionCodes, NEW r \in Elements(rows[d]), u = <<d, r>>,
               \A q \in seats : ~(q.section = d /\ q.row = r)
        PROVE  Removable(sections, later, seats \cup new, u)
    <3>1. r \in Elements(later[d])
      BY <1>2, <1>4, <2>2
    <3>2. \A q \in new : ~(q.section = d /\ q.row = r)
      BY <2>2
    <3>3. QED
      BY <2>2, <3>1, <3>2 DEF Removable
  <2>3. ASSUME NEW q \in seats, u = <<q.section, q.row, q.label>>
        PROVE  Removable(sections, later, seats \cup new, u)
    BY <2>3 DEF Removable
  <2>4. QED
    BY <1>4, <2>1, <2>2, <2>3 DEF Removable
<1>5. QED
  BY <1>1, <1>3, <1>4

\* The generated rows and their seats, label by label.
LEMMA BulkLabels ==
  ASSUME NEW first \in RowLabels, NEW n \in 1..RowCount, first + n - 1 <= RowCount, NEW new, new = [i \in 1..n |-> first + i - 1]
  PROVE  new \in Seq(RowLabels) /\ Elements(new) = {first + i : i \in 0..(n - 1)}
<1>1. RowCount \in Nat
  BY SeatMapConstants
<1>2. new \in [1..n -> RowLabels] /\ n \in Nat /\ first \in Nat
  BY <1>1 DEF RowLabels
<1>3. new \in Seq(RowLabels) /\ Len(new) = n
  <2>1. DOMAIN new = 1..n /\ \A i \in 1..n : new[i] \in RowLabels
    BY <1>2
  <2>2. new \in Seq(RowLabels)
    BY <1>2, <2>1
  <2>3. Len(new) = n
    BY <1>2, <2>1, <2>2
  <2>4. QED
    BY <2>2, <2>3
<1>4. \A i \in 1..n : new[i] = first + (i - 1) /\ i - 1 \in 0..(n - 1)
  BY <1>2
<1>5. \A i \in 0..(n - 1) : i + 1 \in 1..n /\ new[i + 1] = first + i
  BY <1>2
<1>6. QED
  BY <1>3, <1>4, <1>5 DEF Elements
LEMMA BulkSeats ==
  ASSUME NEW v \in MapVersions, layout[v].seats \subseteq SeatRecords,
         NEW c \in SectionCodes, NEW first \in RowLabels, NEW n \in 1..RowCount, NEW perRow \in 1..LabelCount,
         NEW horizontal \in 1..MaximumSpacing, NEW vertical \in 1..MaximumSpacing,
         bulkGenerateRows(v, c, first, n, perRow, horizontal, vertical)
  PROVE  \E G :
           /\ G = GeneratedSeats(c, first, n, perRow, FirstFreeY(layout[v], c, vertical), horizontal, vertical)
           /\ G \subseteq SeatRecords /\ \A q \in G : q.section = c /\ \E i \in 0..(n - 1) : q.row = first + i
<1>1. {RowCount, LabelCount, MaximumSpacing, MaximumCoordinate} \subseteq Nat /\ "STANDARD" \in SeatKinds
  BY SeatMapConstants
<1>2. PICK l, y0 : l = layout[v] /\ y0 = FirstFreeY(l, c, vertical)
  OBVIOUS
<1>3. /\ first \in Nat /\ n \in Nat \ {0} /\ perRow \in Nat \ {0} /\ horizontal \in Nat \ {0} /\ vertical \in Nat \ {0}
  BY <1>1 DEF RowLabels
<1>4. y0 \in Nat
  <2>1. \A q \in l.seats : q.y \in Coordinates
    BY <1>2 DEF SeatRecords
  <2>2. QED
    BY <1>2, <1>3, <2>1, BelowEverySeat
<1>5. /\ first + n - 1 <= RowCount /\ perRow <= LabelCount /\ (perRow - 1) * horizontal <= MaximumCoordinate
      /\ y0 + (n - 1) * vertical <= MaximumCoordinate
  BY <1>2 DEF bulkGenerateRows
<1>6. ASSUME NEW i \in 0..(n - 1), NEW j \in 0..(perRow - 1)
      PROVE  /\ first + i \in RowLabels /\ j + 1 \in LabelsOfSeats
             /\ j * horizontal \in Coordinates /\ y0 + i * vertical \in Coordinates
  <2>1. first + i \in RowLabels /\ j + 1 \in LabelsOfSeats
    BY <1>1, <1>3, <1>5 DEF RowLabels, LabelsOfSeats
  <2>2. j * horizontal \in Nat /\ j * horizontal <= (perRow - 1) * horizontal
    BY <1>3, FewerSteps
  <2>3. i * vertical \in Nat /\ i * vertical <= (n - 1) * vertical
    BY <1>3, FewerSteps
  <2>4. PICK a \in Int, b \in Int : a = (perRow - 1) * horizontal /\ b = (n - 1) * vertical
    BY <1>3
  <2>5. PICK x \in Nat, y \in Nat : x = j * horizontal /\ y = i * vertical
    BY <2>2, <2>3
  <2>6. x <= a /\ y <= b /\ a <= MaximumCoordinate /\ y0 + b <= MaximumCoordinate
    BY <1>5, <2>2, <2>3, <2>4, <2>5
  <2>7. x \in Coordinates /\ y0 + y \in Coordinates
    BY <1>1, <1>4, <2>6 DEF Coordinates
  <2>8. QED
    BY <2>1, <2>5, <2>7
<1>7. PICK G : G = GeneratedSeats(c, first, n, perRow, y0, horizontal, vertical)
  OBVIOUS
<1>8. ASSUME NEW q \in G PROVE q \in SeatRecords /\ q.section = c /\ \E i \in 0..(n - 1) : q.row = first + i
  <2>1. PICK i \in 0..(n - 1), j \in 0..(perRow - 1) :
          q = [section |-> c, row |-> first + i, label |-> j + 1, x |-> j * horizontal, y |-> y0 + i * vertical,
               kind |-> "STANDARD"]
    BY <1>7, <1>8 DEF GeneratedSeats
  <2>2. PICK x, y : x = j * horizontal /\ y = y0 + i * vertical /\ x \in Coordinates /\ y \in Coordinates
    BY <1>6
  <2>3. q = [section |-> c, row |-> first + i, label |-> j + 1, x |-> x, y |-> y, kind |-> "STANDARD"]
    BY <2>1, <2>2
  <2>4. QED
    BY <1>1, <1>6, <2>2, <2>3 DEF SeatRecords
<1>9. QED
  BY <1>2, <1>7, <1>8, Zenon

\* Every version is a tree, and a deletion that has passed its trigger holds a target that
\* is still there with nothing below it.
IsTree(l) == TreeOf(l.sections, l.rows, l.seats)
CanGo(l, t) == Removable(l.sections, l.rows, l.seats, t)
TreesInv == \A v \in MapVersions : IsTree(layout[v])
DeletesInv ==
  /\ editing = [w \in Editors |-> editing[w]]
  /\ \A w \in Editors : editing[w] # NoEdit =>
       /\ editing[w] = [phase |-> editing[w].phase, version |-> editing[w].version, target |-> editing[w].target]
       /\ editing[w].phase \in {"checked", "written"}
       /\ editing[w].version \in MapVersions /\ mapStatus[editing[w].version] # "NONE"
  /\ \A w \in Editors : editing[w].phase = "written" => CanGo(layout[editing[w].version], editing[w].target)

\* One layout is replaced.
LEMMA ReplacedTree ==
  ASSUME LayoutsInv, TreesInv, DeletesInv, NEW v \in MapVersions, NEW new, IsTree(new),
         layout' = [layout EXCEPT ![v] = new], UNCHANGED <<mapStatus, editing>>,
         \A u : BeingDeleted(v, u) /\ CanGo(layout[v], u) => CanGo(new, u)
  PROVE  TreesInv' /\ DeletesInv'
<1>1. \A u \in MapVersions : layout'[u] = IF u = v THEN new ELSE layout[u]
  BY DEF LayoutsInv
<1>2. \A u \in MapVersions : IsTree(layout'[u])
  BY <1>1 DEF TreesInv
<1>3. TreesInv'
  BY <1>2 DEF TreesInv, IsTree, TreeOf, MapVersions, RowLabels, SeatRecords, LabelsOfSeats, Coordinates, Elements
<1>4. ASSUME NEW w \in Editors, editing[w].phase = "written" PROVE CanGo(layout'[editing[w].version], editing[w].target)
  <2>1. editing[w] # NoEdit
    BY <1>4 DEF NoEdit
  <2>2. editing[w].version \in MapVersions /\ CanGo(layout[editing[w].version], editing[w].target)
    BY <1>4, <2>1 DEF DeletesInv
  <2>3. editing[w].version = v => BeingDeleted(v, editing[w].target)
    BY <1>4 DEF BeingDeleted
  <2>4. QED
    BY <1>1, <2>2, <2>3
<1>5. DeletesInv'
  BY <1>4 DEF DeletesInv, CanGo, Removable, NoEdit, MapVersions, Elements
<1>6. QED
  BY <1>3, <1>5

\* The edits of a draft, each in its transaction.
LEMMA EditsKeepTrees ==
  ASSUME LayoutsInv, TreesInv, DeletesInv, NEW v \in MapVersions, EditDraft(v)
  PROVE  TreesInv' /\ DeletesInv'
<1>0. PICK l, sections, rows, seats : l = layout[v] /\ sections = l.sections /\ rows = l.rows /\ seats = l.seats
  OBVIOUS
<1>1. l = [sections |-> sections, rows |-> rows, seats |-> seats] /\ TreeOf(sections, rows, seats)
  BY <1>0 DEF LayoutsInv, IsLayout, TreesInv, IsTree
<1>2. ASSUME NEW s, NEW r, NEW q, TreeOf(s, r, q), UNCHANGED <<mapStatus, editing>>,
             layout' = [layout EXCEPT ![v] = [sections |-> s, rows |-> r, seats |-> q]],
             \A u : BeingDeleted(v, u) /\ Removable(sections, rows, seats, u) => Removable(s, r, q, u)
      PROVE  TreesInv' /\ DeletesInv'
  <2>1. PICK new : new = [sections |-> s, rows |-> r, seats |-> q]
    OBVIOUS
  <2>2. new.sections = s /\ new.rows = r /\ new.seats = q
    BY <2>1
  <2>3. IsTree(new) /\ \A u : BeingDeleted(v, u) /\ CanGo(layout[v], u) => CanGo(new, u)
    BY <1>0, <1>2, <2>2 DEF IsTree, CanGo
  <2>4. QED
    BY <1>2, <2>1, <2>3, ReplacedTree
<1>3. /\ sections \in Seq(SectionCodes) /\ rows \in [SectionCodes -> Seq(RowLabels)] /\ seats \subseteq SeatRecords
      /\ \A c \in SectionCodes : rows[c] # <<>> => c \in Elements(sections)
      /\ \A q \in seats : q.row \in Elements(rows[q.section])
  BY <1>1 DEF TreeOf
<1>4. ASSUME NEW c \in SectionCodes, createSection(v, c)
      PROVE  TreesInv' /\ DeletesInv'
  <2>1. /\ layout' = [layout EXCEPT ![v] = [l EXCEPT !.sections = Append(@, c)]] /\ UNCHANGED <<mapStatus, editing>>
        /\ c \notin Elements(sections)
    BY <1>0, <1>4 DEF createSection, Edit
  <2>2. [l EXCEPT !.sections = Append(@, c)] = [sections |-> Append(sections, c), rows |-> rows, seats |-> seats]
    BY <1>1
  <2>3. PICK more : more = Append(sections, c)
    OBVIOUS
  <2>4. more \in Seq(SectionCodes) /\ Elements(more) = Elements(sections) \cup {c}
    BY <1>3, <2>3, OneAppended
  <2>5. /\ TreeOf(more, rows, seats)
        /\ \A u : Removable(sections, rows, seats, u) /\ u # <<c>> => Removable(more, rows, seats, u)
    BY <1>1, <2>4, SectionsChange
  <2>6. \A u : Removable(sections, rows, seats, u) => u # <<c>>
    BY <2>1 DEF Removable
  <2>7. QED
    BY <1>2, <2>1, <2>2, <2>3, <2>5, <2>6
<1>5. ASSUME NEW i \in 1..MaximumSections, moveSection(v, i)
      PROVE  TreesInv' /\ DeletesInv'
  <2>0. i \in Nat \ {0}
    BY SeatMapConstants
  <2>1. /\ layout' = [layout EXCEPT ![v] = [l EXCEPT !.sections = Swapped(@, i)]] /\ UNCHANGED <<mapStatus, editing>>
        /\ i < Len(sections)
    BY <1>0, <1>5 DEF moveSection, Edit
  <2>2. [l EXCEPT !.sections = Swapped(@, i)] = [sections |-> Swapped(sections, i), rows |-> rows, seats |-> seats]
    BY <1>1
  <2>3. PICK more : more = Swapped(sections, i)
    OBVIOUS
  <2>4. more \in Seq(SectionCodes) /\ Elements(more) = Elements(sections)
    BY <1>3, <2>0, <2>1, <2>3, NeighboursSwapped
  <2>5. TreeOf(more, rows, seats) /\ \A u : Removable(sections, rows, seats, u) => Removable(more, rows, seats, u)
    BY <1>1, <2>4 DEF TreeOf, Removable
  <2>6. QED
    BY <1>2, <2>1, <2>2, <2>3, <2>5
<1>6. ASSUME NEW c \in SectionCodes, NEW r \in RowLabels, createRow(v, c, r)
      PROVE  TreesInv' /\ DeletesInv'
  <2>1. /\ layout' = [layout EXCEPT ![v] = [l EXCEPT !.rows[c] = Append(@, r)]] /\ UNCHANGED <<mapStatus, editing>>
        /\ r \notin Elements(rows[c]) /\ c \in Elements(sections) /\ ~BeingDeleted(v, <<c>>)
    BY <1>0, <1>6 DEF createRow, Edit
  <2>2. PICK more : more = Append(rows[c], r)
    OBVIOUS
  <2>3. [l EXCEPT !.rows[c] = Append(@, r)]
          = [sections |-> sections, rows |-> [rows EXCEPT ![c] = more], seats |-> seats]
    <3>1. [l EXCEPT !.rows[c] = Append(@, r)]
            = [sections |-> sections, rows |-> [rows EXCEPT ![c] = Append(@, r)], seats |-> seats]
      BY <1>1
    <3>2. [rows EXCEPT ![c] = Append(@, r)] = [rows EXCEPT ![c] = more]
      BY <1>3, <2>2
    <3>3. QED
      BY <3>1, <3>2
  <2>4. more \in Seq(RowLabels) /\ Elements(more) = Elements(rows[c]) \cup {r}
    <3>1. rows[c] \in Seq(RowLabels)
      BY <1>3
    <3>2. QED
      BY <2>2, <3>1, OneAppended
  <2>5. /\ TreeOf(sections, [rows EXCEPT ![c] = more], seats \cup {})
        /\ \A u : Removable(sections, rows, seats, u) /\ u # <<c>> /\ u # <<c, r>>
                    => Removable(sections, [rows EXCEPT ![c] = more], seats \cup {}, u)
    <3>1. /\ Elements(rows[c]) \ {r} \subseteq Elements(more) /\ r \in Elements(more) /\ {} \subseteq SeatRecords
          /\ \A q \in {} : q.section = c /\ q.row \in Elements(more) \ Elements(rows[c])
      BY <2>4
    <3>2. QED
      BY <1>1, <2>1, <2>4, <3>1, RowsChange, Zenon
  <2>6. \A u : Removable(sections, rows, seats, u) => u # <<c, r>>
    BY <2>1, RowPath
  <2>7. seats \cup {} = seats
    OBVIOUS
  <2>8. QED
    BY <1>2, <2>1, <2>3, <2>5, <2>6, <2>7
<1>7. ASSUME NEW c \in SectionCodes, NEW i \in 1..MaximumRowsPerSection, moveRow(v, c, i)
      PROVE  TreesInv' /\ DeletesInv'
  <2>0. i \in Nat \ {0} /\ rows[c] \in Seq(RowLabels)
    BY <1>3, SeatMapConstants
  <2>1. /\ layout' = [layout EXCEPT ![v] = [l EXCEPT !.rows[c] = Swapped(@, i)]] /\ UNCHANGED <<mapStatus, editing>>
        /\ i < Len(rows[c])
    BY <1>0, <1>7 DEF moveRow, Edit
  <2>2. PICK more : more = Swapped(rows[c], i)
    OBVIOUS
  <2>3. [l EXCEPT !.rows[c] = Swapped(@, i)]
          = [sections |-> sections, rows |-> [rows EXCEPT ![c] = more], seats |-> seats]
    <3>1. [l EXCEPT !.rows[c] = Swapped(@, i)]
            = [sections |-> sections, rows |-> [rows EXCEPT ![c] = Swapped(@, i)], seats |-> seats]
      BY <1>1
    <3>2. [rows EXCEPT ![c] = Swapped(@, i)] = [rows EXCEPT ![c] = more]
      BY <1>3, <2>2
    <3>3. QED
      BY <3>1, <3>2
  <2>4. more \in Seq(RowLabels) /\ Elements(more) = Elements(rows[c])
    BY <2>0, <2>1, <2>2, NeighboursSwapped
  <2>5. rows[c] # <<>> /\ rows[c][i] \in Elements(rows[c])
    BY <2>0, <2>1 DEF Elements
  <2>6. /\ TreeOf(sections, [rows EXCEPT ![c] = more], seats)
        /\ \A u : Removable(sections, rows, seats, u) => Removable(sections, [rows EXCEPT ![c] = more], seats, u)
    <3>1. PICK later : later = [rows EXCEPT ![c] = more]
      OBVIOUS
    <3>2. /\ later \in [SectionCodes -> Seq(RowLabels)] /\ \A d \in SectionCodes : d # c => later[d] = rows[d]
          /\ \A d \in SectionCodes : Elements(later[d]) = Elements(rows[d])
          /\ \A d \in SectionCodes : rows[d] = <<>> => later[d] = <<>>
          /\ \A d \in SectionCodes : later[d] # <<>> => rows[d] # <<>>
      BY <1>3, <2>4, <2>5, <3>1
    <3>3. TreeOf(sections, later, seats)
      BY <1>3, <3>2 DEF TreeOf, SeatRecords
    <3>4. Elements(sections) \subseteq SectionCodes
      BY <1>3 DEF Elements
    <3>5. \A u : Removable(sections, rows, seats, u) => Removable(sections, later, seats, u)
      BY <3>2, <3>4 DEF Removable
    <3>6. QED
      BY <3>1, <3>3, <3>5
  <2>7. QED
    BY <1>2, <2>1, <2>3, <2>6
<1>8. ASSUME NEW q \in SeatRecords, createSeat(v, q)
      PROVE  TreesInv' /\ DeletesInv'
  <2>1. /\ layout' = [layout EXCEPT ![v] = [l EXCEPT !.seats = @ \cup {q}]] /\ UNCHANGED <<mapStatus, editing>>
        /\ q.row \in Elements(rows[q.section]) /\ ~BeingDeleted(v, <<q.section, q.row>>)
    BY <1>0, <1>8 DEF createSeat, Edit
  <2>2. [l EXCEPT !.seats = @ \cup {q}] = [sections |-> sections, rows |-> rows, seats |-> seats \cup {q}]
    BY <1>1
  <2>3. TreeOf(sections, rows, seats \cup {q})
    BY <1>3, <2>1 DEF TreeOf
  <2>4. \A u : Removable(sections, rows, seats, u) /\ u # <<q.section, q.row>> => Removable(sections, rows, seats \cup {q}, u)
    BY DEF Removable
  <2>5. QED
    BY <1>2, <2>1, <2>2, <2>3, <2>4
<1>9. ASSUME NEW q \in SeatRecords, NEW old \in layout[v].seats, updateSeat(v, old, q)
      PROVE  TreesInv' /\ DeletesInv'
  <2>1. /\ layout' = [layout EXCEPT ![v] = [l EXCEPT !.seats = (@ \ {old}) \cup {q}]] /\ UNCHANGED <<mapStatus, editing>>
        /\ old \in seats /\ q.section = old.section /\ q.row = old.row /\ q.label = old.label
    BY <1>0, <1>9 DEF updateSeat, Edit
  <2>2. PICK more : more = (seats \ {old}) \cup {q}
    OBVIOUS
  <2>3. [l EXCEPT !.seats = (@ \ {old}) \cup {q}] = [sections |-> sections, rows |-> rows, seats |-> more]
    BY <1>1, <2>2
  <2>4. TreeOf(sections, rows, more)
    BY <1>3, <2>1, <2>2 DEF TreeOf
  <2>5. \A u : Removable(sections, rows, seats, u) => Removable(sections, rows, more, u)
    <3> SUFFICES ASSUME NEW u, Removable(sections, rows, seats, u) PROVE Removable(sections, rows, more, u)
      OBVIOUS
    <3>1. ASSUME NEW p \in seats, u = <<p.section, p.row, p.label>> PROVE Removable(sections, rows, more, u)
      <4>1. p \in more \/ u = <<q.section, q.row, q.label>>
        BY <2>1, <2>2, <3>1
      <4>2. QED
        BY <2>2, <3>1, <4>1 DEF Removable
    <3>2. ASSUME NEW d \in SectionCodes, NEW r \in Elements(rows[d]), u = <<d, r>>,
                 \A p \in seats : ~(p.section = d /\ p.row = r)
          PROVE  Removable(sections, rows, more, u)
      <4>1. \A p \in more : ~(p.section = d /\ p.row = r)
        BY <2>1, <2>2, <3>2
      <4>2. QED
        BY <3>2, <4>1 DEF Removable
    <3>3. QED
      BY <3>1, <3>2 DEF Removable
  <2>6. QED
    BY <1>2, <2>1, <2>3, <2>4, <2>5
<1>10. ASSUME NEW c \in SectionCodes, NEW first \in RowLabels, NEW n \in 1..RowCount, NEW perRow \in 1..LabelCount,
              NEW horizontal \in 1..MaximumSpacing, NEW vertical \in 1..MaximumSpacing,
              bulkGenerateRows(v, c, first, n, perRow, horizontal, vertical)
       PROVE  TreesInv' /\ DeletesInv'
  <2>1. IsLayout(layout[v])
    BY DEF LayoutsInv
  <2>2. PICK new, G :
          /\ new = [i \in 1..n |-> first + i - 1]
          /\ G = GeneratedSeats(c, first, n, perRow, FirstFreeY(l, c, vertical), horizontal, vertical)
          /\ layout' = [layout EXCEPT ![v] = [sections |-> sections, rows |-> [rows EXCEPT ![c] = @ \o new],
                                              seats |-> seats \cup G]]
          /\ mapStatus' = mapStatus /\ editing' = editing
    <3>1. PICK new, G :
            /\ new = [i \in 1..n |-> first + i - 1]
            /\ G = GeneratedSeats(c, first, n, perRow, FirstFreeY(layout[v], c, vertical), horizontal, vertical)
            /\ layout' = [layout EXCEPT ![v] = [sections |-> layout[v].sections,
                                                rows |-> [layout[v].rows EXCEPT ![c] = @ \o new],
                                                seats |-> layout[v].seats \cup G]]
            /\ mapStatus' = mapStatus /\ editing' = editing
      BY <1>10, <2>1, BulkByParts
    <3>2. QED
      BY <1>0, <3>1, Zenon
  <2>4. /\ c \in Elements(sections) /\ ~BeingDeleted(v, <<c>>)
        /\ \A i \in 0..(n - 1) : first + i \notin Elements(rows[c])
    BY <1>0, <1>10 DEF bulkGenerateRows
  <2>5. new \in Seq(RowLabels) /\ Elements(new) = {first + i : i \in 0..(n - 1)}
    <3>1. first + n - 1 <= RowCount
      BY <1>10 DEF bulkGenerateRows
    <3>2. QED
      BY <2>2, <3>1, BulkLabels, Zenon
  <2>6. G \subseteq SeatRecords /\ \A q \in G : q.section = c /\ \E i \in 0..(n - 1) : q.row = first + i
    <3>1. layout[v].seats \subseteq SeatRecords
      BY <1>0, <1>3
    <3>2. QED
      <4>1. PICK H :
              /\ H = GeneratedSeats(c, first, n, perRow, FirstFreeY(layout[v], c, vertical), horizontal, vertical)
              /\ H \subseteq SeatRecords /\ \A q \in H : q.section = c /\ \E i \in 0..(n - 1) : q.row = first + i
        BY <1>10, <3>1, BulkSeats
      <4>2. H = G
        BY <1>0, <2>2, <4>1, Zenon
      <4>3. QED
        BY <4>1, <4>2
  <2>7. PICK more : more = rows[c] \o new
    OBVIOUS
  <2>8. more \in Seq(RowLabels) /\ Elements(more) = Elements(rows[c]) \cup Elements(new)
    <3>1. rows[c] \in Seq(RowLabels)
      BY <1>3
    <3>2. QED
      BY <2>5, <2>7, <3>1, BothJoined
  <2>9. \A q \in G : q.section = c /\ q.row \in Elements(more) \ Elements(rows[c])
    BY <2>4, <2>5, <2>6, <2>8
  <2>10. /\ TreeOf(sections, [rows EXCEPT ![c] = more], seats \cup G)
         /\ \A u : Removable(sections, rows, seats, u) /\ u # <<c>> /\ u # <<c, first>>
                     => Removable(sections, [rows EXCEPT ![c] = more], seats \cup G, u)
    <3>1. first \in Elements(more)
      <4>1. RowCount \in Nat
        BY SeatMapConstants
      <4>2. 0 \in 0..(n - 1) /\ first = first + 0
        BY <4>1 DEF RowLabels
      <4>3. QED
        BY <2>5, <2>8, <4>2
    <3>2. Elements(rows[c]) \ {first} \subseteq Elements(more)
      BY <2>8
    <3>3. QED
      BY <1>1, <2>4, <2>6, <2>8, <2>9, <3>1, <3>2, RowsChange, Zenon
  <2>11. \A u : Removable(sections, rows, seats, u) => u # <<c, first>>
    <3>1. first \notin Elements(rows[c])
      <4>1. RowCount \in Nat
        BY SeatMapConstants
      <4>2. 0 \in 0..(n - 1) /\ first = first + 0
        BY <4>1 DEF RowLabels
      <4>3. QED
        BY <2>4, <4>2
    <3>2. QED
      BY <3>1, RowPath
  <2>12. [rows EXCEPT ![c] = @ \o new] = [rows EXCEPT ![c] = more]
    BY <1>3, <2>7
  <2>13. QED
    BY <1>2, <2>2, <2>4, <2>10, <2>11, <2>12
<1>11. QED
  BY <1>4, <1>5, <1>6, <1>7, <1>8, <1>9, <1>10 DEF EditDraft

\* What a deletion's trigger has seen: the target is there and nothing hangs below it.
LEMMA LeafCanGo ==
  ASSUME NEW l, NEW t \in Targets(l), IsLeaf(l, t)
  PROVE  CanGo(l, t)
<1>1. ASSUME NEW c \in Elements(l.sections), t = <<c>> PROVE CanGo(l, t)
  <2>1. Len(t) = 1 /\ t[1] = c
    BY <1>1
  <2>2. l.rows[c] = <<>>
    BY <2>1 DEF IsLeaf
  <2>3. QED
    BY <1>1, <2>2 DEF CanGo, Removable
<1>2. ASSUME NEW c \in SectionCodes, NEW r \in Elements(l.rows[c]), t = <<c, r>> PROVE CanGo(l, t)
  <2>1. Len(t) = 2 /\ t[1] = c /\ t[2] = r
    BY <1>2
  <2>2. SeatsOfRow(l, c, r) = {}
    BY <2>1 DEF IsLeaf
  <2>3. QED
    BY <1>2, <2>2 DEF CanGo, Removable, SeatsOfRow
<1>3. ASSUME NEW q \in l.seats, t = <<q.section, q.row, q.label>> PROVE CanGo(l, t)
  BY <1>3 DEF CanGo, Removable
<1>4. QED
  BY <1>1, <1>2, <1>3 DEF Targets

\* Its removal leaves a tree, and leaves every other such target as it is.
LEMMA RemovalKeepsTree ==
  ASSUME NEW l, IsLayout(l), IsTree(l), NEW t, CanGo(l, t)
  PROVE  IsTree(Removed(l, t)) /\ \A u : CanGo(l, u) /\ u # t => CanGo(Removed(l, t), u)
<1>0. PICK sections, rows, seats : sections = l.sections /\ rows = l.rows /\ seats = l.seats
  OBVIOUS
<1>1. l = [sections |-> sections, rows |-> rows, seats |-> seats] /\ TreeOf(sections, rows, seats)
  BY <1>0 DEF IsLayout, IsTree
<1>2. /\ sections \in Seq(SectionCodes) /\ rows \in [SectionCodes -> Seq(RowLabels)] /\ seats \subseteq SeatRecords
      /\ \A c \in SectionCodes : rows[c] # <<>> => c \in Elements(sections)
      /\ \A q \in seats : q.row \in Elements(rows[q.section])
  BY <1>1 DEF TreeOf
<1>3. ASSUME NEW s, NEW r, NEW q, TreeOf(s, r, q), Removed(l, t) = [sections |-> s, rows |-> r, seats |-> q],
             \A u : Removable(sections, rows, seats, u) /\ u # t => Removable(s, r, q, u)
      PROVE  IsTree(Removed(l, t)) /\ \A u : CanGo(l, u) /\ u # t => CanGo(Removed(l, t), u)
  <2>1. PICK new : new = Removed(l, t)
    OBVIOUS
  <2>2. new.sections = s /\ new.rows = r /\ new.seats = q
    BY <1>3, <2>1
  <2>3. IsTree(new) /\ \A u : CanGo(l, u) /\ u # t => CanGo(new, u)
    BY <1>0, <1>3, <2>2 DEF IsTree, CanGo
  <2>4. QED
    BY <2>1, <2>3
<1>4. ASSUME NEW c \in Elements(sections), t = <<c>>, rows[c] = <<>>
      PROVE  IsTree(Removed(l, t)) /\ \A u : CanGo(l, u) /\ u # t => CanGo(Removed(l, t), u)
  <2>1. Len(t) = 1 /\ t[1] = c
    BY <1>4
  <2>2. Removed(l, t) = [l EXCEPT !.sections = Without(@, c)]
    BY <2>1 DEF Removed
  <2>3. PICK more : more = Without(sections, c)
    OBVIOUS
  <2>4. Removed(l, t) = [sections |-> more, rows |-> rows, seats |-> seats]
    BY <1>1, <2>2, <2>3
  <2>5. more \in Seq(SectionCodes) /\ Elements(sections) \ {c} \subseteq Elements(more)
    BY <1>2, <2>3, WithoutOne
  <2>6. /\ TreeOf(more, rows, seats)
        /\ \A u : Removable(sections, rows, seats, u) /\ u # <<c>> => Removable(more, rows, seats, u)
    BY <1>1, <1>4, <2>5, SectionsChange
  <2>7. QED
    BY <1>3, <1>4, <2>4, <2>6
<1>5. ASSUME NEW c \in SectionCodes, NEW r \in Elements(rows[c]), t = <<c, r>>,
             \A q \in seats : ~(q.section = c /\ q.row = r)
      PROVE  IsTree(Removed(l, t)) /\ \A u : CanGo(l, u) /\ u # t => CanGo(Removed(l, t), u)
  <2>1. Len(t) = 2 /\ t[1] = c /\ t[2] = r
    BY <1>5
  <2>2. Removed(l, t) = [l EXCEPT !.rows[c] = Without(@, r)]
    BY <2>1 DEF Removed
  <2>3. PICK more : more = Without(rows[c], r)
    OBVIOUS
  <2>4. Removed(l, t) = [sections |-> sections, rows |-> [rows EXCEPT ![c] = more], seats |-> seats]
    <3>1. [l EXCEPT !.rows[c] = Without(@, r)]
            = [sections |-> sections, rows |-> [rows EXCEPT ![c] = Without(@, r)], seats |-> seats]
      BY <1>1
    <3>2. [rows EXCEPT ![c] = Without(@, r)] = [rows EXCEPT ![c] = more]
      BY <1>2, <2>3
    <3>3. QED
      BY <2>2, <3>1, <3>2
  <2>5. more \in Seq(RowLabels) /\ Elements(rows[c]) \ {r} \subseteq Elements(more)
    <3>1. rows[c] \in Seq(RowLabels)
      BY <1>2
    <3>2. QED
      BY <2>3, <3>1, WithoutOne
  <2>6. rows[c] # <<>> /\ c \in Elements(sections)
    <3>1. rows[c] # <<>>
      BY DEF Elements
    <3>2. QED
      BY <1>2, <3>1
  <2>7. /\ TreeOf(sections, [rows EXCEPT ![c] = more], seats \cup {})
        /\ \A u : Removable(sections, rows, seats, u) /\ u # <<c>> /\ u # <<c, r>>
                    => Removable(sections, [rows EXCEPT ![c] = more], seats \cup {}, u)
    <3>1. {} \subseteq SeatRecords /\ \A q \in {} : q.section = c /\ q.row \in Elements(more) \ Elements(rows[c])
      OBVIOUS
    <3>2. QED
      BY <1>1, <1>5, <2>5, <2>6, <3>1, RowsChange, Zenon
  <2>8. \A u : Removable(sections, rows, seats, u) => u # <<c>>
    BY <2>6, SectionPath
  <2>9. seats \cup {} = seats
    OBVIOUS
  <2>10. QED
    BY <1>3, <1>5, <2>4, <2>7, <2>8, <2>9
<1>6. ASSUME NEW q \in seats, t = <<q.section, q.row, q.label>>
      PROVE  IsTree(Removed(l, t)) /\ \A u : CanGo(l, u) /\ u # t => CanGo(Removed(l, t), u)
  <2>1. Len(t) = 3
    BY <1>6
  <2>2. Removed(l, t) = [l EXCEPT !.seats = {p \in @ : <<p.section, p.row, p.label>> # t}]
    BY <2>1 DEF Removed
  <2>3. PICK more : more = {p \in seats : <<p.section, p.row, p.label>> # t}
    OBVIOUS
  <2>4. Removed(l, t) = [sections |-> sections, rows |-> rows, seats |-> more]
    BY <1>1, <2>2, <2>3
  <2>5. more \subseteq seats /\ \A p \in seats : p \in more \/ <<p.section, p.row, p.label>> = t
    BY <2>3
  <2>6. /\ TreeOf(sections, rows, more)
        /\ \A u : Removable(sections, rows, seats, u) /\ u # t => Removable(sections, rows, more, u)
    <3>1. TreeOf(sections, rows, more)
      BY <1>1, <2>5 DEF TreeOf
    <3>2. \A u : Removable(sections, rows, seats, u) /\ u # t => Removable(sections, rows, more, u)
      BY <2>5 DEF Removable
    <3>3. QED
      BY <3>1, <3>2
  <2>7. QED
    BY <1>3, <2>4, <2>6
<1>7. Removable(sections, rows, seats, t)
  BY <1>0 DEF CanGo
<1>8. QED
  BY <1>4, <1>5, <1>6, <1>7 DEF Removable

\* A commit, which also ends the other deletions of its target.
LEMMA CommitKeepsTrees ==
  ASSUME LayoutsInv, TreesInv, DeletesInv, NEW w \in Editors, CommitDelete(w)
  PROVE  TreesInv' /\ DeletesInv'
<1>1. editing[w].phase = "written" /\ editing[w] # NoEdit
  BY DEF CommitDelete, NoEdit
<1>2. PICK v, t : v = editing[w].version /\ t = editing[w].target
  OBVIOUS
<1>3. v \in MapVersions /\ CanGo(layout[v], t)
  BY <1>1, <1>2 DEF DeletesInv
<1>4. PICK l, new : l = layout[v] /\ new = Removed(l, t)
  OBVIOUS
<1>5. /\ layout' = [layout EXCEPT ![v] = new] /\ mapStatus' = mapStatus
      /\ editing' = [o \in Editors |-> IF o = w \/ (editing[o] # NoEdit /\ editing[o].version = v /\ editing[o].target = t)
                                       THEN NoEdit ELSE editing[o]]
  BY <1>2, <1>3, <1>4 DEF CommitDelete, LayoutsInv
<1>6. IsTree(new) /\ \A u : CanGo(l, u) /\ u # t => CanGo(new, u)
  BY <1>3, <1>4, RemovalKeepsTree DEF LayoutsInv, TreesInv
<1>7. \A u \in MapVersions : layout'[u] = IF u = v THEN new ELSE layout[u]
  BY <1>5 DEF LayoutsInv
<1>8. TreesInv'
  <2>1. \A u \in MapVersions : IsTree(layout'[u])
    BY <1>6, <1>7 DEF TreesInv
  <2>2. QED
    BY <2>1 DEF TreesInv, IsTree, TreeOf, MapVersions, RowLabels, SeatRecords, LabelsOfSeats, Coordinates, Elements
<1>9. editing' = [o \in Editors |-> editing'[o]]
  BY <1>5
<1>10. \A o \in Editors : editing'[o] = NoEdit \/ editing'[o] = editing[o]
  BY <1>5
<1>11. ASSUME NEW o \in Editors, editing'[o].phase = "written" PROVE CanGo(layout'[editing'[o].version], editing'[o].target)
  <2>1. editing'[o] # NoEdit
    BY <1>11 DEF NoEdit
  <2>2. editing'[o] = editing[o] /\ editing[o] # NoEdit /\ ~(editing[o].version = v /\ editing[o].target = t)
    BY <1>5, <2>1
  <2>3. editing[o].version \in MapVersions /\ CanGo(layout[editing[o].version], editing[o].target)
    BY <1>11, <2>2 DEF DeletesInv
  <2>4. QED
    BY <1>4, <1>6, <1>7, <2>2, <2>3
<1>12. DeletesInv'
  <2>1. \A o \in Editors : editing'[o] # NoEdit =>
          /\ editing'[o] = [phase |-> editing'[o].phase, version |-> editing'[o].version, target |-> editing'[o].target]
          /\ editing'[o].phase \in {"checked", "written"}
          /\ editing'[o].version \in MapVersions /\ mapStatus'[editing'[o].version] # "NONE"
    BY <1>5, <1>10 DEF DeletesInv
  <2>2. QED
    BY <1>9, <1>11, <2>1 DEF DeletesInv, CanGo, Removable, NoEdit, MapVersions, Elements
<1>13. QED
  BY <1>8, <1>12

\* Versions: a version is copied from an older one.
MapStatuses == {"NONE", "DRAFT", "PUBLISHED", "ARCHIVED"}
VersionsInv ==
  /\ mapStatus \in [MapVersions -> MapStatuses]
  /\ mapSource = [v \in MapVersions |-> mapSource[v]] /\ \A v \in MapVersions : mapSource[v] \in 0..(v - 1)
PlacesInv ==
  /\ place \in [Places -> InUse \cup {"NONE", "ARCHIVED"}]
  /\ placeWrites \subseteq Places \X (InUse \cup {"ARCHIVED"})

\* The next version is one that was never used.
LEMMA NextIsNew ==
  ASSUME NextMapVersion <= MaxMapVersions
  PROVE  /\ NextMapVersion \in MapVersions /\ mapStatus[NextMapVersion] = "NONE"
         /\ \A v \in MapVersions : mapStatus[v] # "NONE" => v < NextMapVersion
<1>1. MaxMapVersions \in Nat
  BY SeatMapConstants
<1>2. PICK S : S = {0} \cup {v \in MapVersions : mapStatus[v] # "NONE"}
  OBVIOUS
<1>3. S \subseteq 0..MaxMapVersions /\ S # {}
  BY <1>1, <1>2 DEF MapVersions
<1>4. PICK m : m = Max(S)
  OBVIOUS
<1>5. m \in S /\ \A y \in S : y <= m
  <2>1. 0 \in Int /\ MaxMapVersions \in Int
    BY <1>1
  <2>2. QED
    BY <1>3, <1>4, <2>1, MaxIsTop, Zenon
<1>6. NextMapVersion = 1 + m
  BY <1>2, <1>4, Zenon DEF NextMapVersion
<1>7. m \in Nat /\ m + 1 <= MaxMapVersions
  BY <1>1, <1>3, <1>5, <1>6
<1>8. m + 1 \in MapVersions /\ m + 1 \notin S
  BY <1>1, <1>5, <1>7 DEF MapVersions
<1>9. QED
  BY <1>1, <1>2, <1>5, <1>6, <1>7, <1>8 DEF MapVersions

\* Neither layouts nor deletions change, and a version that is there stays.
LEMMA TreesUntouched ==
  ASSUME TreesInv, DeletesInv, UNCHANGED <<layout, editing>>,
         \A v \in MapVersions : mapStatus[v] # "NONE" => mapStatus'[v] # "NONE"
  PROVE  TreesInv' /\ DeletesInv'
<1>1. TreesInv'
  <2>1. \A v \in MapVersions : IsTree(layout'[v])
    BY DEF TreesInv
  <2>2. QED
    BY <2>1 DEF TreesInv, IsTree, TreeOf, MapVersions, RowLabels, SeatRecords, LabelsOfSeats, Coordinates, Elements
<1>2. DeletesInv'
  <2>1. \A w \in Editors : editing[w].phase = "written" => CanGo(layout'[editing[w].version], editing[w].target)
    BY DEF DeletesInv
  <2>2. QED
    BY <2>1 DEF DeletesInv, CanGo, Removable, NoEdit, MapVersions, Elements
<1>3. QED
  BY <1>1, <1>2

\* One deletion moves on.
LEMMA DeletionMoves ==
  ASSUME TreesInv, DeletesInv, UNCHANGED <<layout, mapStatus>>, NEW w \in Editors, NEW e,
         editing' = [editing EXCEPT ![w] = e],
         e # NoEdit => /\ e = [phase |-> e.phase, version |-> e.version, target |-> e.target]
                       /\ e.phase \in {"checked", "written"}
                       /\ e.version \in MapVersions /\ mapStatus[e.version] # "NONE",
         e.phase = "written" => CanGo(layout[e.version], e.target)
  PROVE  TreesInv' /\ DeletesInv'
<1>1. TreesInv'
  <2>1. \A v \in MapVersions : IsTree(layout'[v])
    BY DEF TreesInv
  <2>2. QED
    BY <2>1 DEF TreesInv, IsTree, TreeOf, MapVersions, RowLabels, SeatRecords, LabelsOfSeats, Coordinates, Elements
<1>2. editing' = [o \in Editors |-> IF o = w THEN e ELSE editing[o]]
  BY DEF DeletesInv
<1>3. editing' = [o \in Editors |-> editing'[o]]
  BY <1>2
<1>4. \A o \in Editors : editing'[o].phase = "written" => CanGo(layout'[editing'[o].version], editing'[o].target)
  BY <1>2 DEF DeletesInv
<1>5. \A o \in Editors : editing'[o] # NoEdit =>
        /\ editing'[o] = [phase |-> editing'[o].phase, version |-> editing'[o].version, target |-> editing'[o].target]
        /\ editing'[o].phase \in {"checked", "written"}
        /\ editing'[o].version \in MapVersions /\ mapStatus'[editing'[o].version] # "NONE"
  BY <1>2 DEF DeletesInv
<1>6. DeletesInv'
  BY <1>3, <1>4, <1>5 DEF DeletesInv, CanGo, Removable, NoEdit, MapVersions, Elements
<1>7. QED
  BY <1>1, <1>6

\* Every step of the maps keeps layouts whole and deletions at leaves.
LEMMA TreesStep ==
  ASSUME LayoutsInv, TreesInv, DeletesInv, VersionsInv, [SeatMapsNext]_seatMapVars
  PROVE  TreesInv' /\ DeletesInv'
<1>1. CASE UNCHANGED seatMapVars
  BY <1>1, TreesUntouched DEF seatMapVars
<1>2. ASSUME NEW p, NEW st, CreatePlace(p, st) \/ AskPlace(p, st) \/ WritePlace(p, st)
      PROVE  TreesInv' /\ DeletesInv'
  BY <1>2, TreesUntouched DEF CreatePlace, AskPlace, WritePlace, OnlyPlaces
<1>3. CASE createDraftSeatMap
  <2>1. /\ UNCHANGED <<layout, editing>> /\ mapStatus' = [mapStatus EXCEPT ![NextMapVersion] = "DRAFT"]
    BY <1>3 DEF createDraftSeatMap
  <2>2. \A v \in MapVersions : mapStatus[v] # "NONE" => mapStatus'[v] # "NONE"
    BY <2>1 DEF VersionsInv
  <2>3. QED
    BY <2>1, <2>2, TreesUntouched
<1>4. ASSUME NEW v \in MapVersions, clonePublishedSeatMap(v)
      PROVE  TreesInv' /\ DeletesInv'
  <2>1. PICK n : n = NextMapVersion
    OBVIOUS
  <2>2. /\ editing' = editing /\ mapStatus' = [mapStatus EXCEPT ![n] = "DRAFT"]
        /\ layout' = [layout EXCEPT ![n] = layout[v]]
    BY <1>4, <2>1 DEF clonePublishedSeatMap
  <2>3. n \in MapVersions /\ mapStatus[n] = "NONE"
    BY <1>4, <2>1, NextIsNew DEF clonePublishedSeatMap
  <2>4. \A u \in MapVersions : layout'[u] = IF u = n THEN layout[v] ELSE layout[u]
    BY <2>2 DEF LayoutsInv
  <2>5. \A u \in MapVersions : mapStatus[u] # "NONE" => mapStatus'[u] # "NONE"
    BY <2>2 DEF VersionsInv
  <2>6. TreesInv'
    <3>1. \A u \in MapVersions : IsTree(layout'[u])
      BY <2>4 DEF TreesInv
    <3>2. QED
      BY <3>1 DEF TreesInv, IsTree, TreeOf, MapVersions, RowLabels, SeatRecords, LabelsOfSeats, Coordinates, Elements
  <2>7. ASSUME NEW w \in Editors, editing[w].phase = "written" PROVE CanGo(layout'[editing[w].version], editing[w].target)
    <3>1. editing[w] # NoEdit
      BY <2>7 DEF NoEdit
    <3>2. /\ editing[w].version \in MapVersions /\ mapStatus[editing[w].version] # "NONE"
          /\ CanGo(layout[editing[w].version], editing[w].target)
      BY <2>7, <3>1 DEF DeletesInv
    <3>3. QED
      BY <2>3, <2>4, <3>2
  <2>8. DeletesInv'
    <3>1. \A o \in Editors : editing'[o] # NoEdit =>
            /\ editing'[o] = [phase |-> editing'[o].phase, version |-> editing'[o].version, target |-> editing'[o].target]
            /\ editing'[o].phase \in {"checked", "written"}
            /\ editing'[o].version \in MapVersions /\ mapStatus'[editing'[o].version] # "NONE"
      BY <2>2, <2>5 DEF DeletesInv
    <3>2. editing' = [o \in Editors |-> editing'[o]]
      BY <2>2 DEF DeletesInv
    <3>3. QED
      BY <2>2, <2>7, <3>1, <3>2 DEF DeletesInv, CanGo, Removable, NoEdit, MapVersions, Elements
  <2>9. QED
    BY <2>6, <2>8
<1>5. ASSUME NEW v \in MapVersions, ReadForPublication(v) \/ CommitPublication(v) \/ AbortPublication(v)
      PROVE  TreesInv' /\ DeletesInv'
  <2>1. UNCHANGED <<layout, editing>>
    BY <1>5 DEF ReadForPublication, CommitPublication, AbortPublication
  <2>2. \A u \in MapVersions : mapStatus[u] # "NONE" => mapStatus'[u] # "NONE"
    BY <1>5 DEF ReadForPublication, CommitPublication, AbortPublication
  <2>3. QED
    BY <2>1, <2>2, TreesUntouched
<1>6. ASSUME NEW v \in MapVersions, NEW w \in Editors, NEW t, CheckDelete(w, v, t)
      PROVE  TreesInv' /\ DeletesInv'
  <2>1. PICK e : e = [phase |-> "checked", version |-> v, target |-> t]
    OBVIOUS
  <2>2. UNCHANGED <<layout, mapStatus>> /\ editing' = [editing EXCEPT ![w] = e] /\ mapStatus[v] = "DRAFT"
    BY <1>6, <2>1 DEF CheckDelete, OnlyEditing, canEditSeatMap
  <2>3. e.phase = "checked" /\ e.version = v /\ e.target = t
    BY <2>1
  <2>4. QED
    BY <2>1, <2>2, <2>3, DeletionMoves
<1>7. ASSUME NEW w \in Editors, WriteDelete(w)
      PROVE  TreesInv' /\ DeletesInv'
  <2>1. editing[w].phase = "checked" /\ editing[w] # NoEdit
    BY <1>7 DEF WriteDelete, NoEdit
  <2>2. /\ editing[w] = [phase |-> "checked", version |-> editing[w].version, target |-> editing[w].target]
        /\ editing[w].version \in MapVersions /\ mapStatus[editing[w].version] # "NONE"
    BY <2>1 DEF DeletesInv
  <2>3. PICK e : e = [phase |-> "written", version |-> editing[w].version, target |-> editing[w].target]
    OBVIOUS
  <2>4. UNCHANGED <<layout, mapStatus>> /\ editing' = [editing EXCEPT ![w].phase = "written"]
    BY <1>7 DEF WriteDelete, OnlyEditing
  <2>5. editing' = [editing EXCEPT ![w] = e]
    <3>1. [editing[w] EXCEPT !.phase = "written"] = e
      BY <2>2, <2>3
    <3>2. editing = [o \in Editors |-> editing[o]]
      BY DEF DeletesInv
    <3>3. QED
      BY <2>4, <3>1, <3>2
  <2>6. e.phase = "written" /\ e.version = editing[w].version /\ e.target = editing[w].target
    BY <2>3
  <2>7. CanGo(layout[editing[w].version], editing[w].target)
    BY <1>7, LeafCanGo DEF WriteDelete
  <2>8. QED
    BY <2>2, <2>3, <2>4, <2>5, <2>6, <2>7, DeletionMoves
<1>8. ASSUME NEW w \in Editors, AbortDelete(w)
      PROVE  TreesInv' /\ DeletesInv'
  <2>1. UNCHANGED <<layout, mapStatus>> /\ editing' = [editing EXCEPT ![w] = NoEdit]
    BY <1>8 DEF AbortDelete, OnlyEditing
  <2>2. NoEdit.phase = "idle"
    BY DEF NoEdit
  <2>3. QED
    BY <2>1, <2>2, DeletionMoves
<1>9. CASE SeatMapsNext
  BY <1>2, <1>3, <1>4, <1>5, <1>6, <1>7, <1>8, <1>9, EditsKeepTrees, CommitKeepsTrees DEF SeatMapsNext
<1>10. QED
  BY <1>1, <1>9

\* An edit leaves versions and places alone.
LEMMA OnlyTheLayout ==
  ASSUME NEW v, EditDraft(v) PROVE UNCHANGED <<mapStatus, mapSource, placeVars>>
<1>1. ASSUME NEW new, Edit(v, new) PROVE UNCHANGED <<mapStatus, mapSource, placeVars>>
  BY <1>1 DEF Edit
<1>2. ASSUME NEW c, createSection(v, c) PROVE \E new : Edit(v, new)
  BY <1>2, Zenon DEF createSection
<1>3. ASSUME NEW c, NEW r, createRow(v, c, r) PROVE \E new : Edit(v, new)
  BY <1>3, Zenon DEF createRow
<1>4. ASSUME NEW q, createSeat(v, q) PROVE \E new : Edit(v, new)
  BY <1>4, Zenon DEF createSeat
<1>5. ASSUME NEW old, NEW q, updateSeat(v, old, q) PROVE \E new : Edit(v, new)
  BY <1>5, Zenon DEF updateSeat
<1>6. ASSUME NEW c, NEW a, NEW b, NEW d, NEW e, NEW f, bulkGenerateRows(v, c, a, b, d, e, f) PROVE \E new : Edit(v, new)
  BY <1>6, Zenon DEF bulkGenerateRows
<1>7. ASSUME NEW i, moveSection(v, i) PROVE \E new : Edit(v, new)
  BY <1>7, Zenon DEF moveSection
<1>8. ASSUME NEW c, NEW i, moveRow(v, c, i) PROVE \E new : Edit(v, new)
  BY <1>8, Zenon DEF moveRow
<1>9. \E new : Edit(v, new)
  BY <1>2, <1>3, <1>4, <1>5, <1>6, <1>7, <1>8, Zenon DEF EditDraft
<1>10. QED
  BY <1>1, <1>9

\* The places' and versions' own rows.
LEMMA VersionsStep ==
  ASSUME VersionsInv, [SeatMapsNext]_seatMapVars PROVE VersionsInv'
<1>1. ASSUME UNCHANGED <<mapStatus, mapSource>> PROVE VersionsInv'
  BY <1>1 DEF VersionsInv, MapVersions, MapStatuses
<1>2. CASE createDraftSeatMap
  <2>1. mapSource' = mapSource /\ mapStatus' \in [MapVersions -> MapStatuses]
    BY <1>2 DEF createDraftSeatMap, VersionsInv, MapStatuses
  <2>2. QED
    BY <2>1 DEF VersionsInv, MapVersions, MapStatuses
<1>3. ASSUME NEW v \in MapVersions, clonePublishedSeatMap(v) PROVE VersionsInv'
  <2>1. PICK n : n = NextMapVersion
    OBVIOUS
  <2>2. mapStatus' = [mapStatus EXCEPT ![n] = "DRAFT"] /\ mapSource' = [mapSource EXCEPT ![n] = v] /\ mapStatus[v] = "PUBLISHED"
    BY <1>3, <2>1 DEF clonePublishedSeatMap
  <2>3. n \in MapVersions /\ v < n
    BY <1>3, <2>1, <2>2, NextIsNew DEF clonePublishedSeatMap
  <2>4. MaxMapVersions \in Nat
    BY SeatMapConstants
  <2>5. v \in 0..(n - 1)
    BY <2>3, <2>4 DEF MapVersions
  <2>6. mapStatus' \in [MapVersions -> MapStatuses]
    BY <2>2 DEF VersionsInv, MapStatuses
  <2>7. mapSource' = [u \in MapVersions |-> IF u = n THEN v ELSE mapSource[u]]
    BY <2>2 DEF VersionsInv
  <2>8. mapSource' = [u \in MapVersions |-> mapSource'[u]] /\ \A u \in MapVersions : mapSource'[u] \in 0..(u - 1)
    BY <2>5, <2>7 DEF VersionsInv
  <2>9. QED
    BY <2>6, <2>8 DEF VersionsInv, MapVersions, MapStatuses
<1>4. ASSUME NEW v \in MapVersions, CommitPublication(v) PROVE VersionsInv'
  <2>1. mapSource' = mapSource /\ mapStatus' \in [MapVersions -> MapStatuses]
    BY <1>4 DEF CommitPublication, VersionsInv, MapStatuses
  <2>2. QED
    BY <2>1 DEF VersionsInv, MapVersions, MapStatuses
<1>5. ASSUME NEW v \in MapVersions, EditDraft(v) PROVE UNCHANGED <<mapStatus, mapSource, placeVars>>
  BY <1>5, OnlyTheLayout
<1>6. CASE SeatMapsNext
  BY <1>1, <1>2, <1>3, <1>4, <1>5, <1>6
     DEF SeatMapsNext, CreatePlace, AskPlace, WritePlace, OnlyPlaces, ReadForPublication, AbortPublication, CheckDelete,
         WriteDelete, CommitDelete, AbortDelete, OnlyEditing
<1>7. CASE UNCHANGED seatMapVars
  BY <1>1, <1>7 DEF seatMapVars
<1>8. QED
  BY <1>6, <1>7

LEMMA PlacesStep ==
  ASSUME PlacesInv, [SeatMapsNext]_seatMapVars PROVE PlacesInv'
<1>1. ASSUME UNCHANGED placeVars PROVE PlacesInv'
  BY <1>1 DEF PlacesInv, placeVars, Places, InUse
<1>2. ASSUME NEW p \in Places, NEW st \in InUse \cup {"ARCHIVED"}, CreatePlace(p, st) \/ AskPlace(p, st) \/ WritePlace(p, st)
      PROVE  PlacesInv'
  BY <1>2 DEF CreatePlace, AskPlace, WritePlace, PlacesInv, Places, InUse
<1>3. ASSUME NEW v \in MapVersions, EditDraft(v) PROVE UNCHANGED placeVars
  BY <1>3, OnlyTheLayout
<1>4. CASE SeatMapsNext
  BY <1>1, <1>2, <1>3, <1>4
     DEF SeatMapsNext, createDraftSeatMap, clonePublishedSeatMap, ReadForPublication, CommitPublication, AbortPublication,
         CheckDelete, WriteDelete, CommitDelete, AbortDelete, OnlyEditing
<1>5. CASE UNCHANGED seatMapVars
  BY <1>1, <1>5 DEF seatMapVars
<1>6. QED
  BY <1>4, <1>5

LEMMA TreesInvariant == SeatMapsSpec => [](TreesInv /\ DeletesInv /\ VersionsInv /\ PlacesInv)
<1>1. SeatMapsInit => TreesInv /\ DeletesInv /\ VersionsInv /\ PlacesInv
  <2> SUFFICES ASSUME SeatMapsInit PROVE TreesInv /\ DeletesInv /\ VersionsInv /\ PlacesInv
    OBVIOUS
  <2>1. EmptyLayout.sections = <<>> /\ EmptyLayout.rows = [c \in SectionCodes |-> <<>>] /\ EmptyLayout.seats = {}
    BY DEF EmptyLayout
  <2>2. IsTree(EmptyLayout)
    BY <2>1 DEF IsTree, TreeOf
  <2>3. TreesInv
    BY <2>2 DEF SeatMapsInit, TreesInv
  <2>4. DeletesInv
    BY DEF SeatMapsInit, DeletesInv, NoEdit
  <2>5. VersionsInv
    BY SeatMapConstants DEF SeatMapsInit, VersionsInv, MapStatuses, MapVersions
  <2>6. PlacesInv
    BY DEF SeatMapsInit, PlacesInv
  <2>7. QED
    BY <2>3, <2>4, <2>5, <2>6
<1>2. /\ LayoutsInv /\ TreesInv /\ DeletesInv /\ VersionsInv /\ [SeatMapsNext]_seatMapVars => TreesInv' /\ DeletesInv'
      /\ VersionsInv /\ [SeatMapsNext]_seatMapVars => VersionsInv'
      /\ PlacesInv /\ [SeatMapsNext]_seatMapVars => PlacesInv'
  BY TreesStep, VersionsStep, PlacesStep
<1>3. QED
  BY <1>1, <1>2, LayoutsInvariant, PTL DEF SeatMapsSpec

\* However deletions of sections, rows and seats interleave with edits, generations and
\* publications, no row is left without its section and no seat without its row: a
\* deletion's trigger sees a leaf, and what is being deleted gets no children.
THEOREM LayoutsHangTogether == SeatMapsSpec => []NothingHangsLoose
<1>1. TreesInv => NothingHangsLoose
  BY DEF TreesInv, IsTree, TreeOf, NothingHangsLoose
<1>2. QED
  BY <1>1, TreesInvariant, PTL

\* The rows of places, versions, layouts and deletions keep their types.
THEOREM SeatMapTypes == SeatMapsSpec => []SeatMapsTypeOK
<1>1. TreesInv /\ DeletesInv /\ VersionsInv /\ PlacesInv => SeatMapsTypeOK
  <2> SUFFICES ASSUME TreesInv, DeletesInv, VersionsInv, PlacesInv PROVE SeatMapsTypeOK
    OBVIOUS
  <2>1. \A w \in Editors : editing[w].phase \in {"idle", "checked", "written"}
    BY DEF DeletesInv, NoEdit
  <2>2. QED
    BY <2>1 DEF TreesInv, IsTree, TreeOf, VersionsInv, PlacesInv, MapStatuses, SeatMapsTypeOK
<1>2. QED
  BY <1>1, TreesInvariant, PTL

-----------------------------------------------------------------------------
(* Deployment.  A kept adapter was allowed by the environment of its       *)
(* process on the day it was built; that, and the expiry being a day, is   *)
(* what the invariant remembers.  Then that every edit gives a typed       *)
(* configuration.                                                          *)

AllowedBy(c, a) ==
  /\ readPaymentEnvironment(c)
  /\ \/ c.PAYMENT_PROVIDER = "LOCAL_SIGNED" /\ LocalSignedPaymentProvider(c)
     \/ c.PAYMENT_PROVIDER = "STRIPE" /\ validateSecretWindow(StripeWindow(c), a.builtOn)

HasADay(c) == Expiry \in DOMAIN c /\ c[Expiry] \in Int

ExpiryIsADay ==
  /\ HasADay(hosted)
  /\ release.running => release.config[Expiry] \in Int

ReleaseInv ==
  /\ day \in Nat /\ ExpiryIsADay
  /\ release.checked => ProvidersAreReal(release.config)
  /\ adapter.builtOn \in Nat
  /\ adapter # NoAdapter => release.running /\ adapter.name = release.config.PAYMENT_PROVIDER
                              /\ AllowedBy(release.config, adapter)
  /\ RotationCloses

\* A configuration gives every variable a value the code tells apart.
IsConfig(c) == DOMAIN c = Variables /\ \A v \in Variables : c[v] \in ValuesOf[v]

\* So does one with some of its values replaced.
LEMMA WithKeeps ==
  ASSUME NEW c, NEW given, IsConfig(c), DOMAIN given \subseteq Variables,
         \A v \in DOMAIN given : given[v] \in ValuesOf[v]
  PROVE  IsConfig(With(c, given))
<1> DEFINE w == With(c, given)
<1>1. DOMAIN w = Variables
  BY Zenon DEF With
<1>2. ASSUME NEW v \in Variables
      PROVE  w[v] \in ValuesOf[v]
  <2>1. w[v] = IF v \in DOMAIN given THEN given[v] ELSE c[v]
    BY Zenon DEF With
  <2> QED
    BY <2>1 DEF IsConfig
<1> QED
  BY <1>1, <1>2 DEF IsConfig

\* The environments a project starts from and the file it imports are configurations.
LEMMA StartsConfigured ==
  IsConfig(StagingFile) /\ (DeploymentInit => IsConfig(hosted))
<1> USE DEF Variables, ValuesOf, Unset, Origins, Databases, Secrets, WebhookSecrets, Flag, Switch, Given
<1>1. IsConfig(Blank)
  <2>1. DOMAIN Blank = Variables
    BY Zenon DEF Blank
  <2>2. ASSUME NEW v \in Variables
        PROVE  Blank[v] \in ValuesOf[v]
    <3>1. Blank[v] = CASE v = Expiry -> NoExpiry [] v = "numbers" -> "inRange" [] OTHER -> Unset
      BY Zenon DEF Blank
    <3> QED
      BY <3>1 DEF Expiry, NoExpiry
  <2> QED
    BY <2>1, <2>2 DEF IsConfig
<1>2. IsConfig(Development)
  BY <1>1, WithKeeps DEF Development
<1>3. IsConfig(Harness)
  BY <1>2, WithKeeps DEF Harness
<1>4. IsConfig(StagingFile)
  BY <1>1, WithKeeps DEF StagingFile
<1>5. IsConfig(Shop)
  BY <1>1, WithKeeps DEF Shop
<1>6. IsConfig(RotatingShop)
  BY <1>5, WithKeeps, DeploymentConstants DEF RotatingShop
<1>7. IsConfig(RehearsingShop)
  BY <1>5, WithKeeps DEF RehearsingShop
<1>8. IsConfig(Staging)
  BY <1>4, WithKeeps DEF Staging
<1>9. IsConfig(Empty)
  BY <1>1, WithKeeps DEF Empty
<1> QED
  BY <1>2, <1>3, <1>4, <1>5, <1>6, <1>7, <1>8, <1>9 DEF DeploymentInit

\* A configuration has a day as expiry, or none.
LEMMA ConfigHasADay ==
  ASSUME NEW c, IsConfig(c)
  PROVE  HasADay(c)
<1>1. Expiry \in Variables
  BY DEF Expiry, Variables, ValuesOf
<1>2. ValuesOf[Expiry] = {NoExpiry} \cup 0..Horizon
  BY DEF ValuesOf, Expiry
<1> QED
  BY <1>1, <1>2, DeploymentConstants DEF IsConfig, HasADay, NoExpiry

\* The environments a project starts from and the file it imports have a day as expiry,
\* or none.
LEMMA StartsWithADay ==
  HasADay(StagingFile) /\ (DeploymentInit => HasADay(hosted))
  BY StartsConfigured, ConfigHasADay

\* The adapter a request gets is the kept one or one its environment allows today.
LEMMA BuiltIsAllowed ==
  ASSUME ReleaseInv, NEW a, a = getConfiguredPaymentProvider(release.config, day)
  PROVE  /\ a.builtOn \in Nat
         /\ a # NoAdapter => a.name = release.config.PAYMENT_PROVIDER /\ AllowedBy(release.config, a)
<1>1. PICK c : c = release.config
  OBVIOUS
<1>2. CASE adapter # NoAdapter
  BY <1>2 DEF getConfiguredPaymentProvider, ReleaseInv
<1>3. CASE adapter = NoAdapter /\ a = NoAdapter
  BY <1>3 DEF NoAdapter
<1>4. CASE adapter = NoAdapter /\ a # NoAdapter
  <2>1. a = [name |-> c.PAYMENT_PROVIDER, builtOn |-> day]
    BY <1>1, <1>4 DEF getConfiguredPaymentProvider
  <2>2. /\ readPaymentEnvironment(c)
        /\ \/ c.PAYMENT_PROVIDER = "LOCAL_SIGNED" /\ LocalSignedPaymentProvider(c)
           \/ c.PAYMENT_PROVIDER = "STRIPE" /\ validateSecretWindow(StripeWindow(c), day)
    BY <1>1, <1>4 DEF getConfiguredPaymentProvider
  <2>3. a.name = c.PAYMENT_PROVIDER /\ a.builtOn = day
    BY <2>1
  <2>4. AllowedBy(c, a)
    BY <2>2, <2>3 DEF AllowedBy
  <2> QED
    BY <1>1, <2>3, <2>4 DEF ReleaseInv
<1> QED
  BY <1>2, <1>3, <1>4

\* A delivery is answered 200 only if its secret is the current one, or the previous one
\* inside the window counted from the day of the adapter that verified it.
LEMMA VerifiedInTime ==
  ASSUME NEW c, NEW a, NEW d, day \in Nat, a.builtOn \in Nat, c[Expiry] \in Int,
         a.name = c.PAYMENT_PROVIDER, AllowedBy(c, a),
         SignatureRead(d) \in activeSecretsForVerification(SecretWindow(a.name, c), day)
  PROVE  d.secret = SecretWindow(a.name, c).current \/ day < a.builtOn + PreviousSecretWindow
<1>0. PreviousSecretWindow \in Nat
  BY DeploymentConstants
<1>1. PICK w : w = SecretWindow(a.name, c)
  OBVIOUS
<1>2. validateSecretWindow(w, day) /\ SignatureRead(d) \in {w.current} \cup (IF w.previous # Unset /\ w.expiresAt > day THEN {w.previous} ELSE {})
  BY <1>1 DEF activeSecretsForVerification
<1>3. w.current # Unset /\ (w.previous # Unset => isLong(w.previous))
  BY <1>2 DEF validateSecretWindow, isLong
<1>4. SignatureRead(d) # Unset
  BY <1>2, <1>3
<1>5. SignatureRead(d) = d.secret
  BY <1>4 DEF SignatureRead
<1>6. CASE d.secret = w.current
  BY <1>1, <1>6
<1>7. CASE d.secret # w.current
  <2>1. w.previous # Unset /\ w.expiresAt > day
    BY <1>2, <1>5, <1>7
  <2>2. a.name = "STRIPE"
    BY <1>1, <2>1 DEF SecretWindow, LocalWindow
  <2>3. w = StripeWindow(c)
    BY <1>1, <2>2 DEF SecretWindow
  <2>4. validateSecretWindow(w, a.builtOn)
    BY <2>2, <2>3 DEF AllowedBy
  <2>5. w.expiresAt - a.builtOn <= PreviousSecretWindow
    BY <2>1, <2>4 DEF validateSecretWindow
  <2>6. w.expiresAt \in Int
    BY <2>3 DEF StripeWindow
  <2> QED
    BY <1>0, <2>1, <2>5, <2>6
<1> QED
  BY <1>6, <1>7

\* The route keeps the invariant: what it answers 200 was verified by the adapter it keeps.
LEMMA AnswersAreVerified ==
  ASSUME ReleaseInv, NEW d, WebhookArrives(d)
  PROVE  ReleaseInv'
<1>1. PICK a, c : a = getConfiguredPaymentProvider(release.config, day) /\ c = release.config
  OBVIOUS
<1>2. a.builtOn \in Nat /\ (a # NoAdapter => a.name = c.PAYMENT_PROVIDER /\ AllowedBy(c, a))
  BY <1>1, BuiltIsAllowed
<1>3. release' = release /\ day' = day /\ hosted' = hosted /\ release.running
  BY DEF WebhookArrives
<1>4. adapter' = a \/ adapter' = adapter
  BY <1>1 DEF WebhookArrives
<1>5. /\ adapter'.builtOn \in Nat
      /\ adapter' # NoAdapter => adapter'.name = c.PAYMENT_PROVIDER /\ AllowedBy(c, adapter')
  BY <1>1, <1>2, <1>4 DEF ReleaseInv
<1>6. ASSUME answered'.status = 200
      PROVE  answered'.verified = SecretWindow(adapter'.name, c).current \/ day < adapter'.builtOn + PreviousSecretWindow
  <2>1. /\ "payments" \in release.serving /\ d.size # "declared large"
        /\ a # NoAdapter /\ answered' = processPaymentWebhook(a, d)
    <3>1. \A n : Answer(n).status = n
      BY DEF Answer
    <3>2. answered' # Answer(503) /\ answered' # Answer(413) /\ answered' # Answer(404)
      BY <1>6, <3>1
    <3>3. PICK pays, large : pays = ("payments" \in release.serving) /\ large = (d.size = "declared large")
      OBVIOUS
    <3>4. answered' =
            CASE ~pays -> Answer(503)
              [] pays /\ large -> Answer(413)
              [] (pays /\ ~large) /\ a = NoAdapter -> Answer(503)
              [] (pays /\ ~large) /\ a # NoAdapter /\ a.name # d.path -> Answer(404)
              [] OTHER -> processPaymentWebhook(a, d)
      BY <1>1, <3>3, Zenon DEF WebhookArrives
    <3>5. ~pays => answered' = Answer(503)
      BY <3>4
    <3>6. pays /\ large => answered' = Answer(413)
      BY <3>4
    <3>7. pays /\ ~large /\ a = NoAdapter => answered' = Answer(503)
      BY <3>4
    <3>8. pays /\ ~large /\ a # NoAdapter /\ a.name # d.path => answered' = Answer(404)
      BY <3>4
    <3>9. pays /\ ~large /\ a # NoAdapter /\ a.name = d.path => answered' = processPaymentWebhook(a, d)
      BY <3>4
    <3> QED
      BY <3>2, <3>3, <3>5, <3>6, <3>7, <3>8, <3>9, Zenon
  <2>2. adapter' = a
    BY <1>1, <2>1 DEF WebhookArrives
  <2>3. verifyWebhook(a, d) /\ answered'.verified = d.secret
    <3>1. \A n : Answer(n).status = n
      BY DEF Answer
    <3>2. answered' # Answer(413) /\ answered' # Answer(400)
      BY <1>6, <3>1
    <3>3. PICK event : event = normalizeWebhookEvent(a.name, d.event)
      OBVIOUS
    <3>4. answered' =
            CASE d.size = "large" -> Answer(413)
              [] d.size # "large" /\ (~verifyWebhook(a, d) \/ event = Refused) -> Answer(400)
              [] OTHER -> [verified |-> d.secret, status |-> 200, handed |-> event]
      BY <2>1, <3>3 DEF processPaymentWebhook
    <3> QED
      BY <3>2, <3>4
  <2>4. SignatureRead(d) \in activeSecretsForVerification(SecretWindow(a.name, c), day)
    BY <1>1, <2>3 DEF verifyWebhook
  <2>5. c[Expiry] \in Int /\ day \in Nat
    BY <1>1, <1>3 DEF ReleaseInv, ExpiryIsADay, HasADay
  <2> QED
    BY <1>2, <2>1, <2>2, <2>3, <2>4, <2>5, VerifiedInTime
<1>7. RotationCloses'
  BY <1>1, <1>3, <1>6 DEF RotationCloses, SecretWindow, StripeWindow, LocalWindow, Expiry, Unset, NoExpiry
<1>8. ExpiryIsADay'
  BY <1>3 DEF ReleaseInv, ExpiryIsADay, HasADay, Expiry
<1> QED
  BY <1>1, <1>3, <1>5, <1>7, <1>8 DEF ReleaseInv, NoAdapter

\* Changing a configuration leaves the process and its answers alone.
LEMMA ConfigureKeeps ==
  ASSUME ReleaseInv, Configure
  PROVE  ReleaseInv'
<1>0. ASSUME NEW h, h = hosted', Expiry \in DOMAIN h, h[Expiry] \in Int,
             UNCHANGED <<release, adapter, day, answered>>
      PROVE  ReleaseInv'
  <2>1. ExpiryIsADay'
    BY <1>0 DEF ReleaseInv, ExpiryIsADay, HasADay, Expiry
  <2>2. RotationCloses'
    BY <1>0 DEF ReleaseInv, RotationCloses, SecretWindow, StripeWindow, LocalWindow, Expiry, Unset, NoExpiry
  <2> QED
    BY <1>0, <2>1, <2>2 DEF ReleaseInv, NoAdapter
<1>1. Expiry \in DOMAIN hosted /\ hosted[Expiry] \in Int
  BY DEF ReleaseInv, ExpiryIsADay, HasADay
<1>2. Expiry \in Variables
  BY DEF Expiry, Variables, ValuesOf
<1>3. ValuesOf[Expiry] \subseteq Int
  <2>1. ValuesOf[Expiry] = {NoExpiry} \cup 0..Horizon
    BY DEF ValuesOf, Expiry
  <2> QED
    BY <2>1, DeploymentConstants DEF NoExpiry
<1>4. Expiry \in DOMAIN StagingFile /\ StagingFile[Expiry] \in Int
  BY StartsWithADay DEF HasADay
<1>5. ASSUME NEW v \in Variables, NEW x \in ValuesOf[v], EditVariable(v, x)
      PROVE  ReleaseInv'
  <2>1. PICK h : h = [hosted EXCEPT ![v] = x]
    OBVIOUS
  <2>2. h[Expiry] = IF Expiry = v THEN x ELSE hosted[Expiry]
    BY <1>1, <2>1
  <2>3. Expiry \in DOMAIN h
    BY <1>1, <2>1
  <2>4. h[Expiry] \in Int
    BY <1>1, <1>3, <2>2
  <2>5. h = hosted' /\ UNCHANGED <<release, adapter, day, answered>>
    BY <1>5, <2>1 DEF EditVariable
  <2> QED
    BY <1>0, <2>3, <2>4, <2>5
<1>6. ASSUME NEW f, NEW failed, runImport(f, failed), f[Expiry] \in Int
      PROVE  ReleaseInv'
  <2>1. PICK I : hosted' = [v \in Variables |-> IF v \in I THEN f[v] ELSE hosted[v]]
    BY <1>6 DEF runImport
  <2>2. PICK h : h = [v \in Variables |-> IF v \in I THEN f[v] ELSE hosted[v]]
    OBVIOUS
  <2>3. Expiry \in DOMAIN h /\ h[Expiry] \in Int
    BY <1>1, <1>2, <1>6, <2>2
  <2>4. UNCHANGED <<release, adapter, day, answered>>
    BY <1>6 DEF runImport
  <2> QED
    BY <1>0, <2>1, <2>2, <2>3, <2>4
<1>7. ASSUME NEW v \in Variables, NEW x \in ValuesOf[v], runImport([StagingFile EXCEPT ![v] = x], {})
      PROVE  ReleaseInv'
  <2>1. PICK f : f = [StagingFile EXCEPT ![v] = x]
    OBVIOUS
  <2>2. f[Expiry] = IF Expiry = v THEN x ELSE StagingFile[Expiry]
    BY <1>4, <2>1
  <2>3. f[Expiry] \in Int
    BY <1>3, <1>4, <2>2
  <2> QED
    BY <1>6, <1>7, <2>1, <2>3
<1> QED
  BY <1>4, <1>5, <1>6, <1>7 DEF Configure

\* Every step of a deployment keeps what its adapter and its answers rest on.
LEMMA ReleaseStep ==
  ReleaseInv /\ [DeploymentNext]_deploymentVars => ReleaseInv'
<1> SUFFICES ASSUME ReleaseInv, [DeploymentNext]_deploymentVars
             PROVE  ReleaseInv'
  OBVIOUS
<1>1. ASSUME NEW checked, Release(checked), checked => ProvidersAreReal(hosted)
      PROVE  ReleaseInv'
  <2>1. /\ answered' = NoDelivery /\ adapter' = NoAdapter /\ hosted' = hosted /\ day' = day
        /\ release'.config = hosted /\ release'.running = TRUE /\ release'.checked = checked
    BY <1>1 DEF Release
  <2>2. RotationCloses'
    BY <2>1 DEF RotationCloses, NoDelivery
  <2>3. ExpiryIsADay'
    BY <2>1 DEF ReleaseInv, ExpiryIsADay, HasADay, Expiry
  <2>4. (release.checked => ProvidersAreReal(release.config))'
    BY <1>1, <2>1 DEF ProvidersAreReal, Has, Expiry, NoExpiry, Unset, validateStripeConfiguration,
                      validateResendConfiguration
  <2>5. adapter'.builtOn = 0
    BY <2>1 DEF NoAdapter
  <2>6. (adapter = NoAdapter)'
    BY <2>1 DEF NoAdapter
  <2> QED
    BY <2>1, <2>2, <2>3, <2>4, <2>5, <2>6 DEF ReleaseInv
<1>2. CASE Deploy
  BY <1>1, <1>2 DEF Deploy
<1>3. ASSUME NEW skip, NEW redis, NEW books, CheckAndDeploy(skip, redis, books)
      PROVE  ReleaseInv'
  <2>1. ProvidersAreReal(hosted)
    BY <1>3 DEF CheckAndDeploy, validateProductionConfiguration
  <2>2. Release(TRUE)
    BY <1>3 DEF CheckAndDeploy
  <2> QED
    BY <1>1, <2>1, <2>2
<1>4. CASE UseAdapter
  <2>1. PICK a, c : a = getConfiguredPaymentProvider(release.config, day) /\ c = release.config
    OBVIOUS
  <2>2. a.builtOn \in Nat /\ (a # NoAdapter => a.name = c.PAYMENT_PROVIDER /\ AllowedBy(c, a))
    BY <2>1, BuiltIsAllowed
  <2>3. /\ adapter' = a /\ release' = release /\ day' = day /\ hosted' = hosted /\ release.running
        /\ answered' = NoDelivery
    BY <1>4, <2>1 DEF UseAdapter
  <2>4. RotationCloses'
    BY <2>3 DEF RotationCloses, NoDelivery
  <2>5. ExpiryIsADay'
    BY <2>3 DEF ReleaseInv, ExpiryIsADay, HasADay, Expiry
  <2> QED
    BY <2>1, <2>2, <2>3, <2>4, <2>5 DEF ReleaseInv, NoAdapter
<1>5. CASE AnswerTaken \/ NextDay
  <2>1. /\ answered' = NoDelivery /\ UNCHANGED <<hosted, release, adapter>>
        /\ day' \in {day, day + 1}
    BY <1>5 DEF AnswerTaken, NextDay
  <2>2. day' \in Nat
    BY <2>1 DEF ReleaseInv
  <2>3. RotationCloses'
    BY <2>1 DEF RotationCloses, NoDelivery
  <2>4. ExpiryIsADay'
    BY <2>1 DEF ReleaseInv, ExpiryIsADay, HasADay, Expiry
  <2> QED
    BY <2>1, <2>2, <2>3, <2>4 DEF ReleaseInv, NoAdapter
<1>6. CASE UNCHANGED deploymentVars
  <2>1. UNCHANGED <<hosted, release, adapter, day, answered>>
    BY <1>6 DEF deploymentVars
  <2>2. ExpiryIsADay'
    BY <2>1 DEF ReleaseInv, ExpiryIsADay, HasADay, Expiry
  <2>3. RotationCloses'
    BY <2>1 DEF ReleaseInv, RotationCloses, SecretWindow, StripeWindow, LocalWindow, Expiry, Unset, NoExpiry
  <2> QED
    BY <2>1, <2>2, <2>3 DEF ReleaseInv, NoAdapter
<1>7. CASE DeploymentNext
  BY <1>2, <1>3, <1>4, <1>5, <1>7, ConfigureKeeps, AnswersAreVerified DEF DeploymentNext
<1> QED
  BY <1>6, <1>7

\* The invariant of Deployment.
LEMMA ReleaseInvariant == DeploymentSpec => []ReleaseInv
<1>1. DeploymentInit => ReleaseInv
  <2> SUFFICES ASSUME DeploymentInit
               PROVE  ReleaseInv
    OBVIOUS
  <2>1. day = 0 /\ release = NotReleased /\ adapter = NoAdapter /\ answered = NoDelivery
    BY DEF DeploymentInit
  <2>2. release.running = FALSE /\ release.checked = FALSE /\ adapter.builtOn = 0 /\ answered.status = 0
    BY <2>1 DEF NotReleased, NoAdapter, NoDelivery
  <2>3. ExpiryIsADay
    BY <2>2, StartsWithADay DEF ExpiryIsADay, HasADay
  <2> QED
    BY <2>1, <2>2, <2>3 DEF ReleaseInv, RotationCloses
<1> QED
  BY <1>1, ReleaseStep, PTL DEF DeploymentSpec

\* A secret that is not the current one verifies nothing once the longest window, counted
\* from the day the adapter was built, is over: for any window and any number of days,
\* whatever expiry was configured, although the adapter is never built again.
THEOREM OldSecretsStop == DeploymentSpec => []RotationCloses
<1>1. ReleaseInv => RotationCloses
  BY DEF ReleaseInv
<1> QED
  BY <1>1, ReleaseInvariant, PTL

\* What an environment that simulates payments in a production build admits.
LEMMA SimulationAdmits ==
  ASSUME NEW c, NEW a, AllowedBy(c, a), c.PAYMENT_PROVIDER = "LOCAL_SIGNED", c.NODE_ENV = "production"
  PROVE  /\ c.STRIPE_SECRET_KEY = Unset
         /\ createDeployedNotificationProvider(c) # "customers"
         /\ \/ isLoopback(c.BETTER_AUTH_URL) /\ isLoopback(c.NEXT_PUBLIC_APP_URL)
            \/ /\ EnvironmentBanner(c) = "simulated"
               /\ \A u \in {c.BETTER_AUTH_URL, c.NEXT_PUBLIC_APP_URL} :
                    u # "plain" /\ (u = "shop" => c.SEATFLOW_STAGING_ORIGIN = "shop")
<1>1. evaluateIsolatedE2EMode(c) \/ evaluateStagingDemoMode(c)
  BY DEF AllowedBy, readPaymentEnvironment, LocalPaymentIsAllowed
<1>2. ~Has(c, "STRIPE_SECRET_KEY")
  BY <1>1 DEF evaluateIsolatedE2EMode, evaluateStagingDemoMode
<1>3. c.STRIPE_SECRET_KEY = Unset
  BY <1>2 DEF Has, Expiry
<1>4. CASE evaluateIsolatedE2EMode(c)
  <2>1. ~Has(c, "RESEND_API_KEY") /\ isLoopback(c.BETTER_AUTH_URL) /\ isLoopback(c.NEXT_PUBLIC_APP_URL)
    BY <1>4 DEF evaluateIsolatedE2EMode
  <2>2. c.RESEND_API_KEY = Unset
    BY <2>1 DEF Has, Expiry
  <2>3. createDeployedNotificationProvider(c) = "nobody"
    BY <2>2 DEF createDeployedNotificationProvider, readNotificationEnvironment, Unset
  <2> QED
    BY <1>3, <2>1, <2>3
<1>5. CASE ~evaluateIsolatedE2EMode(c)
  <2>1. evaluateStagingDemoMode(c)
    BY <1>1, <1>5
  <2>2. c.RESEND_MODE # "live" /\ c.SEATFLOW_DEPLOYMENT_PROFILE = "staging-demo"
    BY <2>1 DEF evaluateStagingDemoMode
  <2>3. createDeployedNotificationProvider(c) # "customers"
    BY <2>2 DEF createDeployedNotificationProvider
  <2>4. resolveDeploymentProfile(c) = "staging-demo"
    BY <1>5, <2>1, <2>2 DEF resolveDeploymentProfile, Unset
  <2>5. describePaymentCapability(c) = "simulated"
    BY DEF describePaymentCapability
  <2>6. EnvironmentBanner(c) = "simulated"
    BY <2>4, <2>5 DEF EnvironmentBanner, requiresDemoDisclosure
  <2>7. \A u \in {c.BETTER_AUTH_URL, c.NEXT_PUBLIC_APP_URL} :
          u # "plain" /\ (u = "shop" => c.SEATFLOW_STAGING_ORIGIN = "shop")
    BY <2>1 DEF evaluateStagingDemoMode, isStagingOrigin
  <2> QED
    BY <1>3, <2>3, <2>6, <2>7
<1> QED
  BY <1>4, <1>5

\* What a process becomes is what its configuration was admitted as, however the hosted
\* variables are edited, imported in part and released in between: a simulation touches
\* neither cards nor customers, a checked release takes real payments.
THEOREM ProcessIsWhatWasAdmitted == DeploymentSpec => []ProviderMatchesDeployment
<1>1. ASSUME ReleaseInv
      PROVE  ProviderMatchesDeployment
  <2>0. PICK c : c = release.config
    OBVIOUS
  <2>1. adapter.name # "none" => adapter # NoAdapter
    BY DEF NoAdapter
  <2>2. adapter # NoAdapter => release.running /\ adapter.name = c.PAYMENT_PROVIDER /\ AllowedBy(c, adapter)
    BY <1>1, <2>0 DEF ReleaseInv
  <2>3. SimulationIsSealed
    <3> SUFFICES ASSUME adapter.name = "LOCAL_SIGNED", c.NODE_ENV = "production"
                 PROVE  /\ c.STRIPE_SECRET_KEY = Unset
                        /\ createDeployedNotificationProvider(c) # "customers"
                        /\ \/ isLoopback(c.BETTER_AUTH_URL) /\ isLoopback(c.NEXT_PUBLIC_APP_URL)
                           \/ /\ EnvironmentBanner(c) = "simulated"
                              /\ \A u \in {c.BETTER_AUTH_URL, c.NEXT_PUBLIC_APP_URL} :
                                   u # "plain" /\ (u = "shop" => c.SEATFLOW_STAGING_ORIGIN = "shop")
      BY <2>0, Zenon DEF SimulationIsSealed
    <3>1. c.PAYMENT_PROVIDER = "LOCAL_SIGNED" /\ AllowedBy(c, adapter)
      BY <2>1, <2>2
    <3> QED
      BY <3>1, SimulationAdmits
  <2>4. ASSUME release.checked, adapter # NoAdapter
        PROVE  /\ adapter.name = "STRIPE" /\ c.STRIPE_SECRET_KEY = "live" /\ c.STRIPE_MODE = "live"
               /\ createDeployedNotificationProvider(c) # "test recipient" /\ EnvironmentBanner(c) # "simulated"
    <3>1. ProvidersAreReal(c)
      BY <1>1, <2>0, <2>4 DEF ReleaseInv
    <3>2. /\ c.PAYMENT_PROVIDER = "STRIPE" /\ c.STRIPE_SECRET_KEY = "live" /\ c.STRIPE_MODE = "live"
          /\ c.RESEND_MODE = "live"
      BY <3>1 DEF ProvidersAreReal, validateStripeConfiguration, validateResendConfiguration
    <3>3. createDeployedNotificationProvider(c) # "test recipient"
      BY <3>2 DEF createDeployedNotificationProvider
    <3>4. describePaymentCapability(c) = "live"
      BY <3>2 DEF describePaymentCapability
    <3>5. EnvironmentBanner(c) # "simulated"
      BY <3>4 DEF EnvironmentBanner
    <3> QED
      BY <2>2, <2>4, <3>2, <3>3, <3>5
  <2>5. ASSUME validateStagingDemoConfiguration(c)
        PROVE  adapter.name # "STRIPE" /\ createDeployedNotificationProvider(c) # "customers"
    <3>1. c.PAYMENT_PROVIDER = "LOCAL_SIGNED" /\ c.RESEND_MODE = "test"
      BY <2>5 DEF validateStagingDemoConfiguration, StagingDemoIsSealed
    <3>2. createDeployedNotificationProvider(c) # "customers"
      BY <3>1 DEF createDeployedNotificationProvider
    <3> QED
      BY <2>1, <2>2, <3>1, <3>2
  <2>6. GatesDecideTheProvider
    BY <2>0, <2>4, <2>5 DEF GatesDecideTheProvider
  <2> QED
    BY <2>3, <2>6 DEF ProviderMatchesDeployment
<1> QED
  BY <1>1, ReleaseInvariant, PTL

\* The types, as the steps keep them.
ConfigsTyped == IsConfig(hosted) /\ (release.running => IsConfig(release.config))
ReleaseTyped ==
  release.checked \in BOOLEAN /\ release.running \in BOOLEAN /\ release.serving \subseteq Services
AdapterTyped == adapter.name \in {"none", "LOCAL_SIGNED", "STRIPE"} /\ adapter.builtOn \in 0..day
AnswerTyped(a) ==
  /\ a.status \in {0, 200, 400, 404, 413, 503}
  /\ a.handed.category \in {"PAYMENT", "REFUND", "DISPUTE", "UNSUPPORTED"}
DeploymentTyped ==
  /\ ConfigsTyped /\ ReleaseTyped /\ AdapterTyped /\ AnswerTyped(answered)
  /\ edits \in 0..MaxEdits /\ day \in 0..Horizon

\* Whatever changes a configuration leaves a configuration.
LEMMA ConfigureKeepsConfigs ==
  ASSUME IsConfig(hosted), Configure
  PROVE  IsConfig(hosted')
<1>1. ASSUME NEW c, NEW v \in Variables, NEW x \in ValuesOf[v], IsConfig(c)
      PROVE  IsConfig([c EXCEPT ![v] = x])
  BY <1>1 DEF IsConfig
<1>2. ASSUME NEW f, NEW failed, IsConfig(f), runImport(f, failed)
      PROVE  IsConfig(hosted')
  <2>1. PICK I : hosted' = [v \in Variables |-> IF v \in I THEN f[v] ELSE hosted[v]]
    BY <1>2 DEF runImport
  <2> QED
    BY <1>2, <2>1 DEF IsConfig
<1>3. ASSUME NEW v \in Variables, NEW x \in ValuesOf[v], EditVariable(v, x)
      PROVE  IsConfig(hosted')
  BY <1>1, <1>3, Zenon DEF EditVariable
<1>4. ASSUME NEW v \in Variables, NEW x \in ValuesOf[v], runImport([StagingFile EXCEPT ![v] = x], {})
      PROVE  IsConfig(hosted')
  BY <1>1, <1>2, <1>4, StartsConfigured, Zenon
<1> QED
  BY <1>2, <1>3, <1>4, StartsConfigured, Zenon DEF Configure

\* A delivery is answered with a status of the route and handed over as an event of a
\* family, or as none.
LEMMA AnswersAreTyped ==
  ASSUME NEW d, WebhookArrives(d)
  PROVE  AnswerTyped(answered')
<1>1. PICK a : a = getConfiguredPaymentProvider(release.config, day)
  OBVIOUS
<1>2. ASSUME NEW n \in {400, 404, 413, 503}
      PROVE  AnswerTyped(Answer(n))
  BY DEF AnswerTyped, Answer, Unsupported
<1>3. ASSUME NEW event, event = normalizeWebhookEvent(a.name, d.event), event # Refused
      PROVE  event.category \in {"PAYMENT", "REFUND", "DISPUTE", "UNSUPPORTED"}
  <2>1. PICK k : k = CategoryOf(a.name, d.event.type)
    OBVIOUS
  <2>2. k \in {"PAYMENT", "REFUND", "DISPUTE", "UNSUPPORTED"}
    BY <2>1 DEF CategoryOf
  <2>3. event = Unsupported \/ event.category = k
    BY <1>3, <2>1 DEF normalizeWebhookEvent
  <2> QED
    BY <2>2, <2>3 DEF Unsupported
<1>4. AnswerTyped(processPaymentWebhook(a, d))
  <2>1. PICK event : event = normalizeWebhookEvent(a.name, d.event)
    OBVIOUS
  <2>2. processPaymentWebhook(a, d) =
          CASE d.size = "large" -> Answer(413)
            [] d.size # "large" /\ (~verifyWebhook(a, d) \/ event = Refused) -> Answer(400)
            [] OTHER -> [verified |-> d.secret, status |-> 200, handed |-> event]
    BY <2>1 DEF processPaymentWebhook
  <2>3. \/ processPaymentWebhook(a, d) \in {Answer(413), Answer(400)}
        \/ processPaymentWebhook(a, d) = [verified |-> d.secret, status |-> 200, handed |-> event] /\ event # Refused
    BY <2>2
  <2>4. ASSUME event # Refused
        PROVE  AnswerTyped([verified |-> d.secret, status |-> 200, handed |-> event])
    BY <1>3, <2>1, <2>4 DEF AnswerTyped
  <2> QED
    BY <1>2, <2>3, <2>4
<1>5. answered' \in {Answer(503), Answer(413), Answer(404), processPaymentWebhook(a, d)}
  <2>1. PICK pays, large : pays = ("payments" \in release.serving) /\ large = (d.size = "declared large")
    OBVIOUS
  <2>2. answered' =
          CASE ~pays -> Answer(503)
            [] pays /\ large -> Answer(413)
            [] (pays /\ ~large) /\ a = NoAdapter -> Answer(503)
            [] (pays /\ ~large) /\ a # NoAdapter /\ a.name # d.path -> Answer(404)
            [] OTHER -> processPaymentWebhook(a, d)
    BY <1>1, <2>1, Zenon DEF WebhookArrives
  <2> QED
    BY <2>2
<1> QED
  BY <1>2, <1>4, <1>5

\* Every step keeps the types of a deployment.
LEMMA DeploymentTypesStep ==
  ReleaseInv /\ DeploymentTyped /\ [DeploymentNext]_deploymentVars => DeploymentTyped'
<1> SUFFICES ASSUME ReleaseInv, DeploymentTyped, [DeploymentNext]_deploymentVars
             PROVE  DeploymentTyped'
  OBVIOUS
<1>0. /\ MaxEdits \in Nat /\ Horizon \in Nat /\ edits \in Nat /\ day \in Nat /\ adapter.builtOn \in Nat
      /\ AnswerTyped(NoDelivery)
  BY DeploymentConstants DEF DeploymentTyped, AdapterTyped, AnswerTyped, NoDelivery, Unset
<1>1. CASE Configure
  <2>1. /\ UNCHANGED <<release, adapter, day, answered>>
        /\ edits' \in 0..MaxEdits
    <3>1. ASSUME NEW v, NEW x, EditVariable(v, x)
          PROVE  edits' \in 0..MaxEdits /\ UNCHANGED <<release, adapter, day, answered>>
      BY <1>0, <3>1 DEF EditVariable, DeploymentTyped
    <3>2. ASSUME NEW f, NEW failed, runImport(f, failed)
          PROVE  edits' \in 0..MaxEdits /\ UNCHANGED <<release, adapter, day, answered>>
      BY <1>0, <3>2 DEF runImport
    <3> QED
      BY <1>1, <3>1, <3>2, Zenon DEF Configure
  <2>2. IsConfig(hosted')
    BY <1>1, ConfigureKeepsConfigs DEF DeploymentTyped, ConfigsTyped
  <2> QED
    BY <2>1, <2>2 DEF DeploymentTyped, ConfigsTyped, IsConfig, ReleaseTyped, AdapterTyped, AnswerTyped
<1>2. ASSUME NEW checked \in BOOLEAN, Release(checked)
      PROVE  DeploymentTyped'
  <2>1. /\ release'.config = hosted /\ release'.running = TRUE /\ release'.checked = checked
        /\ release'.serving = Serving(hosted) /\ adapter' = NoAdapter
        /\ UNCHANGED <<hosted, edits, day, answered>>
    BY <1>2 DEF Release
  <2>2. Serving(hosted) \subseteq Services
    BY DEF Serving
  <2>3. adapter'.name = "none" /\ adapter'.builtOn = 0
    BY <2>1 DEF NoAdapter
  <2>4. ConfigsTyped'
    BY <2>1, Zenon DEF DeploymentTyped, ConfigsTyped, IsConfig
  <2>5. ReleaseTyped'
    BY <2>1, <2>2, Zenon DEF ReleaseTyped
  <2>6. AdapterTyped' /\ edits' \in 0..MaxEdits /\ day' \in 0..Horizon
    BY <1>0, <2>1, <2>3 DEF DeploymentTyped, AdapterTyped
  <2>7. AnswerTyped(answered)'
    BY <2>1 DEF DeploymentTyped, AnswerTyped
  <2> QED
    BY <2>4, <2>5, <2>6, <2>7 DEF DeploymentTyped
<1>3. ASSUME NEW a, a = getConfiguredPaymentProvider(release.config, day)
      PROVE  a.name \in {"none", "LOCAL_SIGNED", "STRIPE"} /\ a.builtOn \in 0..day
  <2>1. CASE a = adapter
    BY <2>1 DEF DeploymentTyped, AdapterTyped
  <2>2. CASE a # adapter
    <3>1. PICK c : c = release.config
      OBVIOUS
    <3>2. \/ a = NoAdapter
          \/ a = [name |-> c.PAYMENT_PROVIDER, builtOn |-> day] /\ c.PAYMENT_PROVIDER \in {"LOCAL_SIGNED", "STRIPE"}
      BY <1>3, <2>2, <3>1 DEF getConfiguredPaymentProvider
    <3> QED
      BY <1>0, <3>2 DEF NoAdapter
  <2> QED
    BY <2>1, <2>2
<1>4. CASE UseAdapter
  <2>1. /\ adapter' = getConfiguredPaymentProvider(release.config, day)
        /\ UNCHANGED <<hosted, edits, release, day, answered>>
    BY <1>4 DEF UseAdapter
  <2> QED
    BY <1>3, <2>1 DEF DeploymentTyped, ConfigsTyped, IsConfig, ReleaseTyped, AdapterTyped, AnswerTyped
<1>5. ASSUME NEW d, WebhookArrives(d)
      PROVE  DeploymentTyped'
  <2>1. /\ adapter' = adapter \/ adapter' = getConfiguredPaymentProvider(release.config, day)
        /\ UNCHANGED <<hosted, edits, release, day>>
    BY <1>5 DEF WebhookArrives
  <2>2. AnswerTyped(answered')
    BY <1>5, AnswersAreTyped
  <2>3. adapter'.name \in {"none", "LOCAL_SIGNED", "STRIPE"} /\ adapter'.builtOn \in 0..day
    BY <1>3, <2>1 DEF DeploymentTyped, AdapterTyped
  <2> QED
    BY <2>1, <2>2, <2>3 DEF DeploymentTyped, ConfigsTyped, IsConfig, ReleaseTyped, AdapterTyped, AnswerTyped
<1>6. CASE AnswerTaken \/ NextDay
  <2>1. /\ UNCHANGED <<hosted, edits, release, adapter>> /\ answered' = NoDelivery
        /\ day' = day \/ (day < Horizon /\ day' = day + 1)
    BY <1>6 DEF AnswerTaken, NextDay
  <2>2. day' \in 0..Horizon /\ adapter'.builtOn \in 0..day'
    BY <1>0, <2>1 DEF DeploymentTyped, AdapterTyped
  <2>3. AnswerTyped(answered')
    BY <1>0, <2>1
  <2> QED
    BY <2>1, <2>2, <2>3 DEF DeploymentTyped, ConfigsTyped, IsConfig, ReleaseTyped, AdapterTyped, AnswerTyped
<1>7. CASE UNCHANGED deploymentVars
  BY <1>7 DEF deploymentVars, DeploymentTyped, ConfigsTyped, IsConfig, ReleaseTyped, AdapterTyped, AnswerTyped
<1>8. CASE DeploymentNext
  BY <1>1, <1>2, <1>4, <1>5, <1>6, <1>8 DEF DeploymentNext, Deploy, CheckAndDeploy
<1> QED
  BY <1>7, <1>8

\* Whatever a deployment is edited, imported or released into, every variable of the
\* hosting project and of the running process has a value the schemas tell apart, the
\* adapter is one of the two that exist, built on a day that has come, and a webhook is
\* answered with one of the statuses of its route.
THEOREM DeploymentTypes == DeploymentSpec => []DeploymentTypeOK
<1>1. DeploymentInit => DeploymentTyped
  <2> SUFFICES ASSUME DeploymentInit
               PROVE  DeploymentTyped
    OBVIOUS
  <2>1. /\ edits = 0 /\ day = 0 /\ release = NotReleased /\ adapter = NoAdapter /\ answered = NoDelivery
        /\ IsConfig(hosted)
    BY StartsConfigured DEF DeploymentInit
  <2>2. /\ release.running = FALSE /\ release.checked = FALSE /\ release.serving = {}
        /\ adapter.name = "none" /\ adapter.builtOn = 0
        /\ AnswerTyped(answered)
    BY <2>1 DEF NotReleased, NoAdapter, NoDelivery, AnswerTyped
  <2> QED
    <3>1. ConfigsTyped /\ ReleaseTyped
      BY <2>1, <2>2, Zenon DEF ConfigsTyped, ReleaseTyped
    <3> QED
      BY <2>1, <2>2, <3>1, DeploymentConstants DEF DeploymentTyped, AdapterTyped
<1>2. DeploymentTyped => DeploymentTypeOK
  BY DEF DeploymentTyped, ConfigsTyped, IsConfig, ReleaseTyped, AdapterTyped, AnswerTyped, DeploymentTypeOK
<1> QED
  BY <1>1, <1>2, DeploymentTypesStep, ReleaseInvariant, PTL DEF DeploymentSpec

-----------------------------------------------------------------------------
(* Catalogue.  What a publication has read stays whole although tiers are  *)
(* written under it, because its rows carry the prices of one snapshot and *)
(* assignments cannot change without making it start over.                 *)

\* A row of inventory for each sellable seat of map m and no other, of the tiers that the
\* sections are assigned to, each at one price, in one currency.
Whole(rows, m, tierOf) ==
  /\ {r.seat : r \in rows} = SellableSeats(m) /\ Cardinality(rows) = Cardinality(SellableSeats(m))
  /\ \A r \in rows, c \in SectionsOf[m] : r.seat \in SellableIn[c] => tierOf[c] = r.tier
  /\ \A q, r \in rows : q.tier = r.tier => q.price = r.price
  /\ Cardinality({r.currency : r \in rows}) = 1

IsSession(e) == e = [status |-> e.status, map |-> e.map, slot |-> e.slot, publishedAt |-> e.publishedAt]
IsTier(r) == /\ r = [session |-> r.session, price |-> r.price, currency |-> r.currency, updated |-> r.updated]
             /\ r.updated \in BOOLEAN

\* The tables, as far as the rest looks at them.
TablesTyped ==
  /\ currentMap \in MapIds
  /\ eventSession = [s \in SessionIds |-> eventSession[s]]
  /\ \A s \in SessionIds : IsSession(eventSession[s]) /\ (eventSession[s].status # "NONE" => eventSession[s].map \in MapIds)
  /\ tier = [t \in TierIds |-> tier[t]] /\ \A t \in TierIds : IsTier(tier[t])
  /\ tierWrite = [t \in TierIds |-> tierWrite[t]]
  /\ assigned \in [SessionIds -> [AllSections -> TierIds \cup {Unassigned}]]
  /\ publication = [s \in SessionIds |-> publication[s]]
  /\ stock = [s \in SessionIds |-> stock[s]]

\* A section is priced by a tier of its own session, and by none that is being deleted.
PricesAreOwn ==
  /\ \A s \in SessionIds, c \in AllSections :
       assigned[s][c] # Unassigned => tier[assigned[s][c]].session = s
  /\ \A t \in TierIds : tierWrite[t].kind = "delete" =>
       \A s \in SessionIds, c \in AllSections : assigned[s][c] # t \/ assigned[s][c] = Unassigned

\* One session e, its publication p, inventory and assignments.  A draft was never on sale,
\* and what was not has no inventory; a publication in flight is of a draft, and what it
\* read is whole for it as it is now; inventory is whole.
Sound(e, p, rows, tierOf) ==
  /\ e.status \in {"NONE", "DRAFT"} => e.publishedAt = "never"
  /\ e.publishedAt = "never" => rows = {}
  /\ p # NotPublishing =>
       e.status = "DRAFT" /\ p = [phase |-> p.phase, rows |-> p.rows] /\ Whole(p.rows, e.map, tierOf)
  /\ rows # {} \/ e.publishedAt = "with inventory" => Whole(rows, e.map, tierOf)

CatalogueInv ==
  /\ TablesTyped /\ PricesAreOwn
  /\ \A s \in SessionIds : Sound(eventSession[s], publication[s], stock[s], assigned[s])

\* A map has finitely many sellable seats.
LEMMA SeatsAreFinite ==
  ASSUME NEW m \in MapIds
  PROVE  IsFiniteSet(SellableSeats(m))
<1>1. PICK S, T : S = SectionsOf[m] /\ T = {SellableIn[c] : c \in SectionsOf[m]}
  OBVIOUS
<1>2. IsFiniteSet(S) /\ \A c \in S : IsFiniteSet(SellableIn[c])
  BY <1>1, CatalogueConstants
<1>3. PICK f : f = [c \in S |-> SellableIn[c]]
  OBVIOUS
<1>4. f \in Surjection(S, T)
  BY <1>1, <1>3 DEF Surjection
<1>5. IsFiniteSet(T)
  BY <1>2, <1>4, FS_Surjection
<1>6. \A x \in T : IsFiniteSet(x)
  BY <1>1, <1>2
<1>7. IsFiniteSet(UNION T)
  BY <1>5, <1>6, FS_UNION
<1> QED
  BY <1>1, <1>7 DEF SellableSeats

\* What calculatePricingCoverage admits, computeSessionInventoryRows makes whole.
LEMMA ComputedIsWhole ==
  ASSUME TablesTyped, PricesAreOwn, NEW s \in SessionIds, eventSession[s].status # "NONE", Covered(s)
  PROVE  Whole(computeSessionInventoryRows(s), eventSession[s].map, assigned[s])
<1>0. PICK m : m = eventSession[s].map
  OBVIOUS
<1>1. m \in MapIds
  BY <1>0 DEF TablesTyped
<1>2. \A c \in SectionsOf[m] : c \in AllSections
  BY <1>1 DEF AllSections
<1>3. /\ \A c \in SectionsOf[m] : SellableIn[c] # {} => assigned[s][c] # Unassigned
      /\ Cardinality({tier[t].currency : t \in TiersOf(s)}) <= 1
      /\ SellableSeats(m) # {}
  BY <1>0 DEF Covered, calculatePricingCoverage
<1>4. PICK priced : priced = {d \in SectionsOf[m] : assigned[s][d] # Unassigned}
  OBVIOUS
<1>5. PICK rows : rows = computeSessionInventoryRows(s)
  OBVIOUS
<1>6. rows = UNION {{[seat |-> q, tier |-> assigned[s][c], price |-> tier[assigned[s][c]].price,
                      currency |-> tier[assigned[s][c]].currency] : q \in SellableIn[c]} : c \in priced}
  BY <1>0, <1>4, <1>5 DEF computeSessionInventoryRows
<1>7. \A r \in rows : \E c \in priced : \E q \in SellableIn[c] :
        r = [seat |-> q, tier |-> assigned[s][c], price |-> tier[assigned[s][c]].price,
             currency |-> tier[assigned[s][c]].currency]
  BY <1>6
<1>8. ASSUME NEW c \in priced, NEW q \in SellableIn[c]
      PROVE  [seat |-> q, tier |-> assigned[s][c], price |-> tier[assigned[s][c]].price,
              currency |-> tier[assigned[s][c]].currency] \in rows
  BY <1>6
<1>9. \A c \in SectionsOf[m], d \in SectionsOf[m] : \A q : q \in SellableIn[c] /\ q \in SellableIn[d] => c = d
  BY <1>1, CatalogueConstants
<1>10. {r.seat : r \in rows} = SellableSeats(m)
  <2>1. ASSUME NEW r \in rows
        PROVE  r.seat \in SellableSeats(m)
    BY <1>4, <1>7 DEF SellableSeats
  <2>2. ASSUME NEW q \in SellableSeats(m)
        PROVE  \E r \in rows : r.seat = q
    <3>1. PICK c \in SectionsOf[m] : q \in SellableIn[c]
      BY DEF SellableSeats
    <3>2. c \in priced
      BY <1>3, <1>4, <3>1
    <3> QED
      BY <1>8, <3>1, <3>2
  <2> QED
    BY <2>1, <2>2
<1>11. ASSUME NEW r \in rows, NEW c \in SectionsOf[m], r.seat \in SellableIn[c]
       PROVE  r = [seat |-> r.seat, tier |-> assigned[s][c], price |-> tier[assigned[s][c]].price,
                   currency |-> tier[assigned[s][c]].currency]
  <2>1. PICK d \in priced : \E q \in SellableIn[d] :
          r = [seat |-> q, tier |-> assigned[s][d], price |-> tier[assigned[s][d]].price,
               currency |-> tier[assigned[s][d]].currency]
    BY <1>7
  <2>2. r.seat \in SellableIn[d] /\ d \in SectionsOf[m]
    BY <1>4, <2>1
  <2>3. d = c
    BY <1>9, <1>11, <2>2
  <2> QED
    BY <2>1, <2>3
<1>12. Cardinality(rows) = Cardinality(SellableSeats(m))
  <2>1. PICK f : f = [r \in rows |-> r.seat]
    OBVIOUS
  <2>2. f \in [rows -> SellableSeats(m)]
    BY <1>10, <2>1
  <2>3. \A a, b \in rows : f[a] = f[b] => a = b
    <3> SUFFICES ASSUME NEW a \in rows, NEW b \in rows, a.seat = b.seat
                 PROVE  a = b
      BY <2>1
    <3>1. PICK c \in SectionsOf[m] : a.seat \in SellableIn[c]
      BY <1>4, <1>7
    <3> QED
      BY <1>11, <3>1
  <2>4. f \in Injection(rows, SellableSeats(m))
    BY <2>1, <2>2, <2>3 DEF Injection, IsInjective
  <2>5. f \in Surjection(rows, SellableSeats(m))
    BY <1>10, <2>1, <2>2 DEF Surjection
  <2> QED
    BY <1>1, <2>4, <2>5, SeatsAreFinite, FS_Injection
<1>13. \A r \in rows, c \in SectionsOf[m] : r.seat \in SellableIn[c] => assigned[s][c] = r.tier
  <2> TAKE r \in rows, c \in SectionsOf[m]
  <2> HAVE r.seat \in SellableIn[c]
  <2>1. PICK q : r = [seat |-> q, tier |-> assigned[s][c], price |-> tier[assigned[s][c]].price,
                      currency |-> tier[assigned[s][c]].currency]
    BY <1>11
  <2> QED
    BY <2>1
<1>14. \A q, r \in rows : q.tier = r.tier => q.price = r.price
  <2>1. \A r \in rows : r.price = tier[r.tier].price
    BY <1>7
  <2> QED
    BY <2>1
<1>15. Cardinality({r.currency : r \in rows}) = 1
  <2>1. PICK C, T : C = {r.currency : r \in rows} /\ T = {tier[t].currency : t \in TiersOf(s)}
    OBVIOUS
  <2>2. IsFiniteSet(T)
    <3>1. PICK O : O = TiersOf(s)
      OBVIOUS
    <3>2. O \in SUBSET TierIds
      BY <3>1 DEF TiersOf
    <3>3. IsFiniteSet(O)
      BY <3>2, CatalogueConstants, FS_Subset
    <3>4. PICK f : f = [t \in O |-> tier[t].currency]
      OBVIOUS
    <3>5. f \in Surjection(O, T)
      BY <2>1, <3>1, <3>4 DEF Surjection
    <3> QED
      BY <3>3, <3>5, FS_Surjection
  <2>3. C \subseteq T
    <3> SUFFICES ASSUME NEW r \in rows
                 PROVE  r.currency \in T
      BY <2>1
    <3>1. PICK c \in priced : r.currency = tier[assigned[s][c]].currency
      BY <1>7
    <3>2. c \in AllSections /\ assigned[s][c] # Unassigned
      BY <1>2, <1>4
    <3>3. assigned[s][c] \in TiersOf(s)
      BY <3>2 DEF TablesTyped, PricesAreOwn, TiersOf
    <3> QED
      BY <2>1, <3>1, <3>3
  <2>4. C # {}
    BY <1>3, <1>10, <2>1
  <2>5. IsFiniteSet(C) /\ Cardinality(C) <= Cardinality(T)
    BY <2>2, <2>3, FS_Subset
  <2>6. Cardinality(C) \in Nat /\ Cardinality(T) \in Nat
    BY <2>2, <2>5, FS_CardinalityType
  <2>7. Cardinality(C) # 0
    BY <2>4, <2>5, FS_EmptySet
  <2> QED
    BY <1>3, <2>1, <2>5, <2>6, <2>7
<1> QED
  BY <1>0, <1>5, <1>10, <1>12, <1>13, <1>14, <1>15 DEF Whole

\* A step leaves a session as it is, apart from making its publication start over, or
\* leaves it sound.
LEMMA SessionWise ==
  ASSUME CatalogueInv, TablesTyped', PricesAreOwn',
         \A s \in SessionIds :
           \/ /\ eventSession'[s] = eventSession[s] /\ stock'[s] = stock[s] /\ assigned'[s] = assigned[s]
              /\ publication'[s] = publication[s] \/ publication'[s] = NotPublishing
           \/ Sound(eventSession'[s], publication'[s], stock'[s], assigned'[s])
  PROVE  CatalogueInv'
<1>1. \A s \in SessionIds : Sound(eventSession'[s], publication'[s], stock'[s], assigned'[s])
  BY DEF CatalogueInv, Sound
<1>2. (\A s \in SessionIds : Sound(eventSession[s], publication[s], stock[s], assigned[s]))'
  BY <1>1 DEF Sound, Whole, SellableSeats, NotPublishing
<1> QED
  BY <1>2 DEF CatalogueInv

\* Prices stay their sessions' own when neither tiers nor their assignments change.
LEMMA PricesUntouched ==
  ASSUME PricesAreOwn, UNCHANGED <<tier, tierWrite, assigned>>
  PROVE  PricesAreOwn'
  BY DEF PricesAreOwn, AllSections, Unassigned

\* The tables keep their types when only publications and the current map change.
LEMMA TablesUntouched ==
  ASSUME TablesTyped, UNCHANGED <<eventSession, tier, tierWrite, assigned, stock>>, currentMap' \in MapIds,
         publication' = [s \in SessionIds |-> publication'[s]]
  PROVE  TablesTyped'
  BY DEF TablesTyped, IsSession, IsTier, AllSections, Unassigned

\* The operator's side, the event, and a publication that is undone.
LEMMA QuietKeeps ==
  ASSUME CatalogueInv, UNCHANGED <<eventSession, tier, tierWrite, assigned, stock>>, currentMap' \in MapIds,
         publication' = [s \in SessionIds |-> publication'[s]],
         \A s \in SessionIds : publication'[s] = publication[s] \/ publication'[s] = NotPublishing
  PROVE  CatalogueInv'
<1>1. TablesTyped' /\ PricesAreOwn'
  BY TablesUntouched, PricesUntouched DEF CatalogueInv
<1> QED
  BY <1>1, SessionWise

\* One session row changes, and its publication starts over.
LEMMA SessionRowKeeps ==
  ASSUME CatalogueInv, NEW s \in SessionIds, NEW e, IsSession(e), e.status # "NONE" => e.map \in MapIds,
         Sound(e, NotPublishing, stock[s], assigned[s]),
         eventSession' = [eventSession EXCEPT ![s] = e],
         publication' = [publication EXCEPT ![s] = NotPublishing],
         UNCHANGED <<currentMap, tier, tierWrite, assigned, stock>>
  PROVE  CatalogueInv'
<1>1. TablesTyped
  BY DEF CatalogueInv
<1>2. eventSession' = [o \in SessionIds |-> IF o = s THEN e ELSE eventSession[o]]
  BY <1>1 DEF TablesTyped
<1>3. publication' = [o \in SessionIds |-> IF o = s THEN NotPublishing ELSE publication[o]]
  BY <1>1 DEF TablesTyped
<1>4. \A o \in SessionIds : IsSession(eventSession'[o]) /\ (eventSession'[o].status # "NONE" => eventSession'[o].map \in MapIds)
  BY <1>1, <1>2 DEF TablesTyped
<1>5. TablesTyped'
  BY <1>1, <1>2, <1>3, <1>4 DEF TablesTyped, IsSession, IsTier, AllSections, Unassigned
<1>6. PricesAreOwn'
  BY PricesUntouched DEF CatalogueInv
<1>7. \A o \in SessionIds :
        \/ /\ eventSession'[o] = eventSession[o] /\ stock'[o] = stock[o] /\ assigned'[o] = assigned[o]
           /\ publication'[o] = publication[o] \/ publication'[o] = NotPublishing
        \/ Sound(eventSession'[o], publication'[o], stock'[o], assigned'[o])
  BY <1>2, <1>3
<1> QED
  BY <1>5, <1>6, <1>7, SessionWise

\* A cancelled session keeps what it has.
LEMMA CancelledIsSound ==
  ASSUME NEW e, IsSession(e), NEW p, NEW rows, NEW tierOf, Sound(e, p, rows, tierOf)
  PROVE  /\ IsSession(Cancelled(e)) /\ Cancelled(e).map = e.map
         /\ Sound(Cancelled(e), NotPublishing, rows, tierOf)
<1>1. PICK d : d = Cancelled(e)
  OBVIOUS
<1>2. d = [status |-> "CANCELLED", map |-> e.map, slot |-> e.slot, publishedAt |-> e.publishedAt]
  BY <1>1 DEF Cancelled, IsSession
<1>3. d.status = "CANCELLED" /\ d.map = e.map /\ d.slot = e.slot /\ d.publishedAt = e.publishedAt
  BY <1>2
<1>4. IsSession(d)
  BY <1>2, <1>3 DEF IsSession
<1>5. Sound(d, NotPublishing, rows, tierOf)
  BY <1>3 DEF Sound
<1> QED
  BY <1>1, <1>3, <1>4, <1>5

\* Cancellation of one session and of all.
LEMMA CancelKeeps ==
  ASSUME CatalogueInv, cancelEvent \/ \E s \in SessionIds : cancelEventSession(s)
  PROVE  CatalogueInv'
<1>0. TablesTyped /\ \A s \in SessionIds : IsSession(eventSession[s])
  BY DEF CatalogueInv, TablesTyped
<1>1. \A s \in SessionIds : /\ IsSession(Cancelled(eventSession[s])) /\ Cancelled(eventSession[s]).map = eventSession[s].map
                            /\ Sound(Cancelled(eventSession[s]), NotPublishing, stock[s], assigned[s])
  BY <1>0, CancelledIsSound DEF CatalogueInv
<1>2. ASSUME NEW s \in SessionIds, cancelEventSession(s)
      PROVE  CatalogueInv'
  <2>1. /\ eventSession[s].status # "NONE"
        /\ eventSession' = [eventSession EXCEPT ![s] = Cancelled(@)]
        /\ publication' = [publication EXCEPT ![s] = NotPublishing]
        /\ UNCHANGED <<currentMap, tier, tierWrite, assigned, stock>>
    BY <1>2 DEF cancelEventSession, canCancel, OnlyEvent, venueSide
  <2>2. PICK e : e = Cancelled(eventSession[s])
    OBVIOUS
  <2>3. eventSession' = [eventSession EXCEPT ![s] = e]
    BY <2>1, <2>2
  <2>4. e.map \in MapIds
    BY <1>0, <1>1, <2>1, <2>2 DEF TablesTyped
  <2> QED
    BY <1>1, <2>1, <2>2, <2>3, <2>4, SessionRowKeeps
<1>3. CASE cancelEvent
  <2>1. /\ eventSession' = [s \in SessionIds |-> IF canCancel(eventSession[s].status) THEN Cancelled(eventSession[s])
                                                 ELSE eventSession[s]]
        /\ publication' = [s \in SessionIds |-> NotPublishing]
        /\ UNCHANGED <<currentMap, tier, tierWrite, assigned, stock>>
    BY <1>3 DEF cancelEvent, OnlyEvent, venueSide
  <2>2. \A s \in SessionIds : eventSession'[s] = IF canCancel(eventSession[s].status) THEN Cancelled(eventSession[s])
                                                 ELSE eventSession[s]
    BY <2>1
  <2>3. \A s \in SessionIds : IsSession(eventSession'[s]) /\ (eventSession'[s].status # "NONE" => eventSession'[s].map \in MapIds)
    BY <1>0, <1>1, <2>2 DEF TablesTyped, canCancel
  <2>4. eventSession' = [s \in SessionIds |-> eventSession'[s]]
    BY <2>1
  <2>5. TablesTyped'
    BY <1>0, <2>1, <2>3, <2>4 DEF TablesTyped, IsSession, IsTier, AllSections, Unassigned
  <2>6. PricesAreOwn'
    BY <2>1, PricesUntouched DEF CatalogueInv
  <2>7. \A s \in SessionIds : publication'[s] = NotPublishing
    BY <2>1
  <2>8. \A s \in SessionIds :
          \/ /\ eventSession'[s] = eventSession[s] /\ stock'[s] = stock[s] /\ assigned'[s] = assigned[s]
             /\ publication'[s] = publication[s] \/ publication'[s] = NotPublishing
          \/ Sound(eventSession'[s], publication'[s], stock'[s], assigned'[s])
    BY <1>1, <2>1, <2>2, <2>7
  <2> QED
    BY <2>5, <2>6, <2>8, SessionWise
<1> QED
  BY <1>2, <1>3

\* A session is drafted or its draft changed; it has no inventory that could disagree.
LEMMA DraftKeeps ==
  ASSUME CatalogueInv, NEW s \in SessionIds, NEW slot, createEventSession(s, slot) \/ updateDraftEventSession(s, slot)
  PROVE  CatalogueInv'
<1>0. /\ TablesTyped /\ IsSession(eventSession[s])
      /\ Sound(eventSession[s], publication[s], stock[s], assigned[s])
  BY DEF CatalogueInv, TablesTyped
<1>1. /\ publication' = [publication EXCEPT ![s] = NotPublishing]
      /\ UNCHANGED <<currentMap, tier, tierWrite, assigned, stock>>
  BY DEF createEventSession, updateDraftEventSession, OnlySession, venueSide
<1>2. eventSession[s].status \in {"NONE", "DRAFT"}
  BY DEF createEventSession, updateDraftEventSession, NoSession
<1>3. stock[s] = {} /\ eventSession[s].publishedAt = "never"
  BY <1>0, <1>2 DEF Sound
<1>4. PICK e : /\ e = [status |-> "DRAFT", map |-> currentMap, slot |-> slot, publishedAt |-> "never"]
  OBVIOUS
<1>5. eventSession' = [eventSession EXCEPT ![s] = e]
  <2>1. CASE createEventSession(s, slot)
    BY <1>4, <2>1 DEF createEventSession
  <2>2. CASE updateDraftEventSession(s, slot)
    <3>1. eventSession[s] = [status |-> "DRAFT", map |-> eventSession[s].map, slot |-> eventSession[s].slot,
                             publishedAt |-> "never"]
      BY <1>0, <1>3, <2>2 DEF updateDraftEventSession, IsSession
    <3>2. PICK f : f = [eventSession EXCEPT ![s].map = currentMap]
      OBVIOUS
    <3>3. eventSession' = [f EXCEPT ![s].slot = slot]
      BY <2>2, <3>2, Zenon DEF updateDraftEventSession
    <3>4. PICK d : d = [status |-> "DRAFT", map |-> currentMap, slot |-> eventSession[s].slot, publishedAt |-> "never"]
      OBVIOUS
    <3>5. f = [o \in SessionIds |-> IF o = s THEN d ELSE eventSession[o]]
      BY <1>0, <3>1, <3>2, <3>4 DEF TablesTyped
    <3>6. f[s] = d
      BY <3>5
    <3>7. [d EXCEPT !.slot = slot] = e
      BY <1>4, <3>4
    <3>8. eventSession' = [o \in SessionIds |-> IF o = s THEN e ELSE eventSession[o]]
      BY <3>3, <3>5, <3>6, <3>7
    <3> QED
      BY <1>0, <3>8 DEF TablesTyped
  <2> QED
    BY <2>1, <2>2
<1>6. e.status = "DRAFT" /\ e.map = currentMap /\ e.publishedAt = "never" /\ IsSession(e)
  BY <1>4 DEF IsSession
<1>7. Sound(e, NotPublishing, stock[s], assigned[s])
  BY <1>3, <1>6 DEF Sound
<1>8. e.map \in MapIds
  BY <1>0, <1>6 DEF TablesTyped
<1> QED
  BY <1>1, <1>5, <1>6, <1>7, <1>8, SessionRowKeeps

\* Tiers are written without anyone else looking.
LEMMA TierKeeps ==
  ASSUME CatalogueInv, NEW t \in TierIds, ManageTier(t)
  PROVE  CatalogueInv'
<1>0. TablesTyped /\ PricesAreOwn
  BY DEF CatalogueInv
<1>1. ASSUME UNCHANGED <<currentMap, eventSession, assigned, stock>>,
             publication' = [s \in SessionIds |-> publication'[s]],
             \A s \in SessionIds : publication'[s] = publication[s] \/ publication'[s] = NotPublishing,
             NEW row, IsTier(row), tier' = [tier EXCEPT ![t] = row],
             NEW write, tierWrite' = [tierWrite EXCEPT ![t] = write],
             \A s \in SessionIds, c \in AllSections :
               assigned[s][c] = t /\ t # Unassigned => row.session = s /\ write.kind # "delete"
      PROVE  CatalogueInv'
  <2>1. tier' = [u \in TierIds |-> IF u = t THEN row ELSE tier[u]]
    BY <1>0, <1>1 DEF TablesTyped
  <2>2. tierWrite' = [u \in TierIds |-> IF u = t THEN write ELSE tierWrite[u]]
    BY <1>0, <1>1 DEF TablesTyped
  <2>3. tier' = [u \in TierIds |-> tier'[u]] /\ \A u \in TierIds : IsTier(tier'[u])
    BY <1>0, <1>1, <2>1 DEF TablesTyped
  <2>4. tierWrite' = [u \in TierIds |-> tierWrite'[u]]
    BY <2>2
  <2>5. TablesTyped'
    BY <1>0, <1>1, <2>3, <2>4 DEF TablesTyped, IsSession, IsTier, AllSections, Unassigned
  <2>6. ASSUME NEW s \in SessionIds, NEW c \in AllSections, assigned[s][c] # Unassigned
        PROVE  tier'[assigned[s][c]].session = s
    <3>1. assigned[s][c] \in TierIds
      BY <1>0, <2>6 DEF TablesTyped
    <3>2. tier[assigned[s][c]].session = s
      BY <1>0, <2>6 DEF PricesAreOwn
    <3> QED
      BY <1>1, <2>1, <2>6, <3>1, <3>2
  <2>7. ASSUME NEW u \in TierIds, tierWrite'[u].kind = "delete", NEW s \in SessionIds, NEW c \in AllSections
        PROVE  assigned[s][c] # u \/ assigned[s][c] = Unassigned
    BY <1>0, <1>1, <2>2, <2>7 DEF PricesAreOwn
  <2>8. PricesAreOwn'
    BY <1>1, <2>6, <2>7 DEF PricesAreOwn, AllSections, Unassigned
  <2> QED
    BY <1>1, <2>5, <2>8, SessionWise
<1>2. ASSUME OnlyTierWrite
      PROVE  /\ UNCHANGED <<currentMap, eventSession, assigned, stock>>
             /\ publication' = [s \in SessionIds |-> publication'[s]]
             /\ \A s \in SessionIds : publication'[s] = publication[s] \/ publication'[s] = NotPublishing
  BY <1>0, <1>2 DEF OnlyTierWrite, venueSide, TablesTyped
<1>3. IsTier(tier[t]) /\ tier = [tier EXCEPT ![t] = tier[t]] /\ tierWrite = [tierWrite EXCEPT ![t] = tierWrite[t]]
  BY <1>0 DEF TablesTyped
<1>4. \A s \in SessionIds, c \in AllSections : assigned[s][c] = t /\ t # Unassigned =>
        tier[t].session = s /\ tierWrite[t].kind # "delete"
  BY <1>0 DEF PricesAreOwn
<1>5. ASSUME NEW s \in SessionIds, NEW p, NEW cur, createSessionPriceTier(t, s, p, cur)
      PROVE  CatalogueInv'
  <2>1. PICK row : row = [session |-> s, price |-> p, currency |-> cur, updated |-> FALSE]
    OBVIOUS
  <2>2. IsTier(row)
    BY <2>1 DEF IsTier
  <2>3. /\ tier[t] = NoTier /\ tier' = [tier EXCEPT ![t] = row]
        /\ publication' = [publication EXCEPT ![s] = NotPublishing]
        /\ tierWrite' = [tierWrite EXCEPT ![t] = tierWrite[t]]
        /\ UNCHANGED <<currentMap, eventSession, assigned, stock>>
    BY <1>3, <1>5, <2>1 DEF createSessionPriceTier, venueSide
  <2>4. publication' = [o \in SessionIds |-> IF o = s THEN NotPublishing ELSE publication[o]]
    BY <1>0, <2>3 DEF TablesTyped
  <2>5. /\ publication' = [o \in SessionIds |-> publication'[o]]
        /\ \A o \in SessionIds : publication'[o] = publication[o] \/ publication'[o] = NotPublishing
    BY <2>4
  <2>6. tier[t].session \notin SessionIds
    BY <2>3, CatalogueConstants DEF NoTier
  <2>7. \A o \in SessionIds, c \in AllSections : ~(assigned[o][c] = t /\ t # Unassigned)
    BY <1>4, <2>6
  <2>8. PICK write : write = tierWrite[t]
    OBVIOUS
  <2>9. tierWrite' = [tierWrite EXCEPT ![t] = write]
    BY <2>3, <2>8
  <2>10. /\ UNCHANGED <<currentMap, eventSession, assigned, stock>> /\ tier' = [tier EXCEPT ![t] = row]
         /\ \A o \in SessionIds, c \in AllSections : assigned[o][c] = t /\ t # Unassigned =>
              row.session = o /\ write.kind # "delete"
    BY <2>3, <2>7
  <2> QED
    BY <1>1, <2>2, <2>5, <2>9, <2>10
<1>6. ASSUME NEW p, NEW cur, WriteTier(t, p, cur)
      PROVE  CatalogueInv'
  <2>1. PICK write : write = [kind |-> "update", price |-> p, currency |-> cur]
    OBVIOUS
  <2>2. write.kind = "update"
    BY <2>1
  <2>3. tierWrite' = [tierWrite EXCEPT ![t] = write] /\ tier' = [tier EXCEPT ![t] = tier[t]] /\ OnlyTierWrite
    BY <1>3, <1>6, <2>1 DEF WriteTier
  <2>4. PICK row : row = tier[t]
    OBVIOUS
  <2>5. IsTier(row) /\ tier' = [tier EXCEPT ![t] = row]
    BY <1>3, <2>3, <2>4
  <2>6. \A s \in SessionIds, c \in AllSections : assigned[s][c] = t /\ t # Unassigned =>
          row.session = s /\ write.kind # "delete"
    BY <1>4, <2>2, <2>4
  <2>7. /\ UNCHANGED <<currentMap, eventSession, assigned, stock>>
        /\ publication' = [s \in SessionIds |-> publication'[s]]
        /\ \A s \in SessionIds : publication'[s] = publication[s] \/ publication'[s] = NotPublishing
    BY <1>2, <2>3
  <2> QED
    BY <1>1, <2>3, <2>5, <2>6, <2>7
<1>7. CASE DeleteTier(t)
  <2>1. PICK write : write = [kind |-> "delete"]
    OBVIOUS
  <2>2. /\ tierWrite' = [tierWrite EXCEPT ![t] = write] /\ tier' = [tier EXCEPT ![t] = tier[t]] /\ OnlyTierWrite
        /\ \A c \in AllSections : assigned[tier[t].session][c] # t
    BY <1>3, <1>7, <2>1 DEF DeleteTier
  <2>3. \A s \in SessionIds, c \in AllSections : ~(assigned[s][c] = t /\ t # Unassigned)
    BY <1>4, <2>2
  <2>4. PICK row : row = tier[t]
    OBVIOUS
  <2>5. IsTier(row) /\ tier' = [tier EXCEPT ![t] = row]
    BY <1>3, <2>2, <2>4
  <2>6. \A s \in SessionIds, c \in AllSections : assigned[s][c] = t /\ t # Unassigned =>
          row.session = s /\ write.kind # "delete"
    BY <1>4, <2>3, <2>4
  <2>7. /\ UNCHANGED <<currentMap, eventSession, assigned, stock>>
        /\ publication' = [s \in SessionIds |-> publication'[s]]
        /\ \A s \in SessionIds : publication'[s] = publication[s] \/ publication'[s] = NotPublishing
    BY <1>2, <2>2
  <2> QED
    BY <1>1, <2>2, <2>5, <2>6, <2>7
<1>8. CASE AbortTier(t)
  <2>1. PICK write : write = NoTierWrite
    OBVIOUS
  <2>2. write.kind # "delete"
    BY <2>1 DEF NoTierWrite
  <2>3. tierWrite' = [tierWrite EXCEPT ![t] = write] /\ tier' = [tier EXCEPT ![t] = tier[t]] /\ OnlyTierWrite
    BY <1>3, <1>8, <2>1 DEF AbortTier
  <2>4. PICK row : row = tier[t]
    OBVIOUS
  <2>5. IsTier(row) /\ tier' = [tier EXCEPT ![t] = row]
    BY <1>3, <2>3, <2>4
  <2>6. \A s \in SessionIds, c \in AllSections : assigned[s][c] = t /\ t # Unassigned =>
          row.session = s /\ write.kind # "delete"
    BY <1>4, <2>2, <2>4
  <2>7. /\ UNCHANGED <<currentMap, eventSession, assigned, stock>>
        /\ publication' = [s \in SessionIds |-> publication'[s]]
        /\ \A s \in SessionIds : publication'[s] = publication[s] \/ publication'[s] = NotPublishing
    BY <1>2, <2>3
  <2> QED
    BY <1>1, <2>3, <2>5, <2>6, <2>7
<1>9. CASE CommitTier(t)
  <2>1. PICK write : write = NoTierWrite
    OBVIOUS
  <2>2. write.kind # "delete"
    BY <2>1 DEF NoTierWrite
  <2>3. PICK row : row = IF tierWrite[t].kind = "delete" THEN NoTier
                         ELSE [tier[t] EXCEPT !.price = tierWrite[t].price, !.currency = tierWrite[t].currency,
                                               !.updated = TRUE]
    OBVIOUS
  <2>4. tierWrite' = [tierWrite EXCEPT ![t] = write] /\ tier' = [tier EXCEPT ![t] = row] /\ OnlyTierWrite
    BY <1>0, <1>9, <2>1, <2>3 DEF CommitTier, TablesTyped
  <2>5. /\ UNCHANGED <<currentMap, eventSession, assigned, stock>>
        /\ publication' = [s \in SessionIds |-> publication'[s]]
        /\ \A s \in SessionIds : publication'[s] = publication[s] \/ publication'[s] = NotPublishing
    BY <1>2, <2>4
  <2>6. CASE tierWrite[t].kind = "delete"
    <3>1. IsTier(row)
      BY <2>3, <2>6 DEF NoTier, IsTier
    <3>2. \A s \in SessionIds, c \in AllSections : ~(assigned[s][c] = t /\ t # Unassigned)
      BY <1>4, <2>6
    <3> QED
      BY <1>1, <2>4, <2>5, <3>1, <3>2
  <2>7. CASE tierWrite[t].kind # "delete"
    <3>1. row = [session |-> tier[t].session, price |-> tierWrite[t].price, currency |-> tierWrite[t].currency,
                  updated |-> TRUE]
      BY <1>3, <2>3, <2>7 DEF IsTier
    <3>2. IsTier(row) /\ row.session = tier[t].session
      BY <3>1 DEF IsTier
    <3>3. \A s \in SessionIds, c \in AllSections : assigned[s][c] = t /\ t # Unassigned =>
            row.session = s /\ write.kind # "delete"
      BY <1>4, <2>2, <3>2
    <3> QED
      BY <1>1, <2>4, <2>5, <3>2, <3>3
  <2> QED
    BY <2>6, <2>7
<1> QED
  BY <1>5, <1>6, <1>7, <1>8, <1>9 DEF ManageTier

\* The sections of a draft are assigned anew.
LEMMA AssignKeeps ==
  ASSUME CatalogueInv, NEW s \in SessionIds, NEW f \in [AllSections -> TierIds \cup {Unassigned}],
         assignSessionSectionPricing(s, f)
  PROVE  CatalogueInv'
<1>0. TablesTyped /\ PricesAreOwn /\ Sound(eventSession[s], publication[s], stock[s], assigned[s])
  BY DEF CatalogueInv
<1>1. /\ eventSession[s].status = "DRAFT"
      /\ \A c \in AllSections : f[c] # Unassigned => f[c] \in TiersOf(s) /\ tierWrite[f[c]].kind # "delete"
      /\ assigned' = [assigned EXCEPT ![s] = f]
      /\ publication' = [publication EXCEPT ![s] = NotPublishing]
      /\ UNCHANGED <<currentMap, eventSession, tier, tierWrite, stock>>
  BY DEF assignSessionSectionPricing, venueSide
<1>2. assigned' = [o \in SessionIds |-> IF o = s THEN f ELSE assigned[o]]
  BY <1>0, <1>1 DEF TablesTyped
<1>3. publication' = [o \in SessionIds |-> IF o = s THEN NotPublishing ELSE publication[o]]
  BY <1>0, <1>1 DEF TablesTyped
<1>4. assigned' \in [SessionIds -> [AllSections -> TierIds \cup {Unassigned}]]
  BY <1>0, <1>2 DEF TablesTyped
<1>5. TablesTyped'
  BY <1>0, <1>1, <1>3, <1>4 DEF TablesTyped, IsSession, IsTier, AllSections, Unassigned
<1>6. \A o \in SessionIds, c \in AllSections : assigned'[o][c] # Unassigned => tier[assigned'[o][c]].session = o
  BY <1>0, <1>1, <1>2 DEF PricesAreOwn, TiersOf
<1>7. \A t \in TierIds : tierWrite[t].kind = "delete" =>
        \A o \in SessionIds, c \in AllSections : assigned'[o][c] # t \/ assigned'[o][c] = Unassigned
  BY <1>0, <1>1, <1>2 DEF PricesAreOwn
<1>8. PricesAreOwn'
  BY <1>1, <1>6, <1>7 DEF PricesAreOwn, AllSections, Unassigned
<1>9. stock[s] = {} /\ eventSession[s].publishedAt = "never"
  BY <1>0, <1>1 DEF Sound
<1>10. Sound(eventSession[s], NotPublishing, stock[s], f)
  BY <1>1, <1>9 DEF Sound
<1>11. \A o \in SessionIds :
         \/ /\ eventSession'[o] = eventSession[o] /\ stock'[o] = stock[o] /\ assigned'[o] = assigned[o]
            /\ publication'[o] = publication[o] \/ publication'[o] = NotPublishing
         \/ Sound(eventSession'[o], publication'[o], stock'[o], assigned'[o])
  BY <1>1, <1>2, <1>3, <1>10
<1> QED
  BY <1>5, <1>8, <1>11, SessionWise

\* A publication reads and computes its rows from whole prices.
LEMMA ReadKeeps ==
  ASSUME CatalogueInv, NEW s \in SessionIds, ReadForSale(s)
  PROVE  CatalogueInv'
<1>0. TablesTyped /\ PricesAreOwn /\ Sound(eventSession[s], publication[s], stock[s], assigned[s])
  BY DEF CatalogueInv
<1>1. UNCHANGED <<currentMap, eventSession, tier, tierWrite, assigned, stock>>
  BY DEF ReadForSale, venueSide
<1>2. PICK p : /\ publication' = [publication EXCEPT ![s] = p]
               /\ Sound(eventSession[s], p, stock[s], assigned[s])
  <2>1. PICK q, rows : rows = computeSessionInventoryRows(s) /\ q = [phase |-> "read", rows |-> rows]
    OBVIOUS
  <2>2. eventSession[s].status = "DRAFT" /\ Covered(s) /\ publication' = [publication EXCEPT ![s] = q]
    BY <2>1 DEF ReadForSale
  <2>3. Whole(rows, eventSession[s].map, assigned[s])
    BY <1>0, <2>1, <2>2, ComputedIsWhole
  <2>4. q = [phase |-> q.phase, rows |-> q.rows] /\ q.rows = rows
    BY <2>1
  <2>5. Sound(eventSession[s], q, stock[s], assigned[s])
    BY <1>0, <2>2, <2>3, <2>4 DEF Sound
  <2> QED
    BY <2>2, <2>5
<1>3. publication' = [o \in SessionIds |-> IF o = s THEN p ELSE publication[o]]
  BY <1>0, <1>2 DEF TablesTyped
<1>4. publication' = [o \in SessionIds |-> publication'[o]] /\ currentMap' \in MapIds
  BY <1>0, <1>1, <1>3 DEF TablesTyped
<1>5. TablesTyped' /\ PricesAreOwn'
  BY <1>0, <1>1, <1>4, TablesUntouched, PricesUntouched
<1>6. \A o \in SessionIds :
        \/ /\ eventSession'[o] = eventSession[o] /\ stock'[o] = stock[o] /\ assigned'[o] = assigned[o]
           /\ publication'[o] = publication[o] \/ publication'[o] = NotPublishing
        \/ Sound(eventSession'[o], publication'[o], stock'[o], assigned'[o])
  BY <1>1, <1>2, <1>3
<1> QED
  BY <1>5, <1>6, SessionWise

\* Inventory appears with the publication that has read it, or by a backfill that computes
\* it for a session that has none.
LEMMA StockKeeps ==
  ASSUME CatalogueInv, NEW s \in SessionIds,
         BackfillInventory(s) \/ \E st \in {"SCHEDULED", "ON_SALE"} : CommitSale(s, st)
  PROVE  CatalogueInv'
<1>0. /\ TablesTyped /\ PricesAreOwn /\ IsSession(eventSession[s])
      /\ Sound(eventSession[s], publication[s], stock[s], assigned[s])
  BY DEF CatalogueInv, TablesTyped
<1>1. UNCHANGED <<currentMap, tier, tierWrite, assigned>>
  BY DEF BackfillInventory, CommitSale, venueSide
<1>2. ASSUME NEW e, IsSession(e), e.status # "NONE" => e.map \in MapIds, eventSession' = [eventSession EXCEPT ![s] = e],
             NEW p, publication' = [publication EXCEPT ![s] = p],
             NEW rows, stock' = [stock EXCEPT ![s] = rows], Sound(e, p, rows, assigned[s])
      PROVE  CatalogueInv'
  <2>1. eventSession' = [o \in SessionIds |-> IF o = s THEN e ELSE eventSession[o]]
    BY <1>0, <1>2 DEF TablesTyped
  <2>2. publication' = [o \in SessionIds |-> IF o = s THEN p ELSE publication[o]]
    BY <1>0, <1>2 DEF TablesTyped
  <2>3. stock' = [o \in SessionIds |-> IF o = s THEN rows ELSE stock[o]]
    BY <1>0, <1>2 DEF TablesTyped
  <2>4. \A o \in SessionIds : IsSession(eventSession'[o]) /\ (eventSession'[o].status # "NONE" => eventSession'[o].map \in MapIds)
    BY <1>0, <1>2, <2>1 DEF TablesTyped
  <2>5. TablesTyped'
    BY <1>0, <1>1, <2>1, <2>2, <2>3, <2>4 DEF TablesTyped, IsSession, IsTier, AllSections, Unassigned
  <2>6. PricesAreOwn'
    BY <1>0, <1>1, PricesUntouched
  <2>7. \A o \in SessionIds :
          \/ /\ eventSession'[o] = eventSession[o] /\ stock'[o] = stock[o] /\ assigned'[o] = assigned[o]
             /\ publication'[o] = publication[o] \/ publication'[o] = NotPublishing
          \/ Sound(eventSession'[o], publication'[o], stock'[o], assigned'[o])
    BY <1>1, <1>2, <2>1, <2>2, <2>3
  <2> QED
    BY <2>5, <2>6, <2>7, SessionWise
<1>3. CASE BackfillInventory(s)
  <2>1. PICK rows, e, p : rows = computeSessionInventoryRows(s) /\ e = eventSession[s] /\ p = publication[s]
    OBVIOUS
  <2>2. /\ e.status \in {"SCHEDULED", "ON_SALE"} /\ e.publishedAt # "never" /\ Covered(s)
        /\ stock' = [stock EXCEPT ![s] = rows]
        /\ eventSession' = eventSession /\ publication' = publication
    BY <1>3, <2>1 DEF BackfillInventory, OnSale
  <2>3. Whole(rows, e.map, assigned[s])
    BY <1>0, <2>1, <2>2, ComputedIsWhole
  <2>4. Sound(e, p, rows, assigned[s])
    BY <1>0, <2>1, <2>2, <2>3 DEF Sound
  <2>5. /\ eventSession' = [eventSession EXCEPT ![s] = e] /\ publication' = [publication EXCEPT ![s] = p]
        /\ IsSession(e) /\ (e.status # "NONE" => e.map \in MapIds)
    BY <1>0, <2>1, <2>2 DEF TablesTyped
  <2> QED
    BY <1>2, <2>2, <2>4, <2>5
<1>4. ASSUME NEW st \in {"SCHEDULED", "ON_SALE"}, CommitSale(s, st)
      PROVE  CatalogueInv'
  <2>1. PICK rows, p : rows = publication[s].rows /\ p = NotPublishing
    OBVIOUS
  <2>2. /\ publication[s].phase = "read"
        /\ eventSession' = [eventSession EXCEPT ![s].status = st, ![s].publishedAt = "with inventory"]
        /\ stock' = [stock EXCEPT ![s] = rows] /\ publication' = [publication EXCEPT ![s] = p]
    BY <1>4, <2>1 DEF CommitSale
  <2>3. publication[s] # NotPublishing
    <3>1. publication[s].phase = "read"
      BY <2>2
    <3>2. NotPublishing.phase = "idle"
      BY DEF NotPublishing
    <3> QED
      BY <3>1, <3>2
  <2>4. eventSession[s].status = "DRAFT" /\ Whole(rows, eventSession[s].map, assigned[s])
    BY <1>0, <2>1, <2>3 DEF Sound
  <2>5. PICK old : old = eventSession[s]
    OBVIOUS
  <2>6. PICK e : e = [status |-> st, map |-> old.map, slot |-> old.slot, publishedAt |-> "with inventory"]
    OBVIOUS
  <2>7. eventSession' = [eventSession EXCEPT ![s] = e]
    <3>1. old = [status |-> old.status, map |-> old.map, slot |-> old.slot, publishedAt |-> old.publishedAt]
      BY <1>0, <2>5 DEF IsSession
    <3>2. PICK f : f = [eventSession EXCEPT ![s].status = st]
      OBVIOUS
    <3>3. eventSession' = [f EXCEPT ![s].publishedAt = "with inventory"]
      BY <2>2, <3>2, Zenon
    <3>4. PICK d : d = [status |-> st, map |-> old.map, slot |-> old.slot, publishedAt |-> old.publishedAt]
      OBVIOUS
    <3>5. f = [o \in SessionIds |-> IF o = s THEN d ELSE eventSession[o]]
      BY <1>0, <2>5, <3>1, <3>2, <3>4 DEF TablesTyped
    <3>6. f[s] = d
      BY <3>5
    <3>7. PICK w : w = "with inventory"
      OBVIOUS
    <3>8. [d EXCEPT !.publishedAt = w] = e
      <4>1. \A k : [d EXCEPT !.publishedAt = k] = [status |-> st, map |-> old.map, slot |-> old.slot, publishedAt |-> k]
        BY <3>4
      <4> QED
        BY <2>6, <3>7, <4>1
    <3>9. eventSession' = [f EXCEPT ![s].publishedAt = w]
      BY <3>3, <3>7
    <3>10. eventSession' = [o \in SessionIds |-> IF o = s THEN e ELSE eventSession[o]]
      BY <3>5, <3>6, <3>8, <3>9
    <3> QED
      BY <1>0, <3>10 DEF TablesTyped
  <2>8. e.status = st /\ e.map = old.map /\ e.publishedAt = "with inventory" /\ IsSession(e)
    BY <2>6 DEF IsSession
  <2>9. Sound(e, p, rows, assigned[s])
    BY <2>1, <2>4, <2>5, <2>8 DEF Sound
  <2>10. e.map \in MapIds
    BY <1>0, <2>4, <2>5, <2>8 DEF TablesTyped
  <2> QED
    BY <1>2, <2>2, <2>7, <2>8, <2>9, <2>10
<1> QED
  BY <1>3, <1>4


\* A step of the catalogue keeps the invariant: one step per group of actions.
LEMMA CatalogueStep ==
  ASSUME CatalogueInv, [CatalogueNext]_catalogueVars
  PROVE  CatalogueInv'
<1>0. /\ TablesTyped /\ currentMap \in MapIds
      /\ publication = [s \in SessionIds |-> publication[s]]
  BY DEF CatalogueInv, TablesTyped
<1>1. ASSUME UNCHANGED <<eventSession, tier, tierWrite, assigned, publication, stock>>, currentMap' \in MapIds
      PROVE  CatalogueInv'
  <2>1. publication' = [s \in SessionIds |-> publication'[s]]
    BY <1>0, <1>1
  <2> QED
    BY <1>1, <2>1, QuietKeeps
<1>2. CASE grantVenueAccess \/ revokeVenueAccess \/ PlaceChanges \/ MapPublished
  BY <1>0, <1>1, <1>2 DEF grantVenueAccess, revokeVenueAccess, PlaceChanges, MapPublished, OnlyVenueSide
<1>3. CASE createEvent \/ deleteEmptyDraftEvent \/ archiveEvent \/ restoreEvent \/ publishEvent
  BY <1>0, <1>1, <1>3
     DEF createEvent, deleteEmptyDraftEvent, archiveEvent, restoreEvent, publishEvent, OnlyEvent, venueSide
<1>4. CASE cancelEvent
  BY <1>4, CancelKeeps
<1>5. ASSUME NEW t \in TierIds, ManageTier(t)
      PROVE  CatalogueInv'
  BY <1>5, TierKeeps
<1>6. ASSUME NEW s \in SessionIds, ManageSession(s)
      PROVE  CatalogueInv'
  <2>1. ASSUME NEW slot \in TimeSlots, createEventSession(s, slot) \/ updateDraftEventSession(s, slot)
        PROVE  CatalogueInv'
    BY <2>1, DraftKeeps
  <2>2. ASSUME NEW f \in [AllSections -> TierIds \cup {Unassigned}], assignSessionSectionPricing(s, f)
        PROVE  CatalogueInv'
    BY <2>2, AssignKeeps
  <2>3. CASE cancelEventSession(s)
    BY <2>3, CancelKeeps
  <2>4. CASE ReadForSale(s)
    BY <2>4, ReadKeeps
  <2>5. CASE AbortSale(s)
    <3>1. /\ UNCHANGED <<currentMap, eventSession, tier, tierWrite, assigned, stock>>
          /\ publication' = [publication EXCEPT ![s] = NotPublishing]
      BY <2>5 DEF AbortSale, venueSide
    <3>2. publication' = [o \in SessionIds |-> IF o = s THEN NotPublishing ELSE publication[o]]
      BY <1>0, <3>1
    <3>3. /\ publication' = [o \in SessionIds |-> publication'[o]]
          /\ \A o \in SessionIds : publication'[o] = publication[o] \/ publication'[o] = NotPublishing
      BY <3>2
    <3>4. currentMap' \in MapIds
      BY <1>0, <3>1
    <3> QED
      BY <3>1, <3>3, <3>4, QuietKeeps
  <2>6. CASE BackfillInventory(s)
    BY <2>6, StockKeeps
  <2>7. ASSUME NEW st \in {"SCHEDULED", "ON_SALE"}, CommitSale(s, st)
        PROVE  CatalogueInv'
    BY <2>7, StockKeeps
  <2> QED
    BY <1>6, <2>1, <2>2, <2>3, <2>4, <2>5, <2>6, <2>7 DEF ManageSession
<1>7. CASE UNCHANGED catalogueVars
  BY <1>0, <1>1, <1>7 DEF catalogueVars
<1> QED
  BY <1>2, <1>3, <1>4, <1>5, <1>6, <1>7 DEF CatalogueNext

\* An organizer starts without an event, or with a session that was on sale before there
\* was any inventory.
LEMMA CatalogueStart ==
  ASSUME CatalogueInit
  PROVE  CatalogueInv
<1>1. /\ currentMap \in MapIds /\ 1 \in MapIds
      /\ tierWrite = [t \in TierIds |-> NoTierWrite]
      /\ publication = [s \in SessionIds |-> NotPublishing]
      /\ stock = [s \in SessionIds |-> {}]
  BY CatalogueConstants DEF CatalogueInit
<1>2. \A t \in TierIds : tierWrite[t].kind # "delete"
  BY <1>1 DEF NoTierWrite
<1>3. /\ tierWrite = [t \in TierIds |-> tierWrite[t]] /\ publication = [s \in SessionIds |-> publication[s]]
      /\ stock = [s \in SessionIds |-> stock[s]]
      /\ \A s \in SessionIds : publication[s] = NotPublishing /\ stock[s] = {}
  BY <1>1
<1>4. ASSUME NoEvent
      PROVE  CatalogueInv
  <2>1. /\ eventSession = [s \in SessionIds |-> NoSession]
        /\ tier = [t \in TierIds |-> NoTier]
        /\ assigned = [s \in SessionIds |-> [c \in AllSections |-> Unassigned]]
    BY <1>4 DEF NoEvent
  <2>2. /\ eventSession = [s \in SessionIds |-> eventSession[s]] /\ tier = [t \in TierIds |-> tier[t]]
        /\ assigned \in [SessionIds -> [AllSections -> TierIds \cup {Unassigned}]]
        /\ \A s \in SessionIds, c \in AllSections : assigned[s][c] = Unassigned
    BY <2>1
  <2>3. IsSession(NoSession) /\ NoSession.status = "NONE" /\ NoSession.publishedAt = "never" /\ IsTier(NoTier)
    BY DEF IsSession, IsTier, NoSession, NoTier
  <2>4. TablesTyped
    BY <1>1, <1>3, <2>1, <2>2, <2>3 DEF TablesTyped
  <2>5. PricesAreOwn
    BY <1>2, <2>2 DEF PricesAreOwn
  <2>6. \A s \in SessionIds : Sound(eventSession[s], publication[s], stock[s], assigned[s])
    BY <1>3, <2>1, <2>3 DEF Sound
  <2> QED
    BY <2>4, <2>5, <2>6 DEF CatalogueInv
<1>5. ASSUME NEW s \in SessionIds, NEW t \in TierIds, PublishedBefore(s, t)
      PROVE  CatalogueInv
  <2>1. PICK slot, price, cur : /\ slot = (CHOOSE i \in TimeSlots : TRUE)
                                /\ price = (CHOOSE p \in PriceOptions : TRUE) /\ cur = (CHOOSE c \in Currencies : TRUE)
    OBVIOUS
  <2>2. PICK e, row : /\ e = [status |-> "ON_SALE", map |-> 1, slot |-> slot, publishedAt |-> "before inventory"]
                      /\ row = [session |-> s, price |-> price, currency |-> cur, updated |-> FALSE]
    OBVIOUS
  <2>3. /\ eventSession = [o \in SessionIds |-> IF o = s THEN e ELSE NoSession]
        /\ tier = [u \in TierIds |-> IF u = t THEN row ELSE NoTier]
    BY <1>5, <2>1, <2>2, Zenon DEF PublishedBefore
  <2>4. assigned = [o \in SessionIds |-> [c \in AllSections |-> IF o = s /\ c \in SectionsOf[1] THEN t ELSE Unassigned]]
    BY <1>5 DEF PublishedBefore
  <2>5. /\ eventSession = [o \in SessionIds |-> eventSession[o]] /\ tier = [u \in TierIds |-> tier[u]]
        /\ assigned \in [SessionIds -> [AllSections -> TierIds \cup {Unassigned}]]
        /\ \A o \in SessionIds, c \in AllSections : assigned[o][c] # Unassigned => o = s /\ assigned[o][c] = t
    BY <2>3, <2>4
  <2>6. IsSession(NoSession) /\ NoSession.status = "NONE" /\ NoSession.publishedAt = "never" /\ IsTier(NoTier)
    BY DEF IsSession, IsTier, NoSession, NoTier
  <2>7. /\ IsSession(e) /\ e.status = "ON_SALE" /\ e.map = 1 /\ e.publishedAt = "before inventory"
        /\ IsTier(row) /\ row.session = s
    BY <2>2 DEF IsSession, IsTier
  <2>8. TablesTyped
    BY <1>1, <1>3, <2>3, <2>5, <2>6, <2>7 DEF TablesTyped
  <2>9. PricesAreOwn
    BY <1>2, <2>3, <2>5, <2>7 DEF PricesAreOwn
  <2>10. \A o \in SessionIds : Sound(eventSession[o], publication[o], stock[o], assigned[o])
    BY <1>3, <2>3, <2>6, <2>7 DEF Sound
  <2> QED
    BY <2>8, <2>9, <2>10 DEF CatalogueInv
<1> QED
  BY <1>4, <1>5 DEF CatalogueInit

LEMMA CatalogueInvariant == CatalogueSpec => []CatalogueInv
<1>1. CatalogueInit => CatalogueInv
  BY CatalogueStart
<1>2. CatalogueInv /\ [CatalogueNext]_catalogueVars => CatalogueInv'
  BY CatalogueStep
<1> QED
  BY <1>1, <1>2, PTL DEF CatalogueSpec

\* Rows of inventory are of tiers that are assigned, so those are there to stay, and agree
\* with a tier that was never updated.
RowsFollow(rows, tierOf, tiers) ==
  \A r \in rows :
    /\ \E c \in AllSections : tierOf[c] = r.tier /\ tierOf[c] # Unassigned
    /\ tiers[r.tier].updated = FALSE => <<r.price, r.currency>> = <<tiers[r.tier].price, tiers[r.tier].currency>>
Follow(p, rows, tierOf, tiers) ==
  RowsFollow(rows, tierOf, tiers) /\ (p # NotPublishing => RowsFollow(p.rows, tierOf, tiers))
PricesFollow == \A s \in SessionIds : Follow(publication[s], stock[s], assigned[s], tier)

\* Rows still follow when the tiers that are assigned stay or are updated.
LEMMA StillFollow ==
  ASSUME NEW rows, NEW tierOf, NEW old, NEW new, RowsFollow(rows, tierOf, old),
         \A c \in AllSections : tierOf[c] # Unassigned => new[tierOf[c]] = old[tierOf[c]] \/ new[tierOf[c]].updated = TRUE
  PROVE  RowsFollow(rows, tierOf, new)
<1> SUFFICES ASSUME NEW r \in rows
             PROVE  /\ \E c \in AllSections : tierOf[c] = r.tier /\ tierOf[c] # Unassigned
                    /\ new[r.tier].updated = FALSE =>
                         <<r.price, r.currency>> = <<new[r.tier].price, new[r.tier].currency>>
  BY DEF RowsFollow
<1>1. PICK c \in AllSections : tierOf[c] = r.tier /\ tierOf[c] # Unassigned
  BY DEF RowsFollow
<1>2. new[r.tier] = old[r.tier] \/ new[r.tier].updated = TRUE
  BY <1>1
<1>3. old[r.tier].updated = FALSE => <<r.price, r.currency>> = <<old[r.tier].price, old[r.tier].currency>>
  BY DEF RowsFollow
<1> QED
  BY <1>1, <1>2, <1>3

\* What computeSessionInventoryRows computes follows the tiers it reads.
LEMMA ComputedFollow ==
  ASSUME NEW s \in SessionIds, NEW m \in MapIds, eventSession[s].map = m
  PROVE  RowsFollow(computeSessionInventoryRows(s), assigned[s], tier)
<1>1. \A r \in computeSessionInventoryRows(s) : \E c \in SectionsOf[m] : \E q \in SellableIn[c] :
        /\ assigned[s][c] # Unassigned
        /\ r = [seat |-> q, tier |-> assigned[s][c], price |-> tier[assigned[s][c]].price,
                currency |-> tier[assigned[s][c]].currency]
  BY DEF computeSessionInventoryRows
<1>2. \A c \in SectionsOf[m] : c \in AllSections
  BY DEF AllSections
<1> QED
  BY <1>1, <1>2 DEF RowsFollow

\* A step leaves the rows of a session as they are, apart from making its publication start
\* over, or leaves them following.
LEMMA FollowWise ==
  ASSUME PricesFollow,
         \A s \in SessionIds, c \in AllSections : assigned'[s][c] # Unassigned =>
           tier'[assigned'[s][c]] = tier[assigned'[s][c]] \/ tier'[assigned'[s][c]].updated = TRUE,
         \A s \in SessionIds :
           \/ /\ stock'[s] = stock[s] /\ assigned'[s] = assigned[s]
              /\ publication'[s] = publication[s] \/ publication'[s] = NotPublishing
           \/ Follow(publication'[s], stock'[s], assigned'[s], tier')
  PROVE  PricesFollow'
<1>1. ASSUME NEW s \in SessionIds
      PROVE  Follow(publication'[s], stock'[s], assigned'[s], tier')
  <2>1. CASE /\ stock'[s] = stock[s] /\ assigned'[s] = assigned[s]
             /\ publication'[s] = publication[s] \/ publication'[s] = NotPublishing
    <3>1. /\ RowsFollow(stock[s], assigned[s], tier)
          /\ publication[s] # NotPublishing => RowsFollow(publication[s].rows, assigned[s], tier)
      BY DEF PricesFollow, Follow
    <3>2. \A c \in AllSections : assigned[s][c] # Unassigned =>
            tier'[assigned[s][c]] = tier[assigned[s][c]] \/ tier'[assigned[s][c]].updated = TRUE
      BY <2>1
    <3>3. \A rows : RowsFollow(rows, assigned[s], tier) => RowsFollow(rows, assigned[s], tier')
      BY <3>2, StillFollow
    <3> QED
      BY <2>1, <3>1, <3>3 DEF Follow
  <2> QED
    BY <2>1
<1>2. (\A s \in SessionIds : Follow(publication[s], stock[s], assigned[s], tier))'
  BY <1>1 DEF Follow, RowsFollow, AllSections, Unassigned, NotPublishing
<1> QED
  BY <1>2 DEF PricesFollow

\* A tier that is assigned is only ever updated.
LEMMA TiersFollow ==
  ASSUME CatalogueInv, PricesFollow, NEW t \in TierIds, ManageTier(t)
  PROVE  PricesFollow'
<1>0. TablesTyped /\ PricesAreOwn
  BY DEF CatalogueInv
<1>1. /\ UNCHANGED <<assigned, stock>>
      /\ \A s \in SessionIds : publication'[s] = publication[s] \/ publication'[s] = NotPublishing
  <2>1. CASE UNCHANGED <<assigned, stock, publication>>
    BY <2>1
  <2>2. ASSUME NEW s \in SessionIds, NEW p \in PriceOptions, NEW c \in Currencies, createSessionPriceTier(t, s, p, c)
        PROVE  /\ UNCHANGED <<assigned, stock>>
               /\ \A o \in SessionIds : publication'[o] = publication[o] \/ publication'[o] = NotPublishing
    BY <1>0, <2>2 DEF createSessionPriceTier, TablesTyped
  <2> QED
    BY <2>1, <2>2 DEF ManageTier, WriteTier, DeleteTier, CommitTier, AbortTier, OnlyTierWrite
<1>2. ASSUME NEW s \in SessionIds, NEW c \in AllSections, assigned[s][c] # Unassigned
      PROVE  tier'[assigned[s][c]] = tier[assigned[s][c]] \/ tier'[assigned[s][c]].updated = TRUE
  <2>1. PICK u : u = assigned[s][c]
    OBVIOUS
  <2>2. u \in TierIds /\ tier[u].session = s /\ tierWrite[u].kind # "delete"
    BY <1>0, <1>2, <2>1 DEF TablesTyped, PricesAreOwn
  <2>3. tier[u] # NoTier
    BY <2>2, CatalogueConstants DEF NoTier
  <2>4. CASE tier' = tier
    BY <2>1, <2>4
  <2>5. ASSUME NEW o \in SessionIds, NEW p \in PriceOptions, NEW k \in Currencies, createSessionPriceTier(t, o, p, k)
        PROVE  tier'[u] = tier[u]
    <3>1. PICK row : tier' = [tier EXCEPT ![t] = row] /\ tier[t] = NoTier
      BY <2>5 DEF createSessionPriceTier
    <3> QED
      BY <1>0, <2>2, <2>3, <3>1 DEF TablesTyped
  <2>6. CASE CommitTier(t)
    <3>1. CASE u # t
      <4>1. PICK row : tier' = [tier EXCEPT ![t] = row]
        BY <2>6 DEF CommitTier
      <4> QED
        BY <1>0, <2>1, <2>2, <3>1, <4>1 DEF TablesTyped
    <3>2. CASE u = t
      <4>1. PICK row : row = [tier[t] EXCEPT !.price = tierWrite[t].price, !.currency = tierWrite[t].currency,
                                             !.updated = TRUE]
        OBVIOUS
      <4>2. tier' = [tier EXCEPT ![t] = row]
        BY <1>0, <2>2, <2>6, <3>2, <4>1 DEF CommitTier, TablesTyped
      <4>3. row.updated = TRUE
        BY <1>0, <4>1 DEF TablesTyped, IsTier
      <4> QED
        BY <1>0, <2>1, <3>2, <4>2, <4>3 DEF TablesTyped
    <3> QED
      BY <3>1, <3>2
  <2> QED
    BY <2>1, <2>4, <2>5, <2>6 DEF ManageTier, WriteTier, DeleteTier, AbortTier
<1> QED
  BY <1>1, <1>2, FollowWise

\* One session is assigned, read or sold, and its rows follow; the others stay.
LEMMA SessionFollows ==
  ASSUME TablesTyped, PricesFollow, UNCHANGED tier, NEW s \in SessionIds, NEW p, NEW rows, NEW tierOf,
         publication' = [publication EXCEPT ![s] = p], stock' = [stock EXCEPT ![s] = rows],
         assigned' = [assigned EXCEPT ![s] = tierOf], Follow(p, rows, tierOf, tier)
  PROVE  PricesFollow'
<1>1. publication' = [o \in SessionIds |-> IF o = s THEN p ELSE publication[o]]
  BY DEF TablesTyped
<1>2. stock' = [o \in SessionIds |-> IF o = s THEN rows ELSE stock[o]]
  BY DEF TablesTyped
<1>3. assigned' = [o \in SessionIds |-> IF o = s THEN tierOf ELSE assigned[o]]
  BY DEF TablesTyped
<1>4. \A o \in SessionIds :
        \/ /\ stock'[o] = stock[o] /\ assigned'[o] = assigned[o]
           /\ publication'[o] = publication[o] \/ publication'[o] = NotPublishing
        \/ Follow(publication'[o], stock'[o], assigned'[o], tier')
  BY <1>1, <1>2, <1>3
<1> QED
  BY <1>4, FollowWise

\* Prices follow the tiers in every step: one step per group of actions.
LEMMA FollowStep ==
  ASSUME CatalogueInv, PricesFollow, [CatalogueNext]_catalogueVars
  PROVE  PricesFollow'
<1>0. /\ TablesTyped
      /\ \A s \in SessionIds : /\ Follow(publication[s], stock[s], assigned[s], tier)
                               /\ Sound(eventSession[s], publication[s], stock[s], assigned[s])
                               /\ eventSession[s].status # "NONE" => eventSession[s].map \in MapIds
  BY DEF CatalogueInv, TablesTyped, PricesFollow
<1>1. ASSUME UNCHANGED <<tier, assigned, stock>>,
             \A s \in SessionIds : publication'[s] = publication[s] \/ publication'[s] = NotPublishing
      PROVE  PricesFollow'
  BY <1>1, FollowWise
<1>2. ASSUME NEW s \in SessionIds, publication' = [publication EXCEPT ![s] = NotPublishing]
      PROVE  \A o \in SessionIds : publication'[o] = publication[o] \/ publication'[o] = NotPublishing
  BY <1>0, <1>2 DEF TablesTyped
<1>3. CASE UNCHANGED <<tier, assigned, stock, publication>>
  BY <1>1, <1>3
<1>4. CASE \/ grantVenueAccess \/ revokeVenueAccess \/ PlaceChanges \/ MapPublished
           \/ createEvent \/ deleteEmptyDraftEvent \/ archiveEvent \/ restoreEvent \/ publishEvent
  BY <1>3, <1>4
     DEF grantVenueAccess, revokeVenueAccess, PlaceChanges, MapPublished, OnlyVenueSide,
         createEvent, deleteEmptyDraftEvent, archiveEvent, restoreEvent, publishEvent, OnlyEvent
<1>5. CASE cancelEvent
  <2>1. UNCHANGED <<tier, assigned, stock>> /\ publication' = [s \in SessionIds |-> NotPublishing]
    BY <1>5 DEF cancelEvent, OnlyEvent
  <2> QED
    BY <1>1, <2>1
<1>6. ASSUME NEW s \in SessionIds, ManageSession(s)
      PROVE  PricesFollow'
  <2>1. PICK e, p, rows, tierOf : /\ e = eventSession[s] /\ p = publication[s]
                                  /\ rows = stock[s] /\ tierOf = assigned[s]
    OBVIOUS
  <2>2. /\ publication = [publication EXCEPT ![s] = p] /\ stock = [stock EXCEPT ![s] = rows]
        /\ assigned = [assigned EXCEPT ![s] = tierOf]
    BY <1>0, <2>1 DEF TablesTyped
  <2>3. ASSUME NEW slot \in TimeSlots, createEventSession(s, slot) \/ updateDraftEventSession(s, slot)
        PROVE  PricesFollow'
    BY <1>1, <1>2, <2>3 DEF createEventSession, updateDraftEventSession, OnlySession
  <2>4. CASE cancelEventSession(s)
    BY <1>1, <1>2, <2>4 DEF cancelEventSession, OnlyEvent
  <2>5. CASE AbortSale(s)
    BY <1>1, <1>2, <2>5 DEF AbortSale
  <2>6. ASSUME NEW f \in [AllSections -> TierIds \cup {Unassigned}], assignSessionSectionPricing(s, f)
        PROVE  PricesFollow'
    <3>1. /\ assigned' = [assigned EXCEPT ![s] = f] /\ publication' = [publication EXCEPT ![s] = NotPublishing]
          /\ UNCHANGED <<tier, stock>> /\ eventSession[s].status = "DRAFT"
      BY <2>6 DEF assignSessionSectionPricing
    <3>2. rows = {}
      BY <1>0, <2>1, <3>1 DEF Sound
    <3>3. Follow(NotPublishing, rows, f, tier)
      BY <3>2 DEF Follow, RowsFollow
    <3>4. stock' = [stock EXCEPT ![s] = rows]
      BY <2>2, <3>1
    <3> QED
      BY <1>0, <3>1, <3>3, <3>4, SessionFollows
  <2>7. CASE ReadForSale(s)
    <3>1. PICK read, q : read = computeSessionInventoryRows(s) /\ q = [phase |-> "read", rows |-> read]
      OBVIOUS
    <3>2. /\ publication' = [publication EXCEPT ![s] = q] /\ UNCHANGED <<tier, assigned, stock>>
          /\ eventSession[s].status = "DRAFT"
      BY <2>7, <3>1 DEF ReadForSale
    <3>3. RowsFollow(read, tierOf, tier)
      BY <1>0, <2>1, <3>1, <3>2, ComputedFollow
    <3>4. Follow(q, rows, tierOf, tier)
      BY <1>0, <2>1, <3>1, <3>3 DEF Follow
    <3>5. stock' = [stock EXCEPT ![s] = rows] /\ assigned' = [assigned EXCEPT ![s] = tierOf]
      BY <2>2, <3>2
    <3> QED
      BY <1>0, <3>2, <3>4, <3>5, SessionFollows
  <2>8. CASE BackfillInventory(s)
    <3>1. PICK all : all = computeSessionInventoryRows(s)
      OBVIOUS
    <3>2. /\ stock' = [stock EXCEPT ![s] = all] /\ UNCHANGED <<tier, assigned, publication>>
          /\ eventSession[s].status # "NONE"
      BY <2>8, <3>1 DEF BackfillInventory, OnSale
    <3>3. RowsFollow(all, tierOf, tier)
      BY <1>0, <2>1, <3>1, <3>2, ComputedFollow
    <3>4. Follow(p, all, tierOf, tier)
      BY <1>0, <2>1, <3>3 DEF Follow
    <3>5. publication' = [publication EXCEPT ![s] = p] /\ assigned' = [assigned EXCEPT ![s] = tierOf]
      BY <2>2, <3>2
    <3> QED
      BY <1>0, <3>2, <3>4, <3>5, SessionFollows
  <2>9. ASSUME NEW st \in {"SCHEDULED", "ON_SALE"}, CommitSale(s, st)
        PROVE  PricesFollow'
    <3>1. PICK sold : sold = publication[s].rows
      OBVIOUS
    <3>2. /\ stock' = [stock EXCEPT ![s] = sold] /\ publication' = [publication EXCEPT ![s] = NotPublishing]
          /\ UNCHANGED <<tier, assigned>> /\ publication[s].phase = "read"
      BY <2>9, <3>1 DEF CommitSale
    <3>3. publication[s] # NotPublishing
      <4>1. NotPublishing.phase = "idle"
        BY DEF NotPublishing
      <4> QED
        BY <3>2, <4>1
    <3>4. Follow(NotPublishing, sold, tierOf, tier)
      BY <1>0, <2>1, <3>1, <3>3 DEF Follow
    <3>5. assigned' = [assigned EXCEPT ![s] = tierOf]
      BY <2>2, <3>2
    <3> QED
      BY <1>0, <3>2, <3>4, <3>5, SessionFollows
  <2> QED
    BY <1>6, <2>3, <2>4, <2>5, <2>6, <2>7, <2>8, <2>9 DEF ManageSession
<1>7. ASSUME NEW t \in TierIds, ManageTier(t)
      PROVE  PricesFollow'
  BY <1>7, TiersFollow
<1>8. CASE UNCHANGED catalogueVars
  BY <1>3, <1>8 DEF catalogueVars
<1> QED
  BY <1>4, <1>5, <1>6, <1>7, <1>8 DEF CatalogueNext

\* A published session has a row of inventory for each sellable seat of its map and no other,
\* of the tier its section is assigned to, at the tier's own price and currency unless the
\* tier was ever updated and then still at one price, and all rows in one currency, although
\* tiers are updated under the publication, which commits the prices it has read
\* (publishEventSession, ensureSessionInventory, backfillPublishedSessionInventory).
THEOREM PublishedIsWhole == CatalogueSpec => []InventoryIsWhole
<1>1. CatalogueInit => PricesFollow
  BY DEF CatalogueInit, PricesFollow, Follow, RowsFollow
<1>2. CatalogueInv /\ PricesFollow /\ [CatalogueNext]_catalogueVars => PricesFollow'
  BY FollowStep
<1>3. ASSUME CatalogueInv, PricesFollow
      PROVE  InventoryIsWhole
  <2>1. ASSUME NEW s \in SessionIds, stock[s] # {} \/ eventSession[s].publishedAt = "with inventory"
        PROVE  /\ Whole(stock[s], eventSession[s].map, assigned[s])
               /\ \A r \in stock[s] : ~tier[r.tier].updated =>
                    <<r.price, r.currency>> = <<tier[r.tier].price, tier[r.tier].currency>>
    <3>1. Whole(stock[s], eventSession[s].map, assigned[s])
      BY <1>3, <2>1 DEF CatalogueInv, Sound
    <3>2. ASSUME NEW r \in stock[s], ~tier[r.tier].updated
          PROVE  <<r.price, r.currency>> = <<tier[r.tier].price, tier[r.tier].currency>>
      <4>1. RowsFollow(stock[s], assigned[s], tier)
        BY <1>3 DEF PricesFollow, Follow
      <4>2. r.tier \in TierIds
        <5>1. PICK c \in AllSections : assigned[s][c] = r.tier /\ assigned[s][c] # Unassigned
          BY <4>1 DEF RowsFollow
        <5>2. assigned[s] \in [AllSections -> TierIds \cup {Unassigned}]
          BY <1>3 DEF CatalogueInv, TablesTyped
        <5> QED
          BY <5>1, <5>2
      <4>3. tier[r.tier].updated \in BOOLEAN
        BY <1>3, <4>2 DEF CatalogueInv, TablesTyped, IsTier
      <4>4. tier[r.tier].updated = FALSE
        BY <3>2, <4>3
      <4> QED
        BY <4>1, <4>4 DEF RowsFollow
    <3> QED
      BY <3>1, <3>2
  <2> QED
    BY <2>1 DEF InventoryIsWhole, Whole
<1> QED
  BY <1>1, <1>2, <1>3, CatalogueInvariant, PTL DEF CatalogueSpec

\* A statement in flight is an update to a price and a currency or a deletion, of a tier
\* that is there.
TierRow == [session : SessionIds, price : PriceOptions, currency : Currencies, updated : BOOLEAN]
TierTyped(row, write) ==
  /\ row # NoTier => row \in TierRow
  /\ write # NoTierWrite => row # NoTier /\ write.kind \in {"update", "delete"}
  /\ write.kind = "update" => write.price \in PriceOptions /\ write.currency \in Currencies
EventRows == [is : {"NONE", "DRAFT", "PUBLISHED", "CANCELLED", "ARCHIVED"}, was : {"NONE", "DRAFT", "PUBLISHED", "CANCELLED"}]
SessionStatuses == {"NONE", "DRAFT", "SCHEDULED", "ON_SALE", "CANCELLED"}
CatalogueRest ==
  /\ eventStatus \in EventRows
  /\ \A s \in SessionIds : eventSession[s].status \in SessionStatuses
  /\ \A t \in TierIds : TierTyped(tier[t], tierWrite[t])

LEMMA TierRowsKeep ==
  ASSUME TablesTyped, \A t \in TierIds : TierTyped(tier[t], tierWrite[t]), NEW t \in TierIds, ManageTier(t)
  PROVE  \A u \in TierIds : TierTyped(tier'[u], tierWrite'[u])
<1>1. /\ tier = [u \in TierIds |-> tier[u]] /\ tierWrite = [u \in TierIds |-> tierWrite[u]]
      /\ IsTier(tier[t]) /\ TierTyped(tier[t], tierWrite[t])
  BY DEF TablesTyped
<1>2. ASSUME NEW row, NEW write, TierTyped(row, write),
             tier' = [tier EXCEPT ![t] = row], tierWrite' = [tierWrite EXCEPT ![t] = write]
      PROVE  \A u \in TierIds : TierTyped(tier'[u], tierWrite'[u])
  <2>1. tier' = [u \in TierIds |-> IF u = t THEN row ELSE tier[u]]
    BY <1>1, <1>2
  <2>2. tierWrite' = [u \in TierIds |-> IF u = t THEN write ELSE tierWrite[u]]
    BY <1>1, <1>2
  <2>3. QED
    BY <1>2, <2>1, <2>2
<1>3. tier = [tier EXCEPT ![t] = tier[t]] /\ tierWrite = [tierWrite EXCEPT ![t] = tierWrite[t]]
  BY <1>1
<1>4. NoTierWrite.kind = "NONE"
  BY DEF NoTierWrite
<1>5. ASSUME NEW s \in SessionIds, NEW p \in PriceOptions, NEW c \in Currencies, createSessionPriceTier(t, s, p, c)
      PROVE  \A u \in TierIds : TierTyped(tier'[u], tierWrite'[u])
  <2>1. PICK row : row = [session |-> s, price |-> p, currency |-> c, updated |-> FALSE]
    OBVIOUS
  <2>2. /\ tier' = [tier EXCEPT ![t] = row] /\ tierWrite' = tierWrite /\ tierWrite[t] = NoTierWrite
    BY <1>1, <1>5, <2>1 DEF createSessionPriceTier, TierTyped, TierRow
  <2>3. TierTyped(row, tierWrite[t])
    BY <1>4, <2>1, <2>2 DEF TierTyped, TierRow
  <2>4. QED
    BY <1>2, <1>3, <2>2, <2>3
<1>6. ASSUME NEW p \in PriceOptions, NEW c \in Currencies, WriteTier(t, p, c)
      PROVE  \A u \in TierIds : TierTyped(tier'[u], tierWrite'[u])
  <2>1. PICK write : write = [kind |-> "update", price |-> p, currency |-> c]
    OBVIOUS
  <2>2. tier[t] # NoTier /\ tier' = tier /\ tierWrite' = [tierWrite EXCEPT ![t] = write]
    BY <1>6, <2>1 DEF WriteTier
  <2>3. TierTyped(tier[t], write)
    BY <1>1, <2>1, <2>2 DEF TierTyped, TierRow
  <2>4. QED
    BY <1>2, <1>3, <2>2, <2>3
<1>7. CASE DeleteTier(t)
  <2>1. PICK write : write = [kind |-> "delete"]
    OBVIOUS
  <2>2. tier[t] # NoTier /\ tier' = tier /\ tierWrite' = [tierWrite EXCEPT ![t] = write]
    BY <1>7, <2>1 DEF DeleteTier
  <2>3. TierTyped(tier[t], write)
    BY <1>1, <2>1, <2>2 DEF TierTyped, TierRow
  <2>4. QED
    BY <1>2, <1>3, <2>2, <2>3
<1>8. CASE AbortTier(t)
  <2>1. tier' = tier /\ tierWrite' = [tierWrite EXCEPT ![t] = NoTierWrite]
    BY <1>8 DEF AbortTier
  <2>2. TierTyped(tier[t], NoTierWrite)
    BY <1>1, <1>4 DEF TierTyped, TierRow
  <2>3. QED
    BY <1>2, <1>3, <2>1, <2>2
<1>9. CASE CommitTier(t)
  <2>1. PICK row : row = IF tierWrite[t].kind = "delete" THEN NoTier
                         ELSE [tier[t] EXCEPT !.price = tierWrite[t].price, !.currency = tierWrite[t].currency,
                                               !.updated = TRUE]
    OBVIOUS
  <2>2. /\ tierWrite[t] # NoTierWrite /\ tierWrite' = [tierWrite EXCEPT ![t] = NoTierWrite]
        /\ tier' = [tier EXCEPT ![t] = row]
    BY <1>9, <2>1 DEF CommitTier
  <2>3. tierWrite[t].kind = "update" => row \in TierRow
    BY <1>1, <2>1, <2>2 DEF TierTyped, TierRow
  <2>4. tierWrite[t].kind \in {"update", "delete"}
    BY <1>1, <2>2 DEF TierTyped, TierRow
  <2>5. TierTyped(row, NoTierWrite)
    BY <1>4, <2>1, <2>3, <2>4 DEF TierTyped, TierRow
  <2>6. QED
    BY <1>2, <2>2, <2>5
<1>10. QED
  BY <1>5, <1>6, <1>7, <1>8, <1>9 DEF ManageTier

\* The event's row and the sessions' statuses.
LEMMA EventRowsKeep ==
  ASSUME TablesTyped, CatalogueRest, [CatalogueNext]_catalogueVars
  PROVE  eventStatus' \in EventRows /\ \A s \in SessionIds : eventSession'[s].status \in SessionStatuses
<1>1. /\ eventSession = [s \in SessionIds |-> eventSession[s]] /\ \A s \in SessionIds : IsSession(eventSession[s])
      /\ eventStatus \in EventRows /\ \A s \in SessionIds : eventSession[s].status \in SessionStatuses
  BY DEF TablesTyped, CatalogueRest
<1>2. CASE UNCHANGED <<eventStatus, eventSession>>
  BY <1>1, <1>2
<1>3. ASSUME NEW s \in SessionIds, NEW e, e.status \in SessionStatuses, eventStatus' = eventStatus,
             eventSession' = [eventSession EXCEPT ![s] = e]
      PROVE  eventStatus' \in EventRows /\ \A o \in SessionIds : eventSession'[o].status \in SessionStatuses
  <2>1. eventSession' = [o \in SessionIds |-> IF o = s THEN e ELSE eventSession[o]]
    BY <1>1, <1>3
  <2>2. QED
    BY <1>1, <1>3, <2>1
<1>4. \A s \in SessionIds : Cancelled(eventSession[s]).status = "CANCELLED"
  BY <1>1 DEF Cancelled, IsSession
<1>5. CASE createEvent \/ deleteEmptyDraftEvent \/ archiveEvent \/ restoreEvent \/ publishEvent
  <2>1. eventSession' = eventSession
    BY <1>5 DEF createEvent, deleteEmptyDraftEvent, archiveEvent, restoreEvent, publishEvent
  <2>2. \E st \in {"NONE", "DRAFT", "PUBLISHED", "CANCELLED", "ARCHIVED"}, was \in {"NONE", "DRAFT", "PUBLISHED", "CANCELLED"} :
          eventStatus' = [is |-> st, was |-> was]
    BY <1>1, <1>5 DEF createEvent, deleteEmptyDraftEvent, archiveEvent, restoreEvent, publishEvent, SetEvent, EventRows
  <2>3. QED
    BY <1>1, <2>1, <2>2 DEF EventRows
<1>6. CASE cancelEvent
  <2>1. /\ eventStatus' = [is |-> "CANCELLED", was |-> "NONE"]
        /\ eventSession' = [s \in SessionIds |-> IF canCancel(eventSession[s].status) THEN Cancelled(eventSession[s])
                                                  ELSE eventSession[s]]
    BY <1>6 DEF cancelEvent, SetEvent
  <2>2. eventStatus' \in EventRows
    BY <2>1 DEF EventRows
  <2>3. ASSUME NEW s \in SessionIds PROVE eventSession'[s].status \in SessionStatuses
    BY <1>1, <1>4, <2>1 DEF SessionStatuses
  <2>4. QED
    BY <2>2, <2>3
<1>7. ASSUME NEW s \in SessionIds, ManageSession(s)
      PROVE  eventStatus' \in EventRows /\ \A o \in SessionIds : eventSession'[o].status \in SessionStatuses
  <2>1. CASE cancelEventSession(s)
    <3>1. PICK e : e = Cancelled(eventSession[s])
      OBVIOUS
    <3>2. eventSession' = [eventSession EXCEPT ![s] = e] /\ eventStatus' = eventStatus
      BY <2>1, <3>1 DEF cancelEventSession
    <3>3. e.status \in SessionStatuses
      BY <1>4, <3>1 DEF SessionStatuses
    <3>4. QED
      BY <1>3, <3>2, <3>3
  <2>2. ASSUME NEW slot \in TimeSlots, createEventSession(s, slot)
        PROVE  eventStatus' \in EventRows /\ \A o \in SessionIds : eventSession'[o].status \in SessionStatuses
    <3>1. PICK e : e = [status |-> "DRAFT", map |-> currentMap, slot |-> slot, publishedAt |-> "never"]
      OBVIOUS
    <3>2. eventSession' = [eventSession EXCEPT ![s] = e] /\ eventStatus' = eventStatus
      BY <2>2, <3>1 DEF createEventSession, OnlySession
    <3>3. e.status \in SessionStatuses
      BY <3>1 DEF SessionStatuses
    <3>4. QED
      BY <1>3, <3>2, <3>3
  <2>3. ASSUME NEW slot \in TimeSlots, updateDraftEventSession(s, slot)
        PROVE  eventStatus' \in EventRows /\ \A o \in SessionIds : eventSession'[o].status \in SessionStatuses
    <3>1. \A o \in SessionIds : eventSession'[o].status = eventSession[o].status
      BY <1>1, <2>3 DEF updateDraftEventSession, IsSession
    <3>2. eventStatus' = eventStatus
      BY <2>3 DEF updateDraftEventSession, OnlySession
    <3>3. QED
      BY <1>1, <3>1, <3>2
  <2>4. ASSUME NEW st \in {"SCHEDULED", "ON_SALE"}, CommitSale(s, st)
        PROVE  eventStatus' \in EventRows /\ \A o \in SessionIds : eventSession'[o].status \in SessionStatuses
    <3>1. eventSession' = [eventSession EXCEPT ![s].status = st, ![s].publishedAt = "with inventory"] /\ eventStatus' = eventStatus
      BY <2>4 DEF CommitSale
    <3>2. \A o \in SessionIds : eventSession'[o].status \in {eventSession[o].status, st}
      BY <1>1, <3>1 DEF IsSession
    <3>3. QED
      BY <1>1, <3>1, <3>2 DEF SessionStatuses
  <2>5. ASSUME \/ \E f \in [AllSections -> TierIds \cup {Unassigned}] : assignSessionSectionPricing(s, f)
               \/ ReadForSale(s) \/ AbortSale(s) \/ BackfillInventory(s)
        PROVE  UNCHANGED <<eventStatus, eventSession>>
    BY <2>5 DEF assignSessionSectionPricing, ReadForSale, AbortSale, BackfillInventory
  <2>6. QED
    BY <1>2, <1>7, <2>1, <2>2, <2>3, <2>4, <2>5 DEF ManageSession
<1>8. ASSUME NEW t \in TierIds, ManageTier(t) PROVE UNCHANGED <<eventStatus, eventSession>>
  BY <1>8 DEF ManageTier, createSessionPriceTier, WriteTier, DeleteTier, CommitTier, AbortTier, OnlyTierWrite
<1>9. CASE grantVenueAccess \/ revokeVenueAccess \/ PlaceChanges \/ MapPublished \/ UNCHANGED catalogueVars
  BY <1>2, <1>9 DEF grantVenueAccess, revokeVenueAccess, PlaceChanges, MapPublished, OnlyVenueSide, catalogueVars
<1>10. QED
  BY <1>2, <1>5, <1>6, <1>7, <1>8, <1>9 DEF CatalogueNext

\* Tiers and the statements on them.
LEMMA TiersKeep ==
  ASSUME TablesTyped, CatalogueRest, [CatalogueNext]_catalogueVars
  PROVE  \A t \in TierIds : TierTyped(tier'[t], tierWrite'[t])
<1>1. \A t \in TierIds : TierTyped(tier[t], tierWrite[t])
  BY DEF CatalogueRest
<1>2. ASSUME NEW t \in TierIds, ManageTier(t) PROVE \A u \in TierIds : TierTyped(tier'[u], tierWrite'[u])
  BY <1>1, <1>2, TierRowsKeep
<1>3. ASSUME NEW s \in SessionIds, ManageSession(s) PROVE UNCHANGED <<tier, tierWrite>>
  BY <1>3 DEF ManageSession, createEventSession, updateDraftEventSession, OnlySession, assignSessionSectionPricing,
              cancelEventSession, OnlyEvent, ReadForSale, AbortSale, BackfillInventory, CommitSale
<1>4. ASSUME \/ grantVenueAccess \/ revokeVenueAccess \/ PlaceChanges \/ MapPublished \/ UNCHANGED catalogueVars
             \/ createEvent \/ deleteEmptyDraftEvent \/ archiveEvent \/ restoreEvent \/ cancelEvent \/ publishEvent
      PROVE  UNCHANGED <<tier, tierWrite>>
  BY <1>4 DEF grantVenueAccess, revokeVenueAccess, PlaceChanges, MapPublished, OnlyVenueSide, catalogueVars, createEvent,
              deleteEmptyDraftEvent, archiveEvent, restoreEvent, cancelEvent, publishEvent, OnlyEvent
<1>5. QED
  BY <1>1, <1>2, <1>3, <1>4 DEF CatalogueNext

\* The catalogue's tables keep their types; the price of a section is a tier of the
\* section's own session, although tiers are deleted in statements of their own.
THEOREM CatalogueTypes == CatalogueSpec => []CatalogueTypeOK
<1>1. CatalogueInit => CatalogueRest
  <2> SUFFICES ASSUME CatalogueInit PROVE CatalogueRest
    OBVIOUS
  <2>1. tierWrite = [t \in TierIds |-> NoTierWrite]
    BY DEF CatalogueInit
  <2>2. NoTierWrite.kind = "NONE" /\ NoSession.status = "NONE"
    BY DEF NoTierWrite, NoSession
  <2>3. CASE NoEvent
    <3>1. eventStatus \in EventRows /\ \A s \in SessionIds : eventSession[s].status \in SessionStatuses
      BY <2>2, <2>3 DEF NoEvent, EventRows, SessionStatuses
    <3>2. \A t \in TierIds : tier[t] = NoTier
      BY <2>3 DEF NoEvent
    <3>3. QED
      BY <2>1, <2>2, <3>1, <3>2 DEF CatalogueRest, TierTyped, TierRow
  <2>4. ASSUME NEW s \in SessionIds, NEW t \in TierIds, PublishedBefore(s, t) PROVE CatalogueRest
    <3>1. PICK slot, price, cur : /\ slot = (CHOOSE i \in TimeSlots : TRUE)
                                  /\ price = (CHOOSE p \in PriceOptions : TRUE) /\ cur = (CHOOSE c \in Currencies : TRUE)
      OBVIOUS
    <3>2. price \in PriceOptions /\ cur \in Currencies
      BY <3>1, CatalogueConstants
    <3>3. PICK e, row : /\ e = [status |-> "ON_SALE", map |-> 1, slot |-> slot, publishedAt |-> "before inventory"]
                        /\ row = [session |-> s, price |-> price, currency |-> cur, updated |-> FALSE]
      OBVIOUS
    <3>4. /\ eventSession = [o \in SessionIds |-> IF o = s THEN e ELSE NoSession]
          /\ tier = [u \in TierIds |-> IF u = t THEN row ELSE NoTier]
      BY <2>4, <3>1, <3>3, Zenon DEF PublishedBefore
    <3>5. eventStatus \in EventRows
      BY <2>4 DEF PublishedBefore, EventRows
    <3>6. e.status = "ON_SALE" /\ row \in TierRow
      BY <3>2, <3>3 DEF TierRow
    <3>7. \A u \in TierIds : TierTyped(tier[u], tierWrite[u])
      BY <2>1, <2>2, <3>4, <3>6 DEF TierTyped, TierRow
    <3>8. \A o \in SessionIds : eventSession[o].status \in SessionStatuses
      BY <2>2, <3>4, <3>6 DEF SessionStatuses
    <3>9. QED
      BY <3>5, <3>7, <3>8 DEF CatalogueRest
  <2>5. QED
    BY <2>3, <2>4 DEF CatalogueInit
<1>2. CatalogueInv /\ CatalogueRest /\ [CatalogueNext]_catalogueVars => CatalogueRest'
  <2> SUFFICES ASSUME TablesTyped, CatalogueRest, [CatalogueNext]_catalogueVars PROVE CatalogueRest'
    BY DEF CatalogueInv
  <2>1. QED
    BY EventRowsKeep, TiersKeep DEF CatalogueRest, TierTyped, TierRow, EventRows, SessionStatuses, NoTier, NoTierWrite
<1>3. CatalogueInv /\ CatalogueRest => CatalogueTypeOK
  BY DEF CatalogueInv, TablesTyped, PricesAreOwn, CatalogueRest, TierTyped, TierRow, EventRows, SessionStatuses, CatalogueTypeOK
<1>4. QED
  BY <1>1, <1>2, <1>3, CatalogueInvariant, PTL DEF CatalogueSpec
=============================================================================
