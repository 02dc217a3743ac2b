--------------------------- MODULE ListingProofs ---------------------------
(***************************************************************************)
(* Proofs about Listing for every set of identifiers, page size and clock: *)
(* the cursor goes back with every page, and a walk shows a row that does  *)
(* not change exactly once.  Both are about the orders whose cursor has    *)
(* the time the listing is sorted by.                                      *)
(*                                                                         *)
(* A page is the beginning of what is left in the order of the listing, so *)
(* its last row divides what is left: what is on the page is no longer     *)
(* before the new cursor, the rest still is.  The invariant says that the  *)
(* rows that have been shown are those the cursor has passed.              *)
(***************************************************************************)
EXTENDS Listing, FiniteSetTheorems, Minima

Sound == <<"permissions", "modified">> \notin Orders

Types ==
    /\ <<listing, sort>> \in Orders
    /\ clock \in 1..MaxTime
    /\ rows = [i \in Ids |-> rows[i]]
    /\ \A i \in Ids : rows[i] # None =>
        rows[i] \in Row /\ rows[i].created <= clock /\ rows[i].modified <= clock
    /\ used \subseteq Ids
    /\ exists \in BOOLEAN
    /\ phase \in {"before", "walking", "ended", "notfound", "panicked"}
    /\ filter \subseteq Levels
    /\ phase \in {"walking", "ended"} => cursor \in Cursors /\ cursor.time <= clock
    /\ returned \in [Ids -> 0..2]
    /\ steady \subseteq Ids

-----------------------------------------------------------------------------
(* Identifiers.                                                            *)

LEMMA IdFacts ==
    /\ Ids \subseteq Nat /\ Ids # {} /\ IsFiniteSet(Ids)
    /\ MaxDocumentID \in Nat /\ \A i \in Ids : i < MaxDocumentID
<1>1. PICK m \in Ids : \A i \in Ids : i <= m
  BY ListingAssumption
<1>2. Ids \subseteq Nat /\ m \in Nat
  BY ListingAssumption
<1>3. IsFiniteSet(Ids)
  BY <1>1, <1>2, FS_BoundedSetOfNaturals
<1>4. m + 1 \in {i + 1 : i \in Ids} /\ \A i \in Ids : i < m + 1
  BY <1>1, <1>2
<1>5. MaxDocumentID \in {i + 1 : i \in Ids} /\ \A i \in Ids : i < MaxDocumentID
  BY <1>4 DEF MaxDocumentID
<1> QED
  BY <1>2, <1>3, <1>5
-----------------------------------------------------------------------------
(* Types.                                                                  *)

LEMMA InitTypes == Init => Types
<1> SUFFICES ASSUME Init PROVE Types
  OBVIOUS
<1>1. <<listing, sort>> \in Orders
  <2>1. PICK o \in Orders : listing = o[1] /\ sort = o[2]
    BY DEF Init
  <2>2. o = <<o[1], o[2]>>
    BY <2>1, ListingAssumption
  <2> QED
    BY <2>1, <2>2
<1>2. clock \in 1..MaxTime
  BY ListingAssumption DEF Init
<1> QED
  BY <1>1, <1>2 DEF Init, Types

\* One row is changed to row.
LEMMA ChangeTypes ==
    ASSUME Types, NEW i \in Ids, NEW row,
           row = None \/ (row \in Row /\ row.created <= clock /\ row.modified <= clock),
           rows' = [rows EXCEPT ![i] = row], steady' \subseteq Ids, used' \subseteq Ids,
           UNCHANGED <<listing, sort, clock, exists, phase, filter, cursor, returned>>
    PROVE  Types'
<1>1. /\ rows' = [j \in Ids |-> rows'[j]]
      /\ \A j \in Ids : rows'[j] = IF j = i THEN row ELSE rows[j]
  BY DEF Types
<1>2. \A j \in Ids : rows'[j] # None =>
        rows'[j] \in Row /\ rows'[j].created <= clock /\ rows'[j].modified <= clock
  BY <1>1 DEF Types
<1> QED
  BY <1>1, <1>2 DEF Types

LEMMA CreateTypes ==
    ASSUME Types, NEW i \in Ids, NEW l \in Levels, NEW t \in Stamps, Create(i, l, t)
    PROVE  Types'
<1> DEFINE row == [created |-> t, modified |-> t, level |-> l]
<1>1. row \in Row /\ row.created <= clock /\ row.modified <= clock
  BY ListingAssumption DEF Row, Stamps, Types
<1> HIDE DEF row
<1> QED
  BY <1>1, ChangeTypes DEF Create, Changes, Types, row

LEMMA GrantTypes ==
    ASSUME Types, NEW i \in Ids, NEW l \in Levels, NEW t \in Stamps, Grant(i, l, t)
    PROVE  Types'
<1> DEFINE row == [rows[i] EXCEPT !.level = l,
                                  !.modified = IF listing = "permissions" THEN t ELSE @]
<1>1. rows[i] \in Row /\ rows[i].created <= clock /\ rows[i].modified <= clock
  BY DEF Grant, Types
<1>2. t \in 1..MaxTime /\ t <= clock
  BY ListingAssumption DEF Stamps, Types
<1>3. row \in Row /\ row.created <= clock /\ row.modified <= clock
  BY <1>1, <1>2 DEF Row
<1> HIDE DEF row
<1> QED
  BY <1>3, ChangeTypes DEF Grant, Changes, Types, row

LEMMA RevokeTypes ==
    ASSUME Types, NEW i \in Ids, Revoke(i)
    PROVE  Types'
<1> DEFINE row == IF listing = "permissions" THEN None ELSE [rows[i] EXCEPT !.level = None]
<1>1. rows[i] \in Row /\ rows[i].created <= clock /\ rows[i].modified <= clock
  BY DEF Revoke, Types
<1>2. row = None \/ (row \in Row /\ row.created <= clock /\ row.modified <= clock)
  BY <1>1 DEF Row
<1> HIDE DEF row
<1> QED
  BY <1>2, ChangeTypes DEF Revoke, Changes, Types, row

LEMMA DeleteTypes ==
    ASSUME Types, DeleteDocument
    PROVE  Types'
<1>1. CASE listing = "permissions"
  BY <1>1 DEF DeleteDocument, Types
<1>2. CASE listing # "permissions"
  <2>1. PICK i \in Ids : rows' = [rows EXCEPT ![i] = None] /\ steady' = steady \ {i}
                         /\ UNCHANGED exists
    BY <1>2 DEF DeleteDocument
  <2> QED
    BY <2>1, ChangeTypes DEF DeleteDocument, Types
<1> QED
  BY <1>1, <1>2
-----------------------------------------------------------------------------
(* Pages and cursors.                                                      *)

LEMMA SortFacts ==
    ASSUME Types, NEW i \in Ids, rows[i] # None
    PROVE  /\ SortTime(i) \in 1..MaxTime /\ SortTime(i) <= clock
           /\ SortTime(i) \in Nat /\ SortTime(i) <= MaxTime
           /\ LastSeenTime(i) \in 1..MaxTime /\ LastSeenTime(i) <= clock
           /\ Sound => LastSeenTime(i) = SortTime(i)
<1>1. /\ rows[i].created \in 1..MaxTime /\ rows[i].modified \in 1..MaxTime
      /\ rows[i].created <= clock /\ rows[i].modified <= clock
  BY DEF Types, Row
<1>2. /\ listing \in {"documents", "permissions"} /\ sort \in {"created", "modified"}
      /\ Sound => ~(listing = "permissions" /\ sort = "modified")
  BY ListingAssumption DEF Types, Sound
<1>3. SortTime(i) = IF sort = "created" THEN rows[i].created ELSE rows[i].modified
  BY <1>2 DEF SortTime
<1> QED
  BY <1>1, <1>2, <1>3, ListingAssumption DEF LastSeenTime

\* The order of a listing is total: some row comes last, and some first.
LEMMA LastExists ==
    ASSUME Types, NEW P \in SUBSET Ids, P # {}, \A i \in P : rows[i] # None
    PROVE  \E last \in P : \A j \in P \ {last} : Precedes(j, last)
<1>1. \A i \in P : SortTime(i) \in Nat /\ i \in Nat
  BY SortFacts, IdFacts
<1> DEFINE T == {SortTime(i) : i \in P}
<1>2. T \in SUBSET Nat /\ T # {}
  BY <1>1
<1>3. PICK t \in T : \A m \in T : t <= m
  <2> HIDE DEF T
  <2> QED
    BY <1>2, Least
<1> DEFINE Q == {i \in P : SortTime(i) = t}
<1>4. Q \in SUBSET Nat /\ Q # {}
  BY <1>1, <1>3
<1>5. PICK last \in Q : \A j \in Q : last <= j
  <2> HIDE DEF Q
  <2> QED
    BY <1>4, Least
<1>6. ASSUME NEW j \in P \ {last} PROVE Precedes(j, last)
  <2>1. t <= SortTime(j) /\ SortTime(last) = t /\ last \in P
    BY <1>3, <1>5
  <2>2. SortTime(j) = t => last <= j
    BY <1>5
  <2> QED
    BY <1>1, <2>1, <2>2 DEF Precedes
<1> QED
  BY <1>5, <1>6

LEMMA FirstExists ==
    ASSUME Types, NEW M \in SUBSET Ids, M # {}, \A i \in M : rows[i] # None
    PROVE  \E first \in M : \A j \in M : ~Precedes(j, first)
<1>1. \A i \in M : SortTime(i) \in Nat /\ SortTime(i) <= MaxTime
                    /\ i \in Nat /\ i <= MaxDocumentID
  BY SortFacts, IdFacts
<1> DEFINE T == {SortTime(i) : i \in M}
<1>2. T \in SUBSET Nat /\ T # {} /\ \A m \in T : m <= MaxTime
  BY <1>1
<1>3. PICK t \in T : \A m \in T : m <= t
  <2> HIDE DEF T
  <2> QED
    BY <1>2, Greatest, ListingAssumption
<1> DEFINE Q == {i \in M : SortTime(i) = t}
<1>4. Q \in SUBSET Nat /\ Q # {} /\ \A m \in Q : m <= MaxDocumentID
  BY <1>1, <1>3
<1>5. PICK first \in Q : \A j \in Q : j <= first
  <2> HIDE DEF Q
  <2> QED
    BY <1>4, Greatest, IdFacts
<1>6. ASSUME NEW j \in M PROVE ~Precedes(j, first)
  <2>1. SortTime(j) <= t /\ SortTime(first) = t /\ first \in M
    BY <1>3, <1>5
  <2>2. SortTime(j) = t => j <= first
    BY <1>5
  <2>3. SortTime(j) \in Nat /\ t \in Nat /\ j \in Nat /\ first \in Nat
    BY <1>1, <2>1
  <2> QED
    BY <2>1, <2>2, <2>3 DEF Precedes
<1> QED
  BY <1>5, <1>6

Left(c) == {i \in Ids : Listed(i) /\ Before(i, c)}

\* A page is the beginning of what is left, and empty when nothing is.
LEMMA PageFacts ==
    ASSUME Types, NEW c, NEW n \in Nat \ {0}
    PROVE  /\ Page(c, n) \subseteq Left(c)
           /\ Page(c, n) = {} => Left(c) = {}
           /\ \A i \in Page(c, n), j \in Left(c) : Precedes(j, i) => j \in Page(c, n)
<1> DEFINE M == Left(c)
           Ahead(i) == {j \in M : Precedes(j, i)}
<1>1. Page(c, n) = {i \in M : Cardinality(Ahead(i)) < n}
  BY DEF Page, Left
<1>2. M \in SUBSET Ids /\ \A i \in M : rows[i] # None
  BY DEF Left, Listed
<1>3. ASSUME NEW i \in M PROVE SortTime(i) \in Nat /\ i \in Nat
  <2> HIDE DEF M
  <2> QED
    BY <1>2, SortFacts, IdFacts
<1>4. IsFiniteSet(M)
  BY <1>2, IdFacts, FS_Subset
<1> HIDE DEF M
<1>5. ASSUME M # {} PROVE Page(c, n) # {}
  <2>1. PICK first \in M : \A j \in M : ~Precedes(j, first)
    BY <1>2, <1>5, FirstExists
  <2>2. Ahead(first) = {}
    BY <2>1, Zenon
  <2>3. Cardinality(Ahead(first)) < n
    BY <2>2, FS_EmptySet
  <2> QED
    BY <1>1, <2>1, <2>3
<1>6. ASSUME NEW i \in Page(c, n), NEW j \in M, Precedes(j, i) PROVE j \in Page(c, n)
  <2>1. i \in M /\ Cardinality(Ahead(i)) < n
    BY <1>1
  <2>2. ASSUME NEW k \in Ahead(j) PROVE k \in Ahead(i)
    BY <1>3, <1>6, <2>1 DEF Precedes
  <2>3. IsFiniteSet(Ahead(i)) /\ Ahead(i) \in SUBSET M
    BY <1>4, FS_Subset
  <2>4. Ahead(j) \in SUBSET Ahead(i)
    BY <2>2
  <2> HIDE DEF Ahead
  <2>5. Cardinality(Ahead(j)) <= Cardinality(Ahead(i)) /\ IsFiniteSet(Ahead(j))
    BY <2>3, <2>4, FS_Subset
  <2>6. Cardinality(Ahead(i)) \in Nat /\ Cardinality(Ahead(j)) \in Nat
    BY <2>3, <2>5, FS_CardinalityType
  <2> QED
    BY <1>1, <2>1, <2>5, <2>6
<1> QED
  BY <1>1, <1>5, <1>6 DEF M

LEMMA PageSizeFacts == \A n \in Nat : PageSize(n) \in Nat \ {0}
BY ListingAssumption DEF PageSize

\* The new cursor is at the last row of the page.
LEMMA CursorFacts ==
    ASSUME Types, NEW c, NEW P, P \subseteq Left(c), P # {}
    PROVE  \E last \in P :
                /\ ResponseCursor(c, P) = [time |-> LastSeenTime(last), id |-> last]
                /\ \A j \in P \ {last} : Precedes(j, last)
<1>1. P \in SUBSET Ids /\ \A i \in P : rows[i] # None
  BY DEF Left, Listed
<1>2. \E last \in P : \A j \in P \ {last} : Precedes(j, last)
  BY <1>1, LastExists
<1> DEFINE l == CHOOSE i \in P : \A j \in P \ {i} : Precedes(j, i)
<1>3. l \in P /\ \A j \in P \ {l} : Precedes(j, l)
  BY <1>2
<1>4. ResponseCursor(c, P) = [time |-> LastSeenTime(l), id |-> l]
  BY DEF ResponseCursor
<1> HIDE DEF l
<1> QED
  BY <1>3, <1>4

LEMMA CursorTypes ==
    ASSUME Types, NEW c \in Cursors, c.time <= clock, NEW P, P \subseteq Left(c)
    PROVE  ResponseCursor(c, P) \in Cursors /\ ResponseCursor(c, P).time <= clock
<1>1. CASE P = {}
  BY <1>1 DEF ResponseCursor
<1>2. CASE P # {}
  <2>1. PICK last \in P : ResponseCursor(c, P) = [time |-> LastSeenTime(last), id |-> last]
    BY <1>2, CursorFacts
  <2>2. last \in Ids /\ LastSeenTime(last) \in 1..MaxTime /\ LastSeenTime(last) <= clock
    BY SortFacts DEF Left, Listed
  <2> QED
    BY <2>1, <2>2 DEF Cursors
<1> QED
  BY <1>1, <1>2

\* In a sound order the cursor goes back to a row on the page, which is behind
\* the old cursor.
LEMMA CursorStep ==
    ASSUME Types, Sound, NEW c \in Cursors, NEW n \in Nat \ {0},
           NEW P, P = Page(c, n), P # {}, NEW d, d = ResponseCursor(c, P)
    PROVE  /\ d.time < c.time \/ (d.time = c.time /\ d.id < c.id)
           /\ \A i \in Left(c) : Before(i, d) <=> i \notin P
           /\ \A i \in Ids : Listed(i) /\ Before(i, d) => Before(i, c)
<1>1. /\ P \subseteq Left(c)
      /\ \A i \in P, j \in Left(c) : Precedes(j, i) => j \in P
  BY PageFacts
<1>2. PICK last \in P : /\ d = [time |-> LastSeenTime(last), id |-> last]
                        /\ \A j \in P \ {last} : Precedes(j, last)
  BY <1>1, CursorFacts
<1>3. last \in Ids /\ Listed(last) /\ Before(last, c)
  BY <1>1, <1>2 DEF Left
<1>4. \A i \in Ids : Listed(i) => SortTime(i) \in Nat /\ i \in Nat
  BY SortFacts, IdFacts DEF Listed
<1>5. d.time = SortTime(last) /\ d.id = last /\ SortTime(last) \in Nat /\ last \in Nat
  BY <1>2, <1>3, <1>4, SortFacts DEF Listed
<1>6. c.time \in Nat /\ c.id \in Nat
  <2>1. c.time \in 1..MaxTime /\ c.id \in Ids \cup {MaxDocumentID}
    BY DEF Cursors
  <2>2. MaxTime \in Nat
    BY ListingAssumption
  <2>3. c.id \in Nat
    BY <2>1, IdFacts
  <2> QED
    BY <2>1, <2>2, <2>3
<1>7. d.time < c.time \/ (d.time = c.time /\ d.id < c.id)
  BY <1>3, <1>5 DEF Before
<1>8. ASSUME NEW i \in Left(c) PROVE Before(i, d) <=> i \notin P
  <2>1. SortTime(i) \in Nat /\ i \in Nat
    BY <1>4 DEF Left
  <2>2. CASE i = last
    BY <1>2, <1>5, <2>2 DEF Before
  <2>3. CASE i # last /\ i \in P
    <3>1. Precedes(i, last)
      BY <1>2, <2>3
    <3> QED
      BY <1>5, <2>1, <2>3, <3>1 DEF Before, Precedes
  <2>4. CASE i \notin P
    <3>1. ~Precedes(i, last) /\ i # last
      BY <1>1, <1>2, <2>4
    <3> QED
      BY <1>5, <2>1, <2>4, <3>1 DEF Before, Precedes
  <2> QED
    BY <2>2, <2>3, <2>4
<1>9. ASSUME NEW i \in Ids, Listed(i), Before(i, d) PROVE Before(i, c)
  <2>1. SortTime(i) \in Nat /\ i \in Nat
    BY <1>4, <1>9
  <2> QED
    BY <1>5, <1>6, <1>7, <1>9, <2>1 DEF Before
<1> QED
  BY <1>7, <1>8, <1>9

LEMMA NextPageTypes ==
    ASSUME Types, NEW n \in Nat, NextPage(n)
    PROVE  Types'
<1>1. CASE ~exists
  BY <1>1 DEF NextPage, Types
<1>2. CASE exists
  <2> DEFINE P == Page(cursor, PageSize(n))
  <2>1. cursor \in Cursors /\ cursor.time <= clock
    BY DEF NextPage, Types
  <2>2. P \subseteq Left(cursor)
    BY PageSizeFacts, PageFacts
  <2>3. /\ cursor' = ResponseCursor(cursor, P)
        /\ returned' = [i \in Ids |-> IF i \in P /\ returned[i] < 2 THEN returned[i] + 1 ELSE returned[i]]
        /\ phase' \in {"ended", "walking"}
    BY <1>2 DEF NextPage
  <2> HIDE DEF P
  <2>4. cursor' \in Cursors /\ cursor'.time <= clock
    BY <2>1, <2>2, <2>3, CursorTypes
  <2>5. returned' \in [Ids -> 0..2]
    BY <2>3 DEF Types
  <2> QED
    BY <2>3, <2>4, <2>5 DEF NextPage, Types
<1> QED
  BY <1>1, <1>2

LEMMA StartTypes ==
    ASSUME Types, NEW f \in SUBSET Levels, NEW h \in BOOLEAN, Start(f, h)
    PROVE  Types'
<1>1. NewBeginningCursor \in Cursors /\ NewBeginningCursor.time <= clock
  BY ListingAssumption DEF NewBeginningCursor, Cursors, Types
<1> QED
  BY <1>1 DEF Start, Types

LEMMA NextTypes == Types /\ [Next]_vars => Types'
<1> SUFFICES ASSUME Types, [Next]_vars PROVE Types'
  OBVIOUS
<1>1. CASE Tick
  BY <1>1, ListingAssumption DEF Tick, Types, Row, Cursors
<1>2. CASE Walk
  <2>1. PICK n \in 0..MaxPageSize + 1 : NextPage(n)
    BY <1>2 DEF Walk
  <2> QED
    BY <2>1, NextPageTypes, ListingAssumption
<1>3. CASE UNCHANGED vars
  BY <1>3 DEF vars, Types
<1> QED
  BY <1>1, <1>2, <1>3, CreateTypes, GrantTypes, RevokeTypes, DeleteTypes, StartTypes DEF Next

\* The cursor and the times of rows are never ahead of the clock, in every
\* order of the listings.
THEOREM ListingTypeCorrectness == Spec => []TypeOK
<1>1. Types => TypeOK
  BY DEF Types, TypeOK
<1> QED
  BY <1>1, InitTypes, NextTypes, PTL DEF Spec

\* Every page but the last takes the cursor back in the order of the listing.
THEOREM CursorsGoBack ==
    ASSUME Sound
    PROVE  Spec => CursorGoesBack
<1>1. ASSUME Types, [Next]_vars, Walk, phase' = "walking"
      PROVE  cursor'.time < cursor.time \/ (cursor'.time = cursor.time /\ cursor'.id < cursor.id)
  <2>1. PICK n \in 0..MaxPageSize + 1 : NextPage(n)
    BY <1>1 DEF Walk
  <2> DEFINE P == Page(cursor, PageSize(n))
  <2>2. PageSize(n) \in Nat \ {0} /\ cursor \in Cursors
    BY <1>1, <2>1, PageSizeFacts, ListingAssumption DEF NextPage, Types
  <2>3. P # {} /\ cursor' = ResponseCursor(cursor, P)
    BY <1>1, <2>1 DEF NextPage
  <2> HIDE DEF P
  <2> QED
    BY <1>1, <2>2, <2>3, CursorStep DEF P
<1>2. Types /\ [Next]_vars =>
        [Walk /\ phase' = "walking" =>
            \/ cursor'.time < cursor.time
            \/ cursor'.time = cursor.time /\ cursor'.id < cursor.id]_vars
  BY <1>1
<1> QED
  BY <1>2, InitTypes, NextTypes, PTL DEF Spec, CursorGoesBack
-----------------------------------------------------------------------------
(* What a walk has shown of the rows that do not change.                   *)

\* Rows that have been shown are those the cursor has passed.
ShownOf(i) ==
    /\ rows[i] # None
    /\ ~Listed(i) => returned[i] = 0
    /\ phase \in {"before", "panicked"} => returned[i] = 0
    /\ phase \in {"walking", "ended"} /\ Listed(i) => returned[i] = IF Before(i, cursor) THEN 0 ELSE 1
    /\ phase = "ended" /\ Listed(i) => ~Before(i, cursor)

WInv ==
    /\ Types
    /\ \A i \in steady : ShownOf(i)
    /\ phase = "before" => \A i \in Ids : returned[i] = 0
    /\ phase = "notfound" => steady = {}
    /\ ~exists => steady = {} /\ \A i \in Ids : rows[i] = None

LEMMA InitWInv == Init => WInv
<1> SUFFICES ASSUME Init PROVE WInv
  OBVIOUS
<1> QED
  BY InitTypes DEF Init, WInv

\* Changes to other rows are nothing to a row.
LEMMA ShownFrame ==
    ASSUME WInv, NEW i \in steady, rows'[i] = rows[i],
           UNCHANGED <<sort, phase, filter, cursor, returned>>
    PROVE  ShownOf(i)'
<1>1. ShownOf(i)
  BY DEF WInv
<1> QED
  BY <1>1 DEF ShownOf, Listed, Filter, Before, SortTime

LEMMA ChangeWInv ==
    ASSUME WInv, Types', NEW i \in Ids, NEW row, exists,
           rows' = [rows EXCEPT ![i] = row], steady' = steady \ {i},
           UNCHANGED <<sort, exists, phase, filter, cursor, returned>>
    PROVE  WInv'
<1>1. \A j \in steady' : j \in steady /\ rows'[j] = rows[j]
  BY DEF WInv, Types
<1>2. \A j \in steady' : ShownOf(j)'
  BY <1>1, ShownFrame
<1> QED
  BY <1>2 DEF WInv

LEMMA StartWInv ==
    ASSUME WInv, NEW f \in SUBSET Levels, NEW h \in BOOLEAN, Start(f, h)
    PROVE  WInv'
<1>1. Types /\ Types' /\ phase = "before" /\ phase' \in {"walking", "panicked"}
  BY StartTypes DEF WInv, Start
<1>2. ASSUME NEW i \in steady' PROVE ShownOf(i)'
  <2>1. i \in Ids /\ rows[i] # None /\ returned'[i] = 0 /\ rows' = rows /\ sort' = sort
    BY <1>1, <1>2 DEF Start, WInv
  <2>2. phase' = "walking" => Before(i, cursor')
    <3>1. SortTime(i) \in Nat /\ SortTime(i) <= clock /\ clock \in Nat /\ i < MaxDocumentID
      BY <1>1, <2>1, SortFacts, IdFacts DEF Types
    <3>2. phase' = "walking" => cursor' = NewBeginningCursor
      BY DEF Start
    <3> QED
      BY <3>1, <3>2 DEF NewBeginningCursor, Before
  <2>3. phase' = "walking" => Before(i, cursor)'
    BY <2>1, <2>2 DEF Before, SortTime
  <2> QED
    BY <1>1, <2>1, <2>3 DEF ShownOf
<1> QED
  BY <1>1, <1>2 DEF Start, WInv

LEMMA NextPageWInv ==
    ASSUME WInv, Sound, NEW n \in Nat, NextPage(n)
    PROVE  WInv'
<1>1. Types /\ Types' /\ phase = "walking"
  BY NextPageTypes DEF WInv, NextPage
<1>2. CASE ~exists
  BY <1>1, <1>2 DEF NextPage, WInv
<1>3. CASE exists
  <2> DEFINE P == Page(cursor, PageSize(n))
  <2>1. cursor \in Cursors /\ PageSize(n) \in Nat \ {0}
    BY <1>1, PageSizeFacts DEF Types
  <2>2. P \subseteq Left(cursor) /\ (P = {} => Left(cursor) = {})
    BY <1>1, <2>1, PageFacts
  <2>3. /\ cursor' = ResponseCursor(cursor, P)
        /\ returned' = [i \in Ids |-> IF i \in P /\ returned[i] < 2 THEN returned[i] + 1 ELSE returned[i]]
        /\ phase' = IF P = {} THEN "ended" ELSE "walking"
        /\ UNCHANGED <<listing, sort, clock, rows, used, exists, filter, steady>>
    BY <1>3 DEF NextPage
  <2>4. CASE P = {}
    <3> HIDE DEF P
    <3>1. cursor' = cursor /\ returned' = returned
      BY <1>1, <2>3, <2>4 DEF ResponseCursor, Types
    <3>2. ASSUME NEW i \in steady PROVE ShownOf(i)'
      <4>1. ShownOf(i) /\ i \in Ids /\ i \notin Left(cursor)
        BY <1>1, <2>2, <2>4 DEF WInv, Types
      <4>2. ~(Listed(i) /\ Before(i, cursor))
        BY <4>1 DEF Left
      <4> QED
        BY <1>1, <2>3, <2>4, <3>1, <4>1, <4>2 DEF ShownOf, Listed, Filter, Before, SortTime
    <3> QED
      BY <1>1, <1>3, <2>3, <2>4, <3>2 DEF WInv
  <2>5. CASE P # {}
    <3> DEFINE d == cursor'
    <3>1. /\ \A i \in Left(cursor) : Before(i, d) <=> i \notin P
          /\ \A i \in Ids : Listed(i) /\ Before(i, d) => Before(i, cursor)
      <4> HIDE DEF P, d
      <4> QED
        BY <1>1, <2>1, <2>3, <2>5, CursorStep DEF P, d
    <3>2. ASSUME NEW i \in steady PROVE ShownOf(i)'
      <4>1. ShownOf(i) /\ i \in Ids /\ returned[i] \in 0..2
        BY <1>1 DEF WInv, Types
      <4>2. returned'[i] = IF i \in P /\ returned[i] < 2 THEN returned[i] + 1 ELSE returned[i]
        BY <2>3, <4>1
      <4>3. Listed(i)' <=> Listed(i)
        BY <2>3 DEF Listed, Filter
      <4>4. Before(i, cursor)' <=> Before(i, d)
        BY <2>3 DEF Before, SortTime
      <4>5. i \in P => Listed(i) /\ Before(i, cursor)
        BY <2>2 DEF Left
      <4>6. Listed(i) /\ Before(i, cursor) => i \in Left(cursor)
        BY <4>1 DEF Left
      <4>7. phase' = "walking" /\ rows' = rows
        BY <2>3, <2>5
      <4> HIDE DEF P, d
      <4> QED
        BY <1>1, <3>1, <4>1, <4>2, <4>3, <4>4, <4>5, <4>6, <4>7 DEF ShownOf
    <3> HIDE DEF P, d
    <3> QED
      BY <1>1, <1>3, <2>3, <2>5, <3>2 DEF WInv
  <2> QED
    BY <2>4, <2>5
<1> QED
  BY <1>2, <1>3

LEMMA NextWInv == ASSUME Sound, WInv, [Next]_vars PROVE WInv'
<1>1. Types /\ Types'
  BY NextTypes DEF WInv
<1>2. CASE Tick
  BY <1>1, <1>2, ShownFrame DEF Tick, WInv
<1>3. ASSUME NEW i \in Ids, NEW l \in Levels, NEW t \in Stamps, Create(i, l, t) \/ Grant(i, l, t)
      PROVE  WInv'
  <2>1. exists
    BY <1>3 DEF Create, Grant, WInv
  <2>2. PICK row : Changes(i, row)
    BY <1>3 DEF Create, Grant
  <2> QED
    BY <1>1, <2>1, <2>2, ChangeWInv DEF Changes
<1>4. ASSUME NEW i \in Ids, Revoke(i) PROVE WInv'
  <2>1. exists
    BY <1>4 DEF Revoke, WInv
  <2>2. PICK row : Changes(i, row)
    BY <1>4 DEF Revoke
  <2> QED
    BY <1>1, <2>1, <2>2, ChangeWInv DEF Changes
<1>5. CASE DeleteDocument
  <2>1. CASE listing = "permissions"
    BY <1>1, <1>5, <2>1 DEF DeleteDocument, WInv
  <2>2. CASE listing # "permissions"
    <3>1. PICK i \in Ids : rows' = [rows EXCEPT ![i] = None] /\ steady' = steady \ {i}
                           /\ UNCHANGED exists
      BY <1>5, <2>2 DEF DeleteDocument
    <3> QED
      BY <1>1, <1>5, <3>1, ChangeWInv DEF DeleteDocument
  <2> QED
    BY <2>1, <2>2
<1>6. CASE Walk
  <2>1. PICK n \in 0..MaxPageSize + 1 : NextPage(n)
    BY <1>6 DEF Walk
  <2> QED
    BY <2>1, NextPageWInv, ListingAssumption
<1>7. CASE UNCHANGED vars
  BY <1>1, <1>7, ShownFrame DEF vars, WInv
<1> QED
  BY <1>2, <1>3, <1>4, <1>5, <1>6, <1>7, StartWInv DEF Next

\* A row that does not change during a walk is on exactly one of its pages if
\* it is in the listing, and on none if it is not.
THEOREM SteadyRowsOnce ==
    ASSUME Sound
    PROVE  Spec => []SteadyOnce
<1>1. WInv => SteadyOnce
  <2> SUFFICES ASSUME WInv, NEW i \in steady
               PROVE  /\ returned[i] <= 1
                      /\ ~Listed(i) => returned[i] = 0
                      /\ phase = "ended" /\ Listed(i) => returned[i] = 1
    BY DEF SteadyOnce
  <2>1. ShownOf(i) /\ phase # "notfound" /\ Types
    BY DEF WInv
  <2> QED
    BY <2>1 DEF ShownOf, Types
<1>2. WInv /\ [Next]_vars => WInv'
  BY NextWInv
<1> QED
  BY <1>1, <1>2, InitWInv, PTL DEF Spec
=============================================================================
