------------------------------ MODULE Listing ------------------------------
(***************************************************************************)
(* Cursor pagination in the document service: a client walks through the   *)
(* documents of a principal or the permissions on a document, page after   *)
(* page, while others change what it walks through (parseServiceCursor and *)
(* the two List handlers of document_server.go, document_service.go,       *)
(* readDocuments and readPermissions of document_repository.go).           *)
(*                                                                         *)
(* A row is what one listing shows: for "documents" a document with the    *)
(* principal's permission on it, for "permissions" a permission.  Order is *)
(* newest first, ties broken by identifier, so identifiers are numbers.    *)
(* NOW() in Postgres is the time a transaction began, so a row may appear  *)
(* with a time that is past.                                               *)
(***************************************************************************)
EXTENDS Naturals, FiniteSets

CONSTANTS
    Ids,                \* of documents or of recipients, in UUID order
    MaxTime,            \* bound on the clock
    Lag,                \* bound on how long a transaction is open
    Levels,             \* of permissions
    Orders,             \* pairs of a listing and the field it is sorted by
    DefaultPageSize, MaxPageSize,
    None                \* no row, or no permission

ASSUME ListingAssumption ==
    /\ Ids \subseteq Nat \ {0}
    /\ \E m \in Ids : \A i \in Ids : i <= m     \* UUIDs are 16 bytes
    /\ None \notin Levels
    /\ MaxTime \in Nat \ {0} /\ Lag \in Nat
    /\ Orders \subseteq {"documents", "permissions"} \X {"created", "modified"}
    /\ MaxPageSize \in Nat \ {0} /\ DefaultPageSize \in 1..MaxPageSize

AllPermissions == Levels

VARIABLES
    listing, sort,      \* the listing and the cursor's sort field
    clock,
    rows,               \* rows[i]: times and level, or None
    used,               \* identifiers given out
    exists,             \* the document whose permissions are listed is there
    phase,              \* of the walk
    filter,             \* permission levels asked for
    cursor,             \* what the next request carries
    returned,           \* returned[i]: how often i has been on a page, up to twice
    steady              \* rows that have not changed since the walk began (history)

vars == <<listing, sort, clock, rows, used, exists, phase, filter, cursor, returned, steady>>

Row == [created : 1..MaxTime, modified : 1..MaxTime, level : Levels \cup {None}]

MaxDocumentID == CHOOSE m \in {i + 1 : i \in Ids} : \A i \in Ids : i < m

Cursors == [time : 1..MaxTime, id : Ids \cup {MaxDocumentID}]

\* The cursor only ever goes back in time.
TypeOK ==
    /\ <<listing, sort>> \in Orders
    /\ clock \in 1..MaxTime
    /\ \A i \in Ids : rows[i] # None => rows[i] \in Row /\ rows[i].modified <= clock
    /\ used \subseteq Ids
    /\ exists \in BOOLEAN
    /\ phase \in {"before", "walking", "ended", "notfound", "panicked"}
    /\ filter \subseteq Levels
    /\ phase \in {"walking", "ended"} => cursor \in Cursors /\ cursor.time <= clock
    /\ returned \in [Ids -> 0..2]
    /\ steady \subseteq Ids

Init ==
    /\ \E o \in Orders : listing = o[1] /\ sort = o[2]
    /\ clock = 1
    /\ rows = [i \in Ids |-> None]
    /\ used = {}
    /\ exists = TRUE
    /\ phase = "before"
    /\ filter = {}
    /\ cursor = None
    /\ returned = [i \in Ids |-> 0]
    /\ steady = {}

-----------------------------------------------------------------------------
(* Those who change the rows.                                              *)

Stamps == {t \in 1..clock : t + Lag >= clock}

Changes(i, row) ==
    /\ rows' = [rows EXCEPT ![i] = row]
    /\ steady' = steady \ {i}
    /\ UNCHANGED <<listing, sort, clock, exists, phase, filter, cursor, returned>>

Tick ==
    /\ clock < MaxTime
    /\ clock' = clock + 1
    /\ UNCHANGED <<listing, sort, rows, used, exists, phase, filter, cursor, returned, steady>>

\* A new document, or a first permission: a document's identifier is new, a
\* recipient may have had a permission before.
Create(i, l, t) ==
    /\ exists
    /\ rows[i] = None
    /\ listing = "documents" => i \notin used
    /\ used' = used \cup {i}
    /\ Changes(i, [created |-> t, modified |-> t, level |-> l])

\* Another level for a recipient: it changes the permission's times and, in a
\* listing of documents, nothing of the document's.
Grant(i, l, t) ==
    /\ rows[i] # None
    /\ l # rows[i].level
    /\ Changes(i, [rows[i] EXCEPT !.level = l,
                                  !.modified = IF listing = "permissions" THEN t ELSE @])
    /\ UNCHANGED used

\* DeletePermissionsPrincipal.
Revoke(i) ==
    /\ rows[i] # None
    /\ Changes(i, IF listing = "permissions" THEN None ELSE [rows[i] EXCEPT !.level = None])
    /\ UNCHANGED used

\* DeleteDocument, of the one whose permissions are listed or of a listed one.
DeleteDocument ==
    /\ exists
    /\ IF listing = "permissions"
       THEN /\ exists' = FALSE
            /\ rows' = [i \in Ids |-> None]
            /\ steady' = {}
       ELSE \E i \in Ids : /\ rows[i] # None
                           /\ rows' = [rows EXCEPT ![i] = None]
                           /\ steady' = steady \ {i}
                           /\ UNCHANGED exists
    /\ UNCHANGED <<listing, sort, clock, used, phase, filter, cursor, returned>>

-----------------------------------------------------------------------------
(* The walk.                                                               *)

NewBeginningCursor == [time |-> clock, id |-> MaxDocumentID]

Filter == IF filter = {} THEN AllPermissions ELSE filter

PageSize(n) == IF n \in 1..MaxPageSize THEN n ELSE DefaultPageSize

Listed(i) == rows[i] # None /\ rows[i].level \in Filter

SortTime(i) == rows[i][sort]

\* The first request.  One without a cursor, which the message allows, makes
\* parseServiceCursor dereference nil; one with a sort field only begins now.
Start(f, hasCursor) ==
    /\ phase = "before"
    /\ filter' = f
    /\ steady' = {i \in Ids : rows[i] # None}
    /\ IF hasCursor
       THEN phase' = "walking" /\ cursor' = NewBeginningCursor
       ELSE phase' = "panicked" /\ UNCHANGED cursor
    /\ UNCHANGED <<listing, sort, clock, rows, used, exists, returned>>

AfterTies(i, c) == SortTime(i) < c.time

Before(i, c) ==
    \/ SortTime(i) < c.time
    \/ SortTime(i) = c.time /\ i < c.id

\* ORDER BY ... DESC LIMIT n.
Precedes(i, j) ==
    \/ SortTime(i) > SortTime(j)
    \/ SortTime(i) = SortTime(j) /\ i > j

Page(c, n) ==
    LET M == {i \in Ids : Listed(i) /\ Before(i, c)}
    IN  {i \in M : Cardinality({j \in M : Precedes(j, i)}) < n}

\* The modification time the service layer has of a row: that of a permission
\* is filled in from its creation time.
LastSeenTime(i) ==
    IF sort = "modified" /\ listing = "documents" THEN rows[i].modified
    ELSE rows[i].created

KeepsCursor(c, P) == c

ZeroIfEmpty(c, P) ==
    IF P = {} THEN [time |-> 0, id |-> 0]
    ELSE LET last == CHOOSE i \in P : \A j \in P \ {i} : Precedes(j, i)
         IN  [time |-> LastSeenTime(last), id |-> last]

ResponseCursor(c, P) ==
    IF P = {} THEN c
    ELSE LET last == CHOOSE i \in P : \A j \in P \ {i} : Precedes(j, i)
         IN  [time |-> LastSeenTime(last), id |-> last]

\* One page, read at one snapshot; the client goes on until one is empty.
NextPage(n) ==
    /\ phase = "walking"
    /\ UNCHANGED <<listing, sort, clock, rows, used, exists, filter, steady>>
    /\ IF ~exists
       THEN phase' = "notfound" /\ UNCHANGED <<cursor, returned>>
       ELSE LET P == Page(cursor, PageSize(n))
            IN  /\ cursor' = ResponseCursor(cursor, P)
                /\ returned' = [i \in Ids |-> IF i \in P /\ returned[i] < 2 THEN returned[i] + 1 ELSE returned[i]]
                /\ phase' = IF P = {} THEN "ended" ELSE "walking"

Walk == \E n \in 0..MaxPageSize + 1 : NextPage(n)

Next ==
    \/ Tick
    \/ \E i \in Ids, l \in Levels, t \in Stamps : Create(i, l, t) \/ Grant(i, l, t)
    \/ \E i \in Ids : Revoke(i)
    \/ DeleteDocument
    \/ \E f \in SUBSET Levels, h \in BOOLEAN : Start(f, h)
    \/ Walk

Spec == Init /\ [][Next]_vars

-----------------------------------------------------------------------------
(* Properties.                                                             *)

\* What Notes.md wants of cursors, that no one misses "old items that have
\* always been there": a row that did not change during the walk was on
\* exactly one page if it is in the listing and on none if it is not, however
\* the rows around it, the page sizes and ties in time were.
SteadyOnce ==
    \A i \in steady :
        /\ returned[i] <= 1
        /\ ~Listed(i) => returned[i] = 0
        /\ phase = "ended" /\ Listed(i) => returned[i] = 1

\* Every page that is not the last takes the cursor strictly back, in the
\* order of the listing, although the rows behind it are added and modified
\* meanwhile: as there are finitely many cursors, every walk comes to an end.
CursorGoesBack ==
    [][Walk /\ phase' = "walking" =>
        \/ cursor'.time < cursor.time
        \/ cursor'.time = cursor.time /\ cursor'.id < cursor.id]_vars
=============================================================================
