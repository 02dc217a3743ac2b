----------------------------- MODULE Documents -----------------------------
(***************************************************************************)
(* The document service: documents, guests and permissions in Postgres,    *)
(* and the concurrent requests that change them (document_server.go,       *)
(* document_service.go, document_repository.go).  A step is one SQL        *)
(* statement; a transaction keeps its writes and its row locks until it    *)
(* commits or rolls back.  CreateGuest and UpsertPermissionUser run at     *)
(* REPEATABLE READ, deletions at READ COMMITTED, everything else is a      *)
(* statement of its own.                                                   *)
(*                                                                         *)
(* The three tables are one function from rows to contents: a document's   *)
(* row is there or not (names and times say nothing here), a guest's row   *)
(* has its document, a permission's row, keyed by recipient and document,  *)
(* its level and whether it was given to a guest as such (recipient_type). *)
(* Identifiers are UUIDs, so a new one has never been used, and a guest is *)
(* never created twice; which kind of principal one names is not checked.  *)
(***************************************************************************)
EXTENDS Naturals, Sequences

CONSTANTS
    Docs, Users, Guests,    \* identifiers
    Requests,               \* calls the server works on at a time
    MaxBatch,               \* documents named by one DeleteDocuments
    Faults,                 \* TRUE if the connection to Postgres may fail
    Absent,                 \* no row
    Same                    \* a row a transaction has not written

ASSUME DocumentsAssumption ==
    /\ MaxBatch \in Nat \ {0}
    /\ Faults \in BOOLEAN
    /\ {Absent, Same} \cap (Docs \cup Users \cup Guests) = {}
    /\ {Absent, Same} \cap {"document", "viewer", "editor", "owner",
                            "guest_viewer", "guest_editor", "guest_owner"} = {}
    /\ Absent # Same

Levels     == {"viewer", "editor", "owner"}
Principals == Users \cup Guests
Rows       == Docs \cup Guests \cup (Principals \X Docs)
GuestRows  == {"guest_viewer", "guest_editor", "guest_owner"}
Contents   == {"document"} \cup Docs \cup Levels \cup GuestRows

\* Permissions whose recipient_type is 'guest', by level, and the level of any.
AsGuest == [viewer |-> "guest_viewer", editor |-> "guest_editor", owner |-> "guest_owner"]
LevelOf == [viewer |-> "viewer", editor |-> "editor", owner |-> "owner",
            guest_viewer |-> "viewer", guest_editor |-> "editor", guest_owner |-> "owner"]

\* UUIDs are given out once, and rows of different tables are different rows.
ASSUME RowsAssumption ==
    /\ Users \cap Guests = {}
    /\ Docs \cap Guests = {}
    /\ (Docs \cup Guests) \cap (Principals \X Docs) = {}

VARIABLES
    db,         \* the committed tables
    creator,    \* creator[d]: the user who created d, Absent before (history)
    issued,     \* guests ever committed (history)
    pc,         \* pc[r]: the statement request r executes next
    req,        \* req[r]: the call
    tx,         \* tx[r]: its open transaction
    reply,      \* reply[r]: the status of r's last answer
    up,         \* the service's process is running
    overlapped  \* overlapped[r]: another call was under way during r (history)

vars == <<db, creator, issued, pc, req, tx, reply, up, overlapped>>

NoCall == [op |-> "none", docs |-> <<>>, who |-> Absent, arg |-> Absent]

\* write: uncommitted contents of rows, each locked; share: documents locked
\* FOR KEY SHARE by foreign keys; missed: rows committed by others since the
\* snapshot; done: how many documents of a batch are dealt with.
EmptyTx == [write |-> [x \in Rows |-> Same], share |-> {}, missed |-> {}, done |-> 0]

Batches == UNION {[1..n -> Docs] : n \in 0..MaxBatch}

Calls ==
    [op : {"delete"}, docs : Batches, who : {Absent}, arg : {Absent}]
    \cup [op : {"guest"},  docs : [1..1 -> Docs], who : Guests, arg : Levels]
    \cup [op : {"upsert"}, docs : [1..1 -> Docs], who : Principals, arg : Levels]
    \cup [op : {"regrade"}, docs : {<<>>}, who : Principals, arg : Levels]
    \cup [op : {"remove"}, docs : [1..1 -> Docs], who : Principals, arg : {Absent}]
    \cup [op : {"rename"}, docs : [1..1 -> Docs], who : {Absent}, arg : {Absent, "name"}]
    \cup [op : {"get"}, docs : [1..1 -> Docs], who : {Absent}, arg : {Absent}]
    \cup [op : {"read"}, docs : [1..1 -> Docs], who : Principals, arg : {Absent}]

PC == {"idle", "perms", "guests", "doc", "fk", "check", "guest", "perm",
       "upsert", "select", "regrade", "remove", "rename", "get", "read", "commit"}

\* A permission that is read is answered with its level; the last two are
\* answers of the gateway.
Answers == {"none", "ok", "notfound", "internal", "invalid"} \cup Levels
           \cup {"forbidden", "unavailable"}

TypeOK ==
    /\ db \in [Rows -> Contents \cup {Absent}]
    /\ creator \in [Docs -> Users \cup {Absent}]
    /\ issued \subseteq Guests
    /\ pc \in [Requests -> PC]
    /\ \A r \in Requests :
        /\ tx[r].write \in [Rows -> Contents \cup {Absent, Same}]
        /\ tx[r].share \subseteq Docs
        /\ tx[r].missed \subseteq Rows
        /\ tx[r].done \in 0..MaxBatch
        /\ req[r].op = "none" <=> pc[r] = "idle"
        /\ pc[r] # "idle" => up
        /\ pc[r] = "idle" => tx[r] = EmptyTx
    /\ reply \in [Requests -> Answers]
    /\ up \in BOOLEAN
    /\ overlapped \in [Requests -> BOOLEAN]

Init ==
    /\ db = [x \in Rows |-> Absent]
    /\ creator = [d \in Docs |-> Absent]
    /\ issued = {}
    /\ pc = [r \in Requests |-> "idle"]
    /\ req = [r \in Requests |-> NoCall]
    /\ tx = [r \in Requests |-> EmptyTx]
    /\ reply = [r \in Requests |-> "none"]
    /\ up = TRUE
    /\ overlapped = [r \in Requests |-> FALSE]

-----------------------------------------------------------------------------
(* Postgres: visibility, locks, commit.                                    *)

Open(r) == pc[r] # "idle"

Doc(r) == req[r].docs[tx[r].done + 1]

\* What r's own statements read.
View(r, x) == IF tx[r].write[x] = Same THEN db[x] ELSE tx[r].write[x]

PermissionsOn(r, d) == {x \in Principals \X {d} : View(r, x) # Absent}
GuestsOf(r, d)      == {g \in Guests : View(r, g) = d}

\* The rows the next statement of r locks: those it deletes or updates, and
\* the document a new row refers to.
Locks(r) ==
    CASE pc[r] = "perms"  -> PermissionsOn(r, Doc(r))
      [] pc[r] = "guests" -> GuestsOf(r, Doc(r))
      [] pc[r] = "fk"     -> PermissionsOn(r, Doc(r)) \cup GuestsOf(r, Doc(r))
      [] pc[r] \in {"doc", "guest", "rename"} -> {Doc(r)}
      [] pc[r] = "upsert" -> LET x == <<req[r].who, Doc(r)>>
                             IN  {x} \cup (IF db[x] = Absent THEN {Doc(r)} ELSE {})
      [] pc[r] = "regrade" -> {x \in {<<req[r].who, Doc(r)>>} : db[x] \in GuestRows}
      [] pc[r] = "remove"  -> {x \in {<<req[r].who, Doc(r)>>} : db[x] # Absent}
      [] OTHER -> {}

\* Whom that statement waits for.  Deleting a document also waits for the
\* transactions that have inserted rows that refer to it.
Blockers(r) ==
    {o \in Requests \ {r} :
        \/ \E x \in Locks(r) : tx[o].write[x] # Same
        \/ pc[r] = "doc" /\ Doc(r) \in tx[o].share}

InSnapshot(r) == pc[r] \in {"guest", "perm", "upsert"}

\* The changes become visible; snapshots taken before do not see them.
Publish(r, write) ==
    LET W == {x \in Rows : write[x] # Same}
    IN  /\ db' = [x \in Rows |-> IF x \in W THEN write[x] ELSE db[x]]
        /\ tx' = [o \in Requests |->
                    IF o = r THEN EmptyTx
                    ELSE IF InSnapshot(o) THEN [tx[o] EXCEPT !.missed = @ \cup W]
                    ELSE tx[o]]

\* The end of r: every handler returns, and the deferred Rollback drops what
\* was not committed.
Answer(r, status) ==
    /\ pc' = [pc EXCEPT ![r] = "idle"]
    /\ req' = [req EXCEPT ![r] = NoCall]
    /\ reply' = [reply EXCEPT ![r] = status]
    /\ overlapped' = [overlapped EXCEPT ![r] = FALSE]

NoRollback(r, status) ==
    /\ Answer(r, status)
    /\ tx' = [tx EXCEPT ![r].share = {}, ![r].missed = {}, ![r].done = 0]
    /\ UNCHANGED <<db, creator, issued, up>>

Rollback(r, status) ==
    /\ Answer(r, status)
    /\ tx' = [tx EXCEPT ![r] = EmptyTx]
    /\ UNCHANGED <<db, creator, issued, up>>

Goto(r, l) ==
    /\ pc' = [pc EXCEPT ![r] = l]
    /\ UNCHANGED <<db, creator, issued, up, req, reply, overlapped>>

\* One statement outside a transaction that writes one row.
Autocommit(r, x, c) ==
    /\ Publish(r, [EmptyTx.write EXCEPT ![x] = c])
    /\ Answer(r, "ok")
    /\ UNCHANGED <<creator, issued, up>>

-----------------------------------------------------------------------------
(* The beginning of a call.                                                *)

\* CreateDocument: nobody can name the new rows before it commits, so its
\* transaction is one step.
CreateDocument(u, d) ==
    /\ up
    /\ creator[d] = Absent
    /\ creator' = [creator EXCEPT ![d] = u]
    /\ db' = [db EXCEPT ![d] = "document", ![<<u, d>>] = "owner"]
    /\ UNCHANGED <<issued, pc, req, tx, reply, overlapped, up>>

GuestsOnly(q) ==
    \/ q.op \in {"guest", "regrade"} /\ q.arg = "owner"
    \/ q.op = "delete" /\ q.docs = <<>>
    \/ q.op = "rename" /\ q.arg = Absent

\* Nobody is made an owner later; a batch names a document, an update a field.
Invalid(q) ==
    \/ q.op \in {"guest", "upsert", "regrade"} /\ q.arg = "owner"
    \/ q.op = "delete" /\ q.docs = <<>>
    \/ q.op = "rename" /\ q.arg = Absent

First(op) == CASE op = "delete" -> "perms"
               [] op \in {"guest", "upsert"} -> "check"
               [] op = "regrade" -> "select"
               [] OTHER -> op

\* Documents and guests are named by identifiers the service has given out,
\* also where a user is meant; a new guest's is fresh.
Known(q) ==
    /\ \A i \in DOMAIN q.docs : creator[q.docs[i]] # Absent
    /\ q.op = "guest" => q.who \notin issued /\ \A o \in Requests : req[o].who # q.who
    /\ q.op \in {"upsert", "regrade", "remove", "read"} => q.who \in issued \cup Users

Accept(r, q) ==
    /\ up
    /\ ~Open(r)
    /\ IF Invalid(q)
       THEN /\ reply' = [reply EXCEPT ![r] = "invalid"]
            /\ UNCHANGED <<pc, req, overlapped>>
       ELSE /\ pc' = [pc EXCEPT ![r] = First(q.op)]
            /\ req' = [req EXCEPT ![r] = q]
            /\ reply' = [reply EXCEPT ![r] = "none"]
            /\ overlapped' = [o \in Requests |->
                    IF o = r THEN \E p \in Requests : Open(p)
                    ELSE overlapped[o] \/ Open(o)]
    /\ UNCHANGED <<db, creator, issued, up, tx>>

Begin(r) == \E q \in Calls : Known(q) /\ Accept(r, q)

-----------------------------------------------------------------------------
(* deleteDocumentHelper, for each document of DeleteDocument and           *)
(* DeleteDocuments.                                                        *)

OutsideTransaction(r, X, l) ==
    /\ pc' = [pc EXCEPT ![r] = l]
    /\ db' = [x \in Rows |-> IF x \in X THEN Absent ELSE db[x]]
    /\ UNCHANGED <<creator, issued, up, req, tx, reply, overlapped>>

\* r's transaction deletes the rows in X and goes on at l.
Delete(r, X, l) ==
    /\ Goto(r, l)
    /\ tx' = [tx EXCEPT ![r].write = [x \in Rows |-> IF x \in X THEN Absent ELSE @[x]]]

SkipsPermissions(r) ==
    /\ pc[r] = "perms"
    /\ Delete(r, {}, "guests")

DeletePermissionByDocument(r) ==
    /\ pc[r] = "perms"
    /\ Blockers(r) = {}
    /\ Delete(r, PermissionsOn(r, Doc(r)), "guests")

DeleteGuestsByDocument(r) ==
    /\ pc[r] = "guests"
    /\ Blockers(r) = {}
    /\ Delete(r, GuestsOf(r, Doc(r)), "doc")

IgnoresCount(r) ==
    /\ pc[r] = "doc"
    /\ Blockers(r) = {}
    /\ Delete(r, {Doc(r)}, "fk")

DeleteRow(r) ==
    /\ pc[r] = "doc"
    /\ Blockers(r) = {}
    /\ IF View(r, Doc(r)) = Absent
       THEN Rollback(r, "notfound")
       ELSE Delete(r, {Doc(r)}, "fk")

\* The end of that statement: rows that refer to the document, inserted and
\* committed after the statements that deleted them, fail it.
ForeignKeys(r) ==
    /\ pc[r] = "fk"
    /\ Blockers(r) = {}
    /\ IF Locks(r) # {}
       THEN Rollback(r, "internal")
       ELSE /\ tx' = [tx EXCEPT ![r].done = @ + 1]
            /\ Goto(r, IF tx[r].done + 1 = Len(req[r].docs) THEN "commit" ELSE "perms")

-----------------------------------------------------------------------------
(* CreateGuest and UpsertPermissionUser.                                   *)

\* The first query takes the snapshot.
GetDocument(r) ==
    /\ pc[r] = "check"
    /\ IF db[Doc(r)] = Absent
       THEN Rollback(r, "notfound")
       ELSE Goto(r, req[r].op) /\ UNCHANGED tx

\* A row that refers to d is inserted: d must not have been deleted since
\* the snapshot, and stays locked.
Insert(r, x, c, d, l) ==
    IF d \in tx[r].missed
    THEN Rollback(r, "internal")
    ELSE /\ Goto(r, l)
         /\ tx' = [tx EXCEPT ![r].write[x] = c, ![r].share = @ \cup {d}]

InsertGuest(r) ==
    /\ pc[r] = "guest"
    /\ Blockers(r) = {}
    /\ Insert(r, req[r].who, Doc(r), Doc(r), "perm")

InsertPermissionGuest(r) ==
    /\ pc[r] = "perm"
    /\ Insert(r, <<req[r].who, Doc(r)>>, AsGuest[req[r].arg], Doc(r), "commit")

\* ON CONFLICT DO UPDATE: a row committed since the snapshot cannot be
\* updated; one that was there can, without a look at the document, and its
\* recipient_type stays.
UpsertPermissionUser(r) ==
    LET x == <<req[r].who, Doc(r)>>
    IN  /\ pc[r] = "upsert"
        /\ Blockers(r) = {}
        /\ IF db[x] = Absent THEN Insert(r, x, req[r].arg, Doc(r), "commit")
           ELSE IF x \in tx[r].missed THEN Rollback(r, "internal")
           ELSE /\ Goto(r, "commit")
                /\ tx' = [tx EXCEPT ![r].write[x] = IF db[x] \in GuestRows THEN AsGuest[req[r].arg]
                                                     ELSE req[r].arg]

-----------------------------------------------------------------------------
(* UpdatePermissionGuest, DeletePermissionsPrincipal, UpdateDocument.      *)

SelectGuest(r) ==
    /\ pc[r] = "select"
    /\ IF req[r].who \notin Guests \/ db[req[r].who] = Absent
       THEN Rollback(r, "notfound")
       ELSE /\ pc' = [pc EXCEPT ![r] = "regrade"]
            /\ req' = [req EXCEPT ![r].docs = <<db[req[r].who]>>]
            /\ UNCHANGED <<db, creator, issued, up, tx, reply, overlapped>>

UpdatePermissionGuest(r) ==
    LET x == <<req[r].who, Doc(r)>>
    IN  /\ pc[r] = "regrade"
        /\ Blockers(r) = {}
        /\ IF db[x] \notin GuestRows THEN Rollback(r, "notfound")
           ELSE Autocommit(r, x, AsGuest[req[r].arg])

DeletePermissionPrincipal(r) ==
    LET x == <<req[r].who, Doc(r)>>
    IN  /\ pc[r] = "remove"
        /\ Blockers(r) = {}
        /\ IF db[x] = Absent THEN Rollback(r, "notfound")
           ELSE Autocommit(r, x, Absent)

UpdateDocument(r) ==
    /\ pc[r] = "rename"
    /\ Blockers(r) = {}
    /\ Rollback(r, IF db[Doc(r)] = Absent THEN "notfound" ELSE "ok")

-----------------------------------------------------------------------------
(* GetDocument and GetPermissionOfPrincipalOnDocument.                     *)

ReadDocument(r) ==
    /\ pc[r] = "get"
    /\ Rollback(r, IF Doc(r) \in Docs /\ db[Doc(r)] # Absent THEN "ok" ELSE "notfound")

ReadPermission(r) ==
    LET x == <<req[r].who, Doc(r)>>
    IN  /\ pc[r] = "read"
        /\ Rollback(r, IF db[x] = Absent THEN "notfound" ELSE LevelOf[db[x]])

-----------------------------------------------------------------------------
(* The end of a transaction, and what may go wrong.                        *)

Commit(r, status) ==
    /\ pc[r] = "commit"
    /\ Publish(r, tx[r].write)
    /\ Answer(r, status)
    /\ issued' = issued \cup {g \in Guests : tx[r].write[g] \in Docs}
    /\ UNCHANGED <<creator, up>>

\* A query or the commit fails, or the caller gives up.
QueryFails(r) ==
    /\ Faults
    /\ Open(r)
    /\ Rollback(r, "internal")

\* The commit is done and its acknowledgement is lost.
CommitUnacknowledged(r) ==
    /\ Faults
    /\ Commit(r, "internal")

\* Postgres aborts a statement that waits in a circle.
Deadlocked(r) ==
    \E S \in SUBSET Requests :
        /\ r \in S
        /\ \A o \in S : /\ Blockers(o) \cap S # {}
                        /\ \E p \in S : o \in Blockers(p)

DeadlockDetected(r) ==
    /\ Deadlocked(r)
    /\ Rollback(r, "internal")

\* A listing asked for without a cursor: parseServiceCursor dereferences nil,
\* and the process ends with every call it works on.
Panic ==
    /\ up
    /\ up' = FALSE
    /\ pc' = [r \in Requests |-> "idle"]
    /\ req' = [r \in Requests |-> NoCall]
    /\ tx' = [r \in Requests |-> EmptyTx]
    /\ reply' = [r \in Requests |-> IF Open(r) THEN "unavailable" ELSE reply[r]]
    /\ overlapped' = [r \in Requests |-> FALSE]
    /\ UNCHANGED <<db, creator, issued>>

Restart ==
    /\ ~up
    /\ up' = TRUE
    /\ UNCHANGED <<db, creator, issued, pc, req, tx, reply, overlapped>>

Statement(r) ==
    \/ DeletePermissionByDocument(r)
    \/ DeleteGuestsByDocument(r)
    \/ DeleteRow(r)
    \/ ForeignKeys(r)
    \/ GetDocument(r)
    \/ InsertGuest(r)
    \/ InsertPermissionGuest(r)
    \/ UpsertPermissionUser(r)
    \/ SelectGuest(r)
    \/ UpdatePermissionGuest(r)
    \/ DeletePermissionPrincipal(r)
    \/ UpdateDocument(r)
    \/ ReadDocument(r)
    \/ ReadPermission(r)
    \/ Commit(r, "ok")

Next ==
    \/ \E u \in Users, d \in Docs : CreateDocument(u, d)
    \/ \E r \in Requests :
        \/ Begin(r)
        \/ Statement(r)
        \/ DeadlockDetected(r)
        \/ QueryFails(r)
        \/ CommitUnacknowledged(r)
    \/ Panic
    \/ Restart

Spec == Init /\ [][Next]_vars

\* Postgres executes the statements of a transaction, queues those that wait
\* for a row in order of arrival, and looks for circles.
FairSpec ==
    /\ Spec
    /\ \A r \in Requests : SF_vars(Statement(r)) /\ WF_vars(DeadlockDetected(r))

-----------------------------------------------------------------------------
(* Properties.                                                             *)

\* A document has no owner but the user who created it, whatever is granted,
\* revoked or deleted at the same time.
CreatorOwns ==
    \A p \in Principals, d \in Docs : db[<<p, d>>] \in {"owner", "guest_owner"} => p = creator[d]

\* A permission given to a guest as such is on the document of the guest's own
\* row, which is there: the two tables, which no foreign key ties together, are
\* in sync that way although CreateGuest races with the three statements of a
\* deletion, and although anybody's permission, a guest's too, may be replaced
\* by one given as if to a user.  (Not the other way: DeletePermissionPrincipal
\* leaves the guest's row.)
GuestsInSync ==
    \A p \in Principals, d \in Docs :
        db[<<p, d>>] \in GuestRows => p \in Guests /\ db[p] = d

\* A deletion answered with success has taken away every document it names,
\* each of which was there until then: of two deletions of a document only
\* one succeeds, and a batch is deleted as a whole.
DeletedOnce ==
    [][\A r \in Requests :
        req[r].op = "delete" /\ reply'[r] = "ok" /\ ~Open(r)' =>
            \A i \in DOMAIN req[r].docs :
                db[req[r].docs[i]] # Absent /\ db'[req[r].docs[i]] = Absent]_vars

\* A deletion that no other call overlaps does not end in an internal error:
\* its statements leave nothing that refers to the document.
LoneDeletionIsDefinite ==
    [][\A r \in Requests :
        req[r].op = "delete" /\ ~Open(r)' /\ reply'[r] = "internal" =>
            overlapped[r]]_vars

\* Every call is answered, also when batches delete each other's documents
\* in opposite orders.
CallsAreAnswered == \A r \in Requests : Open(r) ~> ~Open(r)
=============================================================================
