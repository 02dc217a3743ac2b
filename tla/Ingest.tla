------------------------------- MODULE Ingest -------------------------------
(***************************************************************************)
(* The write path of the message proxy for one topic (one document): what  *)
(* a websocket client's edits go through until they are rows of Postgres   *)
(* and a message of the broker.  Every connection has a reader task        *)
(* (handlers/read.rs) whose handling of one message is cut at each await   *)
(* of persist_and_broadcast_update, so that the steps of two connections   *)
(* interleave: in particular those of two connections of the SAME client,  *)
(* the old one still draining its socket while the client has reconnected. *)
(*                                                                         *)
(* An operation of client c is its offset (the yrs clock); a message       *)
(* carries the half-open range lo..hi-1 of its sender's operations, and    *)
(* the set of elements it deletes.                                         *)
(***************************************************************************)
EXTENDS Integers, Sequences

CONSTANTS
    Client,      \* yrs client ids editing the topic
    Conn,        \* websocket connection slots of the proxy instances
    Deletable,   \* elements of the document a client may delete
    MaxOps,      \* bound: operations one client ever makes
    MaxBatch,    \* bound: operations in one edit (one yrs transaction)
    Faults,      \* which of "db", "crash", "writer" may happen
    NoConn

ASSUME IngestAssumption ==
    /\ MaxOps \in Nat
    /\ MaxBatch \in Nat
    /\ Faults \subseteq {"db", "crash", "writer"}
    /\ NoConn \notin Conn

VARIABLES
    clock,     \* clock[c]: operations in c's own document, 0..clock[c]-1
    deleted,   \* deleted[c]: the delete set of c's document
    current,   \* current[c]: the connection c believes it has
    owner,     \* owner[k]: client_id of the handler of connection k
    phase,     \* phase[k]: where the reader task of k is
    inbox,     \* inbox[k]: messages sent by the client and not yet read
    cur,       \* cur[k]: the message being persisted
    last,      \* last[k]: last_received_offset as read for cur[k]
    novel,     \* novel[k]: persisted_update || persisted_deletion
    ss1,       \* ss1[k]: offset in the server's sync step one, once sent
    rows,      \* the operations table
    tombs,     \* the deletions table
    sent       \* every message ever handed to the broker

clientVars == <<clock, deleted, current>>
taskVars   == <<owner, phase, cur, last, novel>>
dbVars     == <<rows, tombs>>
vars == <<clientVars, taskVars, inbox, ss1, dbVars, sent>>

NoOffset == -1     \* Option<u32>::None
Unsent   == -1     \* ss1[k] before the writer has sent it ...
Answered == -2     \* ... and once the client has answered it

Message == [kind : {"ss2", "update"}, lo : Nat, hi : Nat, del : SUBSET Deletable]
Row     == [client : Client, offset : Nat, lo : Nat]
NoMsg   == [kind |-> "update", lo |-> 0, hi |-> 0, del |-> {}]

\* "handshake" and "hot" are the two select! loops of read(); in the others
\* the task is inside persist_and_broadcast_update, at the await named.
AwaitsRepo == {"lookup", "write", "delete"}
Busy       == AwaitsRepo \cup {"send"}
Selecting  == {"handshake", "hot"}
Phase      == Busy \cup Selecting \cup {"closed"}

TypeOK ==
    /\ clock   \in [Client -> Nat]
    /\ deleted \in [Client -> SUBSET Deletable]
    /\ current \in [Client -> Conn \cup {NoConn}]
    /\ owner   \in [Conn -> Client]
    /\ phase   \in [Conn -> Phase]
    /\ inbox   \in [Conn -> Seq(Message)]
    /\ cur     \in [Conn -> Message]
    /\ last    \in [Conn -> Int]
    /\ novel   \in [Conn -> BOOLEAN]
    /\ ss1     \in [Conn -> Int]
    /\ rows    \subseteq Row
    /\ tombs   \subseteq Deletable
    /\ sent    \subseteq (Client \X Message)

-----------------------------------------------------------------------------
(* The repository (repository/postgres.rs), as operations on the tables.   *)

\* Some row's payload holds operation o of client c.
Covered(c, o) == \E r \in rows : r.client = c /\ r.lo <= o /\ o <= r.offset

\* SELECT MAX(operation_offset): None when the client has no row.
IsLastReceivedOffset(c, m) ==
    /\ \A r \in rows : r.client = c => r.offset <= m
    /\ \/ m = NoOffset
       \/ \E r \in rows : r.client = c /\ r.offset = m

StoresBelow(c, n, m) == rows \cup {[client |-> c, offset |-> n - 1, lo |-> m.lo]}

\* INSERT ... ON CONFLICT DO NOTHING on the key (topic, client, offset).
WriteOperation(c, n, m) ==
    IF \E r \in rows : r.client = c /\ r.offset = n
    THEN rows
    ELSE rows \cup {[client |-> c, offset |-> n, lo |-> m.lo]}

-----------------------------------------------------------------------------
(* What the tasks compute from what they read.                             *)

HasInsertion(m) == m.lo < m.hi

InclusiveLower(m) == m.lo

\* parse_message: the inclusive upper bound of the sender's insertions.
NewOffset(m) == m.hi - 1

SkipsOne(lst, n) == lst + 1 < n

\* last_received_offset.is_none_or(|o| o < new_offset); None is -1.
IsNovelOffset(lst, n) == lst < n

ForgetsZero(m) == IF m = NoOffset THEN 1 ELSE m + 1

\* build_server_sync_step_1: the exclusive upper bound, or an empty vector,
\* which a yrs client reads as 0.
ServerStateVector(m) == IF m = NoOffset THEN 0 ELSE m + 1

Minimum(a, b) == IF a <= b THEN a ELSE b

-----------------------------------------------------------------------------
(* The client: a yrs document that outlives its connections.               *)

Init ==
    /\ clock   = [c \in Client |-> 0]
    /\ deleted = [c \in Client |-> {}]
    /\ current = [c \in Client |-> NoConn]
    /\ owner   \in [Conn -> Client]
    /\ phase   = [k \in Conn |-> "closed"]
    /\ inbox   = [k \in Conn |-> <<>>]
    /\ cur     = [k \in Conn |-> NoMsg]
    /\ last    = [k \in Conn |-> NoOffset]
    /\ novel   = [k \in Conn |-> FALSE]
    /\ ss1     = [k \in Conn |-> Unsent]
    /\ rows    = {}
    /\ tombs   = {}
    /\ sent    = {}

\* A message to a handler that is gone goes nowhere.
Send(k, m) ==
    inbox' = IF k = NoConn \/ phase[k] = "closed" THEN inbox
             ELSE [inbox EXCEPT ![k] = Append(@, m)]

\* connect_async; the handler registers with the broker, spawns both tasks.
Connect(c, k) ==
    /\ current[c] = NoConn
    /\ phase[k] = "closed"
    /\ \A d \in Client : current[d] # k
    /\ current' = [current EXCEPT ![c] = k]
    /\ owner' = [owner EXCEPT ![k] = c]
    /\ phase' = [phase EXCEPT ![k] = "handshake"]
    /\ ss1' = [ss1 EXCEPT ![k] = Unsent]
    /\ UNCHANGED <<clock, deleted, inbox, cur, last, novel, dbVars, sent>>

\* A local insertion of n characters: one transaction, one Update message.
\* The document keeps it whether or not there is a connection to send it on.
Edit(c, n) ==
    /\ clock[c] + n <= MaxOps
    /\ clock' = [clock EXCEPT ![c] = @ + n]
    /\ Send(current[c], [kind |-> "update", lo |-> clock[c],
                         hi |-> clock[c] + n, del |-> {}])
    /\ UNCHANGED <<deleted, current, taskVars, ss1, dbVars, sent>>

\* A local deletion: an Update message with a delete set and no insertion.
Delete(c, d) ==
    /\ d \notin deleted[c]
    /\ deleted' = [deleted EXCEPT ![c] = @ \cup {d}]
    /\ Send(current[c], [kind |-> "update", lo |-> clock[c],
                         hi |-> clock[c], del |-> {d}])
    /\ UNCHANGED <<clock, current, taskVars, ss1, dbVars, sent>>

\* The client's answer to the server's sync step one: everything of its own
\* from the server's offset on, and its whole delete set.
ClientSyncStepTwo(c) ==
    LET k == current[c]
    IN  /\ k # NoConn
        /\ ss1[k] >= 0
        /\ Send(k, [kind |-> "ss2", lo |-> Minimum(clock[c], ss1[k]),
                    hi |-> clock[c], del |-> deleted[c]])
        /\ ss1' = [ss1 EXCEPT ![k] = Answered]
        /\ UNCHANGED <<clientVars, taskVars, dbVars, sent>>

\* The client drops its connection, or the network does: of what it has sent
\* the server will still read a prefix.
Disconnect(c) ==
    LET k == current[c]
    IN  /\ k # NoConn
        /\ current' = [current EXCEPT ![c] = NoConn]
        /\ \E n \in 0 .. Len(inbox[k]) :
              inbox' = [inbox EXCEPT ![k] = SubSeq(@, 1, n)]
        /\ UNCHANGED <<clock, deleted, taskVars, ss1, dbVars, sent>>

-----------------------------------------------------------------------------
(* The server: the writer's first step, and the reader task.               *)

\* send_server_sync_step_one: the writer's first step, beside the reader.
SendServerSyncStepOne(k) ==
    /\ phase[k] # "closed"
    /\ ss1[k] = Unsent
    /\ \E m \in {r.offset : r \in rows} \cup {NoOffset} :
          /\ IsLastReceivedOffset(owner[k], m)
          /\ ss1' = [ss1 EXCEPT ![k] = ServerStateVector(m)]
    /\ UNCHANGED <<clientVars, taskVars, inbox, dbVars, sent>>

\* The task returns and the connection is torn down with what it had buffered.
EndTask(k) ==
    /\ phase' = [phase EXCEPT ![k] = "closed"]
    /\ inbox' = [inbox EXCEPT ![k] = <<>>]
    /\ cur' = [cur EXCEPT ![k] = NoMsg]
    /\ last' = [last EXCEPT ![k] = NoOffset]
    /\ novel' = [novel EXCEPT ![k] = FALSE]
    /\ UNCHANGED <<clientVars, owner, ss1, dbVars>>

\* The await persist_and_broadcast_update reaches first, after parse_message.
FirstAwait(m) == IF HasInsertion(m) THEN "lookup"
                 ELSE IF m.del # {} THEN "delete" ELSE "send"

DropsDeletions(m) == "send"

AfterInsertion(m) == IF m.del # {} THEN "delete" ELSE "send"

\* Both loops of read() on a message they hand to persist_and_broadcast_update:
\* a sync step two during the handshake, an update on the hot path.
Receive(k) ==
    /\ inbox[k] # <<>>
    /\ LET m == Head(inbox[k])
       IN  /\ \/ phase[k] = "handshake" /\ m.kind = "ss2"
              \/ phase[k] = "hot" /\ m.kind = "update"
           /\ cur' = [cur EXCEPT ![k] = m]
           /\ phase' = [phase EXCEPT ![k] = FirstAwait(m)]
    /\ inbox' = [inbox EXCEPT ![k] = Tail(@)]
    /\ UNCHANGED <<clientVars, owner, last, novel, ss1, dbVars, sent>>

\* An update before the client's sync step two is skipped.
SkipUpdate(k) ==
    /\ phase[k] = "handshake"
    /\ inbox[k] # <<>>
    /\ Head(inbox[k]).kind = "update"
    /\ inbox' = [inbox EXCEPT ![k] = Tail(@)]
    /\ UNCHANGED <<clientVars, taskVars, ss1, dbVars, sent>>

LookupOffset(k) ==
    /\ phase[k] = "lookup"
    /\ \E m \in {r.offset : r \in rows} \cup {NoOffset} :
          /\ IsLastReceivedOffset(owner[k], m)
          /\ last' = [last EXCEPT ![k] = m]
          /\ phase' = [phase EXCEPT ![k] =
                IF IsNovelOffset(m, NewOffset(cur[k])) THEN "write"
                ELSE AfterInsertion(cur[k])]
    /\ UNCHANGED <<clientVars, owner, inbox, cur, novel, ss1, dbVars, sent>>

\* write_operation; a conflict is not an error, so the update still counts as
\* persisted and is broadcast.
PersistOperation(k) ==
    /\ phase[k] = "write"
    /\ rows' = WriteOperation(owner[k], NewOffset(cur[k]), cur[k])
    /\ novel' = [novel EXCEPT ![k] = TRUE]
    /\ phase' = [phase EXCEPT ![k] = AfterInsertion(cur[k])]
    /\ UNCHANGED <<clientVars, owner, inbox, cur, last, ss1, tombs, sent>>

\* write_deletion_set_if_novel: upsert the union, true if anything was new.
PersistDeletions(k) ==
    /\ phase[k] = "delete"
    /\ tombs' = tombs \cup cur[k].del
    /\ novel' = [novel EXCEPT ![k] = @ \/ ~ (cur[k].del \subseteq tombs)]
    /\ phase' = [phase EXCEPT ![k] = "send"]
    /\ UNCHANGED <<clientVars, owner, inbox, cur, last, ss1, rows, sent>>

\* Hand the message to the broker if anything was persisted, and loop.
Broadcast(k) ==
    /\ phase[k] = "send"
    /\ sent' = IF novel[k] THEN sent \cup {<<owner[k], cur[k]>>} ELSE sent
    /\ phase' = [phase EXCEPT ![k] = "hot"]
    /\ cur' = [cur EXCEPT ![k] = NoMsg]
    /\ last' = [last EXCEPT ![k] = NoOffset]
    /\ novel' = [novel EXCEPT ![k] = FALSE]
    /\ UNCHANGED <<clientVars, owner, inbox, ss1, dbVars>>

\* Decoded::Failure: close frame, error or end of the client's stream.
ReadClosed(k) ==
    /\ phase[k] \in Selecting
    /\ inbox[k] = <<>>
    /\ \A c \in Client : current[c] # k
    /\ EndTask(k)
    /\ UNCHANGED sent

\* A repository call returns an error and `?` ends the reader task.
RepoFails(k) ==
    /\ "db" \in Faults
    /\ phase[k] \in AwaitsRepo
    /\ EndTask(k)
    /\ UNCHANGED sent

\* The writer task has ended: the reader sees the cancelled token at its
\* next select!.
WriterGone(k) ==
    /\ "writer" \in Faults
    /\ phase[k] \in Selecting
    /\ EndTask(k)
    /\ UNCHANGED sent

\* The writer has ended and was the last receiver of the channel: the message
\* is handed to the broker, which can only publish it to NATS, and the failed
\* broadcast ends the reader.
BroadcastFails(k) ==
    /\ "writer" \in Faults
    /\ phase[k] = "send"
    /\ novel[k]
    /\ sent' = sent \cup {<<owner[k], cur[k]>>}
    /\ EndTask(k)

\* The proxy process dies under the task, at whatever await it is in.
Crash(k) ==
    /\ "crash" \in Faults
    /\ phase[k] # "closed"
    /\ EndTask(k)
    /\ UNCHANGED sent

-----------------------------------------------------------------------------
ReaderStep(k) ==
    \/ Receive(k)
    \/ SkipUpdate(k)
    \/ LookupOffset(k)
    \/ PersistOperation(k)
    \/ PersistDeletions(k)
    \/ Broadcast(k)
    \/ ReadClosed(k)

Next ==
    \/ \E c \in Client : \/ \E k \in Conn : Connect(c, k)
                         \/ \E n \in 1 .. MaxBatch : Edit(c, n)
                         \/ \E d \in Deletable : Delete(c, d)
                         \/ ClientSyncStepTwo(c)
                         \/ Disconnect(c)
    \/ \E k \in Conn : \/ SendServerSyncStepOne(k)
                       \/ ReaderStep(k)
                       \/ RepoFails(k)
                       \/ WriterGone(k)
                       \/ BroadcastFails(k)
                       \/ Crash(k)

Spec == Init /\ [][Next]_vars

\* The runtime polls ready tasks, queries return, and a client answers and
\* notices a dead socket; nobody is obliged to connect, edit or disconnect.
NoticeClosed(c) == current[c] # NoConn /\ phase[current[c]] = "closed" /\ Disconnect(c)

Fairness ==
    /\ \A k \in Conn : WF_vars(ReaderStep(k)) /\ WF_vars(SendServerSyncStepOne(k))
    /\ \A c \in Client : WF_vars(ClientSyncStepTwo(c)) /\ WF_vars(NoticeClosed(c))

FairSpec == Spec /\ Fairness

-----------------------------------------------------------------------------
(* Properties.                                                             *)

\* The induction the proxy rests on (task_specs/2026-06-16-state-vector-off-
\* by-one-bugs.md): a row at offset n means the table holds every operation
\* of that client up to n, although a reader compares against an offset it
\* read some steps ago and another connection of the client writes meanwhile.
PrefixClosed ==
    \A r \in rows : \A o \in 0 .. r.offset : Covered(r.client, o)

Durable(c) ==
    /\ \A o \in 0 .. clock[c] - 1 : Covered(c, o)
    /\ deleted[c] \subseteq tombs

\* Once the reader of a client's connection is on the hot path with nothing
\* left to read, every edit the client ever made, on this or an earlier
\* connection, before or after the handshake, is in the database.
CaughtUpIsDurable ==
    \A c \in Client : \A k \in Conn :
        current[c] = k /\ phase[k] = "hot" /\ inbox[k] = <<>> => Durable(c)

\* What the broker is given is already in the database: nobody can see an
\* edit that a restart of the proxy would lose.
PersistedBeforeBroadcast ==
    \A s \in sent : /\ \A o \in s[2].lo .. s[2].hi - 1 : Covered(s[1], o)
                    /\ s[2].del \subseteq tombs

Carries(m, o) == m.lo <= o /\ o < m.hi

\* Every persisted operation and deletion has been handed to the broker, or a
\* task is on its way to do so: the other connected clients will learn of it.
PersistedIsBroadcast ==
    /\ \A r \in rows : \A o \in r.lo .. r.offset :
          \/ \E s \in sent : s[1] = r.client /\ Carries(s[2], o)
          \/ \E k \in Conn : /\ phase[k] \in {"delete", "send"} /\ novel[k]
                             /\ owner[k] = r.client /\ Carries(cur[k], o)
    /\ \A d \in tombs :
          \/ \E s \in sent : d \in s[2].del
          \/ \E k \in Conn : phase[k] = "send" /\ novel[k] /\ d \in cur[k].del

\* A client whose connection stays up gets all its edits into the database.
StableConnectionDurable ==
    \A c \in Client : \A k \in Conn :
        <>[](current[c] = k) => <>[]Durable(c)
=============================================================================
