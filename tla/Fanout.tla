------------------------------- MODULE Fanout -------------------------------
(***************************************************************************)
(* The read path of the message proxy for one topic: how what is persisted *)
(* reaches the documents of the other clients.  A connection registers     *)
(* with its instance's broadcast channel in two steps: it gets hold of the *)
(* channel's state (one per instance: OneLiveState of Broker) and then     *)
(* makes its receiver.  Its writer task answers the client's state vector  *)
(* from the database and then forwards what its receiver gets.  Channels   *)
(* are fed by the readers of the same instance and by a task that takes    *)
(* the messages of the channel's NATS subscription, to which every         *)
(* instance publishes; the task is over for good when a message finds no   *)
(* receiver.                                                               *)
(*                                                                         *)
(* What the write path (Ingest) does to one message is two steps here: it  *)
(* is persisted, and later handed to the broker.  An item is an insertion  *)
(* <<client, offset>> or a deleted element.                                *)
(***************************************************************************)
EXTENDS Integers, SequencesExt

CONSTANTS
    Client,       \* yrs client ids
    Editor,       \* bound: the clients that edit, the others only look on
    Conn,         \* websocket connection slots
    Instance,     \* proxy instances
    Channel,      \* identities of broadcast channels
    Deletable,    \* elements that may be deleted
    MaxOps,       \* bound: insertions of one client
    Capacity,     \* messages a receiver may lag behind (ring buffer)
    NatsBuffer,   \* commands the NATS client of an instance buffers
    Faults,       \* which of "db", "crash" may happen
    None

ASSUME FanoutAssumption ==
    /\ Editor \subseteq Client
    /\ MaxOps \in Nat
    /\ Capacity \in Nat \ {0}
    /\ NatsBuffer \in Nat
    /\ Faults \subseteq {"db", "crash"}
    /\ None \notin Client \cup Conn \cup Channel \cup Instance

Insertion == Client \X (0 .. MaxOps - 1)
Item      == Insertion \cup Deletable
Message   == [from : Client, item : Item]
NoMsg     == [from |-> None, item |-> None]
Command   == [kind : {"sub"}, chan : Channel] \cup [kind : {"pub"}, msg : Message]

VARIABLES
    doc,         \* doc[c]: the items in c's yrs document
    current,     \* current[c]: the connection c believes it has
    owner,       \* owner[k]: the client of connection k
    inst,        \* inst[k]: the instance that serves k
    reader,      \* reader[k]: is the reader task running
    writer,      \* writer[k]: where the writer task is
    chan,        \* chan[k]: the channel k was registered with
    sv,          \* sv[k]: the state vector in the client's sync step one
    oneshot,     \* oneshot[k]: has the reader passed it on to the writer
    bulk,        \* bulk[k]: the sync step two being put together
    queue,       \* queue[k]: what k's receiver has yet to take
    pending,     \* pending[k]: the message k's reader persisted, not yet sent
    missed,      \* missed[k]: (history) what c lacked when k registered
    unheard,     \* unheard[k]: (history) what was sent on other channels while
                 \* k's was deaf to NATS
    rows,        \* the operations table
    tombs,       \* the deletions table
    natsOut,     \* natsOut[i]: commands instance i has buffered for NATS
    subscribed   \* channels whose subscription the NATS server knows

clientVars == <<doc, current>>
syncVars   == <<sv, oneshot>>
connVars   == <<owner, inst, chan>>
dbVars     == <<rows, tombs>>
natsVars   == <<natsOut, subscribed>>
histVars   == <<missed, unheard>>
vars == <<clientVars, connVars, reader, writer, syncVars, bulk, queue, pending, histVars, dbVars, natsVars>>

TypeOK ==
    /\ doc        \in [Client -> SUBSET Item]
    /\ current    \in [Client -> Conn \cup {None}]
    /\ owner      \in [Conn -> Client \cup {None}]
    /\ inst       \in [Conn -> Instance \cup {None}]
    /\ reader     \in [Conn -> {"off", "register", "on"}]
    /\ writer     \in [Conn -> {"off", "register", "await", "deletions", "hot"}]
    /\ chan       \in [Conn -> Channel \cup {None}]
    /\ sv         \in [Conn -> [Client -> 0 .. MaxOps]]
    /\ oneshot    \in [Conn -> {"empty", "full"}]
    /\ bulk       \in [Conn -> SUBSET Item]
    /\ queue      \in [Conn -> Seq(Message)]
    /\ pending    \in [Conn -> Message \cup {NoMsg}]
    /\ missed     \in [Conn -> SUBSET Item]
    /\ unheard    \in [Conn -> SUBSET Item]
    /\ rows       \subseteq Insertion
    /\ tombs      \subseteq Deletable
    /\ natsOut    \in [Instance -> Seq(Command)]
    /\ subscribed \subseteq Channel
    /\ \A k \in Conn : Len(queue[k]) <= Capacity

Init ==
    /\ doc        = [c \in Client |-> {}]
    /\ current    = [c \in Client |-> None]
    /\ owner      = [k \in Conn |-> None]
    /\ inst       = [k \in Conn |-> None]
    /\ reader     = [k \in Conn |-> "off"]
    /\ writer     = [k \in Conn |-> "off"]
    /\ chan       = [k \in Conn |-> None]
    /\ sv         = [k \in Conn |-> [c \in Client |-> 0]]
    /\ oneshot    = [k \in Conn |-> "empty"]
    /\ bulk       = [k \in Conn |-> {}]
    /\ queue      = [k \in Conn |-> <<>>]
    /\ pending    = [k \in Conn |-> NoMsg]
    /\ missed     = [k \in Conn |-> {}]
    /\ unheard    = [k \in Conn |-> {}]
    /\ rows       = {}
    /\ tombs      = {}
    /\ natsOut    = [i \in Instance |-> <<>>]
    /\ subscribed = {}
-----------------------------------------------------------------------------
(* The tables and the documents.                                           *)

\* The exclusive upper bound of c's operations without a gap in D: what a yrs
\* document reports, and at which offset c's next operation is.
NextOffset(D, c) ==
    CHOOSE n \in 0 .. MaxOps : /\ n < MaxOps => <<c, n>> \notin D
                               /\ \A m \in 0 .. n - 1 : <<c, m>> \in D

StateVector(D) == [c \in Client |-> NextOffset(D, c)]

ExclusiveAfter(v) == {o \in rows : o[2] > v[o[1]]}

\* read_operations_after: offset >= min_offset, or a client v does not name.
ReadOperationsAfter(v) == {o \in rows : o[2] >= v[o[1]]}

\* read_doc_deletion_set: every client's ranges, whatever the state vector.
ReadDocDeletionSet == tombs

Persisted == rows \cup tombs

-----------------------------------------------------------------------------
(* Channels and NATS.                                                      *)

\* A channel lives while somebody holds its state, with or without a receiver.
Receivers(ch)   == {k \in Conn : writer[k] \notin {"off", "register"} /\ chan[k] = ch}
LiveChannels(i) == {chan[k] : k \in {j \in Conn : writer[j] # "off" /\ inst[j] = i}}

Unbounded(q, m) == Append(q, m)

\* broadcast::Sender::send: the ring keeps the last Capacity messages, a
\* receiver that is further behind has lost the oldest.
Push(q, m) == Append(IF Len(q) < Capacity THEN q ELSE Tail(q), m)

PushAll(chans, m) ==
    queue' = [k \in Conn |-> IF \E ch \in chans : k \in Receivers(ch)
                             THEN Push(queue[k], m) ELSE queue[k]]

\* A channel whose state nobody holds is dropped: its task ends and unsubscribes,
\* so that its subscription, if it is still buffered, has no effect either.
DropChannels(out) ==
    LET live    == {chan[k] : k \in {j \in Conn : writer'[j] # "off"}}
        Void(q) == {n \in DOMAIN q : q[n].kind = "sub" /\ q[n].chan \notin live}
    IN  /\ natsOut' = [i \in Instance |->
                IF Void(out[i]) = {} THEN out[i]
                ELSE RemoveAt(out[i], CHOOSE n \in Void(out[i]) : TRUE)]
        /\ subscribed' = subscribed \cap live

\* The NATS task of k's channel has returned: its subscription is neither
\* known to the server nor on its way there.
Deaf(k) ==
    /\ chan[k] \notin subscribed
    /\ \A n \in DOMAIN natsOut[inst[k]] :
          LET x == natsOut[inst[k]][n] IN x.kind = "sub" => x.chan # chan[k]

CancelsNobody(k) == FALSE

\* join_next: handle_socket cancels the token when one of its tasks returns,
\* and the other one sees it in its select!, whenever it is polled.
Cancelled(k) == reader[k] = "off" \/ writer[k] = "off"

\* handle_socket returns once both of its tasks have.
Release(k) ==
    LET over == reader'[k] = "off" /\ writer'[k] = "off"
    IN  /\ owner' = IF over THEN [owner EXCEPT ![k] = None] ELSE owner
        /\ inst' = IF over THEN [inst EXCEPT ![k] = None] ELSE inst
        /\ chan' = IF over THEN [chan EXCEPT ![k] = None] ELSE chan
        /\ oneshot' = IF over THEN [oneshot EXCEPT ![k] = "empty"] ELSE oneshot

-----------------------------------------------------------------------------
(* The client.  What it is sent it applies; what is lost on the way to it  *)
(* is what is sent after it has gone.                                      *)

\* The client connects to instance i and sends its state vector; handle_socket
\* registers first, and gets hold of the channel's state.  The first on an
\* instance makes the channel, whose subscription is buffered for NATS and not
\* awaited.
Connect(c, k, i) ==
    /\ current[c] = None
    /\ reader[k] = "off" /\ writer[k] = "off"
    /\ \A d \in Client : current[d] # k
    /\ current' = [current EXCEPT ![c] = k]
    /\ owner' = [owner EXCEPT ![k] = c]
    /\ inst' = [inst EXCEPT ![k] = i]
    /\ reader' = [reader EXCEPT ![k] = "register"]
    /\ writer' = [writer EXCEPT ![k] = "register"]
    /\ sv' = [sv EXCEPT ![k] = StateVector(doc[c])]
    /\ missed' = [missed EXCEPT ![k] = Persisted \ doc[c]]
    /\ \/ /\ \E ch \in LiveChannels(i) : chan' = [chan EXCEPT ![k] = ch]
          /\ UNCHANGED natsOut
       \/ /\ LiveChannels(i) = {}
          /\ \E ch \in Channel :
                /\ \A j \in Conn : chan[j] # ch
                /\ chan' = [chan EXCEPT ![k] = ch]
                /\ natsOut' = [natsOut EXCEPT ![i] = Append(@, [kind |-> "sub", chan |-> ch])]
    /\ UNCHANGED <<doc, oneshot, bulk, queue, pending, unheard, dbVars, subscribed>>

\* The rest of register makes the receiver, and the tasks are spawned.
Register(k) ==
    /\ writer[k] = "register"
    /\ reader' = [reader EXCEPT ![k] = "on"]
    /\ writer' = [writer EXCEPT ![k] = "await"]
    /\ UNCHANGED <<clientVars, connVars, syncVars, bulk, queue, pending, histVars, dbVars, natsVars>>

Disconnect(c) ==
    /\ current[c] # None
    /\ current' = [current EXCEPT ![c] = None]
    /\ UNCHANGED <<doc, connVars, reader, writer, syncVars, bulk, queue, pending, histVars, dbVars, natsVars>>

-----------------------------------------------------------------------------
(* The reader task: forward_client_sync_step_one and                       *)
(* persist_and_broadcast_update.                                           *)

\* The client's sync step one, which the writer has to answer.
ForwardSyncStepOne(k) ==
    /\ reader[k] = "on" /\ pending[k] = NoMsg
    /\ oneshot[k] = "empty"
    /\ oneshot' = [oneshot EXCEPT ![k] = "full"]
    /\ UNCHANGED <<clientVars, connVars, reader, writer, sv, bulk, queue, pending, histVars, dbVars, natsVars>>

\* The client's next insertion is in the operations table.
PersistInsertion(k) ==
    /\ owner[k] \in Editor
    /\ reader[k] = "on" /\ pending[k] = NoMsg
    /\ LET o == <<owner[k], NextOffset(rows, owner[k])>>
       IN  /\ o \in Insertion
           /\ rows' = rows \cup {o}
           /\ doc' = [doc EXCEPT ![owner[k]] = @ \cup {o}]
           /\ pending' = [pending EXCEPT ![k] = [from |-> owner[k], item |-> o]]
    /\ UNCHANGED <<current, connVars, reader, writer, syncVars, bulk, queue, histVars, tombs, natsVars>>

\* A deletion of the client's is in the deletions table, and was novel.
PersistDeletion(k, d) ==
    /\ owner[k] \in Editor
    /\ reader[k] = "on" /\ pending[k] = NoMsg
    /\ d \notin tombs
    /\ tombs' = tombs \cup {d}
    /\ doc' = [doc EXCEPT ![owner[k]] = @ \cup {d}]
    /\ pending' = [pending EXCEPT ![k] = [from |-> owner[k], item |-> d]]
    /\ UNCHANGED <<current, connVars, reader, writer, syncVars, bulk, queue, histVars, rows, natsVars>>

NeverPublishes(i, m) == UNCHANGED natsOut

\* nats_client.publish().now_or_never(): skipped when the buffer is full.
PublishToNats(i, m) ==
    natsOut' = IF Len(natsOut[i]) < NatsBuffer
               THEN [natsOut EXCEPT ![i] = Append(@, [kind |-> "pub", msg |-> m])]
               ELSE natsOut

\* WrappedSender::send on the channel k was registered with, which may have no
\* receiver left: then only NATS gets the message and the reader ends.
Broadcast(k) ==
    /\ pending[k] # NoMsg
    /\ PushAll({chan[k]}, pending[k])
    /\ PublishToNats(inst[k], pending[k])
    /\ pending' = [pending EXCEPT ![k] = NoMsg]
    /\ reader' = IF Receivers(chan[k]) = {} THEN [reader EXCEPT ![k] = "off"] ELSE reader
    /\ unheard' = [j \in Conn |-> IF writer[j] \in {"deletions", "hot"} /\ chan[j] # chan[k] /\ Deaf(j)
                                  THEN unheard[j] \cup {pending[k].item} ELSE unheard[j]]
    /\ UNCHANGED <<clientVars, writer, sv, bulk, missed, dbVars, subscribed>>
    /\ Release(k)

\* The end of the client's stream, the token cancelled because the writer has
\* ended, or a failed query: also the one that stores the deletions of a message
\* whose insertion is stored, which then nobody is sent.
ReaderEnds(k) ==
    /\ reader[k] = "on"
    /\ \/ pending[k] = NoMsg /\ (current[owner[k]] # k \/ Cancelled(k) \/ "db" \in Faults)
       \/ pending[k].item \in Insertion /\ "db" \in Faults
    /\ reader' = [reader EXCEPT ![k] = "off"]
    /\ pending' = [pending EXCEPT ![k] = NoMsg]
    /\ UNCHANGED <<clientVars, writer, sv, bulk, queue, histVars, dbVars, natsVars>>
    /\ Release(k)

-----------------------------------------------------------------------------
(* The writer task.                                                        *)

\* process_client_sync_step_one: first query ...
ReadOperations(k) ==
    /\ writer[k] = "await" /\ oneshot[k] = "full"
    /\ bulk' = [bulk EXCEPT ![k] = ReadOperationsAfter(sv[k])]
    /\ writer' = [writer EXCEPT ![k] = "deletions"]
    /\ sv' = [sv EXCEPT ![k] = [c \in Client |-> 0]]
    /\ UNCHANGED <<clientVars, connVars, reader, oneshot, queue, pending, histVars, dbVars, natsVars>>

Transmit(k, items) ==
    doc' = IF current[owner[k]] = k THEN [doc EXCEPT ![owner[k]] = @ \cup items] ELSE doc

OmitsDeletions(k) ==
    /\ writer[k] = "deletions"
    /\ Transmit(k, bulk[k])
    /\ bulk' = [bulk EXCEPT ![k] = {}]
    /\ writer' = [writer EXCEPT ![k] = "hot"]
    /\ UNCHANGED <<current, connVars, reader, syncVars, queue, pending, histVars, dbVars, natsVars>>

\* ... second query, and the sync step two with both.
SendSyncStepTwo(k) ==
    /\ writer[k] = "deletions"
    /\ Transmit(k, bulk[k] \cup ReadDocDeletionSet)
    /\ bulk' = [bulk EXCEPT ![k] = {}]
    /\ writer' = [writer EXCEPT ![k] = "hot"]
    /\ UNCHANGED <<current, connVars, reader, syncVars, queue, pending, histVars, dbVars, natsVars>>

\* write_hot_path_loop: everything but the client's own messages.
Forward(k) ==
    /\ writer[k] = "hot"
    /\ queue[k] # <<>>
    /\ IF Head(queue[k]).from # owner[k] THEN Transmit(k, {Head(queue[k]).item})
       ELSE UNCHANGED doc
    /\ queue' = [queue EXCEPT ![k] = Tail(@)]
    /\ UNCHANGED <<current, connVars, reader, writer, syncVars, bulk, pending, histVars, dbVars, natsVars>>

\* A message of the writer's fails to reach a client that is gone.
SendFails(k) ==
    /\ current[owner[k]] # k
    /\ writer[k] = "hot" => queue[k] # <<>> /\ Head(queue[k]).from # owner[k]

\* The reader has returned and dropped its end of the oneshot unused.
SenderDropped(k) == writer[k] = "await" /\ reader[k] = "off" /\ oneshot[k] = "empty"

\* The token or the end of the oneshot in a select!, a failed send or query;
\* the receiver goes, and the channel if it was the last.
WriterEnds(k) ==
    /\ writer[k] \notin {"off", "register"}
    /\ \/ writer[k] # "deletions" /\ Cancelled(k)
       \/ SenderDropped(k)
       \/ SendFails(k)
       \/ "db" \in Faults /\ writer[k] # "hot"
    /\ writer' = [writer EXCEPT ![k] = "off"]
    /\ queue' = [queue EXCEPT ![k] = <<>>]
    /\ sv' = [sv EXCEPT ![k] = [c \in Client |-> 0]]
    /\ bulk' = [bulk EXCEPT ![k] = {}]
    /\ missed' = [missed EXCEPT ![k] = {}]
    /\ unheard' = [unheard EXCEPT ![k] = {}]
    /\ UNCHANGED <<clientVars, reader, pending, dbVars>>
    /\ DropChannels(natsOut)
    /\ Release(k)

-----------------------------------------------------------------------------
(* NATS and the instances.                                                 *)

\* The server takes the next command of an instance's connection.  A published
\* message goes to every subscription it knows, whose nats_core_subscriber_task
\* puts it on the channel: also to the one it came from.  A task whose channel
\* has no receiver returns, and its subscription goes with it.
NatsDelivers(i) ==
    /\ natsOut[i] # <<>>
    /\ natsOut' = [natsOut EXCEPT ![i] = Tail(@)]
    /\ LET x == Head(natsOut[i])
       IN  \/ /\ x.kind = "sub"
              /\ subscribed' = subscribed \cup {x.chan}
              /\ UNCHANGED queue
           \/ /\ x.kind = "pub"
              /\ PushAll(subscribed, x.msg)
              /\ subscribed' = {ch \in subscribed : Receivers(ch) # {}}
    /\ UNCHANGED <<clientVars, connVars, reader, writer, syncVars, bulk, pending, histVars, dbVars>>

\* An instance dies: its tasks, its channel and what it had buffered.
Crash(i) ==
    LET here == {k \in Conn : inst[k] = i}
        Reset(f, v) == [k \in Conn |-> IF k \in here THEN v ELSE f[k]]
    IN  /\ "crash" \in Faults
        /\ here # {}
        /\ reader' = Reset(reader, "off")
        /\ writer' = Reset(writer, "off")
        /\ owner' = Reset(owner, None)
        /\ inst' = Reset(inst, None)
        /\ chan' = Reset(chan, None)
        /\ sv' = Reset(sv, [c \in Client |-> 0])
        /\ oneshot' = Reset(oneshot, "empty")
        /\ bulk' = Reset(bulk, {})
        /\ queue' = Reset(queue, <<>>)
        /\ pending' = Reset(pending, NoMsg)
        /\ missed' = Reset(missed, {})
        /\ unheard' = Reset(unheard, {})
        /\ DropChannels([natsOut EXCEPT ![i] = <<>>])
        /\ UNCHANGED <<clientVars, dbVars>>

-----------------------------------------------------------------------------
ServerStep(k) ==
    \/ Register(k)
    \/ ForwardSyncStepOne(k)
    \/ Broadcast(k)
    \/ ReadOperations(k)
    \/ SendSyncStepTwo(k)
    \/ Forward(k)

Next ==
    \/ \E c \in Client : \/ \E k \in Conn, i \in Instance : Connect(c, k, i)
                         \/ Disconnect(c)
    \/ \E k \in Conn : \/ PersistInsertion(k)
                       \/ \E d \in Deletable : PersistDeletion(k, d)
                       \/ ServerStep(k)
                       \/ ReaderEnds(k)
                       \/ WriterEnds(k)
    \/ \E i \in Instance : NatsDelivers(i) \/ Crash(i)

Spec == Init /\ [][Next]_vars

\* Tasks are polled, queries return, NATS keeps reading, and a client notices
\* that its connection is dead; nobody has to connect, edit or disconnect.
NoticeClosed(c) ==
    /\ current[c] # None
    /\ writer[current[c]] = "off" /\ reader[current[c]] = "off"
    /\ Disconnect(c)

Fairness ==
    /\ \A k \in Conn : /\ WF_vars(ForwardSyncStepOne(k))
                       /\ WF_vars(Broadcast(k))
                       /\ WF_vars(Register(k) \/ ReadOperations(k) \/ SendSyncStepTwo(k) \/ Forward(k))
                       /\ WF_vars(reader[k] = "off" /\ WriterEnds(k))
                       /\ WF_vars(writer[k] = "off" /\ ReaderEnds(k))
    /\ \A c \in Client : WF_vars(NoticeClosed(c))
    /\ \A i \in Instance : WF_vars(NatsDelivers(i))

FairSpec == Spec /\ Fairness

-----------------------------------------------------------------------------
(* Properties.                                                             *)

\* Whatever a client lacked when it connected (lost on its way, lagged behind,
\* published before NATS knew of the subscription, persisted by an instance
\* that died before it published) it has once the handshake is over: the
\* state vector of a document with holes asks for enough.
HandshakeRepairs ==
    \A c \in Client : \A k \in Conn :
        current[c] = k /\ writer[k] = "hot" => missed[k] \subseteq doc[c]

Items(s) == {s[n].item : n \in DOMAIN s}

Published ==
    UNION {{x.msg.item : x \in {y \in {natsOut[i][n] : n \in DOMAIN natsOut[i]} : y.kind = "pub"}}
           : i \in Instance}

\* Between the snapshot the handshake takes and the channel nothing falls
\* through: an item in the tables is in the client's document or on some way
\* to it, although the writer reads the tables in two queries while other
\* connections write, and although a reader may send on a channel that has
\* died and been replaced.  The one exception is a connection whose channel a
\* message reached before there was a receiver, which ended its NATS task: it
\* does not hear what readers left over on another channel still send.
NoGap ==
    \A c \in Client : \A k \in Conn :
        current[c] = k /\ writer[k] = "hot" =>
            Persisted \subseteq doc[c] \cup Items(queue[k]) \cup Published
                                \cup {pending[j].item : j \in Conn}
                                \cup unheard[k]

\* When one task of a connection has returned, for whatever reason, so does
\* the other: no writer is left waiting for messages to forward to a client
\* that has gone, and no reader for messages of one that cannot be answered.
SessionEndsWhole ==
    \A k \in Conn : owner[k] # None /\ (reader[k] = "off" \/ writer[k] = "off")
                        ~> owner[k] = None

\* A client that stays connected gets everything that is ever persisted and
\* that its channel was not deaf to when it was sent.
StableConverges ==
    \A c \in Client : \A o \in Item :
        <>[](current[c] # None /\ o \in Persisted \ unheard[current[c]]) => <>(o \in doc[c])
=============================================================================
