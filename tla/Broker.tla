------------------------------- MODULE Broker -------------------------------
(***************************************************************************)
(* Registration of connections with the broker of one proxy instance       *)
(* (broker.rs), for one topic.  The broadcast channel of a topic and its   *)
(* NATS subscription live in a TopicScopedState that is reference counted: *)
(* the topics map only has a Weak to it, and it dies with the last         *)
(* receiver.  Connections that find no live state elect one initialiser    *)
(* through a OnceCell kept in the in_flight map.  The steps are those      *)
(* between which another thread can run: the two mutexes, the cell's       *)
(* permit and the await on the NATS client.                                *)
(*                                                                         *)
(* Identities are recycled: a state or a cell nobody refers to stands for  *)
(* the next one to be allocated.                                           *)
(***************************************************************************)
CONSTANTS
    Conn,       \* connections, each a task of handle_socket
    State,      \* identities of TopicScopedState
    Cell,       \* identities of OnceCell
    None

ASSUME BrokerAssumption == None \notin Conn \cup State \cup Cell

VARIABLES
    pc,         \* pc[k]: where k is in register
    lock,       \* the connection that holds the topics mutex, or None
    topics,     \* the Weak in the topics map
    inFlight,   \* the cell in the in_flight map
    value,      \* value[c]: the state in cell c, once initialised
    permit,     \* permit[c]: the connection running the initialiser of c
    cell,       \* cell[k]: the cell k has a reference to
    held        \* held[k]: the state k has a strong reference to

vars == <<pc, lock, topics, inFlight, value, permit, cell, held>>

\* "register" is past get_or_insert_state, with an Arc and no receiver yet.
Initialising == {"subscribe", "publish", "remove", "set"}
WithCell     == Initialising \cup {"wait"}
WithState    == {"publish", "remove", "set", "register", "listening"}
PC == Initialising \cup {"idle", "locked", "wait", "register", "listening"}

\* Who is where holds what: from "register" on, always a state.
TypeOK ==
    /\ pc       \in [Conn -> PC]
    /\ lock     \in Conn \cup {None}
    /\ topics   \in State \cup {None}
    /\ inFlight \in Cell \cup {None}
    /\ value    \in [Cell -> State \cup {None}]
    /\ permit   \in [Cell -> Conn \cup {None}]
    /\ cell     \in [Conn -> Cell \cup {None}]
    /\ held     \in [Conn -> State \cup {None}]
    /\ \A k \in Conn : /\ held[k] # None <=> pc[k] \in WithState
                       /\ cell[k] # None <=> pc[k] \in WithCell

\* A cell is dropped with its last reference, and a state with its last one:
\* an Arc of a task, a receiver's guard, or the value of a cell still there.
Referenced(c) == inFlight = c \/ \E k \in Conn : cell[k] = c

Alive(s) == \/ \E k \in Conn : held[k] = s
            \/ \E c \in Cell : Referenced(c) /\ value[c] = s

Init ==
    /\ pc       = [k \in Conn |-> "idle"]
    /\ lock     = None
    /\ topics   = None
    /\ inFlight = None
    /\ value    = [c \in Cell |-> None]
    /\ permit   = [c \in Cell |-> None]
    /\ cell     = [k \in Conn |-> None]
    /\ held     = [k \in Conn |-> None]

Goto(k, l) == pc' = [pc EXCEPT ![k] = l]

-----------------------------------------------------------------------------
(* get_or_insert_state.                                                    *)

UnlocksEarly(k) ==
    /\ pc[k] = "idle"
    /\ lock = None
    /\ IF topics # None /\ Alive(topics)
       THEN Goto(k, "register") /\ held' = [held EXCEPT ![k] = topics]
       ELSE Goto(k, "locked") /\ UNCHANGED held
    /\ UNCHANGED <<lock, topics, inFlight, value, permit, cell>>

\* Under the topics mutex: upgrade the Weak and return the state, or go on to
\* the in_flight map without letting go of the mutex.
Lookup(k) ==
    /\ pc[k] = "idle"
    /\ lock = None
    /\ \/ /\ topics # None /\ Alive(topics)
          /\ held' = [held EXCEPT ![k] = topics]
          /\ Goto(k, "register")
          /\ UNCHANGED lock
       \/ /\ ~ (topics # None /\ Alive(topics))
          /\ lock' = k
          /\ Goto(k, "locked")
          /\ UNCHANGED held
    /\ UNCHANGED <<topics, inFlight, value, permit, cell>>

\* Get the topic's cell, or put a new one in the map; both mutexes are then
\* released.
TakeCell(k) ==
    /\ pc[k] = "locked"
    /\ \E c \in Cell :
          /\ IF inFlight # None THEN c = inFlight /\ UNCHANGED <<value, permit>>
             ELSE /\ ~ Referenced(c)
                  /\ value' = [value EXCEPT ![c] = None]
                  /\ permit' = [permit EXCEPT ![c] = None]
          /\ inFlight' = c
          /\ cell' = [cell EXCEPT ![k] = c]
    /\ lock' = None
    /\ Goto(k, "wait")
    /\ UNCHANGED <<topics, held>>

IgnoresFailure(k) ==
    /\ pc[k] = "wait"
    /\ permit[cell[k]] = None
    /\ held' = [held EXCEPT ![k] = value[cell[k]]]
    /\ cell' = [cell EXCEPT ![k] = None]
    /\ Goto(k, "register")
    /\ UNCHANGED <<lock, topics, inFlight, value, permit>>

\* get_or_try_init on a cell somebody has initialised.
FindValue(k) ==
    /\ pc[k] = "wait"
    /\ value[cell[k]] # None
    /\ held' = [held EXCEPT ![k] = value[cell[k]]]
    /\ cell' = [cell EXCEPT ![k] = None]
    /\ Goto(k, "register")
    /\ UNCHANGED <<lock, topics, inFlight, value, permit>>

\* get_or_try_init on an empty cell: wait for its permit, then run the closure.
BeginInit(k) ==
    /\ pc[k] = "wait"
    /\ value[cell[k]] = None
    /\ permit[cell[k]] = None
    /\ permit' = [permit EXCEPT ![cell[k]] = k]
    /\ Goto(k, "subscribe")
    /\ UNCHANGED <<lock, topics, inFlight, value, cell, held>>

RemovesFirst(k) ==
    /\ pc[k] = "subscribe"
    /\ \E s \in State :
          /\ ~ Alive(s)
          /\ s # topics
          /\ held' = [held EXCEPT ![k] = s]
    /\ inFlight' = None
    /\ Goto(k, "publish")
    /\ UNCHANGED <<lock, topics, value, permit, cell>>

\* The closure's await succeeds: a new channel, and the task that feeds it
\* from NATS.
Subscribed(k) ==
    /\ pc[k] = "subscribe"
    /\ \E s \in State :
          /\ ~ Alive(s)
          /\ s # topics
          /\ held' = [held EXCEPT ![k] = s]
    /\ Goto(k, "publish")
    /\ UNCHANGED <<lock, topics, inFlight, value, permit, cell>>

KeepsPermit(k) ==
    /\ pc[k] = "subscribe"
    /\ cell' = [cell EXCEPT ![k] = None]
    /\ Goto(k, "idle")
    /\ UNCHANGED <<lock, topics, inFlight, value, permit, held>>

\* The await fails: register returns the error and handle_socket closes the
\* connection; the empty cell stays in the map for the next initialiser.
SubscribeFails(k) ==
    /\ pc[k] = "subscribe"
    /\ permit' = [permit EXCEPT ![cell[k]] = None]
    /\ cell' = [cell EXCEPT ![k] = None]
    /\ Goto(k, "idle")
    /\ UNCHANGED <<lock, topics, inFlight, value, held>>

\* topics.lock().insert(downgrade(state))
Publish(k) ==
    /\ pc[k] = "publish"
    /\ lock = None
    /\ topics' = held[k]
    /\ Goto(k, "remove")
    /\ UNCHANGED <<lock, inFlight, value, permit, cell, held>>

LeavesCell(k) ==
    /\ pc[k] = "remove"
    /\ Goto(k, "set")
    /\ UNCHANGED <<lock, topics, inFlight, value, permit, cell, held>>

\* in_flight.lock().remove(topic_id)
RemoveCell(k) ==
    /\ pc[k] = "remove"
    /\ inFlight' = None
    /\ Goto(k, "set")
    /\ UNCHANGED <<lock, topics, value, permit, cell, held>>

\* The closure has returned: the cell takes the state and wakes the waiters.
SetValue(k) ==
    /\ pc[k] = "set"
    /\ value' = [value EXCEPT ![cell[k]] = held[k]]
    /\ permit' = [permit EXCEPT ![cell[k]] = None]
    /\ cell' = [cell EXCEPT ![k] = None]
    /\ Goto(k, "register")
    /\ UNCHANGED <<lock, topics, inFlight, held>>

-----------------------------------------------------------------------------
\* The rest of register: subscribe a receiver, which keeps the Arc as guard.
MakeReceiver(k) ==
    /\ pc[k] = "register"
    /\ Goto(k, "listening")
    /\ UNCHANGED <<lock, topics, inFlight, value, permit, cell, held>>

\* The writer task ends and drops the receiver and its guard; the last one
\* takes the state and its NATS task along.  The slot may connect again.
DropReceiver(k) ==
    /\ pc[k] = "listening"
    /\ held' = [held EXCEPT ![k] = None]
    /\ Goto(k, "idle")
    /\ UNCHANGED <<lock, topics, inFlight, value, permit, cell>>

InitStep(k) ==
    \/ Subscribed(k)
    \/ SubscribeFails(k)
    \/ Publish(k)
    \/ RemoveCell(k)
    \/ SetValue(k)

Next == \E k \in Conn : \/ Lookup(k) \/ TakeCell(k)
                        \/ FindValue(k) \/ BeginInit(k)
                        \/ InitStep(k)
                        \/ MakeReceiver(k)
                        \/ DropReceiver(k)

Spec == Init /\ [][Next]_vars

\* Tasks are polled, the NATS client answers, the cell's semaphore is first
\* come first served and a mutex is handed on; nobody has to connect or leave.
Fairness ==
    \A k \in Conn :
        /\ WF_vars(TakeCell(k) \/ FindValue(k) \/ MakeReceiver(k))
        /\ WF_vars(Subscribed(k) \/ SubscribeFails(k))
        /\ WF_vars(RemoveCell(k) \/ SetValue(k))
        /\ SF_vars(Publish(k))
        /\ SF_vars(BeginInit(k))

FairSpec == Spec /\ Fairness

-----------------------------------------------------------------------------
(* Properties.                                                             *)

\* The claim of the comment on get_or_insert_state: however registrations,
\* failures and departures interleave, a topic never has two live states, so
\* no two connections of the instance are ever on different channels.
OneLiveState ==
    \A s, t \in State : Alive(s) /\ Alive(t) => s = t

\* A live state can be found: the map's Weak leads to it, or its initialiser
\* is about to put it there.  Otherwise later registrations would split off.
LiveIsReachable ==
    \A s \in State : Alive(s) =>
        topics = s \/ \E k \in Conn : pc[k] = "publish" /\ held[k] = s

\* A cell left in in_flight (a failed subscribe leaves one) is never one that
\* a live state came from, unless its initialiser is about to remove it: the
\* next connection that finds it cannot be given an outdated state.
CellMeansNoState ==
    inFlight # None =>
        \/ \A s \in State : ~ Alive(s)
        \/ \E k \in Conn : pc[k] \in {"publish", "remove"} /\ cell[k] = inFlight

\* What register promises (TopicChannel), with the receivers as the listeners.
Listening == [k \in Conn |-> IF pc[k] = "listening" THEN held[k] ELSE None]

TC == INSTANCE TopicChannel
        WITH Channel <- State, NoChannel <- None, listening <- Listening

ImplementsTopicChannel == TC!Spec

\* Every register call returns: a waiter is never left behind on a cell whose
\* initialiser failed or is gone.
RegisterReturns ==
    \A k \in Conn : pc[k] = "locked" ~> pc[k] \in {"listening", "idle"}
=============================================================================
