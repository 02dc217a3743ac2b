---------------------------- MODULE BrokerProofs ----------------------------
(***************************************************************************)
(* Proofs about Broker for every set of connections: a topic never has two *)
(* live states, and registration implements TopicChannel.                  *)
(*                                                                         *)
(* OneLiveState is not inductive: that an initialiser may create a state   *)
(* rests on the cell it works for being the one in the map, on being the   *)
(* only one to work for it, and on no state being alive meanwhile.         *)
(***************************************************************************)
EXTENDS Broker, TLAPS

\* The topics mutex is held by the one connection between the two maps, and
\* what it has seen stays true: the map leads to no live state.
LockInv ==
    \A k \in Conn : /\ pc[k] = "locked" <=> lock = k
                    /\ pc[k] = "locked" => ~ (topics # None /\ Alive(topics))

\* An initialiser has the permit of an empty cell, which is the one in the map
\* until the initialiser itself removes it.
InitialiserInv ==
    \A k \in Conn :
        /\ pc[k] \in Initialising => permit[cell[k]] = k /\ value[cell[k]] = None
        /\ pc[k] \in {"subscribe", "publish", "remove"} => inFlight = cell[k]
        /\ pc[k] = "set" => inFlight # cell[k]

\* A new state is the only live one, and is not the one the map had.
CreatorInv ==
    \A k \in Conn :
        /\ pc[k] = "publish" => topics # held[k] /\ \A s \in State : Alive(s) => s = held[k]
        /\ pc[k] \in {"remove", "set"} => topics = held[k]

\* A waiter's empty cell is in the map, or is about to be filled.
WaiterInv ==
    \A k \in Conn :
        pc[k] = "wait" /\ value[cell[k]] = None =>
            inFlight = cell[k] \/ \E u \in Conn : pc[u] = "set" /\ cell[u] = cell[k]

InFlightEmpty == inFlight # None => value[inFlight] = None

IInv ==
    /\ TypeOK
    /\ LockInv
    /\ InitialiserInv
    /\ CreatorInv
    /\ WaiterInv
    /\ InFlightEmpty
    /\ LiveIsReachable
    /\ CellMeansNoState

-----------------------------------------------------------------------------
LEMMA InitIInv == Init => IInv
<1> SUFFICES ASSUME Init PROVE IInv
  OBVIOUS
<1>1. TypeOK
  BY BrokerAssumption DEF Init, TypeOK, PC, WithState, WithCell, Initialising
<1>2. \A s \in State : ~ Alive(s)
  BY BrokerAssumption DEF Init, Alive, Referenced
<1>3. \A k \in Conn : pc[k] = "idle" /\ lock # k
  BY BrokerAssumption DEF Init
<1> QED
  BY <1>1, <1>2, <1>3 DEF IInv, LockInv, InitialiserInv, CreatorInv, WaiterInv, InFlightEmpty,
     LiveIsReachable, CellMeansNoState, Initialising, Init

LEMMA NextTypeOK == TypeOK /\ [Next]_vars => TypeOK'
<1> SUFFICES ASSUME TypeOK, [Next]_vars PROVE TypeOK'
  OBVIOUS
<1> USE BrokerAssumption DEF TypeOK, PC, WithState, WithCell, Initialising, Goto
<1>1. ASSUME NEW k \in Conn, Lookup(k) PROVE TypeOK'
  BY <1>1 DEF Lookup
<1>2. ASSUME NEW k \in Conn, TakeCell(k) PROVE TypeOK'
  <2>1. PICK c \in Cell :
           /\ inFlight' = c
           /\ cell' = [cell EXCEPT ![k] = c]
           /\ value' \in [Cell -> State \cup {None}]
           /\ permit' \in [Cell -> Conn \cup {None}]
    BY <1>2 DEF TakeCell
  <2> QED
    BY <1>2, <2>1 DEF TakeCell
<1>3. ASSUME NEW k \in Conn, FindValue(k) PROVE TypeOK'
  BY <1>3 DEF FindValue
<1>4. ASSUME NEW k \in Conn, BeginInit(k) PROVE TypeOK'
  BY <1>4 DEF BeginInit
<1>5. ASSUME NEW k \in Conn, Subscribed(k) PROVE TypeOK'
  BY <1>5 DEF Subscribed
<1>6. ASSUME NEW k \in Conn, SubscribeFails(k) PROVE TypeOK'
  BY <1>6 DEF SubscribeFails
<1>7. ASSUME NEW k \in Conn, Publish(k) PROVE TypeOK'
  BY <1>7 DEF Publish
<1>8. ASSUME NEW k \in Conn, RemoveCell(k) PROVE TypeOK'
  BY <1>8 DEF RemoveCell
<1>9. ASSUME NEW k \in Conn, SetValue(k) PROVE TypeOK'
  BY <1>9 DEF SetValue
<1>10. ASSUME NEW k \in Conn, MakeReceiver(k) PROVE TypeOK'
  BY <1>10 DEF MakeReceiver
<1>11. ASSUME NEW k \in Conn, DropReceiver(k) PROVE TypeOK'
  BY <1>11 DEF DropReceiver
<1>12. CASE UNCHANGED vars
  BY <1>12 DEF vars
<1> QED
  BY <1>1, <1>2, <1>3, <1>4, <1>5, <1>6, <1>7, <1>8, <1>9, <1>10, <1>11, <1>12
  DEF Next, InitStep

-----------------------------------------------------------------------------
\* At most one connection is initialising a given cell, and nothing is alive
\* while one still waits for NATS.
LEMMA OneInitialiser ==
    ASSUME IInv, NEW j \in Conn, NEW k \in Conn,
           pc[j] \in Initialising, pc[k] \in Initialising, cell[j] = cell[k]
    PROVE  j = k
BY DEF IInv, InitialiserInv

LEMMA NoneAliveYet ==
    ASSUME IInv, NEW k \in Conn, pc[k] = "subscribe"
    PROVE  \A s \in State : ~ Alive(s)
<1>1. inFlight = cell[k] /\ inFlight # None
  BY DEF IInv, TypeOK, InitialiserInv, WithCell, Initialising
<1>2. ASSUME NEW j \in Conn, pc[j] \in {"publish", "remove"}, cell[j] = inFlight PROVE FALSE
  <2>1. j = k
    BY <1>1, <1>2, OneInitialiser DEF Initialising
  <2> QED
    BY <1>2, <2>1
<1> QED
  BY <1>1, <1>2 DEF IInv, CellMeansNoState

LEMMA OnlyOneAlive == IInv => OneLiveState
BY DEF IInv, OneLiveState, LiveIsReachable, CreatorInv

LEMMA HeldAlive ==
    ASSUME TypeOK, NEW k \in Conn, pc[k] \in WithState
    PROVE  held[k] \in State /\ Alive(held[k])
BY DEF TypeOK, Alive

-----------------------------------------------------------------------------
(* Preservation, action by action.  Alive is what most of the invariant is  *)
(* about, so each step begins with what the action does to it.              *)

\* Everything of the invariant but its types.
Core ==
    /\ LockInv
    /\ InitialiserInv
    /\ CreatorInv
    /\ WaiterInv
    /\ InFlightEmpty
    /\ LiveIsReachable
    /\ CellMeansNoState

LEMMA LookupCore ==
    ASSUME IInv, TypeOK', NEW k \in Conn, Lookup(k)
    PROVE  Core'
<1> USE BrokerAssumption DEF IInv, Lookup, Goto
<1>1. \A s \in State : Alive(s)' <=> Alive(s)
  <2>1. CASE topics # None /\ Alive(topics)
    <3>1. /\ \A j \in Conn : held'[j] = IF j = k THEN topics ELSE held[j]
          /\ held[k] = None /\ topics \in State
      BY <2>1 DEF TypeOK, WithState
    <3>2. \A c \in Cell : (Referenced(c)' <=> Referenced(c)) /\ value'[c] = value[c]
      BY DEF Referenced
    <3>3. ASSUME NEW s \in State, s # topics
          PROVE  (\E j \in Conn : held'[j] = s) <=> (\E j \in Conn : held[j] = s)
      BY <3>1, <3>3
    <3> QED
      BY <2>1, <3>1, <3>2, <3>3 DEF Alive
  <2>2. CASE ~ (topics # None /\ Alive(topics))
    BY <2>2 DEF TypeOK, Alive, Referenced
  <2> QED
    BY <2>1, <2>2
<1>2. \A j \in Conn : j # k => pc'[j] = pc[j] /\ held'[j] = held[j]
  BY DEF TypeOK
<1>3. pc[k] = "idle" /\ pc'[k] \in {"register", "locked"} /\ UNCHANGED <<topics, inFlight, value, permit, cell>>
  BY DEF TypeOK
<1>4. LockInv'
  BY <1>1, <1>2, <1>3 DEF LockInv, TypeOK
<1>5. InitialiserInv' /\ WaiterInv' /\ InFlightEmpty'
  BY <1>2, <1>3 DEF InitialiserInv, WaiterInv, InFlightEmpty, Initialising, TypeOK
<1>6. CreatorInv'
  BY <1>1, <1>2, <1>3 DEF CreatorInv
<1>7. LiveIsReachable' /\ CellMeansNoState'
  BY <1>1, <1>2, <1>3 DEF LiveIsReachable, CellMeansNoState
<1> QED
  BY <1>4, <1>5, <1>6, <1>7 DEF Core

LEMMA TakeCellCore ==
    ASSUME IInv, TypeOK', NEW k \in Conn, TakeCell(k)
    PROVE  Core'
<1> USE BrokerAssumption DEF IInv, Goto
<1>0. PICK c \in Cell :
          /\ \/ inFlight # None /\ c = inFlight /\ UNCHANGED <<value, permit>>
             \/ /\ inFlight = None /\ ~ Referenced(c)
                /\ value' = [value EXCEPT ![c] = None]
                /\ permit' = [permit EXCEPT ![c] = None]
          /\ inFlight' = c
          /\ cell' = [cell EXCEPT ![k] = c]
  BY DEF TakeCell
<1>1. \A j \in Conn : j # k => pc'[j] = pc[j] /\ cell'[j] = cell[j]
  BY <1>0 DEF TypeOK, TakeCell
<1>2. /\ pc[k] = "locked" /\ pc'[k] = "wait" /\ cell'[k] = c /\ cell[k] = None
      /\ lock = k /\ lock' = None /\ UNCHANGED <<topics, held>>
  BY <1>0 DEF TypeOK, TakeCell, LockInv, WithCell, Initialising
<1>3. value'[c] = None
  BY <1>0 DEF InFlightEmpty, TypeOK
<1>4. \A d \in Cell : d # c => value'[d] = value[d] /\ permit'[d] = permit[d]
  BY <1>0 DEF TypeOK
<1>5. \A j \in Conn : j # k /\ cell[j] # None => value'[cell[j]] = value[cell[j]] /\ permit'[cell[j]] = permit[cell[j]]
  BY <1>0, <1>4 DEF TypeOK, Referenced
<1>6. \A s \in State : Alive(s)' <=> Alive(s)
  <2> SUFFICES ASSUME NEW s \in State PROVE Alive(s)' <=> Alive(s)
    OBVIOUS
  <2>1. \A d \in Cell : d # c => (Referenced(d)' <=> Referenced(d))
    BY <1>0, <1>1, <1>2 DEF Referenced
  <2>2. ~ (Referenced(c) /\ value[c] = s)
    BY <1>0 DEF InFlightEmpty
  <2> QED
    BY <1>2, <1>3, <1>4, <2>1, <2>2 DEF Alive
<1>7. ~ (topics # None /\ Alive(topics))
  BY <1>2 DEF LockInv
<1>8. ASSUME NEW j \in Conn, pc[j] \in {"publish", "remove"} PROVE inFlight # None /\ cell[j] = inFlight
  BY <1>8 DEF InitialiserInv, TypeOK, WithCell, Initialising
<1>9. LockInv'
  BY <1>1, <1>2 DEF LockInv, TypeOK
<1>10. InitialiserInv'
  BY <1>0, <1>1, <1>2, <1>5 DEF InitialiserInv, Initialising, TypeOK, WithCell, Referenced
<1>11. CreatorInv'
  BY <1>1, <1>2, <1>6 DEF CreatorInv
<1>12. WaiterInv'
  <2> SUFFICES ASSUME NEW j \in Conn, pc'[j] = "wait", value'[cell'[j]] = None
               PROVE  inFlight' = cell'[j] \/ \E u \in Conn : pc'[u] = "set" /\ cell'[u] = cell'[j]
    BY DEF WaiterInv
  <2>1. CASE j = k
    BY <2>1, <1>0, <1>2
  <2>2. CASE j # k
    <3>1. pc[j] = "wait" /\ value[cell[j]] = None
      BY <2>2, <1>1, <1>5 DEF TypeOK, WithCell
    <3>2. inFlight = cell[j] \/ \E u \in Conn : pc[u] = "set" /\ cell[u] = cell[j]
      BY <3>1 DEF WaiterInv
    <3>3. inFlight = cell[j] => inFlight # None
      BY <3>1 DEF TypeOK, WithCell
    <3> QED
      BY <2>2, <3>2, <3>3, <1>0, <1>1, <1>2
  <2> QED
    BY <2>1, <2>2
<1>13. InFlightEmpty'
  BY <1>0, <1>3 DEF InFlightEmpty
<1>14. LiveIsReachable'
  BY <1>1, <1>2, <1>6 DEF LiveIsReachable
<1>15. CellMeansNoState'
  <2>1. CASE \E j \in Conn : pc[j] \in {"publish", "remove"}
    <3>1. PICK j \in Conn : pc[j] \in {"publish", "remove"}
      BY <2>1
    <3>2. pc'[j] \in {"publish", "remove"} /\ cell'[j] = inFlight'
      BY <3>1, <1>0, <1>1, <1>2, <1>8
    <3> QED
      BY <3>2 DEF CellMeansNoState
  <2>2. CASE \A j \in Conn : pc[j] \notin {"publish", "remove"}
    <3>1. \A s \in State : ~ Alive(s)
      BY <2>2, <1>7 DEF LiveIsReachable
    <3> QED
      BY <3>1, <1>6 DEF CellMeansNoState
  <2> QED
    BY <2>1, <2>2
<1> QED
  BY <1>9, <1>10, <1>11, <1>12, <1>13, <1>14, <1>15 DEF Core

LEMMA FindValueCore ==
    ASSUME IInv, TypeOK', NEW k \in Conn, FindValue(k)
    PROVE  Core'
<1> USE BrokerAssumption DEF IInv, FindValue, Goto
<1>1. \A j \in Conn : j # k => pc'[j] = pc[j] /\ cell'[j] = cell[j] /\ held'[j] = held[j]
  BY DEF TypeOK
<1>2. /\ pc[k] = "wait" /\ pc'[k] = "register" /\ cell[k] \in Cell
      /\ cell'[k] = None /\ held'[k] = value[cell[k]] /\ held[k] = None
      /\ UNCHANGED <<lock, topics, inFlight, value, permit>>
  BY DEF TypeOK, WithCell, WithState, Initialising
<1>3. \A s \in State : Alive(s)' <=> Alive(s)
  <2> SUFFICES ASSUME NEW s \in State PROVE Alive(s)' <=> Alive(s)
    OBVIOUS
  <2>1. \A d \in Cell : d # cell[k] => (Referenced(d)' <=> Referenced(d))
    BY <1>1, <1>2 DEF Referenced
  <2>2. Referenced(cell[k])
    BY DEF Referenced
  <2>3. CASE value[cell[k]] = s
    BY <2>2, <2>3, <1>2 DEF Alive
  <2>4. CASE value[cell[k]] # s
    <3>1. (\E j \in Conn : held'[j] = s) <=> (\E j \in Conn : held[j] = s)
      BY <2>4, <1>1, <1>2
    <3> QED
      BY <2>1, <2>4, <3>1, <1>2 DEF Alive
  <2> QED
    BY <2>3, <2>4
<1>4. LockInv'
  BY <1>1, <1>2, <1>3 DEF LockInv, TypeOK
<1>5. InitialiserInv' /\ InFlightEmpty'
  BY <1>1, <1>2 DEF InitialiserInv, InFlightEmpty, Initialising
<1>6. WaiterInv'
  BY <1>1, <1>2 DEF WaiterInv
<1>7. CreatorInv' /\ LiveIsReachable' /\ CellMeansNoState'
  BY <1>1, <1>2, <1>3 DEF CreatorInv, LiveIsReachable, CellMeansNoState
<1> QED
  BY <1>4, <1>5, <1>6, <1>7 DEF Core

LEMMA BeginInitCore ==
    ASSUME IInv, TypeOK', NEW k \in Conn, BeginInit(k)
    PROVE  Core'
<1> USE BrokerAssumption DEF IInv, BeginInit, Goto
<1>1. \A j \in Conn : j # k => pc'[j] = pc[j]
  BY DEF TypeOK
<1>2. /\ pc[k] = "wait" /\ pc'[k] = "subscribe" /\ cell[k] \in Cell
      /\ value[cell[k]] = None /\ permit[cell[k]] = None /\ permit'[cell[k]] = k
      /\ UNCHANGED <<lock, topics, inFlight, value, cell, held>>
  BY DEF TypeOK, WithCell
<1>3. \A s \in State : Alive(s)' <=> Alive(s)
  BY DEF Alive, Referenced
<1>4. \A j \in Conn : pc[j] \in Initialising => cell[j] # cell[k] /\ permit'[cell[j]] = permit[cell[j]]
  BY <1>2 DEF InitialiserInv, TypeOK, WithCell
<1>5. inFlight = cell[k]
  BY <1>2, <1>4 DEF WaiterInv, Initialising
<1>6. LockInv' /\ InFlightEmpty'
  BY <1>1, <1>2, <1>3 DEF LockInv, InFlightEmpty, TypeOK
<1>7. InitialiserInv'
  <2>1. ASSUME NEW j \in Conn, j # k, pc'[j] \in Initialising
        PROVE  /\ permit'[cell'[j]] = j /\ value'[cell'[j]] = None
               /\ pc'[j] \in {"subscribe", "publish", "remove"} => inFlight' = cell'[j]
               /\ pc'[j] = "set" => inFlight' # cell'[j]
    BY <2>1, <1>1, <1>2, <1>4 DEF InitialiserInv
  <2> QED
    BY <2>1, <1>2, <1>5 DEF InitialiserInv, Initialising
<1>8. WaiterInv'
  BY <1>1, <1>2 DEF WaiterInv
<1>9. CreatorInv' /\ LiveIsReachable' /\ CellMeansNoState'
  BY <1>1, <1>2, <1>3 DEF CreatorInv, LiveIsReachable, CellMeansNoState
<1> QED
  BY <1>6, <1>7, <1>8, <1>9 DEF Core

LEMMA SubscribedCore ==
    ASSUME IInv, TypeOK', NEW k \in Conn, Subscribed(k)
    PROVE  Core'
<1> USE BrokerAssumption DEF IInv, Goto
<1>0. PICK s \in State : ~ Alive(s) /\ s # topics /\ held' = [held EXCEPT ![k] = s]
  BY DEF Subscribed
<1>1. \A j \in Conn : j # k => pc'[j] = pc[j] /\ held'[j] = held[j]
  BY <1>0 DEF TypeOK, Subscribed
<1>2. /\ pc[k] = "subscribe" /\ pc'[k] = "publish" /\ held'[k] = s /\ inFlight = cell[k]
      /\ UNCHANGED <<lock, topics, inFlight, value, permit, cell>>
  BY <1>0 DEF TypeOK, Subscribed, InitialiserInv
<1>3. \A t \in State : Alive(t)' <=> t = s
  <2>1. \A t \in State : ~ Alive(t)
    BY <1>2, NoneAliveYet
  <2>2. \A c \in Cell : Referenced(c)' <=> Referenced(c)
    BY <1>2 DEF Referenced
  <2> QED
    BY <1>1, <1>2, <2>1, <2>2 DEF Alive
<1>4. \A j \in Conn : j # k => pc[j] \notin {"subscribe", "publish", "remove"}
  BY <1>2, OneInitialiser DEF InitialiserInv, Initialising
<1>5. LockInv'
  BY <1>0, <1>1, <1>2, <1>3 DEF LockInv, TypeOK
<1>6. InitialiserInv' /\ InFlightEmpty'
  BY <1>1, <1>2 DEF InitialiserInv, InFlightEmpty, Initialising
<1>7. WaiterInv'
  BY <1>1, <1>2 DEF WaiterInv
<1>8. CreatorInv'
  BY <1>0, <1>1, <1>2, <1>3, <1>4 DEF CreatorInv
<1>9. LiveIsReachable' /\ CellMeansNoState'
  BY <1>1, <1>2, <1>3 DEF LiveIsReachable, CellMeansNoState
<1> QED
  BY <1>5, <1>6, <1>7, <1>8, <1>9 DEF Core

LEMMA SubscribeFailsCore ==
    ASSUME IInv, TypeOK', NEW k \in Conn, SubscribeFails(k)
    PROVE  Core'
<1> USE BrokerAssumption DEF IInv, SubscribeFails, Goto
<1>1. \A j \in Conn : j # k => pc'[j] = pc[j] /\ cell'[j] = cell[j]
  BY DEF TypeOK
<1>2. /\ pc[k] = "subscribe" /\ pc'[k] = "idle" /\ cell'[k] = None
      /\ inFlight = cell[k] /\ value[cell[k]] = None
      /\ UNCHANGED <<lock, topics, inFlight, value, held>>
  BY DEF TypeOK, InitialiserInv, Initialising
<1>3. \A c \in Cell : Referenced(c)' <=> Referenced(c)
  BY <1>1, <1>2 DEF Referenced
<1>4. \A s \in State : Alive(s)' <=> Alive(s)
  BY <1>2, <1>3 DEF Alive
<1>5. \A j \in Conn : j # k /\ pc[j] \in Initialising =>
          cell[j] # cell[k] /\ permit'[cell[j]] = permit[cell[j]]
  BY <1>2, OneInitialiser DEF Initialising, TypeOK, WithCell
<1>6. LockInv' /\ InFlightEmpty'
  BY <1>1, <1>2, <1>4 DEF LockInv, InFlightEmpty, TypeOK
<1>7. InitialiserInv'
  BY <1>1, <1>2, <1>5 DEF InitialiserInv, Initialising
<1>8. WaiterInv'
  BY <1>1, <1>2 DEF WaiterInv
<1>9. CreatorInv' /\ LiveIsReachable' /\ CellMeansNoState'
  BY <1>1, <1>2, <1>4 DEF CreatorInv, LiveIsReachable, CellMeansNoState
<1> QED
  BY <1>6, <1>7, <1>8, <1>9 DEF Core

LEMMA PublishCore ==
    ASSUME IInv, TypeOK', NEW k \in Conn, Publish(k)
    PROVE  Core'
<1> USE BrokerAssumption DEF IInv, Publish, Goto
<1>1. \A j \in Conn : j # k => pc'[j] = pc[j]
  BY DEF TypeOK
<1>2. /\ pc[k] = "publish" /\ pc'[k] = "remove" /\ topics' = held[k] /\ inFlight = cell[k]
      /\ lock = None /\ UNCHANGED <<lock, inFlight, value, permit, cell, held>>
  BY DEF TypeOK, InitialiserInv
<1>3. \A s \in State : Alive(s)' <=> Alive(s)
  BY DEF Alive, Referenced
<1>4. \A j \in Conn : j # k => pc[j] \notin {"subscribe", "publish", "remove"}
  BY <1>2, OneInitialiser DEF InitialiserInv, Initialising
<1>5. \A s \in State : Alive(s) => s = held[k]
  BY <1>2 DEF CreatorInv
<1>6. LockInv'
  BY <1>1, <1>2 DEF LockInv, TypeOK
<1>7. InitialiserInv' /\ InFlightEmpty' /\ WaiterInv'
  BY <1>1, <1>2 DEF InitialiserInv, InFlightEmpty, WaiterInv, Initialising
<1>8. CreatorInv'
  <2>1. ASSUME NEW j \in Conn, pc[j] = "set" PROVE held[j] = held[k]
    BY <2>1, <1>5, HeldAlive DEF WithState
  <2> QED
    BY <1>1, <1>2, <1>4, <2>1 DEF CreatorInv
<1>9. LiveIsReachable' /\ CellMeansNoState'
  BY <1>2, <1>3, <1>5 DEF LiveIsReachable, CellMeansNoState
<1> QED
  BY <1>6, <1>7, <1>8, <1>9 DEF Core

LEMMA RemoveCellCore ==
    ASSUME IInv, TypeOK', NEW k \in Conn, RemoveCell(k)
    PROVE  Core'
<1> USE BrokerAssumption DEF IInv, RemoveCell, Goto
<1>1. \A j \in Conn : j # k => pc'[j] = pc[j]
  BY DEF TypeOK
<1>2. /\ pc[k] = "remove" /\ pc'[k] = "set" /\ inFlight = cell[k] /\ inFlight' = None
      /\ cell[k] \in Cell /\ topics = held[k]
      /\ UNCHANGED <<lock, topics, value, permit, cell, held>>
  BY DEF TypeOK, InitialiserInv, CreatorInv, WithCell, Initialising
<1>3. \A c \in Cell : Referenced(c)' <=> Referenced(c)
  BY <1>2 DEF Referenced
<1>4. \A s \in State : Alive(s)' <=> Alive(s)
  BY <1>2, <1>3 DEF Alive
<1>5. \A j \in Conn : j # k => pc[j] \notin {"subscribe", "publish", "remove"}
  BY <1>2, OneInitialiser DEF InitialiserInv, Initialising
<1>6. LockInv'
  BY <1>1, <1>2, <1>4 DEF LockInv, TypeOK
<1>7. InitialiserInv'
  BY <1>1, <1>2, <1>5 DEF InitialiserInv, Initialising, TypeOK, WithCell
<1>8. InFlightEmpty' /\ CellMeansNoState'
  BY <1>2 DEF InFlightEmpty, CellMeansNoState
<1>9. WaiterInv'
  BY <1>1, <1>2 DEF WaiterInv
<1>10. CreatorInv' /\ LiveIsReachable'
  BY <1>1, <1>2, <1>4 DEF CreatorInv, LiveIsReachable
<1> QED
  BY <1>6, <1>7, <1>8, <1>9, <1>10 DEF Core

LEMMA SetValueCore ==
    ASSUME IInv, TypeOK', NEW k \in Conn, SetValue(k)
    PROVE  Core'
<1> USE BrokerAssumption DEF IInv, SetValue, Goto
<1>1. \A j \in Conn : j # k => pc'[j] = pc[j] /\ cell'[j] = cell[j]
  BY DEF TypeOK
<1>2. /\ pc[k] = "set" /\ pc'[k] = "register" /\ cell[k] \in Cell /\ cell'[k] = None
      /\ inFlight # cell[k] /\ topics = held[k] /\ held[k] \in State
      /\ value'[cell[k]] = held[k]
      /\ UNCHANGED <<lock, topics, inFlight, held>>
  BY DEF TypeOK, InitialiserInv, CreatorInv, WithCell, WithState, Initialising
<1>3. \A d \in Cell : d # cell[k] =>
          /\ value'[d] = value[d] /\ permit'[d] = permit[d]
          /\ (Referenced(d)' <=> Referenced(d))
  BY <1>1, <1>2 DEF TypeOK, Referenced
<1>4. \A s \in State : Alive(s)' <=> Alive(s)
  <2>1. value[cell[k]] = None
    BY <1>2 DEF InitialiserInv, Initialising
  <2>2. Alive(held[k])
    BY <1>2 DEF Alive
  <2> QED
    BY <1>2, <1>3, <2>1, <2>2 DEF Alive
<1>5. \A j \in Conn : j # k /\ pc[j] \in Initialising => cell[j] \in Cell /\ cell[j] # cell[k]
  BY <1>2, OneInitialiser DEF Initialising, TypeOK, WithCell
<1>6. LockInv'
  BY <1>1, <1>2, <1>4 DEF LockInv, TypeOK
<1>7. InitialiserInv'
  BY <1>1, <1>2, <1>3, <1>5 DEF InitialiserInv, Initialising
<1>8. InFlightEmpty'
  BY <1>2, <1>3 DEF InFlightEmpty, TypeOK
<1>9. WaiterInv'
  <2> SUFFICES ASSUME NEW j \in Conn, pc'[j] = "wait", value'[cell'[j]] = None
               PROVE  inFlight' = cell'[j] \/ \E u \in Conn : pc'[u] = "set" /\ cell'[u] = cell'[j]
    BY DEF WaiterInv
  <2>1. j # k /\ pc[j] = "wait" /\ cell'[j] = cell[j] /\ cell[j] \in Cell
    BY <1>1, <1>2 DEF TypeOK, WithCell
  <2>2. cell[j] # cell[k] /\ value[cell[j]] = None
    BY <2>1, <1>2, <1>3
  <2> QED
    BY <2>1, <2>2, <1>1, <1>2 DEF WaiterInv
<1>10. CreatorInv' /\ LiveIsReachable' /\ CellMeansNoState'
  BY <1>1, <1>2, <1>4 DEF CreatorInv, LiveIsReachable, CellMeansNoState
<1> QED
  BY <1>6, <1>7, <1>8, <1>9, <1>10 DEF Core

LEMMA MakeReceiverCore ==
    ASSUME IInv, TypeOK', NEW k \in Conn, MakeReceiver(k)
    PROVE  Core'
<1> USE BrokerAssumption DEF IInv, MakeReceiver, Goto
<1>1. /\ \A j \in Conn : j # k => pc'[j] = pc[j]
      /\ pc[k] = "register" /\ pc'[k] = "listening"
  BY DEF TypeOK
<1>2. \A s \in State : Alive(s)' <=> Alive(s)
  BY DEF Alive, Referenced
<1>3. LockInv' /\ InitialiserInv' /\ WaiterInv' /\ InFlightEmpty'
  BY <1>1, <1>2 DEF LockInv, InitialiserInv, WaiterInv, InFlightEmpty, Initialising, TypeOK
<1>4. CreatorInv' /\ LiveIsReachable' /\ CellMeansNoState'
  BY <1>1, <1>2 DEF CreatorInv, LiveIsReachable, CellMeansNoState
<1> QED
  BY <1>3, <1>4 DEF Core

\* Dropping a reference can only end a life.
LEMMA DropReceiverCore ==
    ASSUME IInv, TypeOK', NEW k \in Conn, DropReceiver(k)
    PROVE  Core'
<1> USE BrokerAssumption DEF IInv, DropReceiver, Goto
<1>1. /\ \A j \in Conn : j # k => pc'[j] = pc[j] /\ held'[j] = held[j]
      /\ pc[k] = "listening" /\ pc'[k] = "idle" /\ held'[k] = None
  BY DEF TypeOK
<1>2. \A s \in State : Alive(s)' => Alive(s)
  BY <1>1 DEF Alive, Referenced
<1>3. LockInv'
  BY <1>1, <1>2 DEF LockInv, TypeOK
<1>4. InitialiserInv' /\ WaiterInv' /\ InFlightEmpty'
  BY <1>1 DEF InitialiserInv, WaiterInv, InFlightEmpty, Initialising
<1>5. CreatorInv' /\ LiveIsReachable' /\ CellMeansNoState'
  BY <1>1, <1>2 DEF CreatorInv, LiveIsReachable, CellMeansNoState
<1> QED
  BY <1>3, <1>4, <1>5 DEF Core

LEMMA NextIInv == IInv /\ [Next]_vars => IInv'
<1> SUFFICES ASSUME IInv, [Next]_vars PROVE IInv'
  OBVIOUS
<1>1. TypeOK'
  BY NextTypeOK DEF IInv
<1>2. Core'
  <2>1. CASE UNCHANGED vars
    <3>1. \A s \in State : Alive(s)' <=> Alive(s)
      BY <2>1 DEF vars, Alive, Referenced
    <3> QED
      BY <2>1, <3>1 DEF vars, IInv, Core, LockInv, InitialiserInv, CreatorInv, WaiterInv,
                        InFlightEmpty, LiveIsReachable, CellMeansNoState, TypeOK
  <2>2. CASE Next
    BY <2>2, <1>1, LookupCore, TakeCellCore, FindValueCore, BeginInitCore, SubscribedCore,
       SubscribeFailsCore, PublishCore, RemoveCellCore, SetValueCore, MakeReceiverCore,
       DropReceiverCore DEF Next, InitStep
  <2> QED
    BY <2>1, <2>2
<1> QED
  BY <1>1, <1>2 DEF IInv, Core

\* IInv holds in every reachable state of the broker.
THEOREM Inductive == Spec => []IInv
<1> QED
  BY InitIInv, NextIInv, PTL DEF Spec

\* Every state of the broker is well typed; in particular a connection that
\* leaves get_or_insert_state with success always has a state.
THEOREM TypeCorrect == Spec => []TypeOK
<1>1. IInv => TypeOK
  BY DEF IInv
<1> QED
  BY <1>1, Inductive, PTL

\* However many connections register, fail to and leave, and however they
\* interleave, the topic has at most one live TopicScopedState.
THEOREM OneLiveStateAlways == Spec => []OneLiveState
<1> QED
  BY OnlyOneAlive, Inductive, PTL

\* A live state is in the topics map or about to be put there.
THEOREM LiveIsReachableAlways == Spec => []LiveIsReachable
<1>1. IInv => LiveIsReachable
  BY DEF IInv
<1> QED
  BY <1>1, Inductive, PTL

\* No cell in the in_flight map belongs to a state that is being used.
THEOREM CellMeansNoStateAlways == Spec => []CellMeansNoState
<1>1. IInv => CellMeansNoState
  BY DEF IInv
<1> QED
  BY <1>1, Inductive, PTL

-----------------------------------------------------------------------------
(* Registration implements TopicChannel.                                   *)

LEMMA InitTC == Init => TC!Init
BY DEF Init, TC!Init, Listening

LEMMA StepTC == IInv /\ [Next]_vars => [TC!Next]_Listening
<1> SUFFICES ASSUME IInv, [Next]_vars PROVE [TC!Next]_Listening
  OBVIOUS
<1> USE BrokerAssumption
<1>0. ASSUME NEW k \in Conn, pc' = [pc EXCEPT ![k] = pc'[k]],
             pc[k] # "listening", pc'[k] # "listening",
             \A j \in Conn : j # k => held'[j] = held[j]
      PROVE  UNCHANGED Listening
  BY <1>0 DEF Listening, IInv, TypeOK
<1>1. ASSUME NEW k \in Conn, MakeReceiver(k) PROVE TC!Join(k)
  <2>1. /\ pc[k] = "register" /\ pc' = [pc EXCEPT ![k] = "listening"] /\ UNCHANGED held
        /\ pc \in [Conn -> PC] /\ held \in [Conn -> State \cup {None}]
    BY <1>1 DEF MakeReceiver, Goto, IInv, TypeOK
  <2>2. held[k] \in State /\ Alive(held[k])
    BY <2>1, HeldAlive DEF WithState, IInv
  <2>3. \A j \in Conn : Listening[j] \in {None, held[k]}
    <3>1. \A j \in Conn : pc[j] = "listening" => held[j] = held[k]
      BY <2>2, HeldAlive, OnlyOneAlive DEF OneLiveState, WithState, IInv
    <3> QED
      BY <3>1 DEF Listening
  <2>4. Listening' = [Listening EXCEPT ![k] = held[k]]
    BY <2>1 DEF Listening
  <2>5. Listening[k] = None
    BY <2>1 DEF Listening
  <2> QED
    BY <2>2, <2>3, <2>4, <2>5 DEF TC!Join
<1>2. ASSUME NEW k \in Conn, DropReceiver(k) PROVE TC!Leave(k)
  <2>1. /\ pc[k] = "listening" /\ pc' = [pc EXCEPT ![k] = "idle"]
        /\ held' = [held EXCEPT ![k] = None]
        /\ pc \in [Conn -> PC] /\ held \in [Conn -> State \cup {None}]
    BY <1>2 DEF DropReceiver, Goto, IInv, TypeOK
  <2>2. held[k] \in State
    BY <2>1, HeldAlive DEF WithState, IInv
  <2>3. Listening' = [Listening EXCEPT ![k] = None]
    BY <2>1 DEF Listening
  <2>4. Listening[k] # None
    BY <2>1, <2>2 DEF Listening
  <2> QED
    BY <2>3, <2>4 DEF TC!Leave
<1>3. ASSUME NEW k \in Conn,
             Lookup(k) \/ TakeCell(k) \/ FindValue(k) \/ BeginInit(k) \/ InitStep(k)
      PROVE  UNCHANGED Listening
  <2>1. /\ pc[k] # "listening" /\ pc' = [pc EXCEPT ![k] = pc'[k]] /\ pc'[k] # "listening"
        /\ \A j \in Conn : j # k => held'[j] = held[j]
    BY <1>3 DEF Lookup, TakeCell, FindValue, BeginInit, InitStep, Subscribed, SubscribeFails,
                Publish, RemoveCell, SetValue, Goto, IInv, TypeOK
  <2> QED
    BY <1>0, <2>1
<1>4. CASE UNCHANGED vars
  BY <1>4 DEF vars, Listening
<1> QED
  BY <1>1, <1>2, <1>3, <1>4 DEF Next, TC!Next

\* The broker implements TopicChannel: connections registered at the same time
\* always have receivers of the same channel.
THEOREM Refinement == Spec => ImplementsTopicChannel
<1> QED
  BY InitTC, StepTC, Inductive, PTL DEF Spec, ImplementsTopicChannel, TC!Spec
=============================================================================
