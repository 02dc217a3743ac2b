---------------------------- MODULE FanoutProofs ----------------------------
(***************************************************************************)
(* Proofs about Fanout for every number of clients, connections, instances *)
(* and channels, whatever is lost: the handshake gives a client what it    *)
(* lacked; and, with one instance, about what may lie between the tables   *)
(* and a client that has had its handshake.                                *)
(*                                                                         *)
(* FInv says what a connection has while its tasks run, and what the       *)
(* handshake is about to send.  NInv adds where an item is that is on its  *)
(* way: a message sent by a reader whose channel has died reaches the      *)
(* others by NATS, as their subscription is known or ahead of it in the    *)
(* buffer, unless a message ended the task that takes them from there.     *)
(***************************************************************************)
EXTENDS Fanout, SequenceTheorems, Minima

Off(k) == reader[k] = "off" /\ writer[k] = "off"

ConnOK(k) ==
    /\ Off(k) => owner[k] = None /\ inst[k] = None /\ chan[k] = None /\ oneshot[k] = "empty"
    /\ ~Off(k) => owner[k] \in Client /\ inst[k] \in Instance /\ chan[k] \in Channel
    /\ pending[k] # NoMsg => reader[k] = "on"
    /\ reader[k] = "register" <=> writer[k] = "register"
    /\ writer[k] = "off" => queue[k] = <<>> /\ bulk[k] = {} /\ missed[k] = {}
    /\ \A c \in Client : current[c] = k /\ ~Off(k) => owner[k] = c

\* What c's connection k is about to send covers what c lacked.
SyncOK(c, k) ==
    /\ missed[k] \subseteq Persisted
    /\ writer[k] \in {"register", "await"} => \A e \in Client : \A n \in 0 .. sv[k][e] - 1 : <<e, n>> \in doc[c]
    /\ writer[k] = "deletions" => missed[k] \subseteq doc[c] \cup bulk[k] \cup tombs
    /\ writer[k] = "hot" => missed[k] \subseteq doc[c]

ConnInv == \A k \in Conn : ConnOK(k)
SyncInv == \A c \in Client, k \in Conn : current[c] = k => SyncOK(c, k)

CInv == TypeOK /\ ConnInv
FInv == CInv /\ SyncInv

-----------------------------------------------------------------------------
(* Sequences and offsets.                                                  *)

LEMMA RemoveFacts ==
    ASSUME NEW S, NEW q \in Seq(S), NEW v \in DOMAIN q
    PROVE  /\ RemoveAt(q, v) \in Seq(S) /\ Len(RemoveAt(q, v)) = Len(q) - 1
           /\ \A n \in 1 .. Len(q) - 1 : RemoveAt(q, v)[n] = IF n < v THEN q[n] ELSE q[n + 1]
<1> DEFINE l == Len(q)
           a == SubSeq(q, 1, v - 1)
           b == SubSeq(q, v + 1, l)
<1>1. l \in Nat /\ v \in 1..l
  OBVIOUS
<1>2. a \in Seq(S) /\ Len(a) = v - 1
  BY <1>1, SubSeqProperties
<1>3. b \in Seq(S) /\ Len(b) = l - v
  BY <1>1, SubSeqProperties
<1>4. \A n \in 1 .. v - 1 : a[n] = q[n]
  BY <1>1, SubSeqProperties
<1>5. \A n \in 1 .. l - v : b[n] = q[v + n]
  BY <1>1, SubSeqProperties
<1>6. RemoveAt(q, v) = a \o b
  BY DEF RemoveAt
<1> HIDE DEF a, b, l
<1>7. /\ a \o b \in Seq(S) /\ Len(a \o b) = Len(a) + Len(b)
      /\ \A n \in 1 .. Len(a) + Len(b) : (a \o b)[n] = IF n <= Len(a) THEN a[n] ELSE b[n - Len(a)]
  BY <1>2, <1>3, ConcatProperties
<1>8. Len(a) + Len(b) = l - 1
  BY <1>1, <1>2, <1>3
<1>9. ASSUME NEW n \in 1 .. l - 1
      PROVE  (a \o b)[n] = IF n < v THEN q[n] ELSE q[n + 1]
  <2>1. (a \o b)[n] = IF n <= v - 1 THEN a[n] ELSE b[n - (v - 1)]
    BY <1>2, <1>7, <1>8
  <2>2. CASE n < v
    BY <1>1, <1>4, <2>1, <2>2
  <2>3. CASE ~(n < v)
    <3>1. n - (v - 1) \in 1 .. l - v /\ v + (n - (v - 1)) = n + 1 /\ ~(n <= v - 1)
      BY <1>1, <2>3
    <3> QED
      BY <1>5, <2>1, <2>3, <3>1
  <2> QED
    BY <2>2, <2>3
<1> QED
  BY <1>6, <1>7, <1>8, <1>9 DEF l

LEMMA AppendAt ==
    ASSUME NEW S, NEW I, NEW f \in [I -> Seq(S)], NEW i \in I, NEW y \in S
    PROVE  [f EXCEPT ![i] = Append(@, y)] \in [I -> Seq(S)]
OBVIOUS

\* A document has every operation below the offset it reports.
LEMMA OffsetFacts ==
    ASSUME NEW D, NEW c
    PROVE  /\ NextOffset(D, c) \in 0 .. MaxOps
           /\ \A m \in 0 .. NextOffset(D, c) - 1 : <<c, m>> \in D
<1> DEFINE Gaps == {n \in 0 .. MaxOps : n < MaxOps => <<c, n>> \notin D}
<1>1. MaxOps \in Nat
  BY FanoutAssumption
<1>2. Gaps \in SUBSET Nat /\ MaxOps \in Gaps
  BY <1>1
<1>3. PICK n \in Gaps : \A m \in Gaps : n <= m
  <2> HIDE DEF Gaps
  <2> QED
    BY <1>2, Least
<1>4. ASSUME NEW m \in 0 .. n - 1 PROVE <<c, m>> \in D
  <2>1. m \in 0 .. MaxOps /\ m < MaxOps /\ ~(n <= m)
    BY <1>1, <1>3
  <2>2. m \notin Gaps
    BY <1>3, <2>1
  <2> QED
    BY <2>1, <2>2
<1>5. n \in 0 .. MaxOps /\ (n < MaxOps => <<c, n>> \notin D)
  BY <1>3
<1> QED
  BY <1>4, <1>5 DEF NextOffset

LEMMA VectorFacts ==
    ASSUME NEW D, NEW V, V = StateVector(D)
    PROVE  \A e \in Client : \A n \in 0 .. V[e] - 1 : <<e, n>> \in D
<1> SUFFICES ASSUME NEW e \in Client, NEW n \in 0 .. V[e] - 1
             PROVE  <<e, n>> \in D
  OBVIOUS
<1>1. V[e] = NextOffset(D, e)
  BY DEF StateVector
<1>2. \A m \in 0 .. NextOffset(D, e) - 1 : <<e, m>> \in D
  BY OffsetFacts, Zenon
<1> QED
  BY <1>1, <1>2

LEMMA MessageFacts ==
    ASSUME NEW c \in Client, NEW o \in Item
    PROVE  [from |-> c, item |-> o] \in Message /\ [from |-> c, item |-> o] # NoMsg
<1>1. [from |-> c, item |-> o] \in Message
  BY DEF Message
<1>2. [from |-> c, item |-> o].from = c /\ NoMsg.from = None /\ c # None
  BY FanoutAssumption DEF NoMsg
<1> QED
  BY <1>1, <1>2

LEMMA PushFacts ==
    ASSUME NEW q \in Seq(Message), Len(q) <= Capacity, NEW m \in Message
    PROVE  /\ Push(q, m) \in Seq(Message) /\ Len(Push(q, m)) <= Capacity
           /\ Len(q) < Capacity => Push(q, m) = Append(q, m)
<1>1. Capacity \in Nat \ {0}
  BY FanoutAssumption
<1>2. CASE Len(q) < Capacity
  BY <1>1, <1>2 DEF Push
<1>3. CASE ~(Len(q) < Capacity)
  <2>1. q # <<>> /\ Tail(q) \in Seq(Message) /\ Len(Tail(q)) = Len(q) - 1
    BY <1>1, <1>3
  <2>2. Push(q, m) = Append(Tail(q), m)
    BY <1>3 DEF Push
  <2>3. Push(q, m) \in Seq(Message) /\ Len(Push(q, m)) = Len(Tail(q)) + 1
    BY <2>1, <2>2, AppendProperties
  <2>4. Len(q) \in Nat
    OBVIOUS
  <2>5. Len(Push(q, m)) = Len(q)
    BY <2>1, <2>3, <2>4
  <2> QED
    BY <1>3, <2>3, <2>5
<1> QED
  BY <1>2, <1>3

LEMMA PushAllFacts ==
    ASSUME TypeOK, NEW chans, NEW m \in Message, PushAll(chans, m)
    PROVE  /\ queue' \in [Conn -> Seq(Message)] /\ \A k \in Conn : Len(queue'[k]) <= Capacity
           /\ \A k \in Conn : queue'[k] = IF writer[k] \notin {"off", "register"} /\ chan[k] \in chans
                                          THEN Push(queue[k], m) ELSE queue[k]
<1>1. \A k \in Conn : queue'[k] = IF writer[k] \notin {"off", "register"} /\ chan[k] \in chans
                                  THEN Push(queue[k], m) ELSE queue[k]
  BY DEF PushAll, Receivers
<1>2. \A k \in Conn : queue[k] \in Seq(Message) /\ Len(queue[k]) <= Capacity
  BY DEF TypeOK
<1>3. ASSUME NEW k \in Conn PROVE queue'[k] \in Seq(Message) /\ Len(queue'[k]) <= Capacity
  <2>1. Push(queue[k], m) \in Seq(Message) /\ Len(Push(queue[k], m)) <= Capacity
    BY <1>2, PushFacts
  <2> QED
    BY <1>1, <1>2, <2>1
<1>4. queue' = [k \in Conn |-> queue'[k]]
  BY DEF PushAll
<1> QED
  BY <1>1, <1>3, <1>4

\* A command of each buffer may go, the subscription of a channel that does.
LEMMA DropFacts ==
    ASSUME NEW out \in [Instance -> Seq(Command)], DropChannels(out),
           NEW live, live = {chan[k] : k \in {j \in Conn : writer'[j] # "off"}}
    PROVE  /\ natsOut' \in [Instance -> Seq(Command)]
           /\ \A i \in Instance :
                \/ natsOut'[i] = out[i]
                \/ \E v \in DOMAIN out[i] :
                    /\ out[i][v].kind = "sub" /\ out[i][v].chan \notin live
                    /\ natsOut'[i] = RemoveAt(out[i], v)
           /\ subscribed' = subscribed \cap live
<1> DEFINE Void(q) == {n \in DOMAIN q : q[n].kind = "sub" /\ q[n].chan \notin live}
           Kept(q) == IF Void(q) = {} THEN q ELSE RemoveAt(q, CHOOSE n \in Void(q) : TRUE)
<1>1. natsOut' = [i \in Instance |-> Kept(out[i])] /\ subscribed' = subscribed \cap live
  BY DEF DropChannels
<1>2. ASSUME NEW q
      PROVE  \/ Kept(q) = q
             \/ \E v \in DOMAIN q : /\ q[v].kind = "sub" /\ q[v].chan \notin live
                                    /\ Kept(q) = RemoveAt(q, v)
  <2>1. CASE Void(q) # {}
    <3>1. (CHOOSE n \in Void(q) : TRUE) \in Void(q)
      BY <2>1
    <3> QED
      BY <2>1, <3>1
  <2> QED
    BY <2>1
<1>3. ASSUME NEW q \in Seq(Command) PROVE Kept(q) \in Seq(Command)
  <2> HIDE DEF Kept
  <2> QED
    BY <1>2, <1>3, RemoveFacts
<1> HIDE DEF Kept
<1> QED
  BY <1>1, <1>2, <1>3

LEMMA DropAt ==
    ASSUME NEW out \in [Instance -> Seq(Command)], DropChannels(out)
    PROVE  \E live :
             /\ \A j \in Conn : writer'[j] # "off" => chan[j] \in live
             /\ subscribed' = subscribed \cap live
             /\ \A i \in Instance :
                  \/ natsOut'[i] = out[i]
                  \/ \E v \in DOMAIN out[i] :
                      /\ out[i][v].kind = "sub" /\ out[i][v].chan \notin live
                      /\ natsOut'[i] = RemoveAt(out[i], v)
<1> DEFINE live == {chan[k] : k \in {j \in Conn : writer'[j] # "off"}}
<1>1. \A j \in Conn : writer'[j] # "off" => chan[j] \in live
  OBVIOUS
<1>2. \A h : h = live =>
        /\ subscribed' = subscribed \cap h
        /\ \A i \in Instance :
             \/ natsOut'[i] = out[i]
             \/ \E v \in DOMAIN out[i] :
                 /\ out[i][v].kind = "sub" /\ out[i][v].chan \notin h
                 /\ natsOut'[i] = RemoveAt(out[i], v)
  BY DropFacts, Zenon
<1> HIDE DEF live
<1> QED
  BY <1>1, <1>2, Zenon

-----------------------------------------------------------------------------
(* Types, and what a connection has while its tasks run.                   *)

LEMMA ConnFrame ==
    ASSUME NEW j \in Conn, ConnOK(j), reader'[j] = reader[j], writer'[j] = writer[j],
           owner'[j] = owner[j], inst'[j] = inst[j], chan'[j] = chan[j],
           oneshot'[j] = oneshot[j] \/ ~Off(j),
           pending'[j] = pending[j] \/ reader[j] = "on", missed'[j] = missed[j],
           writer[j] = "off" => queue'[j] = queue[j] /\ bulk'[j] = bulk[j],
           \A c \in Client : current'[c] = j => current[c] = j
    PROVE  ConnOK(j)'
BY DEF ConnOK, Off

LEMMA ConnectCInv ==
    ASSUME CInv, NEW c \in Client, NEW k \in Conn, NEW i \in Instance, Connect(c, k, i)
    PROVE  CInv'
<1>1. TypeOK /\ ConnInv
  BY DEF CInv
<1>2. StateVector(doc[c]) \in [Client -> 0 .. MaxOps] /\ Persisted \ doc[c] \subseteq Item
  BY <1>1, OffsetFacts DEF StateVector, Persisted, TypeOK, Item
<1>3. PICK ch \in Channel :
        /\ chan' = [chan EXCEPT ![k] = ch]
        /\ \/ natsOut' = natsOut
           \/ natsOut' = [natsOut EXCEPT ![i] = Append(@, [kind |-> "sub", chan |-> ch])]
  <2>1. \A x \in LiveChannels(i) : x \in Channel
    BY <1>1 DEF LiveChannels, ConnInv, ConnOK, Off
  <2> QED
    BY <2>1 DEF Connect
<1>4. natsOut' \in [Instance -> Seq(Command)]
  <2>1. [kind |-> "sub", chan |-> ch] \in Command
    BY DEF Command
  <2>2. natsOut \in [Instance -> Seq(Command)]
    BY <1>1 DEF TypeOK
  <2>3. [natsOut EXCEPT ![i] = Append(@, [kind |-> "sub", chan |-> ch])] \in [Instance -> Seq(Command)]
    <3> DEFINE y == [kind |-> "sub", chan |-> ch]
    <3> HIDE DEF y
    <3> QED
      BY <2>1, <2>2, AppendAt DEF y
  <2> QED
    BY <1>3, <2>2, <2>3
<1>5. TypeOK'
  BY <1>1, <1>2, <1>3, <1>4 DEF Connect, TypeOK, dbVars, histVars
<1>6. ASSUME NEW j \in Conn PROVE ConnOK(j)'
  <2>1. ConnOK(j) /\ ConnOK(k)
    BY <1>1 DEF ConnInv
  <2>2. CASE j # k
    <3>1. /\ reader'[j] = reader[j] /\ writer'[j] = writer[j]
          /\ owner'[j] = owner[j] /\ inst'[j] = inst[j] /\ chan'[j] = chan[j]
          /\ missed'[j] = missed[j] /\ UNCHANGED <<oneshot, bulk, queue, pending>>
          /\ \A d \in Client : current'[d] = j => current[d] = j
      BY <1>1, <1>3, <2>2 DEF Connect, TypeOK
    <3> QED
      BY <2>1, <3>1, ConnFrame
  <2>3. CASE j = k
    <3>1. /\ reader'[k] = "register" /\ writer'[k] = "register" /\ owner'[k] = c /\ inst'[k] = i /\ chan'[k] = ch
          /\ pending' = pending
          /\ \A d \in Client : current'[d] = k => d = c
          /\ reader[k] = "off"
      BY <1>1, <1>3 DEF Connect, TypeOK
    <3> QED
      BY <2>1, <2>3, <3>1 DEF ConnOK, Off
  <2> QED
    BY <2>2, <2>3
<1> QED
  BY <1>5, <1>6 DEF CInv, ConnInv

LEMMA RegisterCInv ==
    ASSUME CInv, NEW k \in Conn, Register(k)
    PROVE  CInv'
<1>1. TypeOK /\ ConnInv
  BY DEF CInv
<1>2. TypeOK'
  BY <1>1 DEF Register, TypeOK, clientVars, connVars, syncVars, dbVars, histVars, natsVars
<1>3. ASSUME NEW j \in Conn PROVE ConnOK(j)'
  <2>1. ConnOK(j) /\ ConnOK(k)
    BY <1>1 DEF ConnInv
  <2>2. CASE j # k
    <3>1. reader'[j] = reader[j] /\ writer'[j] = writer[j]
      BY <1>1, <2>2 DEF Register, TypeOK
    <3> QED
      BY <2>1, <3>1, ConnFrame DEF Register, clientVars, connVars, syncVars, histVars
  <2>3. CASE j = k
    <3>1. writer[k] = "register" /\ reader'[k] = "on" /\ writer'[k] = "await"
      BY <1>1 DEF Register, TypeOK
    <3> QED
      BY <2>1, <2>3, <3>1 DEF ConnOK, Off, Register, clientVars, connVars, syncVars, histVars
  <2> QED
    BY <2>2, <2>3
<1> QED
  BY <1>2, <1>3 DEF CInv, ConnInv

LEMMA DisconnectCInv ==
    ASSUME CInv, NEW c \in Client, Disconnect(c)
    PROVE  CInv'
<1>1. TypeOK /\ ConnInv
  BY DEF CInv
<1>2. TypeOK'
  BY <1>1 DEF Disconnect, TypeOK, connVars, syncVars, dbVars, histVars, natsVars
<1>3. \A j \in Conn, d \in Client : current'[d] = j => current[d] = j
  BY <1>1, FanoutAssumption DEF Disconnect, TypeOK
<1>4. \A j \in Conn : ConnOK(j)'
  BY <1>1, <1>3, ConnFrame DEF ConnInv, Disconnect, connVars, syncVars, histVars
<1> QED
  BY <1>2, <1>4 DEF CInv, ConnInv

LEMMA ForwardSyncStepOneCInv ==
    ASSUME CInv, NEW k \in Conn, ForwardSyncStepOne(k)
    PROVE  CInv'
<1>1. TypeOK /\ ConnInv
  BY DEF CInv
<1>2. TypeOK'
  BY <1>1 DEF ForwardSyncStepOne, TypeOK, clientVars, connVars, dbVars, histVars, natsVars
<1>3. \A j \in Conn : oneshot'[j] = oneshot[j] \/ ~Off(j)
  BY <1>1 DEF ForwardSyncStepOne, TypeOK, Off
<1>4. \A j \in Conn : ConnOK(j)'
  BY <1>1, <1>3, ConnFrame DEF ConnInv, ForwardSyncStepOne, clientVars, connVars, histVars
<1> QED
  BY <1>2, <1>4 DEF CInv, ConnInv

LEMMA PersistFacts ==
    ASSUME CInv, NEW k \in Conn, PersistInsertion(k) \/ \E d \in Deletable : PersistDeletion(k, d)
    PROVE  \E o \in Item :
            /\ owner[k] \in Client /\ reader[k] = "on" /\ pending[k] = NoMsg
            /\ rows \subseteq rows' /\ tombs \subseteq tombs'
            /\ rows' \subseteq Insertion /\ tombs' \subseteq Deletable
            /\ rows' \subseteq rows \cup {o} /\ tombs' \subseteq tombs \cup {o}
            /\ doc' = [doc EXCEPT ![owner[k]] = @ \cup {o}]
            /\ pending' = [pending EXCEPT ![k] = [from |-> owner[k], item |-> o]]
            /\ UNCHANGED <<current, owner, inst, chan, reader, writer, sv, oneshot, bulk, queue, missed, unheard, natsOut, subscribed>>
<1>1. TypeOK /\ owner[k] \in Client
  BY FanoutAssumption DEF CInv, PersistInsertion, PersistDeletion
<1>2. CASE PersistInsertion(k)
  <2> DEFINE o == <<owner[k], NextOffset(rows, owner[k])>>
  <2>1. o \in Insertion /\ rows' = rows \cup {o} /\ tombs' = tombs
    BY <1>2 DEF PersistInsertion
  <2>2. o \in Item
    BY <2>1 DEF Item
  <2> QED
    BY <1>1, <1>2, <2>1, <2>2 DEF PersistInsertion, TypeOK, connVars, syncVars, histVars, natsVars
<1>3. CASE \E d \in Deletable : PersistDeletion(k, d)
  <2>1. PICK o \in Deletable : PersistDeletion(k, o)
    BY <1>3
  <2>2. o \in Item
    BY DEF Item
  <2>3. /\ reader[k] = "on" /\ pending[k] = NoMsg /\ rows' = rows /\ tombs' = tombs \cup {o}
        /\ doc' = [doc EXCEPT ![owner[k]] = @ \cup {o}]
        /\ pending' = [pending EXCEPT ![k] = [from |-> owner[k], item |-> o]]
        /\ UNCHANGED <<current, owner, inst, chan, reader, writer, sv, oneshot, bulk, queue, missed, unheard, natsOut, subscribed>>
    BY <2>1 DEF PersistDeletion, connVars, syncVars, histVars, natsVars
  <2>4. rows \subseteq Insertion /\ tombs \subseteq Deletable
    BY <1>1 DEF TypeOK
  <2> QED
    BY <1>1, <2>2, <2>3, <2>4
<1> QED
  BY <1>2, <1>3

LEMMA PersistCInv ==
    ASSUME CInv, NEW k \in Conn, PersistInsertion(k) \/ \E d \in Deletable : PersistDeletion(k, d)
    PROVE  CInv'
<1>1. TypeOK /\ ConnInv
  BY DEF CInv
<1>2. PICK o \in Item :
        /\ owner[k] \in Client /\ reader[k] = "on"
        /\ rows' \subseteq Insertion /\ tombs' \subseteq Deletable
        /\ doc' = [doc EXCEPT ![owner[k]] = @ \cup {o}]
        /\ pending' = [pending EXCEPT ![k] = [from |-> owner[k], item |-> o]]
        /\ UNCHANGED <<current, owner, inst, chan, reader, writer, sv, oneshot, bulk, queue, missed, unheard, natsOut, subscribed>>
  BY PersistFacts
<1>3. [from |-> owner[k], item |-> o] \in Message
  BY <1>2, MessageFacts
<1>4. TypeOK'
  BY <1>1, <1>2, <1>3 DEF TypeOK
<1>5. \A j \in Conn : pending'[j] = pending[j] \/ reader[j] = "on"
  BY <1>1, <1>2 DEF TypeOK
<1>6. \A j \in Conn : ConnOK(j)'
  BY <1>1, <1>2, <1>5, ConnFrame DEF ConnInv
<1> QED
  BY <1>4, <1>6 DEF CInv, ConnInv

LEMMA ReleaseFacts ==
    ASSUME TypeOK, NEW k \in Conn, Release(k)
    PROVE  /\ owner' \in [Conn -> Client \cup {None}] /\ inst' \in [Conn -> Instance \cup {None}]
           /\ chan' \in [Conn -> Channel \cup {None}] /\ oneshot' \in [Conn -> {"empty", "full"}]
           /\ \A j \in Conn \ {k} : /\ owner'[j] = owner[j] /\ inst'[j] = inst[j]
                                    /\ chan'[j] = chan[j] /\ oneshot'[j] = oneshot[j]
           /\ Off(k)' => owner'[k] = None /\ inst'[k] = None /\ chan'[k] = None /\ oneshot'[k] = "empty"
           /\ ~Off(k)' => UNCHANGED <<owner, inst, chan, oneshot>>
<1>1. CASE Off(k)'
  <2>1. /\ owner' = [owner EXCEPT ![k] = None] /\ inst' = [inst EXCEPT ![k] = None]
        /\ chan' = [chan EXCEPT ![k] = None] /\ oneshot' = [oneshot EXCEPT ![k] = "empty"]
    BY <1>1 DEF Release, Off
  <2> QED
    BY <1>1, <2>1 DEF TypeOK
<1>2. CASE ~Off(k)'
  <2>1. UNCHANGED <<owner, inst, chan, oneshot>>
    BY <1>2 DEF Release, Off
  <2> QED
    BY <1>2, <2>1 DEF TypeOK
<1> QED
  BY <1>1, <1>2

LEMMA PublishFacts ==
    ASSUME TypeOK, NEW i \in Instance, NEW m \in Message, PublishToNats(i, m),
           NEW y, y = [kind |-> "pub", msg |-> m]
    PROVE  /\ natsOut' \in [Instance -> Seq(Command)]
           /\ \A j \in Instance \ {i} : natsOut'[j] = natsOut[j]
           /\ natsOut'[i] = IF Len(natsOut[i]) < NatsBuffer THEN Append(natsOut[i], y) ELSE natsOut[i]
<1>1. y \in Command
  BY DEF Command
<1>2. natsOut \in [Instance -> Seq(Command)]
  BY DEF TypeOK
<1>3. natsOut' = IF Len(natsOut[i]) < NatsBuffer
                 THEN [natsOut EXCEPT ![i] = Append(@, y)] ELSE natsOut
  BY DEF PublishToNats
<1> QED
  BY <1>1, <1>2, <1>3, AppendAt

\* What a broadcast by k's reader does.
LEMMA BroadcastFacts ==
    ASSUME CInv, NEW k \in Conn, Broadcast(k)
    PROVE  /\ unheard' \in [Conn -> SUBSET Item]
           /\ \A j \in Conn : unheard'[j] =
                IF writer[j] \in {"deletions", "hot"} /\ chan[j] # chan[k] /\ Deaf(j)
                THEN unheard[j] \cup {pending[k].item} ELSE unheard[j]
           /\ pending[k] \in Message /\ reader[k] = "on" /\ inst[k] \in Instance
           /\ PushAll({chan[k]}, pending[k]) /\ PublishToNats(inst[k], pending[k])
           /\ pending' = [pending EXCEPT ![k] = NoMsg]
           /\ reader' \in {reader, [reader EXCEPT ![k] = "off"]}
           /\ UNCHANGED <<doc, current, writer, sv, bulk, missed, rows, tombs, subscribed>>
           /\ Release(k)
<1>1. TypeOK /\ ConnOK(k) /\ pending[k] # NoMsg
  BY DEF CInv, ConnInv, Broadcast
<1>2. pending[k] \in Message /\ reader[k] = "on" /\ inst[k] \in Instance
  BY <1>1 DEF ConnOK, Off, TypeOK
<1>3. unheard' = [j \in Conn |-> IF writer[j] \in {"deletions", "hot"} /\ chan[j] # chan[k] /\ Deaf(j)
                                 THEN unheard[j] \cup {pending[k].item} ELSE unheard[j]]
  BY DEF Broadcast
<1>4. pending[k].item \in Item /\ unheard \in [Conn -> SUBSET Item]
  BY <1>1, <1>2 DEF TypeOK, Message
<1>5. /\ unheard' \in [Conn -> SUBSET Item]
      /\ \A j \in Conn : unheard'[j] =
           IF writer[j] \in {"deletions", "hot"} /\ chan[j] # chan[k] /\ Deaf(j)
           THEN unheard[j] \cup {pending[k].item} ELSE unheard[j]
  BY <1>3, <1>4
<1> QED
  BY <1>2, <1>5 DEF Broadcast, clientVars, dbVars

LEMMA BroadcastCInv ==
    ASSUME CInv, NEW k \in Conn, Broadcast(k)
    PROVE  CInv'
<1>1. TypeOK /\ ConnInv
  BY DEF CInv
<1>2. /\ pending[k] \in Message /\ reader[k] = "on" /\ inst[k] \in Instance
      /\ unheard' \in [Conn -> SUBSET Item]
      /\ PushAll({chan[k]}, pending[k]) /\ PublishToNats(inst[k], pending[k])
      /\ pending' = [pending EXCEPT ![k] = NoMsg]
      /\ reader' \in {reader, [reader EXCEPT ![k] = "off"]}
      /\ UNCHANGED <<doc, current, writer, sv, bulk, missed, rows, tombs, subscribed>>
      /\ Release(k)
  BY BroadcastFacts
<1>3. natsOut' \in [Instance -> Seq(Command)]
  BY <1>1, <1>2, PublishFacts
<1>4. /\ queue' \in [Conn -> Seq(Message)] /\ \A j \in Conn : Len(queue'[j]) <= Capacity
      /\ \A j \in Conn : writer[j] = "off" => queue'[j] = queue[j]
  BY <1>1, <1>2, PushAllFacts
<1>5. /\ owner' \in [Conn -> Client \cup {None}] /\ inst' \in [Conn -> Instance \cup {None}]
      /\ chan' \in [Conn -> Channel \cup {None}] /\ oneshot' \in [Conn -> {"empty", "full"}]
      /\ \A j \in Conn \ {k} : /\ owner'[j] = owner[j] /\ inst'[j] = inst[j]
                               /\ chan'[j] = chan[j] /\ oneshot'[j] = oneshot[j]
      /\ Off(k)' => owner'[k] = None /\ inst'[k] = None /\ chan'[k] = None /\ oneshot'[k] = "empty"
      /\ ~Off(k)' => UNCHANGED <<owner, inst, chan, oneshot>>
  BY <1>1, <1>2, ReleaseFacts
<1>6. /\ reader' \in [Conn -> {"off", "register", "on"}] /\ pending' \in [Conn -> Message \cup {NoMsg}]
      /\ pending'[k] = NoMsg
      /\ \A j \in Conn \ {k} : reader'[j] = reader[j] /\ pending'[j] = pending[j]
  BY <1>1, <1>2 DEF TypeOK
<1>7. TypeOK'
  BY <1>1, <1>2, <1>3, <1>4, <1>5, <1>6 DEF TypeOK
<1>8. ASSUME NEW j \in Conn \ {k} PROVE ConnOK(j)'
  <2>1. ConnOK(j)
    BY <1>1 DEF ConnInv
  <2> QED
    BY <1>2, <1>4, <1>5, <1>6, <2>1, ConnFrame
<1>9. ConnOK(k)'
  <2>1. ConnOK(k)
    BY <1>1 DEF ConnInv
  <2> QED
    BY <1>2, <1>4, <1>5, <1>6, <2>1 DEF ConnOK, Off
<1> QED
  BY <1>7, <1>8, <1>9 DEF CInv, ConnInv

LEMMA ReaderEndsCInv ==
    ASSUME CInv, NEW k \in Conn, ReaderEnds(k)
    PROVE  CInv'
<1>1. TypeOK /\ ConnInv
  BY DEF CInv
<1>2. /\ reader[k] = "on" /\ reader' = [reader EXCEPT ![k] = "off"]
      /\ pending' = [pending EXCEPT ![k] = NoMsg]
      /\ UNCHANGED <<doc, current, writer, sv, bulk, queue, missed, unheard, rows, tombs, natsOut, subscribed>>
      /\ Release(k)
  BY DEF ReaderEnds, clientVars, dbVars, histVars, natsVars
<1>3. /\ owner' \in [Conn -> Client \cup {None}] /\ inst' \in [Conn -> Instance \cup {None}]
      /\ chan' \in [Conn -> Channel \cup {None}] /\ oneshot' \in [Conn -> {"empty", "full"}]
      /\ \A j \in Conn \ {k} : /\ owner'[j] = owner[j] /\ inst'[j] = inst[j]
                               /\ chan'[j] = chan[j] /\ oneshot'[j] = oneshot[j]
      /\ Off(k)' => owner'[k] = None /\ inst'[k] = None /\ chan'[k] = None /\ oneshot'[k] = "empty"
      /\ ~Off(k)' => UNCHANGED <<owner, inst, chan, oneshot>>
  BY <1>1, <1>2, ReleaseFacts
<1>4. /\ reader' \in [Conn -> {"off", "register", "on"}] /\ pending' \in [Conn -> Message \cup {NoMsg}]
      /\ pending'[k] = NoMsg
      /\ \A j \in Conn \ {k} : reader'[j] = reader[j] /\ pending'[j] = pending[j]
  BY <1>1, <1>2 DEF TypeOK
<1>5. TypeOK'
  BY <1>1, <1>2, <1>3, <1>4 DEF TypeOK
<1>6. ASSUME NEW j \in Conn \ {k} PROVE ConnOK(j)'
  <2>1. ConnOK(j)
    BY <1>1 DEF ConnInv
  <2> QED
    BY <1>2, <1>3, <1>4, <2>1, ConnFrame
<1>7. ConnOK(k)'
  <2>1. ConnOK(k)
    BY <1>1 DEF ConnInv
  <2> QED
    BY <1>2, <1>3, <1>4, <2>1 DEF ConnOK, Off
<1> QED
  BY <1>5, <1>6, <1>7 DEF CInv, ConnInv

\* A client has what it is sent, if it is still there.
LEMMA TransmitFacts ==
    ASSUME CInv, NEW k \in Conn, ~Off(k), NEW I \in SUBSET Item, Transmit(k, I)
    PROVE  /\ doc' \in [Client -> SUBSET Item]
           /\ \A c \in Client : doc[c] \subseteq doc'[c]
           /\ \A c \in Client : current[c] = k => I \subseteq doc'[c]
<1>1. doc \in [Client -> SUBSET Item] /\ owner[k] \in Client
      /\ \A c \in Client : current[c] = k => owner[k] = c
  BY DEF CInv, TypeOK, ConnInv, ConnOK
<1> HIDE DEF Item
<1> QED
  BY <1>1 DEF Transmit

LEMMA ReadOperationsCInv ==
    ASSUME CInv, NEW k \in Conn, ReadOperations(k)
    PROVE  CInv'
<1>1. TypeOK /\ ConnInv
  BY DEF CInv
<1>2. ReadOperationsAfter(sv[k]) \subseteq Item /\ [c \in Client |-> 0] \in [Client -> 0 .. MaxOps]
  BY <1>1, FanoutAssumption DEF ReadOperationsAfter, TypeOK, Item
<1>3. TypeOK'
  BY <1>1, <1>2 DEF ReadOperations, TypeOK, clientVars, connVars, dbVars, histVars, natsVars
<1>4. /\ \A j \in Conn \ {k} : writer'[j] = writer[j] /\ bulk'[j] = bulk[j]
      /\ writer[k] = "await" /\ writer'[k] = "deletions"
      /\ UNCHANGED <<current, owner, inst, chan, reader, oneshot, queue, pending, missed, unheard>>
  BY <1>1 DEF ReadOperations, TypeOK, clientVars, connVars, histVars
<1>5. ASSUME NEW j \in Conn PROVE ConnOK(j)'
  <2>1. ConnOK(j)
    BY <1>1 DEF ConnInv
  <2>2. CASE j = k
    BY <1>4, <2>1, <2>2 DEF ConnOK, Off
  <2>3. CASE j # k
    BY <1>4, <2>1, <2>3, ConnFrame
  <2> QED
    BY <2>2, <2>3
<1> QED
  BY <1>3, <1>5 DEF CInv, ConnInv

LEMMA SendSyncStepTwoCInv ==
    ASSUME CInv, NEW k \in Conn, SendSyncStepTwo(k)
    PROVE  CInv'
<1>1. TypeOK /\ ConnInv
  BY DEF CInv
<1>2. bulk[k] \cup ReadDocDeletionSet \in SUBSET Item /\ ~Off(k)
  BY <1>1 DEF SendSyncStepTwo, Off, ReadDocDeletionSet, TypeOK, Item
<1>3. doc' \in [Client -> SUBSET Item]
  BY <1>2, TransmitFacts DEF SendSyncStepTwo
<1>4. TypeOK'
  BY <1>1, <1>3 DEF SendSyncStepTwo, TypeOK, connVars, syncVars, dbVars, histVars, natsVars
<1>5. /\ \A j \in Conn \ {k} : writer'[j] = writer[j] /\ bulk'[j] = bulk[j]
      /\ writer[k] = "deletions" /\ writer'[k] = "hot"
      /\ UNCHANGED <<current, owner, inst, chan, reader, oneshot, queue, pending, missed, unheard>>
  BY <1>1 DEF SendSyncStepTwo, TypeOK, connVars, syncVars, histVars
<1>6. ASSUME NEW j \in Conn PROVE ConnOK(j)'
  <2>1. ConnOK(j)
    BY <1>1 DEF ConnInv
  <2>2. CASE j = k
    BY <1>5, <2>1, <2>2 DEF ConnOK, Off
  <2>3. CASE j # k
    BY <1>5, <2>1, <2>3, ConnFrame
  <2> QED
    BY <2>2, <2>3
<1> QED
  BY <1>4, <1>6 DEF CInv, ConnInv

LEMMA ForwardFacts ==
    ASSUME CInv, NEW k \in Conn, Forward(k)
    PROVE  /\ writer[k] = "hot" /\ queue[k] \in Seq(Message) /\ queue[k] # <<>>
           /\ Head(queue[k]) \in Message
           /\ doc' \in [Client -> SUBSET Item]
           /\ \A c \in Client : doc[c] \subseteq doc'[c]
           /\ \A c \in Client : current[c] = k /\ Head(queue[k]).from # c => Head(queue[k]).item \in doc'[c]
           /\ queue' = [queue EXCEPT ![k] = Tail(@)]
           /\ UNCHANGED <<current, owner, inst, chan, reader, writer, sv, oneshot, bulk, pending, missed, unheard, rows, tombs, natsOut, subscribed>>
<1>1. TypeOK /\ writer[k] = "hot" /\ ~Off(k) /\ queue[k] \in Seq(Message) /\ queue[k] # <<>>
  BY DEF CInv, TypeOK, Forward, Off
<1>2. Head(queue[k]) \in Message
  BY <1>1
<1>3. {Head(queue[k]).item} \in SUBSET Item
  BY <1>2 DEF Message
<1>4. /\ doc' \in [Client -> SUBSET Item]
      /\ \A c \in Client : doc[c] \subseteq doc'[c]
      /\ Head(queue[k]).from # owner[k] => \A c \in Client : current[c] = k => Head(queue[k]).item \in doc'[c]
  <2>1. CASE Head(queue[k]).from # owner[k]
    <3>1. Transmit(k, {Head(queue[k]).item})
      BY <2>1 DEF Forward
    <3> QED
      BY <1>1, <1>3, <3>1, TransmitFacts
  <2>2. CASE Head(queue[k]).from = owner[k]
    BY <1>1, <2>2 DEF Forward, TypeOK
  <2> QED
    BY <2>1, <2>2
<1>5. \A c \in Client : current[c] = k => owner[k] = c
  BY <1>1 DEF CInv, ConnInv, ConnOK
<1> QED
  BY <1>1, <1>2, <1>4, <1>5 DEF Forward, connVars, syncVars, dbVars, histVars, natsVars

LEMMA ForwardCInv ==
    ASSUME CInv, NEW k \in Conn, Forward(k)
    PROVE  CInv'
<1>1. TypeOK /\ ConnInv
  BY DEF CInv
<1>2. /\ writer[k] = "hot" /\ queue[k] \in Seq(Message) /\ queue[k] # <<>>
      /\ doc' \in [Client -> SUBSET Item] /\ queue' = [queue EXCEPT ![k] = Tail(@)]
      /\ UNCHANGED <<current, owner, inst, chan, reader, writer, sv, oneshot, bulk, pending, missed, unheard, rows, tombs, natsOut, subscribed>>
  BY ForwardFacts
<1>3. Tail(queue[k]) \in Seq(Message) /\ Len(Tail(queue[k])) <= Capacity
  <2>1. Len(queue[k]) <= Capacity /\ Capacity \in Nat
    BY <1>1, FanoutAssumption DEF TypeOK
  <2>2. Tail(queue[k]) \in Seq(Message) /\ Len(Tail(queue[k])) = Len(queue[k]) - 1 /\ Len(queue[k]) \in Nat
    BY <1>2
  <2> QED
    BY <2>1, <2>2
<1>4. /\ queue' \in [Conn -> Seq(Message)] /\ \A j \in Conn : Len(queue'[j]) <= Capacity
      /\ \A j \in Conn \ {k} : queue'[j] = queue[j]
  BY <1>1, <1>2, <1>3 DEF TypeOK
<1>5. TypeOK'
  BY <1>1, <1>2, <1>4 DEF TypeOK
<1>6. ASSUME NEW j \in Conn PROVE ConnOK(j)'
  <2>1. ConnOK(j)
    BY <1>1 DEF ConnInv
  <2> QED
    BY <1>2, <1>4, <2>1, ConnFrame
<1> QED
  BY <1>5, <1>6 DEF CInv, ConnInv

LEMMA WriterEndsCInv ==
    ASSUME CInv, NEW k \in Conn, WriterEnds(k)
    PROVE  CInv'
<1>1. TypeOK /\ ConnInv
  BY DEF CInv
<1>2. /\ writer[k] \notin {"off", "register"} /\ writer' = [writer EXCEPT ![k] = "off"]
      /\ queue' = [queue EXCEPT ![k] = <<>>] /\ sv' = [sv EXCEPT ![k] = [c \in Client |-> 0]]
      /\ bulk' = [bulk EXCEPT ![k] = {}] /\ missed' = [missed EXCEPT ![k] = {}]
      /\ unheard' = [unheard EXCEPT ![k] = {}]
      /\ UNCHANGED <<doc, current, reader, pending, rows, tombs>>
      /\ DropChannels(natsOut) /\ Release(k)
  BY DEF WriterEnds, clientVars, dbVars, histVars
<1>3. /\ owner' \in [Conn -> Client \cup {None}] /\ inst' \in [Conn -> Instance \cup {None}]
      /\ chan' \in [Conn -> Channel \cup {None}] /\ oneshot' \in [Conn -> {"empty", "full"}]
      /\ \A j \in Conn \ {k} : /\ owner'[j] = owner[j] /\ inst'[j] = inst[j]
                               /\ chan'[j] = chan[j] /\ oneshot'[j] = oneshot[j]
      /\ Off(k)' => owner'[k] = None /\ inst'[k] = None /\ chan'[k] = None /\ oneshot'[k] = "empty"
      /\ ~Off(k)' => UNCHANGED <<owner, inst, chan, oneshot>>
  BY <1>1, <1>2, ReleaseFacts
<1>4. natsOut' \in [Instance -> Seq(Command)] /\ subscribed' \subseteq subscribed
  <2>1. natsOut \in [Instance -> Seq(Command)]
    BY <1>1 DEF TypeOK
  <2> QED
    BY <1>2, <2>1, DropFacts
<1>5. /\ queue' \in [Conn -> Seq(Message)] /\ queue'[k] = <<>>
      /\ \A j \in Conn : Len(queue'[j]) <= Capacity
      /\ sv' \in [Conn -> [Client -> 0 .. MaxOps]]
  <2>1. queue' \in [Conn -> Seq(Message)] /\ queue'[k] = <<>>
        /\ \A j \in Conn \ {k} : queue'[j] = queue[j]
    BY <1>1, <1>2 DEF TypeOK
  <2>2. Len(<<>>) = 0 /\ 0 <= Capacity
    BY FanoutAssumption
  <2>3. [c \in Client |-> 0] \in [Client -> 0 .. MaxOps]
    BY FanoutAssumption
  <2>4. sv' \in [Conn -> [Client -> 0 .. MaxOps]]
    BY <1>1, <1>2, <2>3 DEF TypeOK
  <2> QED
    BY <1>1, <2>1, <2>2, <2>4 DEF TypeOK
<1>6. TypeOK'
  BY <1>1, <1>2, <1>3, <1>4, <1>5 DEF TypeOK
<1>7. ASSUME NEW j \in Conn \ {k} PROVE ConnOK(j)'
  <2>1. ConnOK(j)
    BY <1>1 DEF ConnInv
  <2>2. writer'[j] = writer[j] /\ queue'[j] = queue[j] /\ bulk'[j] = bulk[j] /\ missed'[j] = missed[j]
    BY <1>1, <1>2 DEF TypeOK
  <2> QED
    BY <1>2, <1>3, <2>1, <2>2, ConnFrame
<1>8. ConnOK(k)'
  <2>1. ConnOK(k)
    BY <1>1 DEF ConnInv
  <2>2. writer'[k] = "off" /\ bulk'[k] = {} /\ missed'[k] = {}
    BY <1>1, <1>2 DEF TypeOK
  <2> QED
    BY <1>2, <1>3, <1>5, <2>1, <2>2 DEF ConnOK, Off
<1> QED
  BY <1>6, <1>7, <1>8 DEF CInv, ConnInv

LEMMA DeliverFacts ==
    ASSUME CInv, NEW i \in Instance, NatsDelivers(i), NEW x, x = Head(natsOut[i])
    PROVE  /\ natsOut[i] \in Seq(Command) /\ natsOut[i] # <<>> /\ x \in Command
           /\ natsOut' = [natsOut EXCEPT ![i] = Tail(@)]
           /\ \/ /\ x.kind = "sub" /\ x.chan \in Channel
                 /\ subscribed' = subscribed \cup {x.chan} /\ queue' = queue
              \/ /\ x.kind = "pub" /\ x.msg \in Message
                 /\ PushAll(subscribed, x.msg)
                 /\ subscribed' = {ch \in subscribed : Receivers(ch) # {}}
           /\ UNCHANGED <<doc, current, owner, inst, chan, reader, writer, sv, oneshot, bulk, pending, missed, unheard, rows, tombs>>
<1>1. natsOut[i] \in Seq(Command) /\ natsOut[i] # <<>> /\ x \in Command
  <2>1. natsOut[i] \in Seq(Command) /\ natsOut[i] # <<>>
    BY DEF CInv, TypeOK, NatsDelivers
  <2> HIDE DEF Command
  <2> QED
    BY <2>1
<1>2. /\ x.kind = "sub" => x.chan \in Channel
      /\ x.kind = "pub" => x.msg \in Message
  BY <1>1 DEF Command
<1> QED
  BY <1>1, <1>2 DEF NatsDelivers, clientVars, connVars, syncVars, dbVars, histVars

LEMMA NatsDeliversCInv ==
    ASSUME CInv, NEW i \in Instance, NatsDelivers(i)
    PROVE  CInv'
<1> DEFINE x == Head(natsOut[i])
<1>1. TypeOK /\ ConnInv
  BY DEF CInv
<1>2. /\ natsOut[i] \in Seq(Command) /\ natsOut[i] # <<>> /\ x \in Command
      /\ natsOut' = [natsOut EXCEPT ![i] = Tail(@)]
      /\ \/ /\ x.kind = "sub" /\ x.chan \in Channel
            /\ subscribed' = subscribed \cup {x.chan} /\ queue' = queue
         \/ /\ x.kind = "pub" /\ x.msg \in Message
            /\ PushAll(subscribed, x.msg)
            /\ subscribed' = {ch \in subscribed : Receivers(ch) # {}}
      /\ UNCHANGED <<doc, current, owner, inst, chan, reader, writer, sv, oneshot, bulk, pending, missed, unheard, rows, tombs>>
  <2> HIDE DEF x
  <2> QED
    BY DeliverFacts DEF x
<1> HIDE DEF x
<1>3. natsOut' \in [Instance -> Seq(Command)]
  <2> HIDE DEF Command
  <2>1. Tail(natsOut[i]) \in Seq(Command)
    BY <1>2
  <2> QED
    BY <1>1, <1>2, <2>1 DEF TypeOK
<1>4. /\ queue' \in [Conn -> Seq(Message)] /\ \A j \in Conn : Len(queue'[j]) <= Capacity
      /\ \A j \in Conn : writer[j] = "off" => queue'[j] = queue[j]
  <2>1. CASE queue' = queue
    BY <1>1, <2>1 DEF TypeOK
  <2>2. CASE x.msg \in Message /\ PushAll(subscribed, x.msg)
    BY <1>1, <2>2, PushAllFacts
  <2> QED
    BY <1>2, <2>1, <2>2
<1>5. subscribed' \subseteq Channel
  BY <1>1, <1>2 DEF TypeOK
<1>6. TypeOK'
  BY <1>1, <1>2, <1>3, <1>4, <1>5 DEF TypeOK
<1>7. ASSUME NEW j \in Conn PROVE ConnOK(j)'
  <2>1. ConnOK(j)
    BY <1>1 DEF ConnInv
  <2> QED
    BY <1>2, <1>4, <2>1, ConnFrame
<1> QED
  BY <1>6, <1>7 DEF CInv, ConnInv

\* The connections of the instance that dies are off, the others as before.
LEMMA CrashFacts ==
    ASSUME CInv, NEW i \in Instance, Crash(i)
    PROVE  /\ reader' \in [Conn -> {"off", "register", "on"}]
           /\ writer' \in [Conn -> {"off", "register", "await", "deletions", "hot"}]
           /\ owner' \in [Conn -> Client \cup {None}] /\ inst' \in [Conn -> Instance \cup {None}]
           /\ chan' \in [Conn -> Channel \cup {None}] /\ oneshot' \in [Conn -> {"empty", "full"}]
           /\ sv' \in [Conn -> [Client -> 0 .. MaxOps]]
           /\ bulk' \in [Conn -> SUBSET Item] /\ missed' \in [Conn -> SUBSET Item] /\ unheard' \in [Conn -> SUBSET Item]
           /\ queue' \in [Conn -> Seq(Message)] /\ \A k \in Conn : Len(queue'[k]) <= Capacity
           /\ pending' \in [Conn -> Message \cup {NoMsg}]
           /\ \A k \in Conn : inst[k] = i =>
                /\ reader'[k] = "off" /\ writer'[k] = "off" /\ owner'[k] = None
                /\ inst'[k] = None /\ chan'[k] = None /\ oneshot'[k] = "empty"
                /\ bulk'[k] = {} /\ missed'[k] = {} /\ queue'[k] = <<>> /\ pending'[k] = NoMsg
           /\ \A k \in Conn : inst[k] # i =>
                /\ reader'[k] = reader[k] /\ writer'[k] = writer[k] /\ owner'[k] = owner[k]
                /\ inst'[k] = inst[k] /\ chan'[k] = chan[k] /\ oneshot'[k] = oneshot[k]
                /\ bulk'[k] = bulk[k] /\ missed'[k] = missed[k] /\ unheard'[k] = unheard[k] /\ queue'[k] = queue[k]
                /\ pending'[k] = pending[k] /\ sv'[k] = sv[k]
           /\ DropChannels([natsOut EXCEPT ![i] = <<>>])
           /\ UNCHANGED <<doc, current, rows, tombs>>
<1> DEFINE here == {k \in Conn : inst[k] = i}
           zero == [c \in Client |-> 0]
<1>1. TypeOK
  BY DEF CInv
<1>2. zero \in [Client -> 0 .. MaxOps]
  BY FanoutAssumption
<1>3. <<>> \in Seq(Message) /\ Len(<<>>) = 0 /\ 0 <= Capacity
  BY FanoutAssumption
<1>4. /\ reader' = [k \in Conn |-> IF k \in here THEN "off" ELSE reader[k]]
      /\ writer' = [k \in Conn |-> IF k \in here THEN "off" ELSE writer[k]]
      /\ owner' = [k \in Conn |-> IF k \in here THEN None ELSE owner[k]]
      /\ inst' = [k \in Conn |-> IF k \in here THEN None ELSE inst[k]]
      /\ chan' = [k \in Conn |-> IF k \in here THEN None ELSE chan[k]]
      /\ oneshot' = [k \in Conn |-> IF k \in here THEN "empty" ELSE oneshot[k]]
      /\ sv' = [k \in Conn |-> IF k \in here THEN zero ELSE sv[k]]
      /\ bulk' = [k \in Conn |-> IF k \in here THEN {} ELSE bulk[k]]
      /\ missed' = [k \in Conn |-> IF k \in here THEN {} ELSE missed[k]]
      /\ unheard' = [k \in Conn |-> IF k \in here THEN {} ELSE unheard[k]]
      /\ queue' = [k \in Conn |-> IF k \in here THEN <<>> ELSE queue[k]]
      /\ pending' = [k \in Conn |-> IF k \in here THEN NoMsg ELSE pending[k]]
      /\ DropChannels([natsOut EXCEPT ![i] = <<>>])
      /\ UNCHANGED <<doc, current, rows, tombs>>
  BY DEF Crash, clientVars, dbVars, histVars
<1>5. \A k \in Conn : k \in here <=> inst[k] = i
  OBVIOUS
<1> HIDE DEF here, zero
<1>6. /\ reader' \in [Conn -> {"off", "register", "on"}]
      /\ writer' \in [Conn -> {"off", "register", "await", "deletions", "hot"}]
      /\ owner' \in [Conn -> Client \cup {None}] /\ inst' \in [Conn -> Instance \cup {None}]
      /\ chan' \in [Conn -> Channel \cup {None}] /\ oneshot' \in [Conn -> {"empty", "full"}]
      /\ bulk' \in [Conn -> SUBSET Item] /\ missed' \in [Conn -> SUBSET Item] /\ unheard' \in [Conn -> SUBSET Item]
      /\ pending' \in [Conn -> Message \cup {NoMsg}]
  BY <1>1, <1>4 DEF TypeOK
<1>7. /\ sv' \in [Conn -> [Client -> 0 .. MaxOps]]
      /\ queue' \in [Conn -> Seq(Message)] /\ \A k \in Conn : Len(queue'[k]) <= Capacity
  BY <1>1, <1>2, <1>3, <1>4 DEF TypeOK
<1> QED
  BY <1>4, <1>5, <1>6, <1>7

LEMMA CrashCInv ==
    ASSUME CInv, NEW i \in Instance, Crash(i)
    PROVE  CInv'
<1>1. TypeOK /\ ConnInv
  BY DEF CInv
<1> DEFINE out == [natsOut EXCEPT ![i] = <<>>]
<1>2. out \in [Instance -> Seq(Command)] /\ DropChannels(out)
  <2>1. natsOut \in [Instance -> Seq(Command)] /\ <<>> \in Seq(Command)
    BY <1>1 DEF TypeOK
  <2>2. DropChannels(out)
    BY DEF Crash
  <2> HIDE DEF Command
  <2>3. out \in [Instance -> Seq(Command)]
    BY <2>1
  <2> QED
    BY <2>2, <2>3
<1>3. natsOut' \in [Instance -> Seq(Command)] /\ subscribed' \subseteq subscribed
  <2> HIDE DEF out
  <2> QED
    BY <1>2, DropFacts
<1>4. /\ reader' \in [Conn -> {"off", "register", "on"}]
      /\ writer' \in [Conn -> {"off", "register", "await", "deletions", "hot"}]
      /\ owner' \in [Conn -> Client \cup {None}] /\ inst' \in [Conn -> Instance \cup {None}]
      /\ chan' \in [Conn -> Channel \cup {None}] /\ oneshot' \in [Conn -> {"empty", "full"}]
      /\ sv' \in [Conn -> [Client -> 0 .. MaxOps]]
      /\ bulk' \in [Conn -> SUBSET Item] /\ missed' \in [Conn -> SUBSET Item] /\ unheard' \in [Conn -> SUBSET Item]
      /\ queue' \in [Conn -> Seq(Message)] /\ \A k \in Conn : Len(queue'[k]) <= Capacity
      /\ pending' \in [Conn -> Message \cup {NoMsg}]
      /\ \A k \in Conn : inst[k] = i =>
           /\ reader'[k] = "off" /\ writer'[k] = "off" /\ owner'[k] = None
           /\ inst'[k] = None /\ chan'[k] = None /\ oneshot'[k] = "empty"
           /\ bulk'[k] = {} /\ missed'[k] = {} /\ queue'[k] = <<>> /\ pending'[k] = NoMsg
      /\ \A k \in Conn : inst[k] # i =>
           /\ reader'[k] = reader[k] /\ writer'[k] = writer[k] /\ owner'[k] = owner[k]
           /\ inst'[k] = inst[k] /\ chan'[k] = chan[k] /\ oneshot'[k] = oneshot[k]
           /\ bulk'[k] = bulk[k] /\ missed'[k] = missed[k] /\ unheard'[k] = unheard[k] /\ queue'[k] = queue[k]
           /\ pending'[k] = pending[k] /\ sv'[k] = sv[k]
      /\ DropChannels([natsOut EXCEPT ![i] = <<>>])
      /\ UNCHANGED <<doc, current, rows, tombs>>
  BY CrashFacts
<1>5. TypeOK'
  BY <1>1, <1>3, <1>4 DEF TypeOK
<1>6. ASSUME NEW k \in Conn PROVE ConnOK(k)'
  <2>1. ConnOK(k) /\ current' = current
    BY <1>1, <1>4 DEF ConnInv
  <2>2. CASE inst[k] = i
    BY <1>4, <2>1, <2>2 DEF ConnOK, Off
  <2>3. CASE inst[k] # i
    BY <1>4, <2>1, <2>3, ConnFrame
  <2> QED
    BY <2>2, <2>3
<1> QED
  BY <1>5, <1>6 DEF CInv, ConnInv

LEMMA InitCInv == Init => CInv
<1> SUFFICES ASSUME Init PROVE TypeOK /\ ConnInv
  BY DEF CInv
<1>1. MaxOps \in Nat /\ Capacity \in Nat
  BY FanoutAssumption
<1>2. /\ doc \in [Client -> SUBSET Item] /\ bulk \in [Conn -> SUBSET Item] /\ missed \in [Conn -> SUBSET Item]
      /\ unheard \in [Conn -> SUBSET Item]
      /\ rows \subseteq Insertion /\ tombs \subseteq Deletable /\ subscribed \subseteq Channel
  BY DEF Init
<1>3. /\ queue \in [Conn -> Seq(Message)] /\ natsOut \in [Instance -> Seq(Command)]
      /\ \A k \in Conn : Len(queue[k]) <= Capacity
  <2> HIDE DEF Message, Command
  <2> QED
    BY <1>1 DEF Init
<1>4. sv \in [Conn -> [Client -> 0 .. MaxOps]]
  BY <1>1 DEF Init
<1>5. TypeOK
  BY <1>2, <1>3, <1>4 DEF Init, TypeOK
<1>6. ConnInv
  BY FanoutAssumption DEF Init, ConnInv, ConnOK, Off
<1> QED
  BY <1>5, <1>6

LEMMA NextCInv == CInv /\ [Next]_vars => CInv'
<1> SUFFICES ASSUME CInv, [Next]_vars PROVE CInv'
  OBVIOUS
<1>1. ASSUME NEW c \in Client, NEW k \in Conn, NEW i \in Instance, Connect(c, k, i) PROVE CInv'
  BY <1>1, ConnectCInv
<1>2. ASSUME NEW c \in Client, Disconnect(c) PROVE CInv'
  BY <1>2, DisconnectCInv
<1>3. ASSUME NEW k \in Conn, PersistInsertion(k) \/ \E d \in Deletable : PersistDeletion(k, d) PROVE CInv'
  BY <1>3, PersistCInv
<1>4. ASSUME NEW k \in Conn, ServerStep(k) PROVE CInv'
  BY <1>4, RegisterCInv, ForwardSyncStepOneCInv, BroadcastCInv, ReadOperationsCInv, SendSyncStepTwoCInv, ForwardCInv
     DEF ServerStep
<1>5. ASSUME NEW k \in Conn, ReaderEnds(k) \/ WriterEnds(k) PROVE CInv'
  BY <1>5, ReaderEndsCInv, WriterEndsCInv
<1>6. ASSUME NEW i \in Instance, NatsDelivers(i) \/ Crash(i) PROVE CInv'
  BY <1>6, NatsDeliversCInv, CrashCInv
<1>7. CASE UNCHANGED vars
  BY <1>7 DEF CInv, TypeOK, ConnInv, ConnOK, Off, vars, clientVars, connVars, syncVars, dbVars, histVars, natsVars
<1> QED
  BY <1>1, <1>2, <1>3, <1>4, <1>5, <1>6, <1>7 DEF Next

\* Whatever fails, every variable keeps its type, and no receiver is further
\* behind than the ring buffer of its broadcast channel is long.
THEOREM FanoutTypeCorrectness == Spec => []TypeOK
<1>1. CInv => TypeOK
  BY DEF CInv
<1> QED
  BY <1>1, InitCInv, NextCInv, PTL DEF Spec

-----------------------------------------------------------------------------
(* The handshake.                                                          *)

LEMMA SyncFrame ==
    ASSUME NEW c \in Client, NEW k \in Conn, SyncOK(c, k), doc[c] \subseteq doc'[c],
           rows \subseteq rows', tombs \subseteq tombs', writer'[k] = writer[k],
           sv'[k] = sv[k], missed'[k] = missed[k], bulk'[k] = bulk[k]
    PROVE  SyncOK(c, k)'
BY DEF SyncOK, Persisted

\* A step that leaves the connections' handshakes alone.
LEMMA SyncFrames ==
    ASSUME FInv, UNCHANGED <<writer, sv, missed, bulk>>,
           \A c \in Client : doc[c] \subseteq doc'[c], rows \subseteq rows', tombs \subseteq tombs',
           \A c \in Client, k \in Conn : current'[c] = k => current[c] = k
    PROVE  SyncInv'
<1> SUFFICES ASSUME NEW c \in Client, NEW k \in Conn, current'[c] = k
             PROVE  SyncOK(c, k)'
  BY DEF SyncInv
<1>1. SyncOK(c, k)
  BY DEF FInv, SyncInv
<1> QED
  BY <1>1, SyncFrame

\* A document that has a hole asks for what is behind it as well: what it
\* lacks in the operations table is not below the offsets it reports.
LEMMA ConnectSync ==
    ASSUME FInv, NEW c \in Client, NEW k \in Conn, NEW i \in Instance, Connect(c, k, i)
    PROVE  SyncInv'
<1>1. TypeOK /\ SyncInv
  BY DEF FInv, CInv
<1>2. /\ current' = [current EXCEPT ![c] = k] /\ writer' = [writer EXCEPT ![k] = "register"]
      /\ sv' = [sv EXCEPT ![k] = StateVector(doc[c])]
      /\ missed' = [missed EXCEPT ![k] = Persisted \ doc[c]]
      /\ UNCHANGED <<doc, bulk, rows, tombs>> /\ \A d \in Client : current[d] # k
  BY DEF Connect, dbVars, histVars
<1>3. \A e \in Client : \A n \in 0 .. StateVector(doc[c])[e] - 1 : <<e, n>> \in doc[c]
  BY VectorFacts
<1> SUFFICES ASSUME NEW d \in Client, NEW j \in Conn, current'[d] = j
             PROVE  SyncOK(d, j)'
  BY DEF SyncInv
<1>4. CASE j = k
  <2>1. d = c
    BY <1>1, <1>2, <1>4 DEF TypeOK
  <2>2. /\ writer'[k] = "register" /\ sv'[k] = StateVector(doc[c])
        /\ missed'[k] = Persisted \ doc[c] /\ Persisted' = Persisted /\ doc' = doc
    BY <1>1, <1>2 DEF TypeOK, Persisted
  <2> QED
    BY <1>3, <1>4, <2>1, <2>2 DEF SyncOK
<1>5. CASE j # k
  <2>1. current[d] = j
    BY <1>1, <1>2, <1>5 DEF TypeOK
  <2>2. SyncOK(d, j) /\ writer'[j] = writer[j] /\ sv'[j] = sv[j] /\ missed'[j] = missed[j]
    BY <1>1, <1>2, <1>5, <2>1 DEF SyncInv, TypeOK
  <2> QED
    BY <1>2, <2>2, SyncFrame
<1> QED
  BY <1>4, <1>5

LEMMA RegisterSync ==
    ASSUME FInv, NEW k \in Conn, Register(k)
    PROVE  SyncInv'
<1>1. TypeOK /\ SyncInv
  BY DEF FInv, CInv
<1>2. /\ writer[k] = "register" /\ writer' = [writer EXCEPT ![k] = "await"]
      /\ UNCHANGED <<doc, current, sv, bulk, missed, rows, tombs>>
  BY DEF Register, clientVars, syncVars, dbVars, histVars
<1> SUFFICES ASSUME NEW c \in Client, NEW j \in Conn, current'[c] = j
             PROVE  SyncOK(c, j)'
  BY DEF SyncInv
<1>3. SyncOK(c, j)
  BY <1>1, <1>2 DEF SyncInv
<1>4. IF j = k THEN writer'[j] = "await" ELSE writer'[j] = writer[j]
  BY <1>1, <1>2 DEF TypeOK
<1> QED
  BY <1>2, <1>3, <1>4 DEF SyncOK, Persisted

\* The first query has what the document lacks of the operations table.
LEMMA ReadFacts ==
    ASSUME TypeOK, SyncInv, NEW c \in Client, NEW k \in Conn, current[c] = k, writer[k] = "await"
    PROVE  \A o \in rows : o \in doc[c] \/ o \in ReadOperationsAfter(sv[k])
<1> SUFFICES ASSUME NEW o \in rows, o \notin doc[c]
             PROVE  o \in ReadOperationsAfter(sv[k])
  OBVIOUS
<1>1. \A e \in Client : \A n \in 0 .. sv[k][e] - 1 : <<e, n>> \in doc[c]
  BY DEF SyncInv, SyncOK
<1>2. PICK e \in Client, n \in 0 .. MaxOps - 1 : o = <<e, n>>
  BY DEF TypeOK, Insertion
<1>3. sv[k][e] \in 0 .. MaxOps /\ MaxOps \in Nat
  BY FanoutAssumption DEF TypeOK
<1>4. ~(n \in 0 .. sv[k][e] - 1)
  BY <1>1, <1>2
<1>5. n >= sv[k][e]
  BY <1>3, <1>4
<1>6. o[1] = e /\ o[2] = n
  BY <1>2
<1> QED
  BY <1>5, <1>6 DEF ReadOperationsAfter

LEMMA ReadOperationsSync ==
    ASSUME FInv, NEW k \in Conn, ReadOperations(k)
    PROVE  SyncInv'
<1>1. TypeOK /\ SyncInv
  BY DEF FInv, CInv
<1>2. /\ writer[k] = "await" /\ writer' = [writer EXCEPT ![k] = "deletions"]
      /\ bulk' = [bulk EXCEPT ![k] = ReadOperationsAfter(sv[k])]
      /\ sv' = [sv EXCEPT ![k] = [c \in Client |-> 0]]
      /\ UNCHANGED <<doc, current, missed, unheard, rows, tombs>>
  BY DEF ReadOperations, clientVars, dbVars, histVars
<1> SUFFICES ASSUME NEW d \in Client, NEW j \in Conn, current[d] = j
             PROVE  SyncOK(d, j)'
  BY <1>2 DEF SyncInv
<1>3. SyncOK(d, j)
  BY <1>1 DEF SyncInv
<1>4. CASE j = k
  <2>1. missed[k] \subseteq rows \cup tombs
    BY <1>3, <1>4 DEF SyncOK, Persisted
  <2>2. \A o \in rows : o \in doc[d] \/ o \in ReadOperationsAfter(sv[k])
    BY <1>1, <1>2, <1>4, ReadFacts
  <2>3. /\ writer'[k] = "deletions" /\ bulk'[k] = ReadOperationsAfter(sv[k])
        /\ missed'[k] = missed[k] /\ Persisted' = Persisted
    BY <1>1, <1>2 DEF TypeOK, Persisted
  <2>4. missed[k] \subseteq doc[d] \cup ReadOperationsAfter(sv[k]) \cup tombs
    BY <2>1, <2>2
  <2> QED
    BY <1>2, <1>3, <1>4, <2>3, <2>4 DEF SyncOK
<1>5. CASE j # k
  <2>1. writer'[j] = writer[j] /\ sv'[j] = sv[j] /\ bulk'[j] = bulk[j]
    BY <1>1, <1>2, <1>5 DEF TypeOK
  <2> QED
    BY <1>2, <1>3, <2>1, SyncFrame
<1> QED
  BY <1>4, <1>5

\* The sync step two has it, and the deletions of the second query.
LEMMA SendSyncStepTwoSync ==
    ASSUME FInv, NEW k \in Conn, SendSyncStepTwo(k)
    PROVE  SyncInv'
<1>1. CInv /\ TypeOK /\ SyncInv
  BY DEF FInv, CInv
<1>2. /\ writer[k] = "deletions" /\ writer' = [writer EXCEPT ![k] = "hot"]
      /\ bulk' = [bulk EXCEPT ![k] = {}] /\ Transmit(k, bulk[k] \cup tombs)
      /\ UNCHANGED <<current, sv, missed, unheard, rows, tombs>>
  BY DEF SendSyncStepTwo, ReadDocDeletionSet, syncVars, dbVars, histVars
<1>3. bulk[k] \cup tombs \in SUBSET Item /\ ~Off(k)
  BY <1>1, <1>2 DEF TypeOK, Item, Off
<1>4. /\ \A c \in Client : doc[c] \subseteq doc'[c]
      /\ \A c \in Client : current[c] = k => bulk[k] \cup tombs \subseteq doc'[c]
  <2> DEFINE I == bulk[k] \cup tombs
  <2> HIDE DEF I
  <2> QED
    BY <1>1, <1>2, <1>3, TransmitFacts DEF I
<1> SUFFICES ASSUME NEW d \in Client, NEW j \in Conn, current[d] = j
             PROVE  SyncOK(d, j)'
  BY <1>2 DEF SyncInv
<1>5. SyncOK(d, j)
  BY <1>1 DEF SyncInv
<1>6. CASE j = k
  <2>1. missed[k] \subseteq Persisted /\ missed[k] \subseteq doc[d] \cup bulk[k] \cup tombs
    BY <1>2, <1>5, <1>6 DEF SyncOK
  <2>2. writer'[k] = "hot" /\ missed' = missed /\ Persisted' = Persisted
    BY <1>1, <1>2 DEF TypeOK, Persisted
  <2>3. missed[k] \subseteq doc'[d]
    BY <1>4, <1>6, <2>1
  <2> QED
    BY <1>6, <2>1, <2>2, <2>3 DEF SyncOK
<1>7. CASE j # k
  <2>1. writer'[j] = writer[j] /\ bulk'[j] = bulk[j]
    BY <1>1, <1>2, <1>7 DEF TypeOK
  <2> QED
    BY <1>2, <1>4, <1>5, <2>1, SyncFrame
<1> QED
  BY <1>6, <1>7

\* A writer that has ended has nothing left to send.
LEMMA EndsSync ==
    ASSUME FInv, UNCHANGED <<doc, current, rows, tombs>>,
           \A j \in Conn : \/ writer'[j] = "off" /\ missed'[j] = {}
                           \/ /\ writer'[j] = writer[j] /\ sv'[j] = sv[j]
                              /\ missed'[j] = missed[j] /\ bulk'[j] = bulk[j]
    PROVE  SyncInv'
<1> SUFFICES ASSUME NEW d \in Client, NEW j \in Conn, current[d] = j
             PROVE  SyncOK(d, j)'
  BY DEF SyncInv
<1>1. SyncOK(d, j)
  BY DEF FInv, SyncInv
<1>2. CASE writer'[j] = "off" /\ missed'[j] = {}
  BY <1>2 DEF SyncOK
<1>3. CASE writer'[j] = writer[j] /\ sv'[j] = sv[j] /\ missed'[j] = missed[j] /\ bulk'[j] = bulk[j]
  BY <1>1, <1>3, SyncFrame
<1> QED
  BY <1>2, <1>3

LEMMA WriterEndsSync ==
    ASSUME FInv, NEW k \in Conn, WriterEnds(k)
    PROVE  SyncInv'
<1>1. TypeOK
  BY DEF FInv, CInv
<1>2. /\ writer' = [writer EXCEPT ![k] = "off"] /\ sv' = [sv EXCEPT ![k] = [c \in Client |-> 0]]
      /\ bulk' = [bulk EXCEPT ![k] = {}] /\ missed' = [missed EXCEPT ![k] = {}]
      /\ unheard' = [unheard EXCEPT ![k] = {}]
      /\ UNCHANGED <<doc, current, rows, tombs>>
  BY DEF WriterEnds, clientVars, dbVars, histVars
<1>3. \A j \in Conn : \/ writer'[j] = "off" /\ missed'[j] = {}
                      \/ /\ writer'[j] = writer[j] /\ sv'[j] = sv[j]
                         /\ missed'[j] = missed[j] /\ bulk'[j] = bulk[j]
  BY <1>1, <1>2 DEF TypeOK
<1> QED
  BY <1>2, <1>3, EndsSync

LEMMA CrashSync ==
    ASSUME FInv, NEW i \in Instance, Crash(i)
    PROVE  SyncInv'
<1>1. CInv
  BY DEF FInv
<1>2. \A j \in Conn : \/ writer'[j] = "off" /\ missed'[j] = {}
                      \/ /\ writer'[j] = writer[j] /\ sv'[j] = sv[j]
                         /\ missed'[j] = missed[j] /\ bulk'[j] = bulk[j]
  BY <1>1, CrashFacts
<1>3. UNCHANGED <<doc, current, rows, tombs>>
  BY DEF Crash, clientVars, dbVars, histVars
<1> QED
  BY <1>2, <1>3, EndsSync

LEMMA NextSync == FInv /\ [Next]_vars => SyncInv'
<1> SUFFICES ASSUME FInv, [Next]_vars PROVE SyncInv'
  OBVIOUS
<1>0. CInv /\ TypeOK
  BY DEF FInv, CInv
<1>1. ASSUME NEW c \in Client, NEW k \in Conn, NEW i \in Instance, Connect(c, k, i) PROVE SyncInv'
  BY <1>1, ConnectSync
<1>2. ASSUME NEW c \in Client, Disconnect(c) PROVE SyncInv'
  <2>1. \A d \in Client, k \in Conn : current'[d] = k => current[d] = k
    BY <1>0, <1>2, FanoutAssumption DEF Disconnect, TypeOK
  <2> QED
    BY <1>2, <2>1, SyncFrames DEF Disconnect, syncVars, dbVars, histVars
<1>3. ASSUME NEW k \in Conn, PersistInsertion(k) \/ \E d \in Deletable : PersistDeletion(k, d) PROVE SyncInv'
  <2>1. PICK o \in Item :
          /\ owner[k] \in Client /\ rows \subseteq rows' /\ tombs \subseteq tombs'
          /\ doc' = [doc EXCEPT ![owner[k]] = @ \cup {o}]
          /\ UNCHANGED <<current, sv, writer, bulk, missed, unheard>>
    BY <1>0, <1>3, PersistFacts
  <2>2. \A c \in Client : doc[c] \subseteq doc'[c]
    BY <1>0, <2>1 DEF TypeOK
  <2> QED
    BY <2>1, <2>2, SyncFrames
<1>4. ASSUME NEW k \in Conn, ForwardSyncStepOne(k) PROVE SyncInv'
  BY <1>4, SyncFrames DEF ForwardSyncStepOne, clientVars, dbVars, histVars
<1>5. ASSUME NEW k \in Conn, Broadcast(k) PROVE SyncInv'
  BY <1>5, SyncFrames DEF Broadcast, clientVars, dbVars, histVars
<1>6. ASSUME NEW k \in Conn, ReaderEnds(k) PROVE SyncInv'
  BY <1>6, SyncFrames DEF ReaderEnds, clientVars, dbVars, histVars
<1>7. ASSUME NEW k \in Conn, ReadOperations(k) PROVE SyncInv'
  BY <1>7, ReadOperationsSync
<1>8. ASSUME NEW k \in Conn, SendSyncStepTwo(k) PROVE SyncInv'
  BY <1>8, SendSyncStepTwoSync
<1>9. ASSUME NEW k \in Conn, Forward(k) PROVE SyncInv'
  <2>1. /\ \A c \in Client : doc[c] \subseteq doc'[c]
        /\ UNCHANGED <<current, writer, sv, bulk, missed, unheard, rows, tombs>>
    BY <1>0, <1>9, ForwardFacts
  <2> QED
    BY <2>1, SyncFrames
<1>10. ASSUME NEW k \in Conn, WriterEnds(k) PROVE SyncInv'
  BY <1>10, WriterEndsSync
<1>11. ASSUME NEW i \in Instance, NatsDelivers(i) PROVE SyncInv'
  BY <1>11, SyncFrames DEF NatsDelivers, clientVars, syncVars, dbVars, histVars
<1>12. ASSUME NEW i \in Instance, Crash(i) PROVE SyncInv'
  BY <1>12, CrashSync
<1>14. ASSUME NEW k \in Conn, Register(k) PROVE SyncInv'
  BY <1>14, RegisterSync
<1>13. CASE UNCHANGED vars
  BY <1>13, SyncFrames DEF vars, clientVars, syncVars, dbVars, histVars
<1> QED
  BY <1>1, <1>2, <1>3, <1>4, <1>5, <1>6, <1>7, <1>8, <1>9, <1>10, <1>11, <1>12, <1>13, <1>14
     DEF Next, ServerStep

LEMMA FanoutInvariance == Spec => []FInv
<1>1. Init => FInv
  <2> SUFFICES ASSUME Init PROVE CInv /\ SyncInv
    BY DEF FInv
  <2>1. SyncInv
    BY FanoutAssumption DEF Init, SyncInv
  <2> QED
    BY <2>1, InitCInv
<1>2. FInv /\ [Next]_vars => FInv'
  BY NextCInv, NextSync DEF FInv
<1> QED
  BY <1>1, <1>2, PTL DEF Spec

\* Whatever a client had lost when it connected (lagged behind, published
\* before NATS knew the subscription, persisted by an instance that died) it
\* has once process_client_sync_step_one is over, however the two queries
\* interleave with the writes of others, and whatever fails meanwhile.
THEOREM HandshakeRepaired == Spec => []HandshakeRepairs
<1>1. FInv => HandshakeRepairs
  BY DEF FInv, SyncInv, SyncOK, HandshakeRepairs
<1> QED
  BY <1>1, FanoutInvariance, PTL

-----------------------------------------------------------------------------
(* One instance: what is on its way to a client.                           *)

IsSub(x, ch) == x.kind = "sub" /\ x.chan = ch

\* NATS knows of ch, or will when it has read the commands q.
Subbed(q, S, ch) == ch \in S \/ \E n \in DOMAIN q : IsSub(q[n], ch)

\* Among the commands q is a message with o that will reach ch.
Carries(q, S, ch, o) ==
    \E n \in DOMAIN q : /\ q[n].kind = "pub" /\ q[n].msg.item = o
                        /\ ch \in S \/ \E m \in 1 .. n - 1 : IsSub(q[m], ch)

\* Who sent a message has applied it.
Own(D, m)     == m.item \in D[m.from]
OwnAll(D, q)  == \A n \in DOMAIN q : Own(D, q[n])
OwnPubs(D, q) == \A n \in DOMAIN q : q[n].kind = "pub" => Own(D, q[n].msg)

MsgInv ==
    /\ \A k \in Conn : pending[k] # NoMsg => Own(doc, pending[k])
    /\ \A k \in Conn : OwnAll(doc, queue[k])
    /\ \A i \in Instance : OwnPubs(doc, natsOut[i])

\* The connections of an instance are on one channel.
ChanInv ==
    \A j, k \in Conn : writer[j] # "off" /\ writer[k] # "off" /\ inst[j] = inst[k] => chan[j] = chan[k]

Receiving(k) == writer[k] \in {"deletions", "hot"}

Queued(q, o) == \E n \in DOMAIN q : q[n].item = o

\* The document of c has o, or will when c's connection k has sent it, or k's
\* channel was deaf to it.
OnWay(o, c, k) ==
    \/ o \in doc[c]
    \/ o \in bulk[k]
    \/ Queued(queue[k], o)
    \/ \E j \in Conn : pending[j] # NoMsg /\ pending[j].item = o
    \/ Carries(natsOut[inst[k]], subscribed, chan[k], o)
    \/ o \in unheard[k]

GapOK(c, k) ==
    /\ writer[k] \in {"deletions", "hot"} => \A o \in rows : OnWay(o, c, k)
    /\ writer[k] = "hot" => bulk[k] = {} /\ \A o \in tombs : OnWay(o, c, k)

GapInv == \A c \in Client, k \in Conn : current[c] = k => GapOK(c, k)

NInv == MsgInv /\ ChanInv /\ GapInv

\* No receiver is so far behind that the next message would overwrite one it
\* has not taken, and a reader that sends on a dead channel can publish.
Room ==
    /\ \A k \in Conn : Len(queue[k]) < Capacity
    /\ \A k \in Conn : pending[k] # NoMsg /\ Receivers(chan[k]) = {} =>
        Len(natsOut[inst[k]]) < NatsBuffer

LEMMA AppendCarries ==
    ASSUME NEW q \in Seq(Command), NEW y \in Command, NEW S, NEW ch
    PROVE  /\ Subbed(q, S, ch) => Subbed(Append(q, y), S, ch)
           /\ IsSub(y, ch) => Subbed(Append(q, y), S, ch)
           /\ \A o : Carries(q, S, ch, o) => Carries(Append(q, y), S, ch, o)
           /\ y.kind = "pub" /\ Subbed(q, S, ch) => Carries(Append(q, y), S, ch, y.msg.item)
<1> DEFINE p == Append(q, y)
           l == Len(q)
<1> HIDE DEF Command
<1>1. /\ l \in Nat /\ DOMAIN q = 1 .. l /\ DOMAIN p = 1 .. l + 1
      /\ \A n \in 1 .. l : p[n] = q[n]
      /\ p[l + 1] = y
  OBVIOUS
<1> HIDE DEF p, l
<1>2. Subbed(q, S, ch) => Subbed(p, S, ch)
  BY <1>1 DEF Subbed
<1>3. IsSub(y, ch) => Subbed(p, S, ch)
  BY <1>1 DEF Subbed
<1>4. ASSUME NEW o, Carries(q, S, ch, o) PROVE Carries(p, S, ch, o)
  <2>1. PICK n \in 1 .. l : /\ q[n].kind = "pub" /\ q[n].msg.item = o
                            /\ ch \in S \/ \E m \in 1 .. n - 1 : IsSub(q[m], ch)
    BY <1>1, <1>4 DEF Carries
  <2>2. n \in DOMAIN p /\ p[n] = q[n] /\ \A m \in 1 .. n - 1 : p[m] = q[m]
    BY <1>1
  <2>3. ch \in S \/ \E m \in 1 .. n - 1 : IsSub(p[m], ch)
    BY <2>1, <2>2
  <2> QED
    BY <2>1, <2>2, <2>3 DEF Carries
<1>5. ASSUME y.kind = "pub", Subbed(q, S, ch) PROVE Carries(p, S, ch, y.msg.item)
  <2>1. ch \in S \/ \E m \in 1 .. (l + 1) - 1 : IsSub(p[m], ch)
    BY <1>1, <1>5 DEF Subbed
  <2>2. l + 1 \in DOMAIN p /\ p[l + 1] = y
    BY <1>1
  <2> QED
    BY <1>5, <2>1, <2>2 DEF Carries
<1> QED
  BY <1>2, <1>3, <1>4, <1>5 DEF p

LEMMA RemoveCarries ==
    ASSUME NEW q \in Seq(Command), NEW v \in DOMAIN q, q[v].kind = "sub",
           NEW ch, q[v].chan # ch, NEW S, NEW T, ch \in S => ch \in T
    PROVE  /\ Subbed(q, S, ch) => Subbed(RemoveAt(q, v), T, ch)
           /\ \A o : Carries(q, S, ch, o) => Carries(RemoveAt(q, v), T, ch, o)
<1> DEFINE p == RemoveAt(q, v)
           l == Len(q)
           At(n) == IF n < v THEN n ELSE n - 1
<1> HIDE DEF Command
<1>0. /\ p \in Seq(Command) /\ Len(p) = l - 1
      /\ \A n \in 1 .. l - 1 : p[n] = IF n < v THEN q[n] ELSE q[n + 1]
  BY RemoveFacts
<1>1. l \in Nat /\ DOMAIN q = 1 .. l
  OBVIOUS
<1>2. DOMAIN p = 1 .. l - 1 /\ v \in 1 .. l
  BY <1>0, <1>1
<1> HIDE DEF p, l
<1>3. ASSUME NEW n \in 1 .. l, n # v
      PROVE  At(n) \in 1 .. l - 1 /\ p[At(n)] = q[n]
  <2>1. CASE n < v
    BY <1>0, <1>1, <1>2, <2>1
  <2>2. CASE ~(n < v)
    <3>1. n - 1 \in 1 .. l - 1 /\ ~(n - 1 < v) /\ (n - 1) + 1 = n
      BY <1>1, <1>2, <1>3, <2>2
    <3> QED
      BY <1>0, <2>2, <3>1
  <2> QED
    BY <2>1, <2>2
<1>4. ASSUME NEW m \in 1 .. l, NEW n \in 1 .. l, m < n, m # v, n # v
      PROVE  At(m) \in 1 .. At(n) - 1
  BY <1>1, <1>2, <1>4
<1> HIDE DEF At
<1>5. ASSUME NEW n \in 1 .. l, IsSub(q[n], ch) PROVE n # v
  BY <1>5 DEF IsSub
<1>6. Subbed(q, S, ch) => Subbed(p, T, ch)
  BY <1>1, <1>2, <1>3, <1>5 DEF Subbed
<1>7. ASSUME NEW o, Carries(q, S, ch, o) PROVE Carries(p, T, ch, o)
  <2>1. PICK n \in 1 .. l : /\ q[n].kind = "pub" /\ q[n].msg.item = o
                            /\ ch \in S \/ \E m \in 1 .. n - 1 : IsSub(q[m], ch)
    BY <1>1, <1>7 DEF Carries
  <2>2. n # v
    BY <2>1
  <2>3. At(n) \in DOMAIN p /\ p[At(n)] = q[n]
    BY <1>2, <1>3, <2>2
  <2>4. ASSUME NEW m \in 1 .. n - 1, IsSub(q[m], ch)
        PROVE  \E h \in 1 .. At(n) - 1 : IsSub(p[h], ch)
    <3>1. m \in 1 .. l /\ m < n
      BY <1>1
    <3>2. At(m) \in 1 .. At(n) - 1 /\ p[At(m)] = q[m]
      BY <1>3, <1>4, <1>5, <2>2, <2>4, <3>1
    <3> QED
      BY <2>4, <3>2
  <2> QED
    BY <2>1, <2>3, <2>4 DEF Carries
<1> QED
  BY <1>6, <1>7 DEF p

LEMMA TailCarries ==
    ASSUME NEW q \in Seq(Command), q # <<>>, NEW S, NEW T, NEW ch,
           ch \in S => ch \in T, IsSub(Head(q), ch) => ch \in T
    PROVE  /\ Subbed(q, S, ch) => Subbed(Tail(q), T, ch)
           /\ \A o : Carries(q, S, ch, o) =>
                \/ Carries(Tail(q), T, ch, o)
                \/ Head(q).kind = "pub" /\ Head(q).msg.item = o /\ ch \in S
<1> DEFINE p == Tail(q)
           l == Len(q)
           x == Head(q)
<1> HIDE DEF Command
<1>1. /\ l \in Nat /\ DOMAIN q = 1 .. l /\ DOMAIN p = 1 .. l - 1
      /\ \A n \in 1 .. l - 1 : p[n] = q[n + 1]
      /\ q[1] = x
  OBVIOUS
<1> HIDE DEF p, l, x
<1>2. ASSUME NEW n \in 1 .. l PROVE n = 1 \/ (n - 1 \in 1 .. l - 1 /\ p[n - 1] = q[n])
  <2>1. CASE n # 1
    <3>1. n - 1 \in 1 .. l - 1 /\ (n - 1) + 1 = n
      BY <1>1, <2>1
    <3> QED
      BY <1>1, <3>1
  <2> QED
    BY <2>1
<1>3. Subbed(q, S, ch) => Subbed(p, T, ch)
  BY <1>1, <1>2 DEF Subbed, x
<1>4. ASSUME NEW o, Carries(q, S, ch, o)
      PROVE  Carries(p, T, ch, o) \/ (x.kind = "pub" /\ x.msg.item = o /\ ch \in S)
  <2>1. PICK n \in 1 .. l : /\ q[n].kind = "pub" /\ q[n].msg.item = o
                            /\ ch \in S \/ \E m \in 1 .. n - 1 : IsSub(q[m], ch)
    BY <1>1, <1>4 DEF Carries
  <2>2. CASE n = 1
    BY <1>1, <2>1, <2>2
  <2>3. CASE n # 1
    <3>1. n - 1 \in DOMAIN p /\ p[n - 1] = q[n]
      BY <1>1, <1>2, <2>3
    <3>2. ASSUME NEW m \in 1 .. n - 1, IsSub(q[m], ch)
          PROVE  ch \in T \/ \E h \in 1 .. (n - 1) - 1 : IsSub(p[h], ch)
      <4>1. m \in 1 .. l
        BY <1>1
      <4>2. CASE m = 1
        BY <1>1, <3>2, <4>2 DEF x
      <4>3. CASE m # 1
        <5>1. m - 1 \in 1 .. (n - 1) - 1
          BY <1>1, <4>3
        <5> QED
          BY <1>2, <3>2, <4>1, <4>3, <5>1
      <4> QED
        BY <4>2, <4>3
    <3>3. ch \in T \/ \E h \in 1 .. (n - 1) - 1 : IsSub(p[h], ch)
      BY <2>1, <3>2
    <3> QED
      BY <2>1, <3>1, <3>3 DEF Carries
  <2> QED
    BY <2>2, <2>3
<1> QED
  BY <1>3, <1>4 DEF p, x

LEMMA OwnFacts ==
    ASSUME TypeOK, MsgInv, \A c \in Client : doc[c] \subseteq doc'[c]
    PROVE  /\ \A m \in Message : Own(doc, m) => Own(doc', m)
           /\ \A k \in Conn : pending[k] # NoMsg => Own(doc', pending[k])
           /\ \A k \in Conn : OwnAll(doc', queue[k])
           /\ \A i \in Instance : OwnPubs(doc', natsOut[i])
<1>1. \A m \in Message : Own(doc, m) => Own(doc', m)
  BY DEF Own, Message
<1>2. \A k \in Conn : pending[k] # NoMsg => Own(doc', pending[k])
  BY <1>1 DEF MsgInv, TypeOK
<1>3. ASSUME NEW k \in Conn, NEW n \in DOMAIN queue[k] PROVE Own(doc', queue[k][n])
  <2>1. queue[k] \in Seq(Message) /\ Own(doc, queue[k][n])
    BY DEF MsgInv, OwnAll, TypeOK
  <2> QED
    BY <1>1, <2>1
<1>4. ASSUME NEW i \in Instance, NEW n \in DOMAIN natsOut[i], natsOut[i][n].kind = "pub"
      PROVE  Own(doc', natsOut[i][n].msg)
  <2>1. natsOut[i] \in Seq(Command) /\ Own(doc, natsOut[i][n].msg)
    BY <1>4 DEF MsgInv, OwnPubs, TypeOK
  <2>2. natsOut[i][n] \in Command
    BY <2>1
  <2>3. natsOut[i][n].msg \in Message
    BY <1>4, <2>2 DEF Command
  <2> QED
    BY <1>1, <2>1, <2>3
<1> QED
  BY <1>1, <1>2, <1>3, <1>4 DEF OwnAll, OwnPubs

LEMMA AppendOwn ==
    ASSUME NEW D, NEW M, NEW q \in Seq(M), NEW y \in M
    PROVE  /\ OwnAll(D, q) /\ Own(D, y) => OwnAll(D, Append(q, y))
           /\ OwnPubs(D, q) /\ (y.kind = "pub" => Own(D, y.msg)) => OwnPubs(D, Append(q, y))
<1> DEFINE p == Append(q, y)
           l == Len(q)
<1>1. /\ l \in Nat /\ DOMAIN q = 1 .. l /\ DOMAIN p = 1 .. l + 1
      /\ \A n \in 1 .. l : p[n] = q[n]
      /\ p[l + 1] = y
  OBVIOUS
<1> HIDE DEF p, l
<1>2. \A n \in 1 .. l + 1 : n = l + 1 \/ n \in 1 .. l
  BY <1>1
<1> QED
  BY <1>1, <1>2 DEF OwnAll, OwnPubs, p

LEMMA TailOwn ==
    ASSUME NEW D, NEW M, NEW q \in Seq(M), q # <<>>
    PROVE  /\ OwnAll(D, q) => OwnAll(D, Tail(q)) /\ Own(D, Head(q))
           /\ OwnPubs(D, q) => OwnPubs(D, Tail(q)) /\ (Head(q).kind = "pub" => Own(D, Head(q).msg))
<1> DEFINE p == Tail(q)
           l == Len(q)
<1>1. /\ l \in Nat /\ DOMAIN q = 1 .. l /\ DOMAIN p = 1 .. l - 1
      /\ \A n \in 1 .. l - 1 : p[n] = q[n + 1]
      /\ q[1] = Head(q) /\ 1 \in DOMAIN q
  OBVIOUS
<1> HIDE DEF p, l
<1>2. \A n \in 1 .. l - 1 : n + 1 \in 1 .. l
  BY <1>1
<1> QED
  BY <1>1, <1>2 DEF OwnAll, OwnPubs, p

LEMMA RemoveOwn ==
    ASSUME NEW D, NEW q \in Seq(Command), NEW v \in DOMAIN q, OwnPubs(D, q)
    PROVE  OwnPubs(D, RemoveAt(q, v))
<1> DEFINE p == RemoveAt(q, v)
           l == Len(q)
<1> HIDE DEF Command
<1>1. /\ p \in Seq(Command) /\ Len(p) = l - 1
      /\ \A n \in 1 .. l - 1 : p[n] = IF n < v THEN q[n] ELSE q[n + 1]
  BY RemoveFacts
<1>2. l \in Nat /\ DOMAIN q = 1 .. l
  OBVIOUS
<1>3. DOMAIN p = 1 .. l - 1
  BY <1>1, <1>2
<1> HIDE DEF p, l
<1>4. ASSUME NEW n \in 1 .. l - 1 PROVE n \in 1 .. l /\ n + 1 \in 1 .. l
  BY <1>2
<1> QED
  BY <1>1, <1>2, <1>3, <1>4 DEF OwnPubs, p

LEMMA AppendQueued ==
    ASSUME NEW M, NEW q \in Seq(M), NEW y \in M
    PROVE  /\ \A o : Queued(q, o) => Queued(Append(q, y), o)
           /\ Queued(Append(q, y), y.item)
<1> DEFINE p == Append(q, y)
           l == Len(q)
<1>1. /\ l \in Nat /\ DOMAIN q = 1 .. l /\ DOMAIN p = 1 .. l + 1
      /\ \A n \in 1 .. l : p[n] = q[n]
      /\ p[l + 1] = y
  OBVIOUS
<1> HIDE DEF p, l
<1>2. l + 1 \in DOMAIN p /\ \A n \in 1 .. l : n \in DOMAIN p
  BY <1>1
<1> QED
  BY <1>1, <1>2 DEF Queued, p

LEMMA TailQueued ==
    ASSUME NEW M, NEW q \in Seq(M), q # <<>>, NEW o, Queued(q, o)
    PROVE  Queued(Tail(q), o) \/ Head(q).item = o
<1> DEFINE p == Tail(q)
           l == Len(q)
<1>1. /\ l \in Nat /\ DOMAIN q = 1 .. l /\ DOMAIN p = 1 .. l - 1
      /\ \A n \in 1 .. l - 1 : p[n] = q[n + 1]
      /\ q[1] = Head(q)
  OBVIOUS
<1> HIDE DEF p, l
<1>2. PICK n \in 1 .. l : q[n].item = o
  BY <1>1 DEF Queued
<1>3. CASE n # 1
  <2>1. n - 1 \in 1 .. l - 1 /\ (n - 1) + 1 = n
    BY <1>1, <1>3
  <2>2. n - 1 \in DOMAIN p /\ p[n - 1] = q[n]
    BY <1>1, <2>1
  <2> QED
    BY <1>2, <2>2 DEF Queued, p
<1> QED
  BY <1>1, <1>2, <1>3

LEMMA GapFrame ==
    ASSUME NEW c \in Client, NEW k \in Conn, GapOK(c, k), writer'[k] = writer[k], bulk'[k] = bulk[k],
           rows' = rows, tombs' = tombs,
           Receiving(k) => \A o : OnWay(o, c, k) => OnWay(o, c, k)'
    PROVE  GapOK(c, k)'
BY DEF GapOK, Receiving

\* A step that neither sends nor takes a message and ends no writer.
LEMMA QuietNInv ==
    ASSUME CInv, NInv, UNCHANGED <<writer, bulk, queue, pending, unheard, natsOut, subscribed, rows, tombs>>,
           \A c \in Client : doc[c] \subseteq doc'[c],
           \A k \in Conn : writer[k] # "off" => inst'[k] = inst[k] /\ chan'[k] = chan[k],
           \A c \in Client, k \in Conn : current'[c] = k => current[c] = k
    PROVE  NInv'
<1>1. TypeOK /\ MsgInv /\ ChanInv /\ GapInv
  BY DEF CInv, NInv
<1>2. MsgInv'
  BY <1>1, OwnFacts DEF MsgInv
<1>3. ChanInv'
  BY <1>1 DEF ChanInv
<1>4. ASSUME NEW c \in Client, NEW k \in Conn, current'[c] = k PROVE GapOK(c, k)'
  <2>1. GapOK(c, k)
    BY <1>1, <1>4 DEF GapInv
  <2>2. Receiving(k) => \A o : OnWay(o, c, k) => OnWay(o, c, k)'
    BY DEF OnWay, Receiving
  <2> QED
    BY <2>1, <2>2, GapFrame
<1> QED
  BY <1>2, <1>3, <1>4 DEF NInv, GapInv

LEMMA ConnectNInv ==
    ASSUME CInv, NInv, NEW c \in Client, NEW k \in Conn, NEW i \in Instance, Connect(c, k, i)
    PROVE  NInv'
<1>1. TypeOK /\ MsgInv /\ ChanInv /\ GapInv
  BY DEF CInv, NInv
<1>2. /\ writer[k] = "off" /\ writer' = [writer EXCEPT ![k] = "register"]
      /\ inst' = [inst EXCEPT ![k] = i] /\ current' = [current EXCEPT ![c] = k]
      /\ UNCHANGED <<doc, bulk, queue, pending, unheard, rows, tombs, subscribed>>
  BY DEF Connect, dbVars
<1>3. PICK ch :
        /\ chan' = [chan EXCEPT ![k] = ch]
        /\ \/ ch \in LiveChannels(i) /\ natsOut' = natsOut
           \/ /\ LiveChannels(i) = {} /\ ch \in Channel
              /\ natsOut' = [natsOut EXCEPT ![i] = Append(@, [kind |-> "sub", chan |-> ch])]
  BY DEF Connect
<1> DEFINE y == [kind |-> "sub", chan |-> ch]
<1>4. /\ \A j \in Conn \ {k} : writer'[j] = writer[j] /\ inst'[j] = inst[j] /\ chan'[j] = chan[j]
      /\ writer'[k] = "register" /\ inst'[k] = i /\ chan'[k] = ch
  BY <1>1, <1>2, <1>3 DEF TypeOK
<1>5. \A j \in Conn : writer[j] # "off" => inst[j] \in Instance
  BY DEF CInv, ConnInv, ConnOK, Off

\* A command more, if any.
<1>6. \/ ch \in LiveChannels(i) /\ natsOut' = natsOut
      \/ /\ LiveChannels(i) = {} /\ y \in Command /\ y.kind = "sub"
         /\ natsOut' = [natsOut EXCEPT ![i] = Append(@, y)]
  BY <1>3 DEF Command
<1> HIDE DEF y
<1>7. natsOut \in [Instance -> Seq(Command)]
  BY <1>1 DEF TypeOK
<1>8. ASSUME NEW j \in Instance
      PROVE  /\ OwnPubs(doc, natsOut[j]) => OwnPubs(doc, natsOut'[j])
             /\ \A h, o : Carries(natsOut[j], subscribed, h, o) => Carries(natsOut'[j], subscribed, h, o)
  <2>1. natsOut'[j] = natsOut[j] \/ (natsOut'[j] = Append(natsOut[j], y) /\ y \in Command /\ y.kind = "sub")
    BY <1>6, <1>7
  <2>2. natsOut[j] \in Seq(Command)
    BY <1>7
  <2> QED
    BY <2>1, <2>2, AppendCarries, AppendOwn
<1>9. MsgInv'
  BY <1>1, <1>2, <1>8 DEF MsgInv
<1>10. ASSUME NEW j \in Conn, writer'[j] # "off", inst'[j] = i PROVE chan'[j] = ch
  <2>1. CASE j # k
    <3>1. writer[j] # "off" /\ inst[j] = i /\ chan'[j] = chan[j]
      BY <1>4, <1>10, <2>1
    <3>2. chan[j] \in LiveChannels(i)
      BY <3>1 DEF LiveChannels
    <3>3. PICK m \in Conn : writer[m] # "off" /\ inst[m] = i /\ chan[m] = ch
      BY <1>6, <3>2 DEF LiveChannels
    <3> QED
      BY <1>1, <3>1, <3>3 DEF ChanInv
  <2> QED
    BY <1>4, <2>1
<1>12. ChanInv'
  <2>1. ASSUME NEW j \in Conn, NEW m \in Conn, writer'[j] # "off", writer'[m] # "off", inst'[j] = inst'[m]
        PROVE  chan'[j] = chan'[m]
    <3>1. CASE inst'[j] = i
      BY <1>10, <2>1, <3>1
    <3>2. CASE inst'[j] # i
      <4>1. j # k /\ m # k
        BY <1>4, <2>1, <3>2
      <4> QED
        BY <1>1, <1>4, <2>1, <4>1 DEF ChanInv
    <3> QED
      BY <3>1, <3>2
  <2> QED
    BY <2>1 DEF ChanInv
<1>13. ASSUME NEW d \in Client, NEW j \in Conn, current'[d] = j PROVE GapOK(d, j)'
  <2>1. CASE j = k
    BY <1>4, <2>1 DEF GapOK
  <2>2. CASE j # k
    <3>1. current[d] = j
      BY <1>1, <1>2, <1>13, <2>2 DEF TypeOK
    <3>2. GapOK(d, j) /\ writer'[j] = writer[j] /\ inst'[j] = inst[j] /\ chan'[j] = chan[j]
      BY <1>1, <1>4, <2>2, <3>1 DEF GapInv
    <3>3. Receiving(j) => \A o : OnWay(o, d, j) => OnWay(o, d, j)'
      BY <1>2, <1>5, <1>8, <3>2 DEF OnWay, Receiving
    <3> QED
      BY <1>2, <3>2, <3>3, GapFrame
  <2> QED
    BY <2>1, <2>2
<1> QED
  BY <1>9, <1>12, <1>13 DEF NInv, GapInv

LEMMA RegisterNInv ==
    ASSUME CInv, NInv, NEW k \in Conn, Register(k)
    PROVE  NInv'
<1>1. TypeOK /\ MsgInv /\ ChanInv /\ GapInv
  BY DEF CInv, NInv
<1>2. /\ writer[k] = "register" /\ writer' = [writer EXCEPT ![k] = "await"]
      /\ UNCHANGED <<doc, current, inst, chan, bulk, queue, pending, unheard, rows, tombs, natsOut, subscribed>>
  BY DEF Register, clientVars, connVars, dbVars, histVars, natsVars
<1>3. writer'[k] = "await" /\ \A j \in Conn \ {k} : writer'[j] = writer[j]
  BY <1>1, <1>2 DEF TypeOK
<1>4. MsgInv'
  BY <1>1, <1>2 DEF MsgInv
<1>5. \A j \in Conn : writer'[j] # "off" => writer[j] # "off"
  BY <1>2, <1>3
<1>6. ChanInv'
  BY <1>1, <1>2, <1>5 DEF ChanInv
<1>7. ASSUME NEW c \in Client, NEW j \in Conn, current'[c] = j PROVE GapOK(c, j)'
  <2>1. CASE j = k
    BY <1>3, <2>1 DEF GapOK
  <2>2. CASE j # k
    <3>1. GapOK(c, j) /\ writer'[j] = writer[j]
      BY <1>1, <1>2, <1>3, <1>7, <2>2 DEF GapInv
    <3>2. \A o : OnWay(o, c, j) => OnWay(o, c, j)'
      BY <1>2 DEF OnWay
    <3> QED
      BY <1>2, <3>1, <3>2, GapFrame
  <2> QED
    BY <2>1, <2>2
<1> QED
  BY <1>4, <1>6, <1>7 DEF NInv, GapInv

LEMMA PersistNInv ==
    ASSUME CInv, NInv, NEW k \in Conn,
           PersistInsertion(k) \/ \E d \in Deletable : PersistDeletion(k, d)
    PROVE  NInv'
<1>1. TypeOK /\ MsgInv /\ ChanInv /\ GapInv
  BY DEF CInv, NInv
<1>2. PICK o \in Item :
        /\ owner[k] \in Client /\ pending[k] = NoMsg
        /\ rows' \subseteq rows \cup {o} /\ tombs' \subseteq tombs \cup {o}
        /\ doc' = [doc EXCEPT ![owner[k]] = @ \cup {o}]
        /\ pending' = [pending EXCEPT ![k] = [from |-> owner[k], item |-> o]]
        /\ UNCHANGED <<current, inst, chan, writer, bulk, queue, unheard, natsOut, subscribed>>
  BY PersistFacts
<1> DEFINE m == [from |-> owner[k], item |-> o]
<1>3. m # NoMsg /\ m.item = o /\ m.from = owner[k] /\ pending' = [pending EXCEPT ![k] = m]
  BY <1>2, MessageFacts
<1> HIDE DEF m
<1>4. pending'[k] = m /\ \A j \in Conn \ {k} : pending'[j] = pending[j]
  BY <1>1, <1>3 DEF TypeOK
<1>5. (\A c \in Client : doc[c] \subseteq doc'[c]) /\ o \in doc'[owner[k]]
  BY <1>1, <1>2 DEF TypeOK
<1>6. MsgInv'
  <2>1. Own(doc', m)
    BY <1>3, <1>5 DEF Own
  <2>2. \A j \in Conn : pending'[j] # NoMsg => Own(doc', pending'[j])
    BY <1>1, <1>4, <1>5, <2>1, OwnFacts
  <2> QED
    BY <1>1, <1>2, <1>5, <2>2, OwnFacts DEF MsgInv
<1>7. ChanInv'
  BY <1>1, <1>2 DEF ChanInv
<1>8. ASSUME NEW c \in Client, NEW j \in Conn, current'[c] = j PROVE GapOK(c, j)'
  <2>1. GapOK(c, j)
    BY <1>1, <1>2, <1>8 DEF GapInv
  <2>2. OnWay(o, c, j)'
    BY <1>3, <1>4 DEF OnWay
  <2>3. \A p : OnWay(p, c, j) => OnWay(p, c, j)'
    BY <1>2, <1>4, <1>5 DEF OnWay
  <2> QED
    BY <1>2, <2>1, <2>2, <2>3 DEF GapOK
<1> QED
  BY <1>6, <1>7, <1>8 DEF NInv, GapInv

\* A message is sent to the receivers of the reader's own channel; when that
\* has died and been replaced, NATS takes it to those of the new one, unless
\* that is deaf.
LEMMA BroadcastNInv ==
    ASSUME \A i, j \in Instance : i = j, CInv, NInv, Room, NEW k \in Conn, Broadcast(k)
    PROVE  NInv'
<1> DEFINE m == pending[k]
           y == [kind |-> "pub", msg |-> m]
           i == inst[k]
<1>1. TypeOK /\ MsgInv /\ ChanInv /\ GapInv
  BY DEF CInv, NInv
<1>2. /\ m \in Message /\ m # NoMsg /\ i \in Instance
      /\ PushAll({chan[k]}, m) /\ PublishToNats(i, m)
      /\ pending' = [pending EXCEPT ![k] = NoMsg]
      /\ UNCHANGED <<doc, current, writer, bulk, rows, tombs, subscribed>>
      /\ Release(k)
  BY BroadcastFacts DEF Broadcast
<1>3. y \in Command /\ y.kind = "pub" /\ y.msg = m
  BY <1>2 DEF Command
<1>12. \A j \in Conn : unheard'[j] = IF Receiving(j) /\ chan[j] # chan[k] /\ Deaf(j)
                                     THEN unheard[j] \cup {m.item} ELSE unheard[j]
  BY BroadcastFacts DEF Receiving
<1> HIDE DEF m, i
<1>4. /\ \A j \in Instance \ {i} : natsOut'[j] = natsOut[j]
      /\ natsOut[i] \in Seq(Command)
      /\ natsOut'[i] = natsOut[i] \/ natsOut'[i] = Append(natsOut[i], y)
      /\ Receivers(chan[k]) = {} => natsOut'[i] = Append(natsOut[i], y)
  <2>1. \A j \in Instance \ {i} : natsOut'[j] = natsOut[j]
    BY <1>1, <1>2, PublishFacts
  <2>2. natsOut'[i] = IF Len(natsOut[i]) < NatsBuffer THEN Append(natsOut[i], y) ELSE natsOut[i]
    BY <1>1, <1>2, PublishFacts
  <2>3. Receivers(chan[k]) = {} => Len(natsOut[i]) < NatsBuffer
    BY <1>2 DEF Room, m, i
  <2>4. natsOut[i] \in Seq(Command)
    BY <1>1, <1>2 DEF TypeOK
  <2> QED
    BY <2>1, <2>2, <2>3, <2>4
<1> HIDE DEF y
<1>5. ASSUME NEW j \in Conn
      PROVE  /\ queue[j] \in Seq(Message)
             /\ \/ queue'[j] = Append(queue[j], m)
                \/ ~(Receiving(j) /\ chan[j] = chan[k]) /\ queue'[j] = queue[j]
  <2>1. queue'[j] = IF writer[j] \notin {"off", "register"} /\ chan[j] \in {chan[k]} THEN Push(queue[j], m) ELSE queue[j]
    BY <1>1, <1>2, PushAllFacts
  <2>2. queue[j] \in Seq(Message) /\ Len(queue[j]) <= Capacity /\ Len(queue[j]) < Capacity
    BY <1>1 DEF TypeOK, Room
  <2>3. Push(queue[j], m) = Append(queue[j], m)
    BY <1>2, <2>2, PushFacts
  <2> QED
    BY <2>1, <2>2, <2>3 DEF Receiving
<1>6. \A j \in Conn : writer[j] # "off" => /\ inst'[j] = inst[j] /\ chan'[j] = chan[j]
                                           /\ inst[j] \in Instance /\ inst[j] = i
  <2>1. ASSUME NEW j \in Conn, writer[j] # "off" PROVE inst'[j] = inst[j] /\ chan'[j] = chan[j]
    <3>1. j = k => ~Off(k)'
      BY <1>2, <2>1 DEF Off
    <3> QED
      BY <1>1, <1>2, <3>1, ReleaseFacts
  <2>2. \A j \in Conn : writer[j] # "off" => inst[j] \in Instance
    BY DEF CInv, ConnInv, ConnOK, Off
  <2> QED
    BY <1>2, <2>1, <2>2
<1>7. pending'[k] = NoMsg /\ \A j \in Conn \ {k} : pending'[j] = pending[j]
  BY <1>1, <1>2 DEF TypeOK
<1>8. MsgInv'
  <2>1. Own(doc, m)
    BY <1>1, <1>2 DEF MsgInv, m
  <2>2. ASSUME NEW j \in Conn PROVE OwnAll(doc, queue'[j])
    <3>1. OwnAll(doc, queue[j])
      BY <1>1 DEF MsgInv
    <3> QED
      BY <1>2, <1>5, <2>1, <3>1, AppendOwn
  <2>3. ASSUME NEW j \in Instance PROVE OwnPubs(doc, natsOut'[j])
    <3>1. OwnPubs(doc, natsOut[j])
      BY <1>1 DEF MsgInv
    <3>2. OwnPubs(doc, natsOut[i]) => OwnPubs(doc, natsOut'[i])
      BY <1>3, <1>4, <2>1, AppendOwn
    <3> QED
      BY <1>4, <3>1, <3>2
  <2>4. \A j \in Conn : pending'[j] # NoMsg => Own(doc, pending'[j])
    BY <1>1, <1>7 DEF MsgInv
  <2> QED
    BY <1>2, <2>2, <2>3, <2>4 DEF MsgInv
<1>9. /\ \A h : Subbed(natsOut[i], subscribed, h) /\ Receivers(chan[k]) = {} =>
                  Carries(natsOut'[i], subscribed, h, m.item)
      /\ \A h, o : Carries(natsOut[i], subscribed, h, o) => Carries(natsOut'[i], subscribed, h, o)
  BY <1>3, <1>4, AppendCarries
<1>10. ChanInv'
  BY <1>1, <1>2, <1>6 DEF ChanInv
<1>11. ASSUME NEW c \in Client, NEW j \in Conn, current'[c] = j PROVE GapOK(c, j)'
  <2>1. GapOK(c, j)
    BY <1>1, <1>2, <1>11 DEF GapInv
  <2>2. ASSUME Receiving(j), NEW o, OnWay(o, c, j) PROVE OnWay(o, c, j)'
    <3>1. writer[j] # "off" /\ j \in Receivers(chan[j])
      BY <2>2 DEF Receiving, Receivers
    <3>2. \/ Carries(natsOut'[inst'[j]], subscribed', chan'[j], m.item)
          \/ Queued(queue'[j], m.item)
          \/ m.item \in unheard'[j]
      <4>1. CASE Receivers(chan[k]) = {} /\ Subbed(natsOut[i], subscribed, chan[j])
        BY <1>2, <1>6, <1>9, <3>1, <4>1
      <4>2. CASE Receivers(chan[k]) = {} /\ ~Subbed(natsOut[i], subscribed, chan[j])
        <5>1. chan[j] # chan[k]
          BY <3>1, <4>2
        <5>2. Deaf(j)
          <6>1. inst[j] = i
            BY <1>6, <3>1
          <6> QED
            BY <4>2, <6>1 DEF Deaf, Subbed, IsSub
        <5> QED
          BY <1>12, <2>2, <5>1, <5>2
      <4>3. CASE Receivers(chan[k]) # {}
        <5>1. PICK h \in Conn : writer[h] # "off" /\ chan[h] = chan[k]
          BY <4>3 DEF Receivers
        <5>2. chan[j] = chan[k]
          BY <1>1, <1>6, <3>1, <5>1 DEF ChanInv
        <5>3. queue'[j] = Append(queue[j], m) /\ queue[j] \in Seq(Message)
          BY <1>5, <2>2, <5>2
        <5> QED
          BY <1>2, <5>3, AppendQueued
      <4> QED
        BY <4>1, <4>2, <4>3
    <3>3. Carries(natsOut[inst[j]], subscribed, chan[j], o) => Carries(natsOut'[inst'[j]], subscribed', chan'[j], o)
      BY <1>2, <1>6, <1>9, <3>1
    <3>4. Queued(queue[j], o) => Queued(queue'[j], o)
      BY <1>2, <1>5, AppendQueued
    <3>5. ASSUME NEW h \in Conn, pending[h] # NoMsg, pending[h].item = o
          PROVE  (pending'[h] # NoMsg /\ pending'[h].item = o) \/ o = m.item
      BY <1>7, <3>5 DEF m
    <3>6. unheard[j] \subseteq unheard'[j]
      BY <1>12
    <3> QED
      BY <1>2, <2>2, <3>2, <3>3, <3>4, <3>5, <3>6 DEF OnWay
  <2>3. bulk' = bulk /\ writer' = writer /\ rows' = rows /\ tombs' = tombs
    BY <1>2
  <2> QED
    BY <2>1, <2>2, <2>3, GapFrame
<1> QED
  BY <1>8, <1>10, <1>11 DEF NInv, GapInv

\* The first query has every row the document lacks: none is left to wait for.
LEMMA ReadOperationsNInv ==
    ASSUME FInv, NInv, NEW k \in Conn, ReadOperations(k)
    PROVE  NInv'
<1>1. TypeOK /\ MsgInv /\ ChanInv /\ GapInv /\ SyncInv
  BY DEF FInv, CInv, NInv
<1>2. /\ writer[k] = "await" /\ writer' = [writer EXCEPT ![k] = "deletions"]
      /\ bulk' = [bulk EXCEPT ![k] = ReadOperationsAfter(sv[k])]
      /\ UNCHANGED <<doc, current, inst, chan, queue, pending, unheard, rows, tombs, natsOut, subscribed>>
  BY DEF ReadOperations, clientVars, connVars, dbVars, histVars, natsVars
<1>3. /\ writer'[k] = "deletions" /\ bulk'[k] = ReadOperationsAfter(sv[k])
      /\ \A j \in Conn \ {k} : writer'[j] = writer[j] /\ bulk'[j] = bulk[j]
  BY <1>1, <1>2 DEF TypeOK
<1>4. MsgInv'
  BY <1>1, <1>2 DEF MsgInv
<1>5. \A j \in Conn : writer'[j] # "off" => writer[j] # "off"
  BY <1>2, <1>3
<1>6. ChanInv'
  BY <1>1, <1>2, <1>5 DEF ChanInv
<1>7. ASSUME NEW c \in Client, NEW j \in Conn, current'[c] = j PROVE GapOK(c, j)'
  <2>1. CASE j = k
    <3>1. ASSUME NEW o \in rows PROVE o \in doc[c] \/ o \in ReadOperationsAfter(sv[k])
      BY <1>1, <1>2, <1>7, <2>1, ReadFacts
    <3>2. \A o \in rows' : OnWay(o, c, j)'
      BY <1>2, <1>3, <2>1, <3>1 DEF OnWay
    <3> QED
      BY <1>3, <2>1, <3>2 DEF GapOK
  <2>2. CASE j # k
    <3>1. GapOK(c, j) /\ writer'[j] = writer[j] /\ bulk'[j] = bulk[j]
      BY <1>1, <1>2, <1>3, <1>7, <2>2 DEF GapInv
    <3>2. \A o : OnWay(o, c, j) => OnWay(o, c, j)'
      BY <1>2, <3>1 DEF OnWay
    <3> QED
      BY <1>2, <3>1, <3>2, GapFrame
  <2> QED
    BY <2>1, <2>2
<1> QED
  BY <1>4, <1>6, <1>7 DEF NInv, GapInv

LEMMA SendSyncStepTwoNInv ==
    ASSUME CInv, NInv, NEW k \in Conn, SendSyncStepTwo(k)
    PROVE  NInv'
<1>1. TypeOK /\ MsgInv /\ ChanInv /\ GapInv
  BY DEF CInv, NInv
<1>2. /\ writer[k] = "deletions" /\ writer' = [writer EXCEPT ![k] = "hot"]
      /\ bulk' = [bulk EXCEPT ![k] = {}] /\ Transmit(k, bulk[k] \cup tombs)
      /\ UNCHANGED <<current, inst, chan, queue, pending, unheard, rows, tombs, natsOut, subscribed>>
  BY DEF SendSyncStepTwo, ReadDocDeletionSet, connVars, dbVars, histVars, natsVars
<1>3. bulk[k] \cup tombs \in SUBSET Item /\ ~Off(k)
  BY <1>1, <1>2 DEF TypeOK, Item, Off
<1>4. /\ \A c \in Client : doc[c] \subseteq doc'[c]
      /\ \A c \in Client : current[c] = k => bulk[k] \cup tombs \subseteq doc'[c]
  <2> DEFINE I == bulk[k] \cup tombs
  <2> HIDE DEF I
  <2> QED
    BY <1>2, <1>3, TransmitFacts DEF I
<1>5. /\ writer'[k] = "hot" /\ bulk'[k] = {}
      /\ \A j \in Conn \ {k} : writer'[j] = writer[j] /\ bulk'[j] = bulk[j]
  BY <1>1, <1>2 DEF TypeOK
<1>6. MsgInv'
  BY <1>1, <1>2, <1>4, OwnFacts DEF MsgInv
<1>7. \A j \in Conn : writer'[j] # "off" => writer[j] # "off"
  BY <1>2, <1>5
<1>8. ChanInv'
  BY <1>1, <1>2, <1>7 DEF ChanInv
<1>9. ASSUME NEW c \in Client, NEW j \in Conn, current'[c] = j PROVE GapOK(c, j)'
  <2>1. GapOK(c, j)
    BY <1>1, <1>2, <1>9 DEF GapInv
  <2>2. CASE j = k
    <3>1. \A o : OnWay(o, c, k) => OnWay(o, c, k)'
      BY <1>2, <1>4, <1>9, <2>2 DEF OnWay
    <3>2. \A o \in tombs : OnWay(o, c, k)'
      BY <1>2, <1>4, <1>9, <2>2 DEF OnWay
    <3> QED
      BY <1>2, <1>5, <2>1, <2>2, <3>1, <3>2 DEF GapOK
  <2>3. CASE j # k
    <3>1. \A o : OnWay(o, c, j) => OnWay(o, c, j)'
      BY <1>2, <1>4, <1>5, <2>3 DEF OnWay
    <3> QED
      BY <1>2, <1>5, <2>1, <2>3, <3>1, GapFrame
  <2> QED
    BY <2>2, <2>3
<1> QED
  BY <1>6, <1>8, <1>9 DEF NInv, GapInv

\* What is not forwarded is the client's own, and in its document.
LEMMA ForwardNInv ==
    ASSUME CInv, NInv, NEW k \in Conn, Forward(k)
    PROVE  NInv'
<1> DEFINE x == Head(queue[k])
<1>1. TypeOK /\ MsgInv /\ ChanInv /\ GapInv
  BY DEF CInv, NInv
<1>2. /\ queue[k] \in Seq(Message) /\ queue[k] # <<>>
      /\ \A c \in Client : doc[c] \subseteq doc'[c]
      /\ \A c \in Client : current[c] = k /\ x.from # c => x.item \in doc'[c]
      /\ queue' = [queue EXCEPT ![k] = Tail(@)]
      /\ UNCHANGED <<current, inst, chan, writer, bulk, pending, unheard, rows, tombs, natsOut, subscribed>>
  BY ForwardFacts
<1>3. queue'[k] = Tail(queue[k]) /\ \A j \in Conn \ {k} : queue'[j] = queue[j]
  BY <1>1, <1>2 DEF TypeOK
<1>4. /\ \A j \in Conn : pending[j] # NoMsg => Own(doc', pending[j])
      /\ \A j \in Conn : OwnAll(doc', queue[j])
      /\ \A j \in Instance : OwnPubs(doc', natsOut[j])
  BY <1>1, <1>2, OwnFacts
<1>5. OwnAll(doc', Tail(queue[k])) /\ Own(doc', x)
  BY <1>2, <1>4, TailOwn
<1>6. MsgInv'
  BY <1>2, <1>3, <1>4, <1>5 DEF MsgInv
<1>7. ChanInv'
  BY <1>1, <1>2 DEF ChanInv
<1>8. \A c \in Client : current[c] = k => x.item \in doc'[c]
  BY <1>2, <1>5 DEF Own
<1> HIDE DEF x
<1>9. ASSUME NEW c \in Client, NEW j \in Conn, current'[c] = j PROVE GapOK(c, j)'
  <2>1. GapOK(c, j)
    BY <1>1, <1>2, <1>9 DEF GapInv
  <2>2. \A o : Queued(queue[j], o) => Queued(queue'[j], o) \/ o \in doc'[c]
    <3>1. CASE j = k
      <4>1. \A o : Queued(queue[k], o) => Queued(Tail(queue[k]), o) \/ x.item = o
        BY <1>2, TailQueued DEF x
      <4> QED
        BY <1>2, <1>3, <1>8, <1>9, <3>1, <4>1
    <3>2. CASE j # k
      BY <1>3, <3>2
    <3> QED
      BY <3>1, <3>2
  <2>3. \A o : OnWay(o, c, j) => OnWay(o, c, j)'
    BY <1>2, <2>2 DEF OnWay
  <2> QED
    BY <1>2, <2>1, <2>3, GapFrame
<1> QED
  BY <1>6, <1>7, <1>9 DEF NInv, GapInv

\* The subscription that goes is not that of a channel somebody holds.
LEMMA WriterEndsNInv ==
    ASSUME CInv, NInv, NEW k \in Conn, WriterEnds(k)
    PROVE  NInv'
<1>1. TypeOK /\ MsgInv /\ ChanInv /\ GapInv
  BY DEF CInv, NInv
<1>2. /\ writer[k] # "off" /\ writer' = [writer EXCEPT ![k] = "off"]
      /\ queue' = [queue EXCEPT ![k] = <<>>] /\ bulk' = [bulk EXCEPT ![k] = {}]
      /\ unheard' = [unheard EXCEPT ![k] = {}]
      /\ UNCHANGED <<doc, current, pending, rows, tombs>>
      /\ DropChannels(natsOut) /\ Release(k)
  BY DEF WriterEnds, clientVars, dbVars
<1>3. /\ writer'[k] = "off" /\ queue'[k] = <<>>
      /\ \A j \in Conn \ {k} : /\ writer'[j] = writer[j] /\ queue'[j] = queue[j]
                               /\ bulk'[j] = bulk[j] /\ unheard'[j] = unheard[j]
  BY <1>1, <1>2 DEF TypeOK
<1>4. \A j \in Conn \ {k} : inst'[j] = inst[j] /\ chan'[j] = chan[j]
  BY <1>1, <1>2, ReleaseFacts
<1>5. natsOut \in [Instance -> Seq(Command)]
  BY <1>1 DEF TypeOK
<1>6. PICK live :
        /\ \A j \in Conn : writer'[j] # "off" => chan[j] \in live
        /\ subscribed' = subscribed \cap live
        /\ \A i \in Instance :
             \/ natsOut'[i] = natsOut[i]
             \/ \E v \in DOMAIN natsOut[i] :
                 /\ natsOut[i][v].kind = "sub" /\ natsOut[i][v].chan \notin live
                 /\ natsOut'[i] = RemoveAt(natsOut[i], v)
  BY <1>2, <1>5, DropAt
<1>7. \A j \in Conn : writer'[j] # "off" => j # k /\ writer[j] # "off" /\ chan[j] \in live /\ inst[j] \in Instance
  <2>1. \A j \in Conn : writer[j] # "off" => inst[j] \in Instance
    BY DEF CInv, ConnInv, ConnOK, Off
  <2> QED
    BY <1>3, <1>6, <2>1
<1>8. ASSUME NEW i \in Instance, NEW h \in live
      PROVE  \A o : Carries(natsOut[i], subscribed, h, o) => Carries(natsOut'[i], subscribed', h, o)
  <2>1. natsOut[i] \in Seq(Command) /\ (h \in subscribed => h \in subscribed')
    BY <1>5, <1>6
  <2>2. CASE natsOut'[i] = natsOut[i]
    BY <2>1, <2>2 DEF Carries
  <2>3. CASE natsOut'[i] # natsOut[i]
    <3>1. PICK v \in DOMAIN natsOut[i] :
            /\ natsOut[i][v].kind = "sub" /\ natsOut[i][v].chan # h
            /\ natsOut'[i] = RemoveAt(natsOut[i], v)
      BY <1>6, <2>3
    <3> QED
      BY <2>1, <3>1, RemoveCarries
  <2> QED
    BY <2>2, <2>3
<1>9. MsgInv'
  <2>1. ASSUME NEW j \in Conn PROVE OwnAll(doc, queue'[j])
    <3>1. OwnAll(doc, <<>>)
      BY DEF OwnAll
    <3> QED
      BY <1>1, <1>3, <3>1 DEF MsgInv
  <2>2. ASSUME NEW i \in Instance PROVE OwnPubs(doc, natsOut'[i])
    <3>1. OwnPubs(doc, natsOut[i]) /\ natsOut[i] \in Seq(Command)
      BY <1>1, <1>5 DEF MsgInv
    <3>2. natsOut'[i] = natsOut[i] \/ \E v \in DOMAIN natsOut[i] : natsOut'[i] = RemoveAt(natsOut[i], v)
      BY <1>6
    <3> QED
      BY <3>1, <3>2, RemoveOwn
  <2> QED
    BY <1>1, <1>2, <2>1, <2>2 DEF MsgInv
<1>10. ChanInv'
  <2>1. ASSUME NEW j \in Conn, NEW m \in Conn, writer'[j] # "off", writer'[m] # "off", inst'[j] = inst'[m]
        PROVE  chan'[j] = chan'[m]
    <3>1. /\ writer[j] # "off" /\ writer[m] # "off" /\ inst[j] = inst[m]
          /\ chan'[j] = chan[j] /\ chan'[m] = chan[m]
      BY <1>4, <1>7, <2>1
    <3> QED
      BY <1>1, <3>1 DEF ChanInv
  <2> QED
    BY <2>1 DEF ChanInv
<1>11. ASSUME NEW c \in Client, NEW j \in Conn, current'[c] = j PROVE GapOK(c, j)'
  <2>1. CASE j = k
    BY <1>3, <2>1 DEF GapOK
  <2>2. CASE j # k
    <3>1. /\ GapOK(c, j) /\ writer'[j] = writer[j] /\ bulk'[j] = bulk[j] /\ queue'[j] = queue[j]
          /\ unheard'[j] = unheard[j] /\ inst'[j] = inst[j] /\ chan'[j] = chan[j]
      BY <1>1, <1>2, <1>3, <1>4, <1>11, <2>2 DEF GapInv
    <3>2. writer[j] # "off" => \A o : Carries(natsOut[inst[j]], subscribed, chan[j], o)
                                        => Carries(natsOut'[inst'[j]], subscribed', chan'[j], o)
      BY <1>7, <1>8, <3>1
    <3>3. Receiving(j) => \A o : OnWay(o, c, j) => OnWay(o, c, j)'
      BY <1>2, <3>1, <3>2 DEF OnWay, Receiving
    <3> QED
      BY <1>2, <3>1, <3>3, GapFrame
  <2> QED
    BY <2>1, <2>2
<1> QED
  BY <1>9, <1>10, <1>11 DEF NInv, GapInv

\* A message at the head of the buffer goes to the channel it is to reach, and
\* a subscription at the head is known from then on.
LEMMA NatsDeliversNInv ==
    ASSUME CInv, NInv, Room, NEW i \in Instance, NatsDelivers(i)
    PROVE  NInv'
<1> DEFINE x == Head(natsOut[i])
<1>1. TypeOK /\ MsgInv /\ ChanInv /\ GapInv
  BY DEF CInv, NInv
<1>2. /\ natsOut[i] \in Seq(Command) /\ natsOut[i] # <<>>
      /\ natsOut' = [natsOut EXCEPT ![i] = Tail(@)]
      /\ \/ x.kind = "sub" /\ subscribed' = subscribed \cup {x.chan} /\ queue' = queue
         \/ /\ x.kind = "pub" /\ x.msg \in Message /\ PushAll(subscribed, x.msg)
            /\ subscribed' = {ch \in subscribed : Receivers(ch) # {}}
      /\ UNCHANGED <<doc, current, inst, chan, writer, bulk, pending, unheard, rows, tombs>>
  <2> HIDE DEF x
  <2> QED
    BY DeliverFacts DEF x
<1>3. natsOut'[i] = Tail(natsOut[i]) /\ \A j \in Instance \ {i} : natsOut'[j] = natsOut[j]
  BY <1>1, <1>2 DEF TypeOK
<1>4. ASSUME NEW h, Receivers(h) # {}
      PROVE  (h \in subscribed => h \in subscribed') /\ (IsSub(x, h) => h \in subscribed')
  BY <1>2, <1>4 DEF IsSub
<1>5. ASSUME NEW h, Receivers(h) # {}, NEW o, Carries(natsOut[i], subscribed, h, o)
      PROVE  \/ Carries(natsOut'[i], subscribed', h, o)
             \/ x.kind = "pub" /\ x.msg.item = o /\ h \in subscribed
  <2> DEFINE q == natsOut[i]
             S == subscribed
             T == subscribed'
  <2>1. q \in Seq(Command) /\ q # <<>> /\ (h \in S => h \in T) /\ (IsSub(Head(q), h) => h \in T)
    BY <1>2, <1>4, <1>5
  <2>2. natsOut'[i] = Tail(q) /\ Carries(q, S, h, o)
    BY <1>3, <1>5
  <2> HIDE DEF q, S, T
  <2>3. \/ Carries(Tail(q), T, h, o)
        \/ Head(q).kind = "pub" /\ Head(q).msg.item = o /\ h \in S
    BY <2>1, <2>2, TailCarries
  <2> QED
    BY <2>2, <2>3 DEF q, S, T
<1>6. ASSUME NEW j \in Instance \ {i}, NEW h, Receivers(h) # {}
      PROVE  \A o : Carries(natsOut[j], subscribed, h, o) => Carries(natsOut'[j], subscribed', h, o)
  BY <1>3, <1>4, <1>6 DEF Carries
<1>7. OwnPubs(doc, natsOut'[i]) /\ (x.kind = "pub" => Own(doc, x.msg))
  <2>1. OwnPubs(doc, natsOut[i])
    BY <1>1 DEF MsgInv
  <2> QED
    BY <1>2, <1>3, <2>1, TailOwn
<1> HIDE DEF x
<1>8. ASSUME NEW j \in Conn
      PROVE  /\ queue[j] \in Seq(Message)
             /\ \/ queue'[j] = queue[j]
                \/ x.kind = "pub" /\ x.msg \in Message /\ queue'[j] = Append(queue[j], x.msg)
             /\ x.kind = "pub" /\ Receiving(j) /\ chan[j] \in subscribed => queue'[j] = Append(queue[j], x.msg)
  <2>1. queue[j] \in Seq(Message) /\ Len(queue[j]) <= Capacity /\ Len(queue[j]) < Capacity
    BY <1>1 DEF TypeOK, Room
  <2>2. CASE x.kind = "sub"
    BY <1>2, <2>1, <2>2
  <2>3. CASE x.kind # "sub"
    <3>1. x.kind = "pub" /\ x.msg \in Message /\ PushAll(subscribed, x.msg)
      BY <1>2, <2>3
    <3>2. queue'[j] = IF writer[j] \notin {"off", "register"} /\ chan[j] \in subscribed THEN Push(queue[j], x.msg) ELSE queue[j]
      BY <1>1, <3>1, PushAllFacts
    <3>3. Push(queue[j], x.msg) = Append(queue[j], x.msg)
      BY <2>1, <3>1, PushFacts
    <3> QED
      BY <2>1, <3>1, <3>2, <3>3 DEF Receiving
  <2> QED
    BY <2>2, <2>3
<1>9. MsgInv'
  <2>1. ASSUME NEW j \in Conn PROVE OwnAll(doc, queue'[j])
    <3>1. OwnAll(doc, queue[j])
      BY <1>1 DEF MsgInv
    <3> QED
      BY <1>7, <1>8, <3>1, AppendOwn
  <2>2. \A j \in Instance : OwnPubs(doc, natsOut'[j])
    BY <1>1, <1>3, <1>7 DEF MsgInv
  <2> QED
    BY <1>1, <1>2, <2>1, <2>2 DEF MsgInv
<1>10. \A j \in Conn : writer[j] # "off" => inst[j] \in Instance
  BY DEF CInv, ConnInv, ConnOK, Off
<1>11. ChanInv'
  BY <1>1, <1>2 DEF ChanInv
<1>12. ASSUME NEW c \in Client, NEW j \in Conn, current'[c] = j PROVE GapOK(c, j)'
  <2>1. GapOK(c, j)
    BY <1>1, <1>2, <1>12 DEF GapInv
  <2>2. ASSUME Receiving(j), NEW o, OnWay(o, c, j) PROVE OnWay(o, c, j)'
    <3>1. Queued(queue[j], o) => Queued(queue'[j], o)
      BY <1>8, AppendQueued
    <3>2. Carries(natsOut[inst[j]], subscribed, chan[j], o) =>
              Carries(natsOut'[inst[j]], subscribed', chan[j], o) \/ Queued(queue'[j], o)
      <4>1. x.kind = "pub" /\ x.msg.item = o /\ chan[j] \in subscribed => Queued(queue'[j], o)
        <5>1. x.kind = "pub" => x.msg \in Message
          BY <1>2
        <5> QED
          BY <1>8, <2>2, <5>1, AppendQueued
      <4>2. inst[j] \in Instance /\ Receivers(chan[j]) # {}
        BY <1>10, <2>2 DEF Receiving, Receivers
      <4> QED
        BY <1>5, <1>6, <4>1, <4>2
    <3> QED
      BY <1>2, <2>2, <3>1, <3>2 DEF OnWay
  <2>3. bulk' = bulk /\ writer' = writer /\ rows' = rows /\ tombs' = tombs
    BY <1>2
  <2> QED
    BY <2>1, <2>2, <2>3, GapFrame
<1> QED
  BY <1>9, <1>11, <1>12 DEF NInv, GapInv

\* With one instance nobody is served any more.
LEMMA CrashNInv ==
    ASSUME \A i, j \in Instance : i = j, CInv, NInv, NEW i \in Instance, Crash(i)
    PROVE  NInv'
<1>1. TypeOK /\ MsgInv
  BY DEF CInv, NInv
<1>2. /\ \A k \in Conn : inst[k] = i => writer'[k] = "off" /\ queue'[k] = <<>> /\ pending'[k] = NoMsg
      /\ \A k \in Conn : inst[k] # i => writer'[k] = writer[k] /\ queue'[k] = queue[k] /\ pending'[k] = pending[k]
  BY CrashFacts, ZenonT(40)
<1>3. doc' = doc
  BY DEF Crash, clientVars
<1> DEFINE out == [natsOut EXCEPT ![i] = <<>>]
<1>4. natsOut \in [Instance -> Seq(Command)] /\ <<>> \in Seq(Command)
  BY <1>1 DEF TypeOK
<1>5. DropChannels(out)
  BY DEF Crash
<1>6. out \in [Instance -> Seq(Command)] /\ \A j \in Instance : out[j] = <<>>
  <2> HIDE DEF Command
  <2> QED
    BY <1>4
<1> HIDE DEF out
<1>7. \A j \in Instance : natsOut'[j] = <<>>
  <2>1. \A j \in Instance : natsOut'[j] = out[j] \/ \E v \in DOMAIN out[j] : natsOut'[j] = RemoveAt(out[j], v)
    BY <1>5, <1>6, DropAt
  <2>2. DOMAIN <<>> = {}
    OBVIOUS
  <2> QED
    BY <1>6, <2>1, <2>2
<1>8. \A k \in Conn : writer'[k] = "off"
  <2>1. \A k \in Conn : writer[k] # "off" => inst[k] = i
    BY DEF CInv, ConnInv, ConnOK, Off
  <2> QED
    BY <1>2, <2>1
<1>9. MsgInv'
  <2>1. OwnAll(doc, <<>>) /\ OwnPubs(doc, <<>>)
    BY DEF OwnAll, OwnPubs
  <2>2. \A k \in Conn : OwnAll(doc, queue'[k])
    BY <1>1, <1>2, <2>1 DEF MsgInv
  <2>3. \A k \in Conn : pending'[k] # NoMsg => Own(doc, pending'[k])
    BY <1>1, <1>2 DEF MsgInv
  <2> QED
    BY <1>3, <1>7, <2>1, <2>2, <2>3 DEF MsgInv
<1>10. ChanInv' /\ GapInv'
  BY <1>8 DEF ChanInv, GapInv, GapOK
<1> QED
  BY <1>9, <1>10 DEF NInv

LEMMA NextNInv ==
    ASSUME \A i, j \in Instance : i = j, "db" \notin Faults
    PROVE  FInv /\ NInv /\ Room /\ [Next]_vars => NInv'
<1> SUFFICES ASSUME FInv, NInv, Room, [Next]_vars PROVE NInv'
  OBVIOUS
<1>0. CInv /\ TypeOK
  BY DEF FInv, CInv
<1>1. ASSUME NEW c \in Client, NEW k \in Conn, NEW i \in Instance, Connect(c, k, i) PROVE NInv'
  BY <1>0, <1>1, ConnectNInv
<1>2. ASSUME NEW c \in Client, Disconnect(c) PROVE NInv'
  <2>1. \A d \in Client, k \in Conn : current'[d] = k => current[d] = k
    BY <1>0, <1>2, FanoutAssumption DEF Disconnect, TypeOK
  <2> QED
    BY <1>0, <1>2, <2>1, QuietNInv DEF Disconnect, connVars, dbVars, histVars, natsVars
<1>3. ASSUME NEW k \in Conn, PersistInsertion(k) \/ \E d \in Deletable : PersistDeletion(k, d) PROVE NInv'
  BY <1>0, <1>3, PersistNInv
<1>4. ASSUME NEW k \in Conn, ForwardSyncStepOne(k) PROVE NInv'
  BY <1>0, <1>4, QuietNInv DEF ForwardSyncStepOne, clientVars, connVars, dbVars, histVars, natsVars
<1>5. ASSUME NEW k \in Conn, Broadcast(k) PROVE NInv'
  BY <1>0, <1>5, BroadcastNInv
<1>6. ASSUME NEW k \in Conn, ReaderEnds(k) PROVE NInv'
  <2>1. /\ UNCHANGED <<doc, current, writer, bulk, queue, unheard, rows, tombs, natsOut, subscribed>>
        /\ pending[k] = NoMsg /\ pending' = [pending EXCEPT ![k] = NoMsg]
        /\ Release(k)
    BY <1>6 DEF ReaderEnds, clientVars, dbVars, histVars, natsVars
  <2>3. pending' = pending
    BY <1>0, <2>1 DEF TypeOK
  <2>2. ASSUME NEW j \in Conn, writer[j] # "off" PROVE inst'[j] = inst[j] /\ chan'[j] = chan[j]
    <3>1. j = k => ~Off(k)'
      BY <2>1, <2>2 DEF Off
    <3> QED
      BY <1>0, <2>1, <3>1, ReleaseFacts
  <2> QED
    BY <1>0, <2>1, <2>2, <2>3, QuietNInv
<1>7. ASSUME NEW k \in Conn, ReadOperations(k) PROVE NInv'
  BY <1>7, ReadOperationsNInv
<1>8. ASSUME NEW k \in Conn, SendSyncStepTwo(k) PROVE NInv'
  BY <1>0, <1>8, SendSyncStepTwoNInv
<1>9. ASSUME NEW k \in Conn, Forward(k) PROVE NInv'
  BY <1>0, <1>9, ForwardNInv
<1>10. ASSUME NEW k \in Conn, WriterEnds(k) PROVE NInv'
  BY <1>0, <1>10, WriterEndsNInv
<1>11. ASSUME NEW i \in Instance, NatsDelivers(i) PROVE NInv'
  BY <1>0, <1>11, NatsDeliversNInv
<1>12. ASSUME NEW i \in Instance, Crash(i) PROVE NInv'
  BY <1>0, <1>12, CrashNInv
<1>13. CASE UNCHANGED vars
  BY <1>0, <1>13, QuietNInv DEF vars, clientVars, connVars, dbVars, histVars, natsVars
<1>14. ASSUME NEW k \in Conn, Register(k) PROVE NInv'
  BY <1>0, <1>14, RegisterNInv
<1> QED
  BY <1>1, <1>2, <1>3, <1>4, <1>5, <1>6, <1>7, <1>8, <1>9, <1>10, <1>11, <1>12, <1>13, <1>14
     DEF Next, ServerStep

LEMMA InitNInv == Init => NInv
<1> SUFFICES ASSUME Init PROVE MsgInv /\ ChanInv /\ GapInv
  BY DEF NInv
<1>1. MsgInv
  BY DEF Init, MsgInv, OwnAll, OwnPubs
<1>2. ChanInv /\ GapInv
  BY FanoutAssumption DEF Init, ChanInv, GapInv, GapOK
<1> QED
  BY <1>1, <1>2

LEMMA OnWayNoGap == CInv /\ NInv => NoGap
<1> SUFFICES ASSUME CInv, NInv, NEW c \in Client, NEW k \in Conn, current[c] = k, writer[k] = "hot",
                    NEW o \in Persisted
             PROVE  o \in doc[c] \cup Items(queue[k]) \cup Published \cup {pending[j].item : j \in Conn}
                         \cup unheard[k]
  BY DEF NoGap
<1>1. OnWay(o, c, k) /\ bulk[k] = {}
  BY DEF NInv, GapInv, GapOK, Persisted
<1>2. Queued(queue[k], o) => o \in Items(queue[k])
  BY DEF Queued, Items
<1>3. ASSUME Carries(natsOut[inst[k]], subscribed, chan[k], o) PROVE o \in Published
  <2>1. inst[k] \in Instance
    BY DEF CInv, ConnInv, ConnOK, Off
  <2>2. PICK n \in DOMAIN natsOut[inst[k]] :
          natsOut[inst[k]][n].kind = "pub" /\ natsOut[inst[k]][n].msg.item = o
    BY <1>3 DEF Carries
  <2> QED
    BY <2>1, <2>2 DEF Published
<1> QED
  BY <1>1, <1>2, <1>3 DEF OnWay

\* On one instance, while no receiver lags behind the ring buffer, NATS takes
\* what only it can deliver and no query fails, nothing falls between the two
\* queries of the handshake and the channel: what is persisted is in the
\* document of a client that has had its handshake or on its way there, or was
\* sent on another channel while the client's own was deaf to NATS.  This with
\* tasks ending, channels dying and being replaced and the instance dying.
\* With a second instance it is false (the run Fanout_two_instances), and so it
\* is when the query that stores a message's deletions fails (the run
\* Ingest_partial_failure): then its insertion is persisted and not sent.
THEOREM NothingFallsThrough ==
    ASSUME \A i, j \in Instance : i = j, "db" \notin Faults
    PROVE  Spec /\ []Room => []NoGap
<1>1. FInv /\ NInv => NoGap
  BY OnWayNoGap DEF FInv
<1>2. FInv /\ NInv /\ Room /\ [Next]_vars => NInv'
  BY NextNInv
<1> QED
  BY <1>1, <1>2, FanoutInvariance, InitNInv, PTL DEF Spec
=============================================================================
