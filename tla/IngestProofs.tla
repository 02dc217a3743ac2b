---------------------------- MODULE IngestProofs ----------------------------
(***************************************************************************)
(* Proofs about Ingest for every set of clients and connections, every     *)
(* number of operations and any mix of faults.                             *)
(*                                                                         *)
(* PrefixClosed is not inductive: that a row may be added at offset hi-1   *)
(* rests on everything below lo being in the table already, hence on what  *)
(* is still in flight on the connection.  The invariant IInv follows one   *)
(* connection's stream from the sync step two on: it starts at an offset   *)
(* the table covers (the one the server announced), every message begins   *)
(* where its predecessor ends, and what has been handled is covered.       *)
(***************************************************************************)
EXTENDS Ingest, TLAPS

\* The rows R hold the first n operations of client c.
Holds(R, c, n) ==
    \A o \in 0 .. n - 1 : \E r \in R : r.client = c /\ r.lo <= o /\ o <= r.offset

\* The reader will not skip message i of the inbox: the sync step two of the
\* connection has been read, or lies at or before position i.
Counts(k, i) ==
    phase[k] # "handshake" \/ \E j \in 1 .. i : inbox[k][j].kind = "ss2"

\* What the server has announced it has, it has.
Announced(k) == ss1[k] >= 0 => Holds(rows, owner[k], ss1[k])

\* The sync step two is sent once, in answer to the server's sync step one.
OneSyncStepTwo(k) ==
    /\ phase[k] # "handshake" => ss1[k] = Answered
    /\ \A i \in 1 .. Len(inbox[k]) :
          inbox[k][i].kind = "ss2" =>
              /\ phase[k] = "handshake"
              /\ ss1[k] = Answered
              /\ \A j \in 1 .. Len(inbox[k]) : inbox[k][j].kind = "ss2" => j = i

\* A message being handled begins where the table's coverage ends or before,
\* and after its insertion has been dealt with all of it is covered.
Handled(k) ==
    phase[k] \in Busy =>
        /\ Holds(rows, owner[k], cur[k].lo)
        /\ cur[k].lo <= cur[k].hi
        /\ phase[k] \in {"lookup", "write"} => cur[k].lo < cur[k].hi
        /\ phase[k] \in {"delete", "send"} => Holds(rows, owner[k], cur[k].hi)
        /\ phase[k] = "send" => cur[k].del \subseteq tombs

\* The stream on the connection has no gap.
Contiguous(k) ==
    /\ \A i \in 1 .. Len(inbox[k]) : inbox[k][i].lo <= inbox[k][i].hi
    /\ \A i \in 1 .. Len(inbox[k]) :
          inbox[k][i].kind = "ss2" => Holds(rows, owner[k], inbox[k][i].lo)
    /\ \A i \in 1 .. Len(inbox[k]) - 1 :
          Counts(k, i) => inbox[k][i + 1].lo = inbox[k][i].hi
    /\ Len(inbox[k]) > 0 /\ phase[k] \in Busy => inbox[k][1].lo = cur[k].hi
    /\ Len(inbox[k]) > 0 /\ phase[k] = "hot" => Holds(rows, owner[k], inbox[k][1].lo)

ConnInv(k) ==
    /\ phase[k] = "closed" => Len(inbox[k]) = 0
    /\ phase[k] # "closed" =>
          Announced(k) /\ OneSyncStepTwo(k) /\ Handled(k) /\ Contiguous(k)

\* The stream of the connection a client uses ends at the client's clock.
ReachesClock(c, k) ==
    /\ owner[k] = c
    /\ ss1[k] = Answered => Counts(k, Len(inbox[k]))
    /\ Len(inbox[k]) > 0 /\ ss1[k] = Answered => inbox[k][Len(inbox[k])].hi = clock[c]
    /\ Len(inbox[k]) = 0 /\ phase[k] \in Busy => cur[k].hi = clock[c]
    /\ Len(inbox[k]) = 0 /\ phase[k] = "hot" => Holds(rows, c, clock[c])

\* A deletion of an attached client is in the table, or in a message that
\* will be, or the connection has not had its sync step two yet.
DeletionsInStream(c, k) ==
    ss1[k] = Answered =>
        \A d \in deleted[c] :
            \/ d \in tombs
            \/ phase[k] \in AwaitsRepo /\ d \in cur[k].del
            \/ \E i \in 1 .. Len(inbox[k]) : Counts(k, i) /\ d \in inbox[k][i].del

ClientInv(c, k) ==
    current[c] = k /\ phase[k] # "closed" =>
        ReachesClock(c, k) /\ DeletionsInStream(c, k)

StreamInv ==
    /\ \A k \in Conn : ConnInv(k)
    /\ \A c \in Client : \A k \in Conn : ClientInv(c, k)

\* What the broker has been given is in the tables, with all before it.
SentHeld ==
    \A s \in sent : Holds(rows, s[1], s[2].hi) /\ s[2].del \subseteq tombs

IInv ==
    /\ TypeOK
    /\ PrefixClosed
    /\ StreamInv
    /\ SentHeld

-----------------------------------------------------------------------------
(* Type correctness.                                                       *)

LEMMA NoMsgType == NoMsg \in Message
BY DEF NoMsg, Message

LEMMA SendType ==
    ASSUME TypeOK, NEW k \in Conn \cup {NoConn}, NEW m \in Message, Send(k, m)
    PROVE  inbox' \in [Conn -> Seq(Message)]
BY IngestAssumption DEF TypeOK, Send

LEMMA EndTaskType ==
    ASSUME TypeOK, NEW k \in Conn, EndTask(k), sent' \subseteq sent \cup {<<owner[k], cur[k]>>}
    PROVE  TypeOK'
<1>1. NoMsg \in Message
  BY NoMsgType
<1>2. <<>> \in Seq(Message)
  OBVIOUS
<1> QED
  BY <1>1, <1>2 DEF TypeOK, EndTask, NoOffset, Phase, clientVars, dbVars

LEMMA InitTypeOK == Init => TypeOK
BY NoMsgType DEF Init, TypeOK, Phase, NoOffset, Unsent

\* A row has a proper offset because only a message with an insertion is
\* written: TypeOK needs Handled.
LEMMA NextTypeOK == IInv /\ [Next]_vars => TypeOK'
<1> SUFFICES ASSUME IInv, [Next]_vars PROVE TypeOK'
  OBVIOUS
<1> USE DEF IInv, StreamInv
<1>1. ASSUME NEW c \in Client, NEW k \in Conn, Connect(c, k) PROVE TypeOK'
  BY <1>1 DEF TypeOK, Connect, Unsent, Phase, Selecting, dbVars
<1>2. ASSUME NEW c \in Client, NEW n \in 1 .. MaxBatch, Edit(c, n) PROVE TypeOK'
  <2> DEFINE m == [kind |-> "update", lo |-> clock[c], hi |-> clock[c] + n, del |-> {}]
  <2>1. m \in Message /\ clock[c] + n \in Nat
    BY IngestAssumption DEF TypeOK, Message
  <2>2. current[c] \in Conn \cup {NoConn} /\ Send(current[c], m)
    BY <1>2 DEF TypeOK, Edit
  <2>3. inbox' \in [Conn -> Seq(Message)]
    BY <2>1, <2>2, SendType
  <2> QED
    BY <1>2, <2>1, <2>3 DEF TypeOK, Edit, taskVars, dbVars
<1>3. ASSUME NEW c \in Client, NEW d \in Deletable, Delete(c, d) PROVE TypeOK'
  <2> DEFINE m == [kind |-> "update", lo |-> clock[c], hi |-> clock[c], del |-> {d}]
  <2>1. m \in Message
    BY DEF TypeOK, Message
  <2>2. current[c] \in Conn \cup {NoConn} /\ Send(current[c], m)
    BY <1>3 DEF TypeOK, Delete
  <2>3. inbox' \in [Conn -> Seq(Message)]
    BY <2>1, <2>2, SendType
  <2> QED
    BY <1>3, <2>3 DEF TypeOK, Delete, taskVars, dbVars
<1>4. ASSUME NEW c \in Client, ClientSyncStepTwo(c) PROVE TypeOK'
  <2> DEFINE k == current[c]
             m == [kind |-> "ss2", lo |-> Minimum(clock[c], ss1[k]),
                   hi |-> clock[c], del |-> deleted[c]]
  <2>1. k \in Conn /\ ss1[k] \in Nat
    BY <1>4 DEF TypeOK, ClientSyncStepTwo
  <2>2. m \in Message
    BY <2>1 DEF TypeOK, Message, Minimum
  <2>3. Send(k, m)
    BY <1>4 DEF ClientSyncStepTwo
  <2>4. inbox' \in [Conn -> Seq(Message)]
    BY <2>1, <2>2, <2>3, SendType
  <2>5. ss1' \in [Conn -> Int]
    BY <1>4 DEF TypeOK, ClientSyncStepTwo, Answered
  <2>6. UNCHANGED <<clientVars, taskVars, dbVars, sent>>
    BY <1>4 DEF ClientSyncStepTwo
  <2> QED
    BY <2>4, <2>5, <2>6 DEF TypeOK, clientVars, taskVars, dbVars
<1>5. ASSUME NEW c \in Client, Disconnect(c) PROVE TypeOK'
  <2> DEFINE k == current[c]
  <2>1. PICK n \in 0 .. Len(inbox[k]) : inbox' = [inbox EXCEPT ![k] = SubSeq(@, 1, n)]
    BY <1>5 DEF Disconnect
  <2>2. k \in Conn /\ inbox[k] \in Seq(Message)
    BY <1>5 DEF Disconnect, TypeOK
  <2>3. SubSeq(inbox[k], 1, n) \in Seq(Message)
    BY <2>2
  <2> QED
    BY <1>5, <2>1, <2>2, <2>3 DEF TypeOK, Disconnect, taskVars, dbVars
<1>6. ASSUME NEW k \in Conn, SendServerSyncStepOne(k) PROVE TypeOK'
  BY <1>6 DEF TypeOK, SendServerSyncStepOne, ServerStateVector, NoOffset, Row,
              clientVars, taskVars, dbVars
<1>7. ASSUME NEW k \in Conn, ReaderStep(k) PROVE TypeOK'
  <2>1. CASE Receive(k)
    BY <2>1 DEF TypeOK, Receive, FirstAwait, Phase, Busy, AwaitsRepo, clientVars, dbVars
  <2>2. CASE SkipUpdate(k)
    BY <2>2 DEF TypeOK, SkipUpdate, clientVars, taskVars, dbVars
  <2>3. CASE LookupOffset(k)
    BY <2>3 DEF TypeOK, LookupOffset, AfterInsertion, NoOffset, Row, Phase, Busy, AwaitsRepo,
                clientVars, dbVars
  <2>4. CASE PersistOperation(k)
    <3>1. owner[k] \in Client /\ cur[k].lo \in Nat /\ cur[k].hi \in Nat /\ cur[k].lo < cur[k].hi
      BY <2>4 DEF TypeOK, Message, PersistOperation, ConnInv, Handled, Busy, AwaitsRepo
    <3>2. rows' \subseteq Row
      BY <2>4, <3>1 DEF TypeOK, PersistOperation, WriteOperation, NewOffset, Row, Message
    <3> QED
      BY <2>4, <3>2 DEF TypeOK, PersistOperation, AfterInsertion, Phase, Busy, AwaitsRepo, clientVars
  <2>5. CASE PersistDeletions(k)
    BY <2>5 DEF TypeOK, PersistDeletions, Message, Phase, Busy, AwaitsRepo, clientVars
  <2>6. CASE Broadcast(k)
    BY <2>6, NoMsgType DEF TypeOK, Broadcast, NoOffset, Phase, Selecting, clientVars, dbVars
  <2>7. CASE ReadClosed(k)
    BY <2>7, EndTaskType DEF ReadClosed
  <2> QED
    BY <1>7, <2>1, <2>2, <2>3, <2>4, <2>5, <2>6, <2>7 DEF ReaderStep
<1>8. ASSUME NEW k \in Conn, RepoFails(k) \/ WriterGone(k) \/ BroadcastFails(k) \/ Crash(k)
      PROVE  TypeOK'
  BY <1>8, EndTaskType DEF RepoFails, WriterGone, BroadcastFails, Crash
<1>9. CASE UNCHANGED vars
  BY <1>9 DEF TypeOK, vars, clientVars, taskVars, dbVars
<1> QED
  BY <1>1, <1>2, <1>3, <1>4, <1>5, <1>6, <1>7, <1>8, <1>9 DEF Next

-----------------------------------------------------------------------------
(* What the table holds.                                                   *)

LEMMA PrefixClosedHolds ==
    ASSUME TypeOK
    PROVE  PrefixClosed <=> \A r \in rows : Holds(rows, r.client, r.offset + 1)
<1>1. ASSUME NEW r \in rows
      PROVE  Holds(rows, r.client, r.offset + 1) <=> \A o \in 0 .. r.offset : Covered(r.client, o)
  <2>1. r.offset \in Int /\ (r.offset + 1) - 1 = r.offset
    BY DEF TypeOK, Row
  <2> QED
    BY <2>1 DEF Holds, Covered
<1> QED
  BY <1>1 DEF PrefixClosed

LEMMA HoldsGrows ==
    ASSUME NEW R, NEW S, R \subseteq S, NEW c, NEW n, Holds(R, c, n)
    PROVE  Holds(S, c, n)
BY DEF Holds

LEMMA HoldsLess ==
    ASSUME NEW R, NEW c, NEW n \in Int, NEW m \in Int, n <= m, Holds(R, c, m)
    PROVE  Holds(R, c, n)
BY DEF Holds

\* The offset a reader or writer finds is one up to which nothing is missing.
LEMMA LastHolds ==
    ASSUME TypeOK, PrefixClosed, NEW c \in Client, NEW m \in Int, IsLastReceivedOffset(c, m)
    PROVE  Holds(rows, c, m + 1)
<1>1. CASE m = NoOffset
  BY <1>1 DEF Holds, NoOffset
<1>2. CASE \E r \in rows : r.client = c /\ r.offset = m
  BY <1>2, PrefixClosedHolds
<1> QED
  BY <1>1, <1>2 DEF IsLastReceivedOffset

\* Inserting a row whose payload starts where coverage ends extends it to the
\* row's offset; a conflicting row shows it was there already.
LEMMA WriteHolds ==
    ASSUME TypeOK, PrefixClosed, NEW c \in Client, NEW m \in Message,
           m.lo < m.hi, Holds(rows, c, m.lo),
           rows' = WriteOperation(c, NewOffset(m), m)
    PROVE  /\ rows \subseteq rows'
           /\ Holds(rows', c, m.hi)
           /\ PrefixClosed'
<1> DEFINE new == [client |-> c, offset |-> NewOffset(m), lo |-> m.lo]
<1>1. CASE \E r \in rows : r.client = c /\ r.offset = NewOffset(m)
  <2>1. rows' = rows
    BY <1>1 DEF WriteOperation
  <2>2. Holds(rows, c, NewOffset(m) + 1)
    BY <1>1, PrefixClosedHolds
  <2>3. NewOffset(m) + 1 = m.hi
    BY DEF NewOffset, Message
  <2> QED
    BY <2>1, <2>2, <2>3 DEF PrefixClosed, Covered
<1>2. CASE rows' = rows \cup {new}
  <2>1. Holds(rows', c, m.hi)
    <3> SUFFICES ASSUME NEW o \in 0 .. m.hi - 1
                 PROVE  \E r \in rows' : r.client = c /\ r.lo <= o /\ o <= r.offset
      BY DEF Holds
    <3>1. CASE o < m.lo
      BY <1>2, <3>1 DEF Holds, Message
    <3>2. CASE m.lo <= o
      <4>1. new.client = c /\ new.lo <= o /\ o <= new.offset
        BY <3>2 DEF NewOffset, Message
      <4> QED
        BY <1>2, <4>1
    <3> QED
      BY <3>1, <3>2 DEF Message
  <2>2. ASSUME NEW r \in rows' PROVE Holds(rows', r.client, r.offset + 1)
    <3>1. CASE r \in rows
      <4>1. Holds(rows, r.client, r.offset + 1)
        BY <3>1, PrefixClosedHolds
      <4> QED
        BY <1>2, <4>1, HoldsGrows
    <3>2. CASE r = new
      <4>1. r.client = c /\ r.offset + 1 = m.hi
        BY <3>2 DEF NewOffset, Message
      <4> QED
        BY <2>1, <4>1
    <3> QED
      BY <1>2, <2>2, <3>1, <3>2
  <2>3. PrefixClosed'
    <3>1. ASSUME NEW r \in rows' PROVE r.offset \in Int
      <4>1. new.offset \in Int
        BY DEF NewOffset, Message
      <4> QED
        BY <1>2, <4>1 DEF TypeOK, Row
    <3>2. ASSUME NEW r \in rows', NEW o \in 0 .. r.offset
          PROVE  \E s \in rows' : s.client = r.client /\ s.lo <= o /\ o <= s.offset
      <4>1. (r.offset + 1) - 1 = r.offset
        BY <3>1
      <4> QED
        BY <2>2, <4>1 DEF Holds
    <3> QED
      BY <3>2 DEF PrefixClosed, Covered
  <2> QED
    BY <1>2, <2>1, <2>3
<1> QED
  BY <1>1, <1>2 DEF WriteOperation

-----------------------------------------------------------------------------
(* A step that does not touch a connection leaves its invariant alone.     *)

SameConn(k) ==
    /\ owner'[k] = owner[k] /\ phase'[k] = phase[k] /\ inbox'[k] = inbox[k]
    /\ cur'[k] = cur[k] /\ ss1'[k] = ss1[k]

LEMMA ConnFrame ==
    ASSUME NEW k \in Conn, SameConn(k), rows \subseteq rows', tombs \subseteq tombs', ConnInv(k)
    PROVE  ConnInv(k)'
BY HoldsGrows DEF SameConn, ConnInv, Announced, OneSyncStepTwo, Handled, Contiguous, Counts

LEMMA ClientFrame ==
    ASSUME NEW k \in Conn, NEW c \in Client, SameConn(k),
           clock'[c] = clock[c], deleted'[c] = deleted[c], current'[c] = current[c],
           rows \subseteq rows', tombs \subseteq tombs', ClientInv(c, k)
    PROVE  ClientInv(c, k)'
BY HoldsGrows DEF SameConn, ClientInv, ReachesClock, DeletionsInStream, Counts

\* So a step of one connection's tasks has to be looked at on that
\* connection only ...
LEMMA OnlyConn ==
    ASSUME StreamInv, NEW k \in Conn, \A j \in Conn \ {k} : SameConn(j),
           UNCHANGED clientVars, rows \subseteq rows', tombs \subseteq tombs',
           ConnInv(k)', \A c \in Client : ClientInv(c, k)'
    PROVE  StreamInv'
<1>1. ASSUME NEW j \in Conn PROVE ConnInv(j)'
  BY ConnFrame DEF StreamInv
<1>2. ASSUME NEW c \in Client, NEW j \in Conn PROVE ClientInv(c, j)'
  BY ClientFrame DEF StreamInv, clientVars
<1> QED
  BY <1>1, <1>2 DEF StreamInv

LEMMA EndTaskInv ==
    ASSUME IInv, NEW k \in Conn, EndTask(k)
    PROVE  StreamInv'
<1>1. phase'[k] = "closed" /\ Len(inbox'[k]) = 0
  BY DEF IInv, TypeOK, EndTask
<1>2. \A j \in Conn \ {k} : SameConn(j)
  BY DEF IInv, TypeOK, EndTask, SameConn
<1>3. ConnInv(k)' /\ \A c \in Client : ClientInv(c, k)'
  BY <1>1 DEF ConnInv, ClientInv
<1> QED
  BY <1>2, <1>3, OnlyConn DEF IInv, EndTask, dbVars

LEMMA SendServerSyncStepOneInv ==
    ASSUME IInv, NEW k \in Conn, SendServerSyncStepOne(k)
    PROVE  StreamInv'
<1> USE DEF IInv
<1>1. PICK m \in {r.offset : r \in rows} \cup {NoOffset} :
          /\ IsLastReceivedOffset(owner[k], m)
          /\ ss1' = [ss1 EXCEPT ![k] = ServerStateVector(m)]
  BY DEF SendServerSyncStepOne
<1>2. owner[k] \in Client /\ m \in Int /\ (m = NoOffset \/ m >= 0)
  BY <1>1 DEF TypeOK, Row, NoOffset
<1>3. Holds(rows, owner[k], m + 1)
  BY <1>1, <1>2, LastHolds
<1>4. ss1'[k] = m + 1 /\ ss1'[k] >= 0
  BY <1>1, <1>2 DEF TypeOK, ServerStateVector, NoOffset
<1>5. phase[k] = "handshake" /\ ss1[k] = Unsent
  BY DEF SendServerSyncStepOne, StreamInv, ConnInv, OneSyncStepTwo, Unsent, Answered
<1>6. \A j \in Conn \ {k} : SameConn(j)
  BY <1>1 DEF SameConn, TypeOK, SendServerSyncStepOne, taskVars
<1>7. UNCHANGED <<clientVars, taskVars, inbox, dbVars, sent>>
  BY DEF SendServerSyncStepOne
<1>8. ConnInv(k)'
  <2>1. Announced(k)'
    BY <1>3, <1>4, <1>7 DEF Announced, taskVars, dbVars
  <2>2. OneSyncStepTwo(k)'
    BY <1>5, <1>7 DEF OneSyncStepTwo, StreamInv, ConnInv, taskVars, Unsent, Answered
  <2>3. Handled(k)' /\ Contiguous(k)'
    BY <1>5, <1>7 DEF Handled, Contiguous, Counts, StreamInv, ConnInv, taskVars, dbVars
  <2> QED
    BY <1>5, <1>7, <2>1, <2>2, <2>3 DEF ConnInv, taskVars
<1>9. ASSUME NEW c \in Client PROVE ClientInv(c, k)'
  BY <1>4, <1>5, <1>7 DEF ClientInv, ReachesClock, DeletionsInStream, Counts, StreamInv,
                          clientVars, taskVars, dbVars, Answered, Unsent, Busy, AwaitsRepo
<1> QED
  BY <1>6, <1>7, <1>8, <1>9, OnlyConn DEF dbVars

\* The steps inside persist_and_broadcast_update move the coverage up to the
\* end of the message in hand, and then to the next message of the stream.
LEMMA LookupOffsetInv ==
    ASSUME IInv, NEW k \in Conn, LookupOffset(k)
    PROVE  StreamInv'
<1> USE DEF IInv
<1>1. PICK m \in {r.offset : r \in rows} \cup {NoOffset} :
          /\ IsLastReceivedOffset(owner[k], m)
          /\ phase' = [phase EXCEPT ![k] =
                IF IsNovelOffset(m, NewOffset(cur[k])) THEN "write"
                ELSE AfterInsertion(cur[k])]
  BY DEF LookupOffset
<1>2. owner[k] \in Client /\ m \in Int /\ cur[k].hi \in Nat /\ cur[k].lo \in Nat
  BY <1>1 DEF TypeOK, Row, NoOffset, Message
<1>3. Holds(rows, owner[k], m + 1)
  BY <1>1, <1>2, LastHolds
<1>4. phase[k] = "lookup" /\ UNCHANGED <<clientVars, owner, inbox, cur, ss1, rows, tombs>>
  BY DEF LookupOffset, dbVars
<1>5. phase'[k] = "write" \/ (phase'[k] \in {"delete", "send"} /\ cur[k].hi <= m + 1
                              /\ (phase'[k] = "send" => cur[k].del = {}))
  BY <1>1, <1>2 DEF TypeOK, IsNovelOffset, NewOffset, AfterInsertion
<1>6. phase'[k] \in {"delete", "send"} => Holds(rows, owner[k], cur[k].hi)
  BY <1>2, <1>3, <1>5, HoldsLess
<1>7. \A j \in Conn \ {k} : SameConn(j)
  BY <1>1, <1>4 DEF SameConn, TypeOK
<1>8. ConnInv(k)'
  BY <1>4, <1>5, <1>6 DEF ConnInv, StreamInv, Announced, OneSyncStepTwo, Handled, Contiguous,
                          Counts, Busy, AwaitsRepo
<1>9. ASSUME NEW c \in Client PROVE ClientInv(c, k)'
  BY <1>4, <1>5 DEF ClientInv, ReachesClock, DeletionsInStream, Counts, StreamInv,
                    clientVars, Busy, AwaitsRepo
<1> QED
  BY <1>4, <1>7, <1>8, <1>9, OnlyConn

LEMMA PersistOperationInv ==
    ASSUME IInv, NEW k \in Conn, PersistOperation(k)
    PROVE  StreamInv' /\ PrefixClosed'
<1> USE DEF IInv
<1>1. phase[k] = "write" /\ UNCHANGED <<clientVars, owner, inbox, cur, ss1, tombs>>
  BY DEF PersistOperation
<1>2. /\ owner[k] \in Client /\ cur[k] \in Message
      /\ cur[k].lo < cur[k].hi /\ Holds(rows, owner[k], cur[k].lo)
  BY <1>1 DEF TypeOK, StreamInv, ConnInv, Handled, Busy, AwaitsRepo
<1>3. rows \subseteq rows' /\ Holds(rows', owner[k], cur[k].hi) /\ PrefixClosed'
  BY <1>2, WriteHolds DEF PersistOperation
<1>4. phase'[k] \in {"delete", "send"} /\ (phase'[k] = "send" => cur[k].del = {})
  BY DEF PersistOperation, TypeOK, AfterInsertion
<1>5. \A j \in Conn \ {k} : SameConn(j)
  BY <1>1 DEF SameConn, TypeOK, PersistOperation
<1>6. ConnInv(k)'
  BY <1>1, <1>3, <1>4, HoldsGrows DEF ConnInv, StreamInv, Announced, OneSyncStepTwo, Handled,
                          Contiguous, Counts, Busy, AwaitsRepo
<1>7. ASSUME NEW c \in Client PROVE ClientInv(c, k)'
  BY <1>1, <1>4 DEF ClientInv, ReachesClock, DeletionsInStream, Counts, StreamInv,
                    clientVars, Busy, AwaitsRepo
<1> QED
  BY <1>1, <1>3, <1>5, <1>6, <1>7, OnlyConn

LEMMA PersistDeletionsInv ==
    ASSUME IInv, NEW k \in Conn, PersistDeletions(k)
    PROVE  StreamInv'
<1> USE DEF IInv
<1>1. /\ phase[k] = "delete" /\ phase'[k] = "send" /\ tombs' = tombs \cup cur[k].del
      /\ UNCHANGED <<clientVars, owner, inbox, cur, ss1, rows>>
  BY DEF PersistDeletions, TypeOK
<1>2. \A j \in Conn \ {k} : SameConn(j)
  BY <1>1 DEF SameConn, TypeOK, PersistDeletions
<1>3. ConnInv(k)'
  BY <1>1 DEF ConnInv, StreamInv, Announced, OneSyncStepTwo, Handled, Contiguous, Counts,
              Busy, AwaitsRepo
<1>4. ASSUME NEW c \in Client PROVE ClientInv(c, k)'
  BY <1>1 DEF ClientInv, ReachesClock, DeletionsInStream, Counts, StreamInv,
              clientVars, Busy, AwaitsRepo
<1> QED
  BY <1>1, <1>2, <1>3, <1>4, OnlyConn

LEMMA BroadcastInv ==
    ASSUME IInv, NEW k \in Conn, Broadcast(k)
    PROVE  StreamInv'
<1> USE DEF IInv
<1>1. /\ phase[k] = "send" /\ phase'[k] = "hot"
      /\ UNCHANGED <<clientVars, owner, inbox, ss1, rows, tombs>>
  BY DEF Broadcast, TypeOK, dbVars
<1>2. Holds(rows, owner[k], cur[k].hi) /\ Contiguous(k) /\ OneSyncStepTwo(k) /\ Announced(k)
  BY <1>1 DEF StreamInv, ConnInv, Handled, Busy
<1>3. \A j \in Conn \ {k} : SameConn(j)
  BY <1>1 DEF SameConn, TypeOK, Broadcast
<1>4. ConnInv(k)'
  BY <1>1, <1>2 DEF ConnInv, Announced, OneSyncStepTwo, Handled, Contiguous, Counts,
                    Busy, AwaitsRepo
<1>5. ASSUME NEW c \in Client PROVE ClientInv(c, k)'
  BY <1>1, <1>2 DEF ClientInv, ReachesClock, DeletionsInStream, Counts, StreamInv,
              clientVars, Busy, AwaitsRepo
<1> QED
  BY <1>1, <1>3, <1>4, <1>5, OnlyConn

-----------------------------------------------------------------------------
(* Taking a message off the inbox.                                         *)

LEMMA TailFacts ==
    ASSUME NEW q \in Seq(Message), q # <<>>
    PROVE  /\ Len(q) > 0 /\ Len(q) \in Nat /\ Head(q) = q[1] /\ q[1] \in Message
           /\ Tail(q) \in Seq(Message) /\ Len(Tail(q)) = Len(q) - 1
           /\ \A i \in 1 .. Len(q) - 1 : Tail(q)[i] = q[i + 1]
OBVIOUS

LEMMA ReceiveInv ==
    ASSUME IInv, NEW k \in Conn, Receive(k)
    PROVE  StreamInv'
<1> USE DEF IInv
<1> DEFINE q == inbox[k]
           m == Head(q)
<1>1. q \in Seq(Message) /\ q # <<>> /\ inbox' = [inbox EXCEPT ![k] = Tail(q)]
  BY DEF Receive, TypeOK
<1>2. /\ (phase[k] = "handshake" /\ m.kind = "ss2") \/ (phase[k] = "hot" /\ m.kind = "update")
      /\ cur'[k] = m /\ phase'[k] = FirstAwait(m)
      /\ UNCHANGED <<clientVars, owner, ss1, rows, tombs>>
  BY DEF Receive, TypeOK, dbVars
<1>3. /\ Len(q) > 0 /\ Len(q) \in Nat /\ m = q[1] /\ m \in Message
      /\ inbox'[k] = Tail(q) /\ Len(inbox'[k]) = Len(q) - 1
      /\ \A i \in 1 .. Len(q) - 1 : inbox'[k][i] = q[i + 1]
  BY <1>1, TailFacts DEF TypeOK
<1>4. ConnInv(k) /\ phase[k] # "closed"
  BY <1>2 DEF StreamInv
<1>5. m.lo <= m.hi /\ Holds(rows, owner[k], m.lo) /\ m.lo \in Nat /\ m.hi \in Nat
  BY <1>2, <1>3, <1>4 DEF ConnInv, Contiguous, Message
<1>6. /\ phase'[k] \in Busy
      /\ phase'[k] = "lookup" => m.lo < m.hi
      /\ phase'[k] # "write"
      /\ phase'[k] \in {"delete", "send"} => m.lo = m.hi
      /\ phase'[k] = "send" => m.del = {}
  BY <1>2, <1>5 DEF FirstAwait, HasInsertion, Busy, AwaitsRepo
<1>7. ss1[k] = Answered
  BY <1>2, <1>3, <1>4 DEF ConnInv, OneSyncStepTwo
<1>8. \A i \in 1 .. Len(q) : Counts(k, i)
  BY <1>2, <1>3 DEF Counts
<1>9. ConnInv(k)'
  <2>1. OneSyncStepTwo(k)' /\ Announced(k)'
    <3>1. \A i \in 1 .. Len(q) - 1 : inbox'[k][i].kind # "ss2"
      <4> SUFFICES ASSUME NEW i \in 1 .. Len(q) - 1, q[i + 1].kind = "ss2" PROVE FALSE
        BY <1>3
      <4>1. i + 1 \in 1 .. Len(q) /\ 1 \in 1 .. Len(q) /\ i + 1 # 1
        BY <1>3
      <4> QED
        BY <1>2, <1>3, <1>4, <4>1 DEF ConnInv, OneSyncStepTwo
    <3> QED
      BY <1>2, <1>3, <1>4, <1>7, <3>1 DEF ConnInv, OneSyncStepTwo, Announced
  <2>2. Handled(k)'
    BY <1>2, <1>5, <1>6 DEF Handled
  <2>3. Contiguous(k)'
    <3>1. \A i \in 1 .. Len(q) - 1 : q[i + 1].lo = q[i].hi
      BY <1>3, <1>4, <1>8 DEF ConnInv, Contiguous
    <3>2. \A i \in 1 .. Len(q) : q[i].lo <= q[i].hi
      BY <1>4 DEF ConnInv, Contiguous
    <3>3. \A i \in 1 .. Len(q) : q[i].kind = "ss2" => Holds(rows, owner[k], q[i].lo)
      BY <1>4 DEF ConnInv, Contiguous
    <3>4. Len(inbox'[k]) > 0 => inbox'[k][1].lo = m.hi
      BY <1>3, <3>1
    <3>5. \A i \in 1 .. Len(inbox'[k]) - 1 : inbox'[k][i + 1].lo = inbox'[k][i].hi
      BY <1>3, <3>1, SMTT(40)
    <3>6. \A i \in 1 .. Len(inbox'[k]) : inbox'[k][i].lo <= inbox'[k][i].hi
      BY <1>3, <3>2
    <3>7. \A i \in 1 .. Len(inbox'[k]) :
              inbox'[k][i].kind = "ss2" => Holds(rows', owner'[k], inbox'[k][i].lo)
      BY <1>2, <1>3, <3>3
    <3> QED
      BY <1>2, <1>6, <3>4, <3>5, <3>6, <3>7 DEF Contiguous, Busy, AwaitsRepo
  <2> QED
    BY <1>6, <2>1, <2>2, <2>3 DEF ConnInv, Busy, AwaitsRepo
<1>10. ASSUME NEW c \in Client, current[c] = k PROVE ReachesClock(c, k)' /\ DeletionsInStream(c, k)'
  <2>1. ReachesClock(c, k) /\ DeletionsInStream(c, k)
    BY <1>4, <1>10 DEF StreamInv, ClientInv
  <2>2. ReachesClock(c, k)'
    BY <1>2, <1>3, <1>6, <1>7, <2>1 DEF ReachesClock, Counts, clientVars, Busy, AwaitsRepo
  <2>3. ASSUME NEW d \in deleted[c]
        PROVE  \/ d \in tombs
               \/ phase'[k] \in AwaitsRepo /\ d \in cur'[k].del
               \/ \E i \in 1 .. Len(inbox'[k]) : d \in inbox'[k][i].del
    <3>1. CASE d \in m.del
      BY <1>2, <1>6, <3>1 DEF Busy
    <3>2. CASE \E i \in 1 .. Len(q) : i # 1 /\ d \in q[i].del
      <4>1. PICK i \in 1 .. Len(q) : i # 1 /\ d \in q[i].del
        BY <3>2
      <4>2. i - 1 \in 1 .. Len(inbox'[k]) /\ inbox'[k][i - 1] = q[i]
        BY <1>3, <4>1
      <4> QED
        BY <4>1, <4>2
    <3>3. CASE d \in tombs
      BY <3>3
    <3>4. phase[k] \notin AwaitsRepo
      BY <1>2 DEF AwaitsRepo
    <3> QED
      BY <1>3, <1>7, <2>1, <3>1, <3>2, <3>3, <3>4 DEF DeletionsInStream
  <2>4. \A i \in 1 .. Len(inbox'[k]) : Counts(k, i)'
    BY <1>6 DEF Counts, Busy, AwaitsRepo
  <2>5. DeletionsInStream(c, k)'
    BY <1>2, <2>3, <2>4 DEF DeletionsInStream, clientVars
  <2> QED
    BY <2>2, <2>5
<1>11. ASSUME NEW c \in Client PROVE ClientInv(c, k)'
  BY <1>2, <1>10 DEF ClientInv, clientVars
<1>12. \A j \in Conn \ {k} : SameConn(j)
  BY <1>1, <1>2 DEF SameConn, TypeOK, Receive
<1> QED
  BY <1>2, <1>9, <1>11, <1>12, OnlyConn

LEMMA SkipUpdateInv ==
    ASSUME IInv, NEW k \in Conn, SkipUpdate(k)
    PROVE  StreamInv'
<1> USE DEF IInv
<1> DEFINE q == inbox[k]
<1>1. q \in Seq(Message) /\ q # <<>> /\ inbox' = [inbox EXCEPT ![k] = Tail(q)]
  BY DEF SkipUpdate, TypeOK
<1>2. /\ phase[k] = "handshake" /\ phase'[k] = "handshake"
      /\ UNCHANGED <<clientVars, owner, phase, cur, ss1, rows, tombs>>
  BY DEF SkipUpdate, taskVars, dbVars
<1>3. /\ Len(q) > 0 /\ Len(q) \in Nat /\ q[1].kind = "update"
      /\ inbox'[k] = Tail(q) /\ Len(inbox'[k]) = Len(q) - 1
      /\ \A i \in 1 .. Len(q) - 1 : inbox'[k][i] = q[i + 1]
  BY <1>1, TailFacts DEF TypeOK, SkipUpdate
<1>4. ConnInv(k) /\ phase[k] # "closed"
  BY <1>2 DEF StreamInv

\* The message skipped does not count, so the others count as they did.
<1>5. \A i \in 0 .. Len(q) - 1 : Counts(k, i)' <=> Counts(k, i + 1)
  <2>1. ASSUME NEW i \in 0 .. Len(q) - 1, NEW j \in 1 .. i, inbox'[k][j].kind = "ss2"
        PROVE  \E l \in 1 .. i + 1 : q[l].kind = "ss2"
    <3>1. j + 1 \in 1 .. i + 1 /\ inbox'[k][j] = q[j + 1]
      BY <1>3
    <3> QED
      BY <2>1, <3>1
  <2>2. ASSUME NEW i \in 0 .. Len(q) - 1, NEW j \in 1 .. i + 1, q[j].kind = "ss2"
        PROVE  \E l \in 1 .. i : inbox'[k][l].kind = "ss2"
    <3>1. j # 1
      BY <1>3, <2>2
    <3>2. j - 1 \in 1 .. i /\ inbox'[k][j - 1] = q[j]
      BY <1>3, <3>1
    <3> QED
      BY <2>2, <3>2
  <2> QED
    BY <1>2, <2>1, <2>2 DEF Counts
<1>6. ConnInv(k)'
  <2>1. OneSyncStepTwo(k)' /\ Announced(k)'
    <3>1. ASSUME NEW i \in 1 .. Len(q) - 1, inbox'[k][i].kind = "ss2"
          PROVE  ss1[k] = Answered /\ \A j \in 1 .. Len(q) - 1 : inbox'[k][j].kind = "ss2" => j = i
      <4>1. i + 1 \in 1 .. Len(q) /\ q[i + 1].kind = "ss2"
        BY <1>3, <3>1
      <4>2. ss1[k] = Answered /\ \A j \in 1 .. Len(q) : q[j].kind = "ss2" => j = i + 1
        BY <1>4, <4>1 DEF ConnInv, OneSyncStepTwo
      <4>3. \A j \in 1 .. Len(q) - 1 : j + 1 \in 1 .. Len(q) /\ (j + 1 = i + 1 => j = i)
        BY <1>3
      <4> QED
        BY <1>3, <4>2, <4>3
    <3> QED
      BY <1>2, <1>3, <1>4, <3>1 DEF ConnInv, OneSyncStepTwo, Announced
  <2>2. Handled(k)'
    BY <1>2 DEF Handled, Busy, AwaitsRepo
  <2>3. Contiguous(k)'
    <3>1. ASSUME NEW i \in 1 .. Len(inbox'[k]) - 1, Counts(k, i)'
          PROVE  inbox'[k][i + 1].lo = inbox'[k][i].hi
      <4>1. Counts(k, i + 1)
        BY <1>3, <1>5, <3>1
      <4>2. q[i + 1 + 1].lo = q[i + 1].hi
        BY <1>3, <1>4, <4>1 DEF ConnInv, Contiguous
      <4> QED
        BY <1>3, <4>2
    <3>2. \A i \in 1 .. Len(inbox'[k]) : inbox'[k][i].lo <= inbox'[k][i].hi
      BY <1>3, <1>4 DEF ConnInv, Contiguous
    <3>3. \A i \in 1 .. Len(inbox'[k]) :
              inbox'[k][i].kind = "ss2" => Holds(rows', owner'[k], inbox'[k][i].lo)
      BY <1>2, <1>3, <1>4 DEF ConnInv, Contiguous
    <3> QED
      BY <1>2, <3>1, <3>2, <3>3 DEF Contiguous, Busy, AwaitsRepo
  <2> QED
    BY <1>2, <2>1, <2>2, <2>3 DEF ConnInv
<1>7. ASSUME NEW c \in Client, current[c] = k PROVE ReachesClock(c, k)' /\ DeletionsInStream(c, k)'
  <2>1. ReachesClock(c, k) /\ DeletionsInStream(c, k)
    BY <1>4, <1>7 DEF StreamInv, ClientInv
  <2>2. Counts(k, Len(inbox[k]))' <=> Counts(k, Len(q))
    BY <1>3, <1>5
  <2>3. ReachesClock(c, k)'
    BY <1>2, <1>3, <2>1, <2>2 DEF ReachesClock, clientVars, Busy, AwaitsRepo
  <2>4. ASSUME NEW d, NEW i \in 1 .. Len(q), Counts(k, i), d \in q[i].del
        PROVE  \E j \in 1 .. Len(inbox'[k]) : Counts(k, j)' /\ d \in inbox'[k][j].del
    <3>1. i # 1
      BY <1>2, <1>3, <2>4 DEF Counts
    <3>2. i - 1 \in 1 .. Len(inbox'[k]) /\ inbox'[k][i - 1] = q[i] /\ i - 1 + 1 = i
      BY <1>3, <3>1
    <3>3. Counts(k, i - 1)'
      BY <1>3, <1>5, <2>4, <3>2
    <3> QED
      BY <2>4, <3>2, <3>3
  <2>5. DeletionsInStream(c, k)'
    BY <1>2, <2>1, <2>4 DEF DeletionsInStream, clientVars, AwaitsRepo
  <2> QED
    BY <2>3, <2>5
<1>8. ASSUME NEW c \in Client PROVE ClientInv(c, k)'
  BY <1>2, <1>7 DEF ClientInv, clientVars
<1>9. \A j \in Conn \ {k} : SameConn(j)
  BY <1>1, <1>2 DEF SameConn, TypeOK
<1> QED
  BY <1>2, <1>6, <1>8, <1>9, OnlyConn

-----------------------------------------------------------------------------
(* What the client does to the stream.                                     *)

LEMMA ConnectInv ==
    ASSUME IInv, NEW c \in Client, NEW k \in Conn, Connect(c, k)
    PROVE  StreamInv'
<1> USE DEF IInv
<1>1. /\ owner'[k] = c /\ phase'[k] = "handshake" /\ ss1'[k] = Unsent /\ inbox' = inbox
      /\ Len(inbox[k]) = 0 /\ current'[c] = k
      /\ UNCHANGED <<clock, deleted, cur, rows, tombs>>
  BY DEF Connect, TypeOK, StreamInv, ConnInv, dbVars
<1>2. \A j \in Conn \ {k} : SameConn(j)
  BY <1>1 DEF Connect, TypeOK, SameConn
<1>3. ASSUME NEW j \in Conn PROVE ConnInv(j)'
  <2>1. CASE j = k
    BY <1>1, <2>1 DEF ConnInv, Announced, OneSyncStepTwo, Handled, Contiguous, Unsent, Answered,
                      Busy, AwaitsRepo
  <2>2. CASE j # k
    BY <1>1, <1>2, <2>2, ConnFrame DEF StreamInv
  <2> QED
    BY <2>1, <2>2
<1>4. ASSUME NEW d \in Client, NEW j \in Conn PROVE ClientInv(d, j)'
  <2>1. CASE d = c /\ j = k
    BY <1>1, <2>1 DEF ClientInv, ReachesClock, DeletionsInStream, Unsent, Answered, Busy, AwaitsRepo
  <2>2. CASE d = c /\ j # k
    BY <1>1, <2>2 DEF ClientInv
  <2>3. CASE d # c /\ j = k
    <3>1. current'[d] # k
      BY <2>3 DEF Connect, TypeOK
    <3> QED
      BY <2>3, <3>1 DEF ClientInv
  <2>4. CASE d # c /\ j # k
    <3>1. current'[d] = current[d]
      BY <2>4 DEF Connect, TypeOK
    <3> QED
      BY <1>1, <1>2, <2>4, <3>1, ClientFrame DEF StreamInv
  <2> QED
    BY <2>1, <2>2, <2>3, <2>4
<1> QED
  BY <1>3, <1>4 DEF StreamInv

LEMMA AppendFacts ==
    ASSUME NEW q \in Seq(Message), NEW m \in Message
    PROVE  /\ Len(q) \in Nat /\ Len(Append(q, m)) = Len(q) + 1
           /\ Append(q, m)[Len(q) + 1] = m
           /\ \A i \in 1 .. Len(q) : Append(q, m)[i] = q[i]
OBVIOUS

\* No two clients use the same live connection.
LEMMA OneClient ==
    ASSUME IInv, NEW c \in Client, NEW d \in Client, NEW k \in Conn,
           current[c] = k, current[d] = k, phase[k] # "closed"
    PROVE  c = d
BY DEF IInv, StreamInv, ClientInv, ReachesClock

\* An update appended by Edit or Delete begins at the clock, where the stream
\* ended, and ends at the new clock.
LEMMA ClientSendInv ==
    ASSUME IInv, NEW c \in Client, NEW m \in Message, Send(current[c], m),
           UNCHANGED <<current, taskVars, ss1, dbVars>>,
           m.kind = "update", m.lo = clock[c], m.hi = clock'[c], m.lo <= m.hi,
           \A d \in Client \ {c} : clock'[d] = clock[d] /\ deleted'[d] = deleted[d],
           deleted'[c] \subseteq deleted[c] \cup m.del
    PROVE  StreamInv'
<1> USE DEF IInv
<1> PICK k \in Conn \cup {NoConn} : k = current[c]
  BY DEF TypeOK
<1> DEFINE q == inbox[k]
<1>0. UNCHANGED <<current, owner, phase, cur, ss1, rows, tombs>>
  BY DEF taskVars, dbVars
<1>1. CASE k = NoConn \/ phase[k] = "closed"
  <2>1. inbox' = inbox
    BY <1>1 DEF Send
  <2>2. \A j \in Conn : SameConn(j)
    BY <1>0, <2>1 DEF SameConn
  <2>3. ASSUME NEW j \in Conn PROVE ConnInv(j)'
    BY <1>0, <2>2, ConnFrame DEF StreamInv
  <2>4. ASSUME NEW d \in Client, NEW j \in Conn PROVE ClientInv(d, j)'
    <3>1. CASE d # c
      BY <1>0, <2>2, <3>1, ClientFrame DEF StreamInv
    <3>2. CASE d = c
      <4>1. ~ (current'[c] = j /\ phase'[j] # "closed")
        BY <1>0, <1>1, IngestAssumption
      <4> QED
        BY <3>2, <4>1 DEF ClientInv
    <3> QED
      BY <3>1, <3>2
  <2> QED
    BY <2>3, <2>4 DEF StreamInv
<1>2. CASE k # NoConn /\ phase[k] # "closed"
  <2>1. k \in Conn /\ q \in Seq(Message) /\ inbox' = [inbox EXCEPT ![k] = Append(q, m)]
    BY <1>2 DEF Send, TypeOK
  <2>2. /\ inbox'[k] = Append(q, m) /\ Len(q) \in Nat /\ Len(inbox'[k]) = Len(q) + 1
        /\ inbox'[k][Len(q) + 1] = m /\ \A i \in 1 .. Len(q) : inbox'[k][i] = q[i]
    BY <2>1, AppendFacts DEF TypeOK
  <2>3. ConnInv(k) /\ ReachesClock(c, k) /\ DeletionsInStream(c, k)
    BY <1>2, <2>1 DEF StreamInv, ClientInv
  <2>4. \A i \in 0 .. Len(q) : Counts(k, i)' <=> Counts(k, i)
    BY <1>0, <2>2 DEF Counts
  <2>5. \A n \in Nat : n = Len(q) => (Counts(k, n + 1)' <=> Counts(k, n))
    BY <1>0, <2>2 DEF Counts
  <2>6. Counts(k, Len(q)) => ss1[k] = Answered
    BY <1>2, <2>3 DEF Counts, ConnInv, OneSyncStepTwo
  <2>7. ConnInv(k)'
    <3>1. Announced(k)' /\ OneSyncStepTwo(k)' /\ Handled(k)'
      BY <1>0, <1>2, <2>2, <2>3 DEF ConnInv, Announced, OneSyncStepTwo, Handled
    <3>2. ASSUME NEW i \in 1 .. Len(inbox'[k]) - 1, Counts(k, i)'
          PROVE  inbox'[k][i + 1].lo = inbox'[k][i].hi
      <4>1. CASE i < Len(q)
        BY <1>2, <2>2, <2>3, <2>4, <3>2, <4>1 DEF ConnInv, Contiguous
      <4>2. CASE i = Len(q)
        BY <1>2, <2>2, <2>3, <2>4, <2>6, <3>2, <4>2 DEF ReachesClock
      <4> QED
        BY <2>2, <4>1, <4>2
    <3>3. \A i \in 1 .. Len(inbox'[k]) : inbox'[k][i].lo <= inbox'[k][i].hi
      BY <1>2, <2>2, <2>3 DEF ConnInv, Contiguous
    <3>4. \A i \in 1 .. Len(inbox'[k]) :
              inbox'[k][i].kind = "ss2" => Holds(rows', owner'[k], inbox'[k][i].lo)
      BY <1>0, <1>2, <2>2, <2>3 DEF ConnInv, Contiguous
    <3>5. phase'[k] \in Busy => inbox'[k][1].lo = cur'[k].hi
      BY <1>0, <1>2, <2>2, <2>3 DEF ConnInv, Contiguous, ReachesClock
    <3>6. phase'[k] = "hot" => Holds(rows', owner'[k], inbox'[k][1].lo)
      BY <1>0, <1>2, <2>2, <2>3 DEF ConnInv, Contiguous, ReachesClock
    <3>7. Contiguous(k)'
      BY <3>2, <3>3, <3>4, <3>5, <3>6 DEF Contiguous
    <3> QED
      BY <1>0, <1>2, <3>1, <3>7 DEF ConnInv
  <2>8. ClientInv(c, k)'
    <3>1. ReachesClock(c, k)'
      BY <1>0, <2>2, <2>3, <2>5 DEF ReachesClock
    <3>2. ASSUME NEW d \in deleted'[c], ss1[k] = Answered
          PROVE  \/ d \in tombs
                 \/ phase[k] \in AwaitsRepo /\ d \in cur[k].del
                 \/ \E i \in 1 .. Len(inbox'[k]) : Counts(k, i)' /\ d \in inbox'[k][i].del
      <4>1. CASE d \in m.del
        <5>1. PICK n \in Nat : n = Len(q)
          BY <2>2
        <5>2. Counts(k, n + 1)' /\ n + 1 \in 1 .. Len(inbox'[k])
          BY <2>2, <2>3, <2>5, <3>2, <5>1 DEF ReachesClock
        <5> QED
          BY <2>2, <4>1, <5>1, <5>2
      <4>2. CASE d \in deleted[c]
        BY <2>2, <2>3, <2>4, <3>2, <4>2 DEF DeletionsInStream
      <4> QED
        BY <4>1, <4>2
    <3> QED
      BY <1>0, <3>1, <3>2 DEF ClientInv, DeletionsInStream
  <2>9. \A j \in Conn \ {k} : SameConn(j)
    BY <1>0, <2>1 DEF SameConn, TypeOK
  <2>10. ASSUME NEW j \in Conn PROVE ConnInv(j)'
    BY <1>0, <2>7, <2>9, ConnFrame DEF StreamInv
  <2>11. ASSUME NEW d \in Client, NEW j \in Conn PROVE ClientInv(d, j)'
    <3>1. CASE d = c /\ j # k
      BY <1>0, <3>1 DEF ClientInv
    <3>2. CASE d # c /\ j = k
      BY <1>0, <1>2, <2>1, <3>2, OneClient DEF ClientInv
    <3>3. CASE d # c /\ j # k
      BY <1>0, <2>9, <3>3, ClientFrame DEF StreamInv
    <3> QED
      BY <2>8, <3>1, <3>2, <3>3
  <2> QED
    BY <2>10, <2>11 DEF StreamInv
<1> QED
  BY <1>1, <1>2

LEMMA ClientSyncStepTwoInv ==
    ASSUME IInv, NEW c \in Client, ClientSyncStepTwo(c)
    PROVE  StreamInv'
<1> USE DEF IInv
<1> DEFINE m == [kind |-> "ss2", lo |-> Minimum(clock[c], ss1[current[c]]),
                 hi |-> clock[c], del |-> deleted[c]]
<1>1. PICK k \in Conn : k = current[c]
  BY DEF TypeOK, ClientSyncStepTwo
<1> DEFINE q == inbox[k]
<1>2. /\ ss1[k] >= 0 /\ ss1[k] \in Int /\ Send(k, m) /\ ss1' = [ss1 EXCEPT ![k] = Answered]
      /\ UNCHANGED <<clientVars, owner, phase, cur, rows, tombs>>
  BY <1>1 DEF ClientSyncStepTwo, TypeOK, taskVars, dbVars
<1>3. m \in Message /\ m.kind = "ss2" /\ m.lo <= ss1[k] /\ m.lo <= m.hi /\ m.lo \in Nat
      /\ m.hi = clock[c] /\ m.del = deleted[c]
  BY <1>1, <1>2 DEF Message, Minimum, TypeOK
<1> HIDE DEF m
<1>4. \A j \in Conn \ {k} : SameConn(j)
  BY <1>1, <1>2 DEF SameConn, TypeOK, Send
<1>5. CASE phase[k] = "closed"
  <2>1. ConnInv(k)'
    BY <1>2, <1>5 DEF ConnInv, StreamInv, Send
  <2>2. \A d \in Client : ClientInv(d, k)'
    BY <1>2, <1>5 DEF ClientInv
  <2> QED
    BY <1>2, <1>4, <2>1, <2>2, OnlyConn
<1>6. CASE phase[k] # "closed"
  <2>1. q \in Seq(Message) /\ inbox' = [inbox EXCEPT ![k] = Append(q, m)]
    BY <1>1, <1>2, <1>6, IngestAssumption DEF Send, TypeOK
  <2>2. /\ inbox'[k] = Append(q, m) /\ Len(q) \in Nat /\ Len(inbox'[k]) = Len(q) + 1
        /\ inbox'[k][Len(q) + 1] = m /\ \A i \in 1 .. Len(q) : inbox'[k][i] = q[i]
    BY <1>3, <2>1, AppendFacts DEF TypeOK
  <2>3. /\ Announced(k) /\ OneSyncStepTwo(k) /\ Handled(k) /\ Contiguous(k)
        /\ ReachesClock(c, k)
    BY <1>1, <1>6 DEF StreamInv, ConnInv, ClientInv
  <2>4. phase[k] = "handshake" /\ \A i \in 1 .. Len(q) : q[i].kind # "ss2"
    BY <1>2, <2>3 DEF OneSyncStepTwo, Answered
  <2>5. ss1'[k] = Answered
    BY <1>2 DEF TypeOK
  <2>6. \A i \in 1 .. Len(q) : ~ Counts(k, i)'
    BY <1>2, <2>2, <2>4 DEF Counts
  <2>7. \A n \in Nat : n = Len(q) + 1 => Counts(k, n)'
    BY <1>3, <2>2 DEF Counts
  <2>8. ConnInv(k)'
    <3>1. Announced(k)'
      BY <2>5 DEF Announced, Answered
    <3>2. OneSyncStepTwo(k)'
      <4>1. \A i \in 1 .. Len(inbox'[k]) : inbox'[k][i].kind = "ss2" => i = Len(q) + 1
        BY <2>2, <2>4
      <4> QED
        BY <1>2, <2>4, <2>5, <4>1 DEF OneSyncStepTwo
    <3>3. Handled(k)'
      BY <1>2, <2>3 DEF Handled
    <3>4. Contiguous(k)'
      <4>1. \A i \in 1 .. Len(inbox'[k]) : inbox'[k][i].lo <= inbox'[k][i].hi
        BY <1>3, <2>2, <2>3 DEF Contiguous
      <4>2. Holds(rows, owner[k], m.lo)
        BY <1>2, <1>3, <2>3, HoldsLess DEF Announced
      <4>3. \A i \in 1 .. Len(inbox'[k]) :
                inbox'[k][i].kind = "ss2" => Holds(rows', owner'[k], inbox'[k][i].lo)
        BY <1>2, <2>2, <2>4, <4>2
      <4>4. \A i \in 1 .. Len(inbox'[k]) - 1 : ~ Counts(k, i)'
        BY <2>2, <2>6
      <4> QED
        BY <1>2, <2>4, <4>1, <4>3, <4>4 DEF Contiguous, Busy, AwaitsRepo
    <3> QED
      BY <1>2, <1>6, <3>1, <3>2, <3>3, <3>4 DEF ConnInv
  <2>9. ASSUME NEW d \in Client, current[d] = k PROVE ClientInv(d, k)'
    <3>1. d = c
      BY <1>1, <1>6, <2>9, OneClient
    <3>2. PICK n \in Nat : n = Len(q) + 1
      BY <2>2
    <3>3. n \in 1 .. Len(inbox'[k]) /\ n = Len(inbox'[k]) /\ inbox'[k][n] = m /\ Counts(k, n)'
      BY <2>2, <2>7, <3>2
    <3>4. ReachesClock(c, k)'
      BY <1>2, <1>3, <2>3, <3>3 DEF ReachesClock, clientVars
    <3>5. DeletionsInStream(c, k)'
      BY <1>2, <1>3, <3>3 DEF DeletionsInStream, clientVars
    <3> QED
      BY <3>1, <3>4, <3>5 DEF ClientInv
  <2>10. \A d \in Client : ClientInv(d, k)'
    BY <1>2, <2>9 DEF ClientInv, clientVars
  <2> QED
    BY <1>2, <1>4, <2>8, <2>10, OnlyConn
<1> QED
  BY <1>5, <1>6

\* Losing the tail of a stream leaves it contiguous.
LEMMA DisconnectInv ==
    ASSUME IInv, NEW c \in Client, Disconnect(c)
    PROVE  StreamInv'
<1> USE DEF IInv
<1>1. PICK k \in Conn : k = current[c]
  BY DEF TypeOK, Disconnect
<1> DEFINE q == inbox[k]
<1>2. PICK n \in 0 .. Len(q) : inbox' = [inbox EXCEPT ![k] = SubSeq(q, 1, n)]
  BY <1>1 DEF Disconnect
<1>3. /\ current' = [current EXCEPT ![c] = NoConn]
      /\ UNCHANGED <<clock, deleted, owner, phase, cur, ss1, rows, tombs>>
  BY DEF Disconnect, taskVars, dbVars
<1>4. q \in Seq(Message) /\ Len(q) \in Nat
  BY DEF TypeOK
<1>5. /\ Len(inbox'[k]) = n /\ n \in Nat /\ n <= Len(q)
      /\ \A i \in 1 .. n : inbox'[k][i] = q[i]
  BY <1>2, <1>4 DEF TypeOK
<1>6. \A j \in Conn \ {k} : SameConn(j)
  BY <1>2, <1>3 DEF SameConn, TypeOK
<1>7. ConnInv(k)'
  <2>1. \A i \in 1 .. n : Counts(k, i)' <=> Counts(k, i)
    BY <1>3, <1>5 DEF Counts
  <2>2. CASE phase[k] = "closed"
    BY <1>3, <1>5, <2>2 DEF StreamInv, ConnInv
  <2>3. CASE phase[k] # "closed"
    <3>1. Announced(k) /\ OneSyncStepTwo(k) /\ Handled(k) /\ Contiguous(k)
      BY <2>3 DEF StreamInv, ConnInv
    <3>2. Announced(k)' /\ Handled(k)'
      BY <1>3, <3>1 DEF Announced, Handled
    <3>3. OneSyncStepTwo(k)'
      BY <1>3, <1>5, <3>1 DEF OneSyncStepTwo
    <3>4. Contiguous(k)'
      <4>1. ASSUME NEW i \in 1 .. n - 1, Counts(k, i)'
            PROVE  inbox'[k][i + 1].lo = inbox'[k][i].hi
        <5>1. Counts(k, i) /\ i \in 1 .. Len(q) - 1
          BY <1>4, <1>5, <2>1, <4>1
        <5> QED
          BY <1>5, <3>1, <5>1 DEF Contiguous
      <4>2. /\ \A i \in 1 .. n : inbox'[k][i].lo <= inbox'[k][i].hi
            /\ \A i \in 1 .. n : inbox'[k][i].kind = "ss2" => Holds(rows', owner'[k], inbox'[k][i].lo)
        BY <1>3, <1>5, <3>1 DEF Contiguous
      <4>3. n > 0 => inbox'[k][1] = q[1] /\ Len(q) > 0
        BY <1>5
      <4> QED
        BY <1>3, <1>5, <3>1, <4>1, <4>2, <4>3 DEF Contiguous
    <3> QED
      BY <1>3, <2>3, <3>2, <3>3, <3>4 DEF ConnInv
  <2> QED
    BY <2>2, <2>3
<1>8. ASSUME NEW j \in Conn PROVE ConnInv(j)'
  BY <1>3, <1>6, <1>7, ConnFrame DEF StreamInv
<1>9. ASSUME NEW d \in Client, NEW j \in Conn PROVE ClientInv(d, j)'
  <2>1. CASE d = c
    <3>1. current'[c] # j
      BY <1>3, IngestAssumption DEF TypeOK
    <3> QED
      BY <2>1, <3>1 DEF ClientInv
  <2>2. CASE d # c /\ j = k
    BY <1>1, <1>3, <2>2, OneClient DEF ClientInv, TypeOK
  <2>3. CASE d # c /\ j # k
    BY <1>3, <1>6, <2>3, ClientFrame DEF StreamInv, TypeOK
  <2> QED
    BY <2>1, <2>2, <2>3
<1> QED
  BY <1>8, <1>9 DEF StreamInv

-----------------------------------------------------------------------------
(* The inductive invariant, and what it implies.                           *)

LEMMA InitIInv == Init => IInv
<1> SUFFICES ASSUME Init PROVE IInv
  OBVIOUS
<1>1. TypeOK
  BY InitTypeOK
<1>2. PrefixClosed /\ SentHeld
  BY DEF Init, PrefixClosed, SentHeld
<1>3. \A k \in Conn : phase[k] = "closed" /\ Len(inbox[k]) = 0
  BY DEF Init
<1> QED
  BY <1>1, <1>2, <1>3 DEF IInv, StreamInv, ConnInv, ClientInv

\* The tables only grow, so what is held stays held.
LEMMA SentHeldKept ==
    ASSUME SentHeld, rows \subseteq rows', tombs \subseteq tombs', sent' = sent
    PROVE  SentHeld'
BY HoldsGrows DEF SentHeld

LEMMA NextIInv == IInv /\ [Next]_vars => IInv'
<1> SUFFICES ASSUME IInv, [Next]_vars PROVE PrefixClosed' /\ StreamInv' /\ SentHeld'
  BY NextTypeOK DEF IInv
<1> USE DEF IInv
<1>0. ASSUME rows' = rows PROVE PrefixClosed'
  BY <1>0 DEF PrefixClosed, Covered
<1>1. ASSUME NEW c \in Client, NEW k \in Conn, Connect(c, k)
      PROVE  PrefixClosed' /\ StreamInv' /\ SentHeld'
  BY <1>0, <1>1, ConnectInv, SentHeldKept DEF Connect, dbVars
<1>2. ASSUME NEW c \in Client, NEW n \in 1 .. MaxBatch, Edit(c, n)
      PROVE  PrefixClosed' /\ StreamInv' /\ SentHeld'
  <2> DEFINE m == [kind |-> "update", lo |-> clock[c], hi |-> clock[c] + n, del |-> {}]
  <2>1. /\ m \in Message /\ m.kind = "update" /\ m.lo = clock[c] /\ m.hi = clock'[c]
        /\ m.lo <= m.hi /\ deleted'[c] \subseteq deleted[c] \cup m.del
    BY <1>2, IngestAssumption DEF Edit, TypeOK, Message
  <2>2. /\ Send(current[c], m) /\ UNCHANGED <<current, taskVars, ss1, dbVars, sent>>
        /\ \A d \in Client \ {c} : clock'[d] = clock[d] /\ deleted'[d] = deleted[d]
    BY <1>2 DEF Edit, TypeOK
  <2> HIDE DEF m
  <2>3. StreamInv'
    BY <2>1, <2>2, ClientSendInv
  <2> QED
    BY <1>0, <2>2, <2>3, SentHeldKept DEF dbVars
<1>3. ASSUME NEW c \in Client, NEW d \in Deletable, Delete(c, d)
      PROVE  PrefixClosed' /\ StreamInv' /\ SentHeld'
  <2> DEFINE m == [kind |-> "update", lo |-> clock[c], hi |-> clock[c], del |-> {d}]
  <2>1. /\ m \in Message /\ m.kind = "update" /\ m.lo = clock[c] /\ m.hi = clock'[c]
        /\ m.lo <= m.hi /\ deleted'[c] \subseteq deleted[c] \cup m.del
    BY <1>3 DEF Delete, TypeOK, Message
  <2>2. /\ Send(current[c], m) /\ UNCHANGED <<current, taskVars, ss1, dbVars, sent>>
        /\ \A e \in Client \ {c} : clock'[e] = clock[e] /\ deleted'[e] = deleted[e]
    BY <1>3 DEF Delete, TypeOK
  <2> HIDE DEF m
  <2>3. StreamInv'
    BY <2>1, <2>2, ClientSendInv
  <2> QED
    BY <1>0, <2>2, <2>3, SentHeldKept DEF dbVars
<1>4. ASSUME NEW c \in Client, ClientSyncStepTwo(c)
      PROVE  PrefixClosed' /\ StreamInv' /\ SentHeld'
  <2>1. UNCHANGED <<dbVars, sent>>
    BY <1>4 DEF ClientSyncStepTwo
  <2> QED
    BY <1>0, <1>4, <2>1, ClientSyncStepTwoInv, SentHeldKept DEF dbVars
<1>5. ASSUME NEW c \in Client, Disconnect(c)
      PROVE  PrefixClosed' /\ StreamInv' /\ SentHeld'
  <2>1. UNCHANGED <<dbVars, sent>>
    BY <1>5 DEF Disconnect
  <2> QED
    BY <1>0, <1>5, <2>1, DisconnectInv, SentHeldKept DEF dbVars
<1>6. ASSUME NEW k \in Conn, SendServerSyncStepOne(k)
      PROVE  PrefixClosed' /\ StreamInv' /\ SentHeld'
  BY <1>0, <1>6, SendServerSyncStepOneInv, SentHeldKept DEF SendServerSyncStepOne, dbVars
<1>7. ASSUME NEW k \in Conn, EndTask(k), UNCHANGED sent
      PROVE  PrefixClosed' /\ StreamInv' /\ SentHeld'
  BY <1>0, <1>7, EndTaskInv, SentHeldKept DEF EndTask, dbVars
<1>8. ASSUME NEW k \in Conn, ReaderStep(k)
      PROVE  PrefixClosed' /\ StreamInv' /\ SentHeld'
  <2>1. CASE Receive(k)
    BY <1>0, <2>1, ReceiveInv, SentHeldKept DEF Receive, dbVars
  <2>2. CASE SkipUpdate(k)
    BY <1>0, <2>2, SkipUpdateInv, SentHeldKept DEF SkipUpdate, dbVars
  <2>3. CASE LookupOffset(k)
    BY <1>0, <2>3, LookupOffsetInv, SentHeldKept DEF LookupOffset, dbVars
  <2>4. CASE PersistOperation(k)
    <3>1. rows \subseteq rows' /\ UNCHANGED <<tombs, sent>>
      BY <2>4 DEF PersistOperation, WriteOperation
    <3> QED
      BY <2>4, <3>1, PersistOperationInv, SentHeldKept
  <2>5. CASE PersistDeletions(k)
    BY <1>0, <2>5, PersistDeletionsInv, SentHeldKept DEF PersistDeletions
  <2>6. CASE Broadcast(k)
    <3>1. UNCHANGED <<rows, tombs>> /\ sent' \subseteq sent \cup {<<owner[k], cur[k]>>}
      BY <2>6 DEF Broadcast, dbVars
    <3>2. Holds(rows, owner[k], cur[k].hi) /\ cur[k].del \subseteq tombs
      BY <2>6 DEF Broadcast, StreamInv, ConnInv, Handled, Busy
    <3>3. SentHeld'
      BY <3>1, <3>2 DEF SentHeld
    <3> QED
      BY <1>0, <2>6, <3>1, <3>3, BroadcastInv
  <2>7. CASE ReadClosed(k)
    BY <1>7, <2>7 DEF ReadClosed
  <2> QED
    BY <1>8, <2>1, <2>2, <2>3, <2>4, <2>5, <2>6, <2>7 DEF ReaderStep
<1>9. ASSUME NEW k \in Conn, RepoFails(k) \/ WriterGone(k) \/ Crash(k)
      PROVE  PrefixClosed' /\ StreamInv' /\ SentHeld'
  BY <1>7, <1>9 DEF RepoFails, WriterGone, Crash
<1>11. ASSUME NEW k \in Conn, BroadcastFails(k)
      PROVE  PrefixClosed' /\ StreamInv' /\ SentHeld'
  <2>1. /\ EndTask(k) /\ UNCHANGED <<rows, tombs>>
        /\ sent' \subseteq sent \cup {<<owner[k], cur[k]>>}
    BY <1>11 DEF BroadcastFails, EndTask, dbVars
  <2>2. Holds(rows, owner[k], cur[k].hi) /\ cur[k].del \subseteq tombs
    BY <1>11 DEF BroadcastFails, StreamInv, ConnInv, Handled, Busy
  <2>3. SentHeld'
    BY <2>1, <2>2 DEF SentHeld
  <2> QED
    BY <1>0, <2>1, <2>3, EndTaskInv
<1>10. CASE UNCHANGED vars
  <2>1. \A k \in Conn : SameConn(k)
    BY <1>10 DEF SameConn, vars, taskVars
  <2>2. UNCHANGED <<clientVars, rows, tombs, sent>>
    BY <1>10 DEF vars, dbVars
  <2>3. ASSUME NEW k \in Conn PROVE ConnInv(k)'
    BY <2>1, <2>2, ConnFrame DEF StreamInv
  <2>4. ASSUME NEW c \in Client, NEW k \in Conn PROVE ClientInv(c, k)'
    BY <2>1, <2>2, ClientFrame DEF StreamInv, clientVars
  <2> QED
    BY <1>0, <2>2, <2>3, <2>4, SentHeldKept DEF StreamInv
<1> QED
  BY <1>1, <1>2, <1>3, <1>4, <1>5, <1>6, <1>8, <1>9, <1>10, <1>11 DEF Next

\* IInv holds in every reachable state of the write path.
THEOREM Inductive == Spec => []IInv
<1> QED
  BY InitIInv, NextIInv, PTL DEF Spec

\* Every state of the write path is well typed; in particular no row is ever
\* written at a negative offset (parse_message subtracts one from a range end).
THEOREM TypeCorrect == Spec => []TypeOK
<1>1. IInv => TypeOK
  BY DEF IInv
<1> QED
  BY <1>1, Inductive, PTL

\* For any number of clients, of connections per client and of operations, and
\* whatever mix of crashes, database errors and cut sockets happens, a row at
\* offset n in the operations table means no operation up to n is missing.
THEOREM PrefixClosedAlways == Spec => []PrefixClosed
<1>1. IInv => PrefixClosed
  BY DEF IInv
<1> QED
  BY <1>1, Inductive, PTL

\* An idle hot connection means all of its client's edits are durable.
THEOREM CaughtUpAlways == Spec => []CaughtUpIsDurable
<1>1. IInv => CaughtUpIsDurable
  <2> SUFFICES ASSUME IInv, NEW c \in Client, NEW k \in Conn,
                      current[c] = k, phase[k] = "hot", inbox[k] = <<>>
               PROVE  Durable(c)
    BY DEF CaughtUpIsDurable
  <2>1. Len(inbox[k]) = 0
    OBVIOUS
  <2>2. ReachesClock(c, k) /\ DeletionsInStream(c, k) /\ ss1[k] = Answered
    BY DEF IInv, StreamInv, ClientInv, ConnInv, OneSyncStepTwo
  <2>3. Holds(rows, c, clock[c])
    BY <2>1, <2>2 DEF ReachesClock
  <2>4. deleted[c] \subseteq tombs
    BY <2>1, <2>2 DEF DeletionsInStream, AwaitsRepo
  <2> QED
    BY <2>3, <2>4 DEF Durable, Holds, Covered
<1> QED
  BY <1>1, Inductive, PTL

\* Whatever the broker is given is in the database already.
THEOREM PersistedBeforeBroadcastAlways == Spec => []PersistedBeforeBroadcast
<1>1. IInv => PersistedBeforeBroadcast
  <2> SUFFICES ASSUME IInv, NEW s \in sent
               PROVE  /\ \A o \in s[2].lo .. s[2].hi - 1 : Covered(s[1], o)
                      /\ s[2].del \subseteq tombs
    BY DEF PersistedBeforeBroadcast
  <2>1. s[2] \in Message /\ Holds(rows, s[1], s[2].hi) /\ s[2].del \subseteq tombs
    BY DEF IInv, TypeOK, SentHeld
  <2>2. \A o \in s[2].lo .. s[2].hi - 1 : o \in 0 .. s[2].hi - 1
    BY <2>1 DEF Message
  <2> QED
    BY <2>1, <2>2 DEF Holds, Covered
<1> QED
  BY <1>1, Inductive, PTL

-----------------------------------------------------------------------------
(* Without faults, what is stored is broadcast.                            *)

\* Operation o of client c has been handed to the broker, or connection k is
\* between storing it and handing it over.
SentOperation(c, o) == \E s \in sent : s[1] = c /\ Carries(s[2], o)
HoldsOperation(k, c, o) ==
    /\ phase[k] \in {"delete", "send"} /\ novel[k]
    /\ owner[k] = c /\ Carries(cur[k], o)

\* The same of the deletion of element d.
SentDeletion(d) == \E s \in sent : d \in s[2].del
HoldsDeletion(k, d) == phase[k] = "send" /\ novel[k] /\ d \in cur[k].del

\* Connection k still holds what it held, or has handed it over.
HandsOver(k) ==
    /\ \A c \in Client, o \in Nat :
          HoldsOperation(k, c, o) => HoldsOperation(k, c, o)' \/ SentOperation(c, o)'
    /\ \A d \in Deletable : HoldsDeletion(k, d) => HoldsDeletion(k, d)' \/ SentDeletion(d)'

LEMMA HandsOverKeeps ==
    ASSUME IInv, PersistedIsBroadcast, \A k \in Conn : HandsOver(k),
           sent \subseteq sent',
           \A r \in rows' \ rows : \A o \in r.lo .. r.offset :
               \E k \in Conn : HoldsOperation(k, r.client, o)',
           \A d \in tombs' \ tombs : \E k \in Conn : HoldsDeletion(k, d)'
    PROVE  PersistedIsBroadcast'
<1>1. ASSUME NEW r \in rows, NEW o \in r.lo .. r.offset
      PROVE  SentOperation(r.client, o)' \/ \E k \in Conn : HoldsOperation(k, r.client, o)'
  <2>1. r.client \in Client /\ o \in Nat
    BY DEF IInv, TypeOK, Row
  <2>2. SentOperation(r.client, o) \/ \E k \in Conn : HoldsOperation(k, r.client, o)
    BY DEF PersistedIsBroadcast, SentOperation, HoldsOperation
  <2>3. CASE SentOperation(r.client, o)
    BY <2>3 DEF SentOperation, Carries
  <2>4. CASE \E k \in Conn : HoldsOperation(k, r.client, o)
    BY <2>1, <2>4 DEF HandsOver
  <2> QED
    BY <2>2, <2>3, <2>4
<1>2. ASSUME NEW d \in tombs
      PROVE  SentDeletion(d)' \/ \E k \in Conn : HoldsDeletion(k, d)'
  <2>1. d \in Deletable
    BY DEF IInv, TypeOK
  <2>2. SentDeletion(d) \/ \E k \in Conn : HoldsDeletion(k, d)
    BY DEF PersistedIsBroadcast, SentDeletion, HoldsDeletion
  <2>3. CASE SentDeletion(d)
    BY <2>3 DEF SentDeletion
  <2>4. CASE \E k \in Conn : HoldsDeletion(k, d)
    BY <2>1, <2>4 DEF HandsOver
  <2> QED
    BY <2>2, <2>3, <2>4
<1> QED
  BY <1>1, <1>2 DEF PersistedIsBroadcast, SentOperation, HoldsOperation, SentDeletion, HoldsDeletion

\* A connection whose task does not move hands nothing over and keeps all.
LEMMA IdleHandsOver ==
    ASSUME NEW k \in Conn, phase'[k] = phase[k], novel'[k] = novel[k],
           owner'[k] = owner[k], cur'[k] = cur[k]
    PROVE  HandsOver(k)
BY DEF HandsOver, HoldsOperation, HoldsDeletion, Carries

\* A connection outside the two last awaits has nothing to hand over.
LEMMA NothingToHandOver ==
    ASSUME NEW k \in Conn, phase[k] \notin {"delete", "send"}
    PROVE  HandsOver(k)
BY DEF HandsOver, HoldsOperation, HoldsDeletion

\* Without faults no task ends, and no step of its own makes it forget,
\* between the query that stores and the hand-over.
LEMMA NextPersistedIsBroadcast ==
    ASSUME Faults = {}, IInv, PersistedIsBroadcast, [Next]_vars
    PROVE  PersistedIsBroadcast'
<1> USE DEF IInv
<1>1. ASSUME UNCHANGED <<taskVars, dbVars, sent>> PROVE PersistedIsBroadcast'
  <2>1. \A k \in Conn : HandsOver(k)
    BY <1>1, IdleHandsOver DEF taskVars
  <2> QED
    BY <1>1, <2>1, HandsOverKeeps DEF dbVars
<1>2. ASSUME NEW c \in Client, NEW k \in Conn, Connect(c, k) PROVE PersistedIsBroadcast'
  <2>1. ASSUME NEW j \in Conn PROVE HandsOver(j)
    BY <1>2, IdleHandsOver, NothingToHandOver DEF Connect, TypeOK
  <2> QED
    BY <1>2, <2>1, HandsOverKeeps DEF Connect, dbVars
<1>3. ASSUME NEW k \in Conn, Receive(k) PROVE PersistedIsBroadcast'
  <2>1. ASSUME NEW j \in Conn PROVE HandsOver(j)
    BY <1>3, IdleHandsOver, NothingToHandOver DEF Receive, TypeOK
  <2> QED
    BY <1>3, <2>1, HandsOverKeeps DEF Receive, dbVars
<1>4. ASSUME NEW k \in Conn, LookupOffset(k) PROVE PersistedIsBroadcast'
  <2>1. ASSUME NEW j \in Conn PROVE HandsOver(j)
    BY <1>4, IdleHandsOver, NothingToHandOver DEF LookupOffset, TypeOK
  <2> QED
    BY <1>4, <2>1, HandsOverKeeps DEF LookupOffset, dbVars
<1>5. ASSUME NEW k \in Conn, ReadClosed(k) PROVE PersistedIsBroadcast'
  <2>1. ASSUME NEW j \in Conn PROVE HandsOver(j)
    BY <1>5, IdleHandsOver, NothingToHandOver DEF ReadClosed, EndTask, Selecting, TypeOK
  <2> QED
    BY <1>5, <2>1, HandsOverKeeps DEF ReadClosed, EndTask, dbVars
<1>6. ASSUME NEW k \in Conn, Broadcast(k) PROVE PersistedIsBroadcast'
  <2>1. ASSUME NEW j \in Conn, j # k PROVE HandsOver(j)
    BY <1>6, <2>1, IdleHandsOver DEF Broadcast, TypeOK
  <2>2. ASSUME novel[k] PROVE <<owner[k], cur[k]>> \in sent'
    BY <1>6, <2>2 DEF Broadcast
  <2>3. HandsOver(k)
    BY <2>2 DEF HandsOver, HoldsOperation, HoldsDeletion, SentOperation, SentDeletion, Carries
  <2>4. sent \subseteq sent' /\ rows' = rows /\ tombs' = tombs
    BY <1>6 DEF Broadcast, dbVars
  <2> QED
    BY <2>1, <2>3, <2>4, HandsOverKeeps
<1>7. ASSUME NEW k \in Conn, PersistDeletions(k) PROVE PersistedIsBroadcast'
  <2>1. ASSUME NEW j \in Conn, j # k PROVE HandsOver(j)
    BY <1>7, <2>1, IdleHandsOver DEF PersistDeletions, TypeOK
  <2>2. /\ phase[k] = "delete" /\ phase'[k] = "send" /\ (novel[k] => novel'[k])
        /\ owner'[k] = owner[k] /\ cur'[k] = cur[k]
    BY <1>7 DEF PersistDeletions, TypeOK
  <2>3. HandsOver(k)
    BY <2>2 DEF HandsOver, HoldsOperation, HoldsDeletion, Carries
  <2>4. ASSUME NEW d \in tombs' \ tombs PROVE HoldsDeletion(k, d)'
    <3>1. d \in cur[k].del /\ ~ (cur[k].del \subseteq tombs)
      BY <1>7, <2>4 DEF PersistDeletions
    <3>2. novel'[k]
      BY <1>7, <3>1 DEF PersistDeletions, TypeOK
    <3> QED
      BY <2>2, <3>1, <3>2 DEF HoldsDeletion
  <2>5. sent \subseteq sent' /\ rows' = rows
    BY <1>7 DEF PersistDeletions
  <2> QED
    BY <2>1, <2>3, <2>4, <2>5, HandsOverKeeps
<1>8. ASSUME NEW k \in Conn, PersistOperation(k) PROVE PersistedIsBroadcast'
  <2>1. ASSUME NEW j \in Conn PROVE HandsOver(j)
    BY <1>8, IdleHandsOver, NothingToHandOver DEF PersistOperation, TypeOK
  <2>2. /\ phase'[k] \in {"delete", "send"} /\ novel'[k]
        /\ owner'[k] = owner[k] /\ cur'[k] = cur[k]
    BY <1>8 DEF PersistOperation, AfterInsertion, TypeOK
  <2>3. ASSUME NEW r \in rows' \ rows, NEW o \in r.lo .. r.offset
        PROVE  HoldsOperation(k, r.client, o)'
    <3>1. r = [client |-> owner[k], offset |-> cur[k].hi - 1, lo |-> cur[k].lo]
      BY <1>8, <2>3 DEF PersistOperation, WriteOperation, NewOffset
    <3>2. cur[k].lo \in Nat /\ cur[k].hi \in Nat
      BY DEF TypeOK, Message
    <3>3. r.client = owner[k] /\ Carries(cur[k], o)
      BY <3>1, <3>2 DEF Carries
    <3> QED
      BY <2>2, <3>3 DEF HoldsOperation, Carries
  <2>4. sent \subseteq sent' /\ tombs' = tombs
    BY <1>8 DEF PersistOperation
  <2> QED
    BY <2>1, <2>3, <2>4, HandsOverKeeps
<1>9. CASE UNCHANGED vars
  BY <1>1, <1>9 DEF vars
<1>10. ASSUME NEW c \in Client,
              \/ \E n \in 1 .. MaxBatch : Edit(c, n)
              \/ \E d \in Deletable : Delete(c, d)
              \/ ClientSyncStepTwo(c)
              \/ Disconnect(c)
       PROVE  PersistedIsBroadcast'
  BY <1>1, <1>10 DEF Edit, Delete, ClientSyncStepTwo, Disconnect
<1>11. ASSUME NEW k \in Conn, SendServerSyncStepOne(k) \/ SkipUpdate(k)
       PROVE  PersistedIsBroadcast'
  BY <1>1, <1>11 DEF SendServerSyncStepOne, SkipUpdate
<1>12. ASSUME NEW k \in Conn PROVE ~ (RepoFails(k) \/ WriterGone(k) \/ BroadcastFails(k) \/ Crash(k))
  BY DEF RepoFails, WriterGone, BroadcastFails, Crash
<1> QED
  BY <1>2, <1>3, <1>4, <1>5, <1>6, <1>7, <1>8, <1>9, <1>10, <1>11, <1>12 DEF Next, ReaderStep

\* As long as no query fails, no writer ends early and no process dies, every
\* operation and deletion that is stored is handed to the broker, or a reader
\* task is past the query and still going to: a lookup made stale by another
\* connection of the client, or a conflicting insert, never makes
\* persist_and_broadcast_update keep silent about what it has stored.
THEOREM PersistedIsBroadcastWithoutFaults ==
    ASSUME Faults = {} PROVE Spec => []PersistedIsBroadcast
<1>1. Init => PersistedIsBroadcast
  BY DEF Init, PersistedIsBroadcast
<1>2. IInv /\ PersistedIsBroadcast /\ [Next]_vars => PersistedIsBroadcast'
  BY NextPersistedIsBroadcast
<1> QED
  BY <1>1, <1>2, Inductive, PTL DEF Spec
=============================================================================
