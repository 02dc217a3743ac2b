--------------------------- MODULE GatewayProofs ---------------------------
(***************************************************************************)
(* Proofs about the gateway in front of the document service, for every    *)
(* set of documents, users, guests and requests: the tables stay as they   *)
(* should be under the calls the handlers make, and the responses are true *)
(* of them.                                                                *)
(*                                                                         *)
(* The document service's invariant DInv holds here too, as the handlers   *)
(* make calls that can be made (Callable).  HttpInv adds what the call     *)
(* that is under way has to do with the request it is made for.            *)
(***************************************************************************)
EXTENDS Gateway, DocumentsProofs

\* Call q is what the handler of its request makes of it.
Made(q) ==
    LET h == q.http
    IN  /\ h.route \in Routes
        /\ h.route = "PostPermission" =>
            /\ q.op \in {"guest", "upsert"}
            /\ q.docs[1] = h.docs[1] /\ q.who = h.who /\ q.arg = h.level
        /\ h.route = "PutPermissionUser" =>
            /\ q.op = "upsert"
            /\ q.docs[1] = h.docs[1] /\ q.who = h.who /\ q.arg = h.level
        /\ h.route = "PutPermissionGuest" =>
            q.op = "regrade" /\ q.who = h.who /\ q.arg = h.level
        /\ h.route = "DeletePermission" =>
            q.op = "remove" /\ q.docs[1] = h.docs[1] /\ q.who = h.who
        /\ h.route = "GetPermission" =>
            q.op = "read" /\ q.docs[1] = h.docs[1] /\ q.who = h.who
        /\ h.route = "PutDocumentDocumentId" =>
            q.op = "rename" /\ q.docs[1] = h.docs[1]

HttpInv == \A r \in Requests : pc[r] # "idle" => Made(req[r])

GInv == DInv /\ HttpInv
-----------------------------------------------------------------------------
(* Levels come through their conversions as they are.                      *)

LEMMA StoredIsNamed == \A level \in Levels : Stored(level) = level
BY DEF Levels, Stored, serviceToRepoPermissionLevel, pbToServicePermissionLevel,
   netToProtoPermissionLevel

LEMMA ShownIsStored == \A level \in Levels : Shown(level) = level
BY DEF Levels, Shown, protoToNetPermissionLevel, serviceToPbPermissionLevel,
   repoToServicePermissionLevel

-----------------------------------------------------------------------------
(* The handlers.                                                           *)


LEMMA RefuseStep ==
    ASSUME GInv, NEW r \in Requests, NEW answer \in Answers, Refuse(r, answer)
    PROVE  GInv'
<1>1. DInv'
  <2>1. reply' \in [Requests -> Answers]
    BY DEF Refuse, GInv, DInv, Types
  <2> QED
    BY <2>1, QuietStep DEF Refuse, GInv, DInv, Types
<1>2. HttpInv'
  BY DEF Refuse, GInv, HttpInv
<1> QED
  BY <1>1, <1>2 DEF GInv

LEMMA AcceptHttp ==
    ASSUME GInv, NEW r \in Requests, NEW q, Callable(q), Made(q), Accept(r, q)
    PROVE  GInv'
<1>1. DInv'
  BY AcceptStep DEF GInv
<1>2. CASE Invalid(q)
  <2>1. HttpInv'
    BY <1>2 DEF Accept, GInv, HttpInv
  <2> QED
    BY <1>1, <2>1 DEF GInv
<1>3. CASE ~Invalid(q)
  <2>1. /\ \A o \in Requests \ {r} : pc'[o] = pc[o] /\ req'[o] = req[o]
        /\ req'[r] = q
    BY <1>3 DEF Accept, GInv, DInv, Types
  <2>2. \A o \in Requests : pc'[o] # "idle" => Made(req'[o])
    BY <2>1 DEF GInv, HttpInv
  <2>3. HttpInv'
    BY <2>2 DEF HttpInv
  <2> QED
    BY <1>1, <2>3 DEF GInv
<1> QED
  BY <1>2, <1>3

\* A handler whose call can be made leaves everything as it should be.
LEMMA ForwardStep ==
    ASSUME GInv, NEW r \in Requests, NEW h, NEW q, Forward(r, h, q),
           \A v : /\ v.op = q.op /\ v.docs = q.docs /\ v.who = q.who
                  /\ v.arg = q.arg /\ v.http = h
                  => Callable(v) /\ Made(v)
    PROVE  GInv'
<1> DEFINE v == [op |-> q.op, docs |-> q.docs, who |-> q.who, arg |-> q.arg, http |-> h]
<1>1. CASE ~up
  <2>1. Refuse(r, "unavailable") /\ "unavailable" \in Answers
    BY <1>1 DEF Forward, Answers
  <2> QED
    BY <2>1, RefuseStep
<1>2. CASE up
  <2>1. Accept(r, v)
    BY <1>2 DEF Forward
  <2>2. /\ v.op = q.op /\ v.docs = q.docs /\ v.who = q.who
        /\ v.arg = q.arg /\ v.http = h
    OBVIOUS
  <2> HIDE DEF v
  <2>3. Callable(v) /\ Made(v)
    BY <2>2
  <2> QED
    BY <2>1, <2>3, AcceptHttp
<1> QED
  BY <1>1, <1>2

LEMMA HandlerStep ==
    ASSUME GInv, NEW r \in Requests,
           NEW route, NEW docs, NEW who, NEW level, NEW op, NEW qdocs, NEW qwho, NEW arg,
           Forward(r, Request(route, docs, who, level), Call(op, qdocs, qwho, arg)),
           \A v : /\ v.op = op /\ v.docs = qdocs /\ v.who = qwho /\ v.arg = arg
                  /\ v.http.route = route /\ v.http.docs = docs
                  /\ v.http.who = who /\ v.http.level = level
                  => Callable(v) /\ Made(v)
    PROVE  GInv'
<1> DEFINE h == Request(route, docs, who, level)
           q == Call(op, qdocs, qwho, arg)
<1>1. h.route = route /\ h.docs = docs /\ h.who = who /\ h.level = level
  BY DEF Request
<1>2. q.op = op /\ q.docs = qdocs /\ q.who = qwho /\ q.arg = arg
  BY DEF Call
<1> HIDE DEF h, q
<1>3. ASSUME NEW v, v.op = q.op, v.docs = q.docs, v.who = q.who, v.arg = q.arg, v.http = h
      PROVE  Callable(v) /\ Made(v)
  <2>1. /\ v.op = op /\ v.docs = qdocs /\ v.who = qwho /\ v.arg = arg
        /\ v.http.route = route /\ v.http.docs = docs
        /\ v.http.who = who /\ v.http.level = level
    BY <1>1, <1>2, <1>3
  <2> QED
    BY <2>1
<1>4. Forward(r, h, q)
  BY DEF h, q
<1>5. \A v : /\ v.op = q.op /\ v.docs = q.docs /\ v.who = q.who
             /\ v.arg = q.arg /\ v.http = h
             => Callable(v) /\ Made(v)
  BY <1>3, Zenon
<1> QED
  BY <1>4, <1>5, ForwardStep

LEMMA DeleteDocumentGInv ==
    ASSUME GInv, NEW r \in Requests, NEW p, NEW docs \in Seq(Docs), Len(docs) <= MaxBatch,
           \A i \in 1..Len(docs) : creator[docs[i]] # Absent,
           DeleteDocument(r, p, docs)
    PROVE  GInv'
<1>1. CASE p \in Guests
  BY <1>1, RefuseStep DEF DeleteDocument, Answers
<1>2. CASE p \notin Guests
  <2>1. ASSUME NEW v, v.op = "delete", v.docs = docs, v.who = Absent,
               v.http.route = "DeleteDocument"
        PROVE  Callable(v) /\ Made(v)
    BY <2>1 DEF Callable, Made, Routes
  <2> QED
    BY <1>2, <2>1, HandlerStep DEF DeleteDocument
<1> QED
  BY <1>1, <1>2

LEMMA DeleteDocumentIdGInv ==
    ASSUME GInv, NEW r \in Requests, NEW p, NEW d \in KnownDocs,
           DeleteDocumentDocumentId(r, p, d)
    PROVE  GInv'
<1>1. CASE p \in Guests
  BY <1>1, RefuseStep DEF DeleteDocumentDocumentId, Answers
<1>2. CASE p \notin Guests
  <2>1. ASSUME NEW v, v.op = "delete", v.docs = <<d>>, v.who = Absent,
               v.http.route = "DeleteDocumentDocumentId"
        PROVE  Callable(v) /\ Made(v)
    <3>1. /\ v.docs \in Seq(Docs) /\ Len(v.docs) = 1 /\ Len(v.docs) <= MaxBatch
          /\ \A i \in 1..Len(v.docs) : creator[v.docs[i]] # Absent
      BY <2>1, DocumentsAssumption DEF KnownDocs
    <3> QED
      BY <2>1, <3>1 DEF Callable, Made, Routes
  <2> QED
    BY <1>2, <2>1, HandlerStep DEF DeleteDocumentDocumentId
<1> QED
  BY <1>1, <1>2

LEMMA GetDocumentIdGInv ==
    ASSUME GInv, NEW r \in Requests, NEW p, NEW d, GetDocumentDocumentId(r, p, d)
    PROVE  GInv'
<1>1. ASSUME NEW v, v.op = "get", v.who = Absent, v.http.route = "GetDocumentDocumentId"
      PROVE  Callable(v) /\ Made(v)
  BY <1>1 DEF Callable, Made, Routes
<1> QED
  BY <1>1, HandlerStep DEF GetDocumentDocumentId

LEMMA PutDocumentIdGInv ==
    ASSUME GInv, NEW r \in Requests, NEW d \in Docs, NEW field, PutDocumentDocumentId(r, d, field)
    PROVE  GInv'
<1>1. ASSUME NEW v, v.op = "rename", v.docs = <<d>>, v.who = Absent,
             v.http.route = "PutDocumentDocumentId", v.http.docs = <<d>>
      PROVE  Callable(v) /\ Made(v)
  BY <1>1 DEF Callable, Made, Routes
<1> QED
  BY <1>1, HandlerStep DEF PutDocumentDocumentId

LEMMA PostPermissionGInv ==
    ASSUME GInv, NEW r \in Requests, NEW p, NEW d \in Docs, 
           NEW u \in KnownPrincipals \cup {Absent},
           NEW level \in Levels, PostDocumentDocumentIdPermission(r, p, d, u, level)
    PROVE  GInv'
<1>1. Stored(level) = level
  BY StoredIsNamed
<1>2. CASE p \in Guests \/ level = "owner"
  BY <1>2, RefuseStep DEF PostDocumentDocumentIdPermission, Answers
<1>3. CASE ~(p \in Guests \/ level = "owner") /\ u # Absent
  <2>1. ASSUME NEW v, v.op = "upsert", v.docs = <<d>>, v.who = u, v.arg = level,
               v.http.route = "PostPermission", v.http.docs = <<d>>,
               v.http.who = u, v.http.level = level
        PROVE  Callable(v) /\ Made(v)
    BY <1>3, <2>1 DEF Callable, Made, Routes, KnownPrincipals
  <2> QED
    BY <1>1, <1>3, <2>1, HandlerStep DEF PostDocumentDocumentIdPermission
<1>4. CASE ~(p \in Guests \/ level = "owner") /\ u = Absent
  <2>1. PICK g \in Guests :
            /\ Known(Call("guest", <<d>>, g, level))
            /\ Forward(r, Request("PostPermission", <<d>>, g, level),
                       Call("guest", <<d>>, g, level))
    BY <1>1, <1>4 DEF PostDocumentDocumentIdPermission
  <2>2. g \notin issued /\ \A o \in Requests : req[o].who # g
    BY <2>1 DEF Known, Call
  <2>3. ASSUME NEW v, v.op = "guest", v.docs = <<d>>, v.who = g, v.arg = level,
               v.http.route = "PostPermission", v.http.docs = <<d>>,
               v.http.who = g, v.http.level = level
        PROVE  Callable(v) /\ Made(v)
    BY <2>2, <2>3 DEF Callable, Made, Routes
  <2> QED
    BY <2>1, <2>3, HandlerStep
<1> QED
  BY <1>2, <1>3, <1>4

LEMMA DeletePermissionGInv ==
    ASSUME GInv, NEW r \in Requests, NEW p, NEW d \in Docs, NEW who \in KnownPrincipals,
           DeletePermissionPrincipalId(r, p, d, who)
    PROVE  GInv'
<1>1. CASE p \in Guests
  BY <1>1, RefuseStep DEF DeletePermissionPrincipalId, Answers
<1>2. CASE p \notin Guests
  <2>1. ASSUME NEW v, v.op = "remove", v.docs = <<d>>, v.who = who,
               v.http.route = "DeletePermission", v.http.docs = <<d>>, v.http.who = who
        PROVE  Callable(v) /\ Made(v)
    BY <2>1 DEF Callable, Made, Routes, KnownPrincipals
  <2> QED
    BY <1>2, <2>1, HandlerStep DEF DeletePermissionPrincipalId
<1> QED
  BY <1>1, <1>2

LEMMA GetPermissionGInv ==
    ASSUME GInv, NEW r \in Requests, NEW p, NEW d \in Docs, NEW who \in KnownPrincipals,
           GetPermissionPrincipalId(r, p, d, who)
    PROVE  GInv'
<1>1. CASE p \in Guests /\ p # who
  BY <1>1, RefuseStep DEF GetPermissionPrincipalId, Answers
<1>2. CASE ~(p \in Guests /\ p # who)
  <2>1. ASSUME NEW v, v.op = "read", v.docs = <<d>>, v.who = who,
               v.http.route = "GetPermission", v.http.docs = <<d>>, v.http.who = who
        PROVE  Callable(v) /\ Made(v)
    BY <2>1 DEF Callable, Made, Routes, KnownPrincipals
  <2> QED
    BY <1>2, <2>1, HandlerStep DEF GetPermissionPrincipalId
<1> QED
  BY <1>1, <1>2

LEMMA PutPermissionGInv ==
    ASSUME GInv, NEW r \in Requests, NEW p, NEW d \in Docs, NEW who \in KnownPrincipals,
           NEW type, NEW level \in Levels, PutPermissionPrincipalId(r, p, d, who, type, level)
    PROVE  GInv'
<1>1. Stored(level) = level
  BY StoredIsNamed
<1>2. CASE p \in Guests
  BY <1>2, RefuseStep DEF PutPermissionPrincipalId, Answers
<1>3. CASE p \notin Guests /\ type = "user"
  <2>1. ASSUME NEW v, v.op = "upsert", v.docs = <<d>>, v.who = who, v.arg = level,
               v.http.route = "PutPermissionUser", v.http.docs = <<d>>,
               v.http.who = who, v.http.level = level
        PROVE  Callable(v) /\ Made(v)
    BY <1>3, <2>1 DEF Callable, Made, Routes, KnownPrincipals
  <2>2. Forward(r, Request("PutPermissionUser", <<d>>, who, level),
                Call("upsert", <<d>>, who, level))
    BY <1>1, <1>3 DEF PutPermissionPrincipalId
  <2> QED
    BY <2>1, <2>2, HandlerStep
<1>4. CASE p \notin Guests /\ type # "user"
  <2>1. ASSUME NEW v, v.op = "regrade", v.who = who, v.arg = level,
               v.http.route = "PutPermissionGuest", v.http.who = who, v.http.level = level
        PROVE  Callable(v) /\ Made(v)
    BY <1>4, <2>1 DEF Callable, Made, Routes, KnownPrincipals
  <2>2. Forward(r, Request("PutPermissionGuest", <<d>>, who, level),
                Call("regrade", <<>>, who, level))
    BY <1>1, <1>4 DEF PutPermissionPrincipalId
  <2> QED
    BY <2>1, <2>2, HandlerStep
<1> QED
  BY <1>2, <1>3, <1>4

LEMMA PanicGInv ==
    ASSUME GInv, Panic
    PROVE  GInv'
<1>1. DInv'
  BY PanicIInv DEF GInv
<1>2. HttpInv'
  BY DEF Panic, HttpInv
<1> QED
  BY <1>1, <1>2 DEF GInv

LEMMA HandleGInv ==
    ASSUME GInv, NEW r \in Requests, NEW p \in KnownPrincipals, Handle(r, p)
    PROVE  GInv'
<1>1. \A d \in KnownDocs : d \in Docs
  BY DEF KnownDocs
<1>2. CASE PostDocument(r, p)
  <2>1. CASE p \in Guests \/ ~up
    BY <1>2, <2>1, RefuseStep DEF PostDocument, Answers
  <2>2. CASE ~(p \in Guests \/ ~up)
    <3>1. PICK d \in Docs : CreateDocument(p, d)
      BY <1>2, <2>2 DEF PostDocument
    <3>2. p \in Users
      BY <2>2 DEF KnownPrincipals, GInv, DInv, Types
    <3>3. DInv'
      BY <3>1, <3>2, CreateDocumentIInv DEF GInv
    <3>4. HttpInv'
      BY <3>1 DEF CreateDocument, GInv, HttpInv
    <3> QED
      BY <3>3, <3>4 DEF GInv
  <2> QED
    BY <2>1, <2>2
<1>3. ASSUME NEW n \in 0..MaxBatch, NEW docs \in [1..n -> KnownDocs], DeleteDocument(r, p, docs)
      PROVE  GInv'
  <2>1. n \in Nat /\ n <= MaxBatch
    BY DocumentsAssumption
  <2>2. docs \in Seq(Docs) /\ Len(docs) = n /\ \A i \in 1..n : creator[docs[i]] # Absent
    BY <1>1, <2>1 DEF KnownDocs
  <2> QED
    BY <1>3, <2>1, <2>2, DeleteDocumentGInv
<1>4. CASE ListDocuments(r) \/ ListPermissions(r, p)
  <2>1. "forbidden" \in Answers /\ "unavailable" \in Answers
    BY DEF Answers
  <2>2. Panic \/ Refuse(r, "forbidden") \/ Refuse(r, "unavailable")
    BY <1>4 DEF ListDocuments, ListPermissions
  <2> QED
    BY <2>1, <2>2, PanicGInv, RefuseStep
<1>5. ASSUME NEW d \in KnownDocs,
             \/ DeleteDocumentDocumentId(r, p, d)
             \/ GetDocumentDocumentId(r, p, d)
             \/ \E field \in {Absent, "name"} : PutDocumentDocumentId(r, d, field)
      PROVE  GInv'
  BY <1>1, <1>5, DeleteDocumentIdGInv, GetDocumentIdGInv, PutDocumentIdGInv
<1>6. ASSUME NEW d \in KnownDocs, NEW u \in KnownPrincipals \cup {Absent}, NEW level \in Levels,
             PostDocumentDocumentIdPermission(r, p, d, u, level)
      PROVE  GInv'
  BY <1>1, <1>6, PostPermissionGInv
<1>7. ASSUME NEW d \in KnownDocs, NEW who \in KnownPrincipals,
             \/ DeletePermissionPrincipalId(r, p, d, who)
             \/ GetPermissionPrincipalId(r, p, d, who)
             \/ \E type \in {"user", "guest"}, level \in Levels :
                    PutPermissionPrincipalId(r, p, d, who, type, level)
      PROVE  GInv'
  BY <1>1, <1>7, DeletePermissionGInv, GetPermissionGInv, PutPermissionGInv
<1> QED
  BY <1>2, <1>3, <1>4, <1>5, <1>6, <1>7, Zenon DEF Handle

-----------------------------------------------------------------------------
(* The steps of the service.                                               *)

\* A call keeps its request until it ends.
LEMMA WorkHttp ==
    ASSUME GInv, NEW r \in Requests,
           Statement(r) \/ DeadlockDetected(r) \/ QueryFails(r) \/ CommitUnacknowledged(r)
    PROVE  GInv'
<1>1. DInv'
  BY WorkIInv DEF GInv
<1>2. pc \in [Requests -> PC] /\ DInv
  BY DEF GInv, DInv, Types
<1>3. ASSUME NEW status, Answer(r, status)
      PROVE  \A o \in Requests : pc'[o] # "idle" => pc[o] # "idle" /\ Made(req'[o])
  BY <1>2, <1>3 DEF Answer, GInv, HttpInv
<1>4. ASSUME NEW l, Goto(r, l), pc[r] # "idle"
      PROVE  \A o \in Requests : pc'[o] # "idle" => pc[o] # "idle" /\ Made(req'[o])
  BY <1>2, <1>4 DEF Goto, GInv, HttpInv
<1>5. pc[r] # "idle"
  BY <1>2, WorkIsOpen
<1>6. \A o \in Requests : pc'[o] # "idle" => pc[o] # "idle" /\ Made(req'[o])
  <2>1. CASE DeadlockDetected(r) \/ QueryFails(r) \/ CommitUnacknowledged(r)
    BY <1>3, <2>1 DEF DeadlockDetected, QueryFails, CommitUnacknowledged, Commit, Rollback
  <2>2. CASE \/ DeletePermissionByDocument(r) \/ DeleteGuestsByDocument(r)
             \/ DeleteRow(r) \/ ForeignKeys(r)
    BY <1>3, <1>4, <1>5, <2>2
    DEF DeletePermissionByDocument, DeleteGuestsByDocument, DeleteRow, ForeignKeys, Delete, Rollback
  <2>3. CASE GetDocument(r) \/ InsertGuest(r) \/ InsertPermissionGuest(r)
    BY <1>3, <1>4, <1>5, <2>3 DEF GetDocument, InsertGuest, InsertPermissionGuest, Insert, Rollback
  <2>4. CASE UpsertPermissionUser(r)
    BY <1>3, <1>4, <1>5, <2>4 DEF UpsertPermissionUser, Insert, Rollback
  <2>5. CASE UpdatePermissionGuest(r) \/ DeletePermissionPrincipal(r)
    BY <1>3, <2>5 DEF UpdatePermissionGuest, DeletePermissionPrincipal, Autocommit, Rollback
  <2>6. CASE UpdateDocument(r) \/ ReadDocument(r) \/ ReadPermission(r) \/ Commit(r, "ok")
    BY <1>3, <2>6 DEF UpdateDocument, ReadDocument, ReadPermission, Commit, Rollback
  <2>7. CASE SelectGuest(r)
    <3>1. CASE Rollback(r, "notfound")
      BY <1>3, <3>1 DEF Rollback
    <3>2. CASE ~Rollback(r, "notfound")
      <4> DEFINE q == req[r]
                 v == [q EXCEPT !.docs = <<db[q.who]>>]
      <4>1. /\ pc' = [pc EXCEPT ![r] = "regrade"] /\ req' = [req EXCEPT ![r] = v]
            /\ req = [o \in Requests |-> req[o]] /\ pc[r] = "select"
        BY <2>7, <3>2 DEF SelectGuest, GInv, DInv, Types
      <4>2. v.op = q.op /\ v.who = q.who /\ v.arg = q.arg /\ v.http = q.http
        OBVIOUS
      <4>3. q.op = "regrade"
        BY <1>2, <4>1 DEF DInv, OwnInv, Control
      <4> HIDE DEF v
      <4>4. Made(v)
        BY <1>5, <4>2, <4>3 DEF GInv, HttpInv, Made
      <4>5. req'[r] = v /\ \A o \in Requests \ {r} : req'[o] = req[o] /\ pc'[o] = pc[o]
        BY <1>2, <4>1
      <4> QED
        BY <1>5, <4>4, <4>5 DEF GInv, HttpInv
    <3> QED
      BY <3>1, <3>2
  <2> QED
    BY <2>1, <2>2, <2>3, <2>4, <2>5, <2>6, <2>7 DEF Statement
<1>7. HttpInv'
  BY <1>6 DEF HttpInv
<1> QED
  BY <1>1, <1>7 DEF GInv

-----------------------------------------------------------------------------
(* The theorems.                                                           *)

LEMMA GatewayNextGInv == GInv /\ [GatewayNext]_vars => GInv'
<1> SUFFICES ASSUME GInv, [GatewayNext]_vars PROVE GInv'
  OBVIOUS
<1>1. ASSUME NEW r \in Requests, NEW p \in KnownPrincipals, Handle(r, p) PROVE GInv'
  BY <1>1, HandleGInv
<1>2. ASSUME NEW r \in Requests,
             Statement(r) \/ DeadlockDetected(r) \/ QueryFails(r) \/ CommitUnacknowledged(r)
      PROVE  GInv'
  BY <1>2, WorkHttp
<1>3. CASE Restart \/ UNCHANGED vars
  <2>1. DInv'
    BY <1>3, RestartIInv, QuietStep DEF vars, GInv, DInv, Types
  <2>2. HttpInv'
    BY <1>3 DEF Restart, vars, GInv, HttpInv
  <2> QED
    BY <2>1, <2>2 DEF GInv
<1> QED
  BY <1>1, <1>2, <1>3 DEF GatewayNext

\* The gateway's inductive invariant holds always.
THEOREM GatewayInvariance == GatewaySpec => []GInv
<1>1. Init => GInv
  BY InitDInv DEF Init, GInv, HttpInv
<1>2. GInv /\ [GatewayNext]_vars => GInv'
  BY GatewayNextGInv
<1> QED
  BY <1>1, <1>2, PTL DEF GatewaySpec

\* The service's types hold under the gateway's calls, and every call that
\* is under way is made by one of the routes.
THEOREM GatewayTypeCorrectness == GatewaySpec => []GatewayTypeOK
<1>1. GInv => GatewayTypeOK
  BY TypesOK DEF GInv, HttpInv, Made, GatewayTypeOK, Open, asked
<1> QED
  BY <1>1, GatewayInvariance, PTL

\* No request makes anyone but the creator of a document its owner.
THEOREM GatewayOwners == GatewaySpec => []CreatorOwns
<1>1. GInv => CreatorOwns
  BY DEF GInv, DInv
<1> QED
  BY <1>1, GatewayInvariance, PTL

\* Whatever is shared, revoked and deleted through the gateway, and whichever
\* kind a client says a principal is of, a permission given to a guest as such
\* is on the document of the guest's row.
THEOREM GatewayGuests == GatewaySpec => []GuestsInSync
<1>1. GInv => GuestsInSync
  BY DEF GInv, DInv
<1> QED
  BY <1>1, GatewayInvariance, PTL
-----------------------------------------------------------------------------
(* Responses.                                                              *)

\* A handler ends no call, unless it ends the process.
LEMMA HandleFrame ==
    ASSUME GInv, NEW o \in Requests, ~Open(o), NEW p, Handle(o, p), ~Panic,
           NEW r \in Requests, pc[r] # "idle"
    PROVE  pc'[r] = pc[r]
<1>1. o # r /\ pc \in [Requests -> PC]
  BY DEF Open, GInv, DInv, Types
<1>2. ASSUME NEW answer, Refuse(o, answer) PROVE pc'[r] = pc[r]
  BY <1>2 DEF Refuse
<1>3. ASSUME NEW h, NEW q, Forward(o, h, q) PROVE pc'[r] = pc[r]
  <2>1. ASSUME NEW v, Accept(o, v) PROVE pc'[r] = pc[r]
    BY <1>1, <2>1 DEF Accept
  <2> QED
    BY <1>2, <1>3, <2>1 DEF Forward
<1>4. CASE PostDocument(o, p)
  BY <1>2, <1>4 DEF PostDocument, CreateDocument
<1>5. CASE ListDocuments(o) \/ ListPermissions(o, p)
  BY <1>2, <1>5 DEF ListDocuments, ListPermissions
<1>6. CASE \E docs : DeleteDocument(o, p, docs)
  BY <1>2, <1>3, <1>6 DEF DeleteDocument
<1>7. ASSUME NEW d,
             \/ DeleteDocumentDocumentId(o, p, d)
             \/ GetDocumentDocumentId(o, p, d)
             \/ \E field : PutDocumentDocumentId(o, d, field)
      PROVE  pc'[r] = pc[r]
  BY <1>2, <1>3, <1>7
  DEF DeleteDocumentDocumentId, GetDocumentDocumentId, PutDocumentDocumentId
<1>8. ASSUME NEW d, NEW u, NEW level, PostDocumentDocumentIdPermission(o, p, d, u, level)
      PROVE  pc'[r] = pc[r]
  BY <1>2, <1>3, <1>8 DEF PostDocumentDocumentIdPermission
<1>9. ASSUME NEW d, NEW who,
             \/ DeletePermissionPrincipalId(o, p, d, who)
             \/ GetPermissionPrincipalId(o, p, d, who)
             \/ \E type, level : PutPermissionPrincipalId(o, p, d, who, type, level)
      PROVE  pc'[r] = pc[r]
  BY <1>2, <1>3, <1>9
  DEF DeletePermissionPrincipalId, GetPermissionPrincipalId, PutPermissionPrincipalId
<1> QED
  BY <1>4, <1>5, <1>6, <1>7, <1>8, <1>9 DEF Handle

\* A call ends by a step of its own, or when the process does.
LEMMA GatewayEnds ==
    ASSUME GInv, [GatewayNext]_vars, NEW r \in Requests, pc[r] # "idle", pc'[r] = "idle"
    PROVE  \/ reply'[r] = "unavailable"
           \/ Statement(r) \/ DeadlockDetected(r) \/ QueryFails(r) \/ CommitUnacknowledged(r)
<1>1. CASE Panic
  BY <1>1 DEF Panic, Open
<1>2. CASE ~Panic
  <2>1. ~(\E o \in {a \in Requests : ~Open(a)}, p \in KnownPrincipals : Handle(o, p))
    BY <1>2, HandleFrame
  <2>2. ~Restart /\ ~UNCHANGED vars
    BY DEF Restart, vars
  <2>3. PICK o \in Requests :
            Statement(o) \/ DeadlockDetected(o) \/ QueryFails(o) \/ CommitUnacknowledged(o)
    BY <2>1, <2>2 DEF GatewayNext
  <2>4. o = r
    BY <2>3, WorkFrame DEF GInv
  <2> QED
    BY <2>3, <2>4
<1> QED
  BY <1>1, <1>2

\* A successful deletion of documents through the gateway has deleted all of
\* them, each of which was there until then.
THEOREM GatewayDeletionsOnce == GatewaySpec => DeletedOnce
<1>1. ASSUME GInv, [GatewayNext]_vars, NEW r \in Requests,
             req[r].op = "delete", reply'[r] = "ok", ~Open(r)', NEW i \in DOMAIN req[r].docs
      PROVE  db[req[r].docs[i]] # Absent /\ db'[req[r].docs[i]] = Absent
  <2>1. DInv /\ pc'[r] = "idle" /\ pc[r] # "idle"
    BY <1>1, DeletionAt DEF Open, GInv
  <2>2. Statement(r) \/ DeadlockDetected(r) \/ QueryFails(r) \/ CommitUnacknowledged(r)
    BY <1>1, <2>1, GatewayEnds
  <2> QED
    BY <1>1, <2>1, <2>2, WorkDeletes
<1>2. GInv /\ [GatewayNext]_vars =>
        [\A r \in Requests :
            req[r].op = "delete" /\ reply'[r] = "ok" /\ ~Open(r)' =>
                \A i \in DOMAIN req[r].docs :
                    db[req[r].docs[i]] # Absent /\ db'[req[r].docs[i]] = Absent]_vars
  BY <1>1
<1> QED
  BY <1>2, GatewayInvariance, PTL DEF GatewaySpec, DeletedOnce

\* What a response with answer a says of the tables.
Success(h, a) ==
    /\ h.route \in {"PostPermission", "PutPermissionUser", "PutPermissionGuest"} =>
        LevelOf[db'[<<h.who, Subject(h)>>]] = h.level /\ db'[Subject(h)] # Absent
    /\ h.route = "DeletePermission" => db'[<<h.who, Subject(h)>>] = Absent
    /\ h.route = "GetPermission" => LevelOf[db[<<h.who, Subject(h)>>]] = Shown(a)

NotFound(h) ==
    /\ h.route \in {"PostPermission", "PutPermissionUser", "PutDocumentDocumentId"} =>
        db[Subject(h)] = Absent
    /\ h.route \in {"GetPermission", "DeletePermission"} => db[<<h.who, Subject(h)>>] = Absent
    /\ h.route = "PutPermissionGuest" =>
        Subject(h) = Absent \/ db[<<h.who, Subject(h)>>] \notin GuestRows

Truthful(h, a) ==
    /\ a \in {"ok"} \cup Levels => Success(h, a)
    /\ a = "notfound" => NotFound(h)

LEMMA StatusFacts ==
    ASSUME NEW a \in Answers
    PROVE  /\ GrpcToHttpStatus(a) = "success" => a \in {"ok"} \cup Levels
           /\ GrpcToHttpStatus(a) = "404" => a = "notfound"
BY DEF GrpcToHttpStatus, Answers, Levels

\* How a call ends whose request shares, or asks for, what is in the tables.
LEMMA CallFacts ==
    ASSUME GInv, NEW r \in Requests, pc[r] # "idle", NEW q, q = req[r], NEW h, h = asked(r)
    PROVE  /\ Made(q) /\ q.http = h /\ OwnInv(pc[r], q, tx[r]) /\ pc[r] \in PC
           /\ tx[r] \in Transactions
           /\ q.op \in {"delete", "get"} => \A a : Success(h, a) /\ NotFound(h)
           /\ q.op # "delete" /\ tx[r].done = 0 => Doc(r) = q.docs[1]
<1>1. /\ Made(q) /\ q.http = h /\ OwnInv(pc[r], q, tx[r]) /\ pc[r] \in PC
      /\ tx[r] \in Transactions
  BY DEF GInv, HttpInv, DInv, Types, asked
<1>2. q.op \in {"delete", "get"} => \A a : Success(h, a) /\ NotFound(h)
  BY <1>1 DEF Made, Success, NotFound
<1> QED
  BY <1>1, <1>2 DEF Doc

\* The answer of a call that ends.
LEMMA AnswerFacts ==
    ASSUME GInv, NEW r \in Requests, NEW s
    PROVE  /\ Answer(r, s) => reply'[r] = s
           /\ Rollback(r, s) => reply'[r] = s /\ db' = db
           /\ \A l : Goto(r, l) => pc'[r] = l
<1>1. pc \in [Requests -> PC] /\ reply \in [Requests -> Answers]
  BY DEF GInv, DInv, Types
<1> QED
  BY <1>1 DEF Answer, Rollback, Goto

LEMMA AutocommitFacts ==
    ASSUME GInv, NEW r \in Requests, NEW p \in Principals, NEW d \in Docs, NEW c, c # Same,
           Autocommit(r, <<p, d>>, c)
    PROVE  db'[<<p, d>>] = c /\ db'[d] = db[d] /\ reply'[r] = "ok"
<1> DEFINE x == <<p, d>>
           w == [EmptyTx.write EXCEPT ![x] = c]
<1>1. x \in Rows /\ d \in Rows /\ d # x
  BY PairRow, RowFacts
<1>2. w[x] = c /\ w[d] = Same
  BY <1>1, EmptyFacts
<1>3. Publish(r, w) /\ Answer(r, "ok")
  BY DEF Autocommit
<1> HIDE DEF w, x
<1>4. db'[x] = c /\ db'[d] = db[d]
  BY <1>1, <1>2, <1>3 DEF Publish
<1> QED
  BY <1>3, <1>4, AnswerFacts DEF x

\* The routes behind the calls that grant, regrade, remove and read.
LEMMA RouteFacts ==
    ASSUME NEW q, Made(q), NEW h, h = q.http
    PROVE  /\ q.op \in {"guest", "upsert"} =>
                h.route \notin {"PutPermissionGuest", "DeletePermission", "GetPermission", "PutDocumentDocumentId"}
           /\ q.op = "regrade" =>
                h.route \notin {"PostPermission", "PutPermissionUser", "DeletePermission", "GetPermission",
                               "PutDocumentDocumentId"}
           /\ q.op = "remove" =>
                h.route \notin {"PostPermission", "PutPermissionUser", "PutPermissionGuest", "GetPermission",
                               "PutDocumentDocumentId"}
           /\ q.op = "rename" =>
                h.route \notin {"PostPermission", "PutPermissionUser", "PutPermissionGuest", "DeletePermission",
                               "GetPermission"}
           /\ q.op = "read" =>
                h.route \notin {"PostPermission", "PutPermissionUser", "PutPermissionGuest", "DeletePermission",
                               "PutDocumentDocumentId"}
           /\ h.route \in {"PostPermission", "PutPermissionUser", "PutPermissionGuest", "DeletePermission",
                           "GetPermission"} => q.who = h.who
           /\ h.route \in {"PostPermission", "PutPermissionUser", "PutPermissionGuest"} => q.arg = h.level
           /\ h.route # "PutPermissionGuest" => Subject(h) = h.docs[1]
           /\ h.route \in {"PostPermission", "PutPermissionUser", "DeletePermission", "GetPermission",
                           "PutDocumentDocumentId"} => q.docs[1] = h.docs[1]
BY DEF Made, Subject

\* CreateGuest and UpsertPermissionUser find no document.
LEMMA GetDocumentTrue ==
    ASSUME GInv, NEW r \in Requests, GetDocument(r), pc'[r] = "idle"
    PROVE  Truthful(asked(r), reply'[r])
<1> DEFINE q == req[r]
           h == asked(r)
<1>1. pc[r] = "check"
  BY DEF GetDocument
<1>2. /\ Made(q) /\ h = q.http /\ OwnInv("check", q, tx[r])
      /\ q.op # "delete" /\ tx[r].done = 0 => Doc(r) = q.docs[1]
  BY <1>1, CallFacts
<1>3. q.op \in {"guest", "upsert"} /\ tx[r] = EmptyTx
  BY <1>2 DEF OwnInv, Control, Written
<1>4. Doc(r) = q.docs[1]
  BY <1>2, <1>3, EmptyFacts
<1>5. db[q.docs[1]] = Absent /\ reply'[r] = "notfound"
  <2>1. ~Goto(r, q.op)
    BY <1>3, AnswerFacts
  <2> QED
    BY <1>4, <2>1, AnswerFacts DEF GetDocument
<1>6. h.route \in {"PostPermission", "PutPermissionUser"} => Subject(h) = q.docs[1]
  BY <1>2, <1>3, RouteFacts
<1>7. h.route \notin {"PutPermissionGuest", "DeletePermission", "GetPermission", "PutDocumentDocumentId"}
  BY <1>2, <1>3, RouteFacts
<1> HIDE DEF h, q
<1>8. NotFound(h)
  BY <1>5, <1>6, <1>7 DEF NotFound
<1> QED
  BY <1>5, <1>8 DEF Truthful, Levels, h

\* UpdatePermissionGuest: there is no such guest when it is looked up, or its
\* permission is gone, or not a guest's, when it is to be updated.
LEMMA SelectGuestTrue ==
    ASSUME GInv, NEW r \in Requests, SelectGuest(r), pc'[r] = "idle"
    PROVE  Truthful(asked(r), reply'[r])
<1> DEFINE q == req[r]
           h == asked(r)
<1>1. pc[r] = "select" /\ pc \in [Requests -> PC]
  BY DEF SelectGuest, GInv, DInv, Types
<1>2. Made(q) /\ h = q.http /\ OwnInv("select", q, tx[r])
  BY <1>1, CallFacts
<1>3. q.op = "regrade"
  BY <1>2 DEF OwnInv, Control
<1>4. (q.who \notin Guests \/ db[q.who] = Absent) /\ reply'[r] = "notfound"
  BY <1>1, AnswerFacts DEF SelectGuest
<1>5. h.route = "PutPermissionGuest" => Subject(h) = Absent
  BY <1>2, <1>3, <1>4, RouteFacts DEF Subject
<1>6. h.route \notin {"PostPermission", "PutPermissionUser", "DeletePermission", "GetPermission",
                     "PutDocumentDocumentId"}
  BY <1>2, <1>3, RouteFacts
<1> HIDE DEF h, q
<1>7. NotFound(h)
  BY <1>5, <1>6 DEF NotFound
<1> QED
  BY <1>4, <1>7 DEF Truthful, Levels, h

LEMMA RegradeTrue ==
    ASSUME GInv, NEW r \in Requests, UpdatePermissionGuest(r)
    PROVE  Truthful(asked(r), reply'[r])
<1> DEFINE q == req[r]
           h == asked(r)
           d == q.docs[1]
           p == q.who
<1>1. pc[r] = "regrade"
  BY DEF UpdatePermissionGuest
<1>2. /\ Made(q) /\ h = q.http /\ OwnInv("regrade", q, tx[r])
      /\ q.op # "delete" /\ tx[r].done = 0 => Doc(r) = d
  BY <1>1, CallFacts
<1>3. /\ q.op = "regrade" /\ p \in issued /\ d \in Docs /\ db[p] \in {d, Absent}
      /\ q.arg \in Granted /\ tx[r] = EmptyTx
  BY <1>2 DEF OwnInv, Control, Names, Written
<1>4. p \in Guests /\ p \in Principals /\ Doc(r) = d
  BY <1>2, <1>3, EmptyFacts, RowFacts DEF GInv, DInv, Types
<1>5. h.route \notin {"PostPermission", "PutPermissionUser", "DeletePermission", "GetPermission",
                     "PutDocumentDocumentId"}
  BY <1>2, <1>3, RouteFacts
<1>6. h.route = "PutPermissionGuest" => Subject(h) = db[p] /\ h.who = p /\ h.level = q.arg
  BY <1>2, <1>4, RouteFacts DEF Subject
<1>7. CASE db[<<p, d>>] \notin GuestRows
  <2>1. reply'[r] = "notfound"
    BY <1>4, <1>7, AnswerFacts DEF UpdatePermissionGuest
  <2> HIDE DEF h, q, p, d
  <2>2. NotFound(h)
    BY <1>3, <1>5, <1>6, <1>7 DEF NotFound
  <2> QED
    BY <2>1, <2>2 DEF Truthful, Levels, h
<1>8. CASE db[<<p, d>>] \in GuestRows
  <2>1. Autocommit(r, <<p, d>>, AsGuest[q.arg])
    BY <1>4, <1>8 DEF UpdatePermissionGuest
  <2>2. db[p] = d /\ db[d] # Absent
    BY <1>3, <1>4, <1>8, RowFacts DEF GInv, DInv, GuestsInSync, Tables
  <2>3. AsGuest[q.arg] # Same /\ LevelOf[AsGuest[q.arg]] = q.arg
    BY <1>3, GuestLevels
  <2> HIDE DEF h, q, p, d
  <2>4. db'[<<p, d>>] = AsGuest[q.arg] /\ db'[d] = db[d] /\ reply'[r] = "ok"
    BY <1>3, <1>4, <2>1, <2>3, AutocommitFacts
  <2>5. Success(h, reply'[r])
    BY <1>5, <1>6, <2>2, <2>3, <2>4 DEF Success
  <2> QED
    BY <2>4, <2>5 DEF Truthful, Levels, h
<1> QED
  BY <1>7, <1>8

LEMMA RemoveTrue ==
    ASSUME GInv, NEW r \in Requests, DeletePermissionPrincipal(r)
    PROVE  Truthful(asked(r), reply'[r])
<1> DEFINE q == req[r]
           h == asked(r)
           d == q.docs[1]
           p == q.who
<1>1. pc[r] = "remove"
  BY DEF DeletePermissionPrincipal
<1>2. /\ Made(q) /\ h = q.http /\ OwnInv("remove", q, tx[r])
      /\ q.op # "delete" /\ tx[r].done = 0 => Doc(r) = d
  BY <1>1, CallFacts
<1>3. q.op = "remove" /\ p \in Users \cup issued /\ d \in Docs /\ tx[r] = EmptyTx
  BY <1>2 DEF OwnInv, Control, Names, Written
<1>4. p \in Principals /\ Doc(r) = d
  BY <1>2, <1>3, EmptyFacts, RowFacts DEF GInv, DInv, Types
<1>5. h.route \notin {"PostPermission", "PutPermissionUser", "PutPermissionGuest", "GetPermission",
                     "PutDocumentDocumentId"}
  BY <1>2, <1>3, RouteFacts
<1>6. h.route = "DeletePermission" => Subject(h) = d /\ h.who = p
  BY <1>2, RouteFacts
<1>7. CASE db[<<p, d>>] = Absent
  <2>1. reply'[r] = "notfound"
    BY <1>4, <1>7, AnswerFacts DEF DeletePermissionPrincipal
  <2> HIDE DEF h, q, p, d
  <2>2. NotFound(h)
    BY <1>5, <1>6, <1>7 DEF NotFound
  <2> QED
    BY <2>1, <2>2 DEF Truthful, Levels, h
<1>8. CASE db[<<p, d>>] # Absent
  <2>1. Autocommit(r, <<p, d>>, Absent) /\ Absent # Same
    BY <1>4, <1>8, RowFacts DEF DeletePermissionPrincipal
  <2> HIDE DEF h, q, p, d
  <2>2. db'[<<p, d>>] = Absent /\ reply'[r] = "ok"
    BY <1>3, <1>4, <2>1, AutocommitFacts
  <2>3. Success(h, reply'[r])
    BY <1>5, <1>6, <2>2 DEF Success
  <2> QED
    BY <2>2, <2>3 DEF Truthful, Levels, h
<1> QED
  BY <1>7, <1>8

LEMMA RenameTrue ==
    ASSUME GInv, NEW r \in Requests, UpdateDocument(r)
    PROVE  Truthful(asked(r), reply'[r])
<1> DEFINE q == req[r]
           h == asked(r)
<1>1. pc[r] = "rename"
  BY DEF UpdateDocument
<1>2. /\ Made(q) /\ h = q.http /\ OwnInv("rename", q, tx[r])
      /\ q.op # "delete" /\ tx[r].done = 0 => Doc(r) = q.docs[1]
  BY <1>1, CallFacts
<1>3. q.op = "rename" /\ tx[r] = EmptyTx
  BY <1>2 DEF OwnInv, Control, Written
<1>4. /\ h.route \notin {"PostPermission", "PutPermissionUser", "PutPermissionGuest", "DeletePermission",
                        "GetPermission"}
      /\ h.route = "PutDocumentDocumentId" => Subject(h) = Doc(r)
  BY <1>2, <1>3, EmptyFacts, RouteFacts
<1>5. reply'[r] = IF db[Doc(r)] = Absent THEN "notfound" ELSE "ok"
  BY AnswerFacts DEF UpdateDocument
<1> HIDE DEF h, q
<1>6. reply'[r] = "notfound" => NotFound(h)
  BY <1>4, <1>5 DEF NotFound
<1>7. Success(h, reply'[r])
  BY <1>4 DEF Success
<1> QED
  BY <1>6, <1>7 DEF Truthful, h

\* GetPermissionOfPrincipalOnDocument: what is shown is what is stored.
LEMMA ReadTrue ==
    ASSUME GInv, NEW r \in Requests, ReadPermission(r)
    PROVE  Truthful(asked(r), reply'[r])
<1> DEFINE q == req[r]
           h == asked(r)
           d == q.docs[1]
           p == q.who
<1>1. pc[r] = "read"
  BY DEF ReadPermission
<1>2. /\ Made(q) /\ h = q.http /\ OwnInv("read", q, tx[r])
      /\ q.op # "delete" /\ tx[r].done = 0 => Doc(r) = d
  BY <1>1, CallFacts
<1>3. q.op = "read" /\ p \in Users \cup issued /\ d \in Docs /\ tx[r] = EmptyTx
  BY <1>2 DEF OwnInv, Control, Names, Written
<1>4. p \in Principals /\ Doc(r) = d
  BY <1>2, <1>3, EmptyFacts, RowFacts DEF GInv, DInv, Types
<1>5. /\ h.route \notin {"PostPermission", "PutPermissionUser", "PutPermissionGuest", "DeletePermission",
                        "PutDocumentDocumentId"}
      /\ h.route = "GetPermission" => Subject(h) = d /\ h.who = p
  BY <1>2, <1>3, RouteFacts
<1>6. db[<<p, d>>] \in Levels \cup GuestRows \cup {Absent}
  BY <1>3, <1>4 DEF GInv, DInv, Tables
<1>7. reply'[r] = IF db[<<p, d>>] = Absent THEN "notfound" ELSE LevelOf[db[<<p, d>>]]
  BY <1>4, AnswerFacts DEF ReadPermission
<1> HIDE DEF h, q, p, d
<1>8. CASE db[<<p, d>>] = Absent
  <2>1. reply'[r] = "notfound" /\ NotFound(h)
    BY <1>5, <1>7, <1>8 DEF NotFound
  <2> QED
    BY <2>1 DEF Truthful, Levels, h
<1>9. CASE db[<<p, d>>] \in Levels \cup GuestRows /\ db[<<p, d>>] # Absent
  <2>1. /\ reply'[r] = LevelOf[db[<<p, d>>]] /\ reply'[r] \in Levels
        /\ Shown(reply'[r]) = LevelOf[db[<<p, d>>]]
    BY <1>7, <1>9, GuestLevels, ShownIsStored
  <2>2. Success(h, reply'[r])
    BY <1>5, <2>1 DEF Success
  <2>3. reply'[r] # "notfound"
    BY <1>9, <2>1 DEF Levels
  <2> QED
    BY <2>2, <2>3 DEF Truthful, h
<1> QED
  BY <1>6, <1>8, <1>9

\* A grant that is committed is in the table, and its document is too.
LEMMA GrantTrue ==
    ASSUME GInv, NEW r \in Requests, Commit(r, "ok"), req[r].op # "delete"
    PROVE  Truthful(asked(r), reply'[r])
<1> DEFINE q == req[r]
           h == asked(r)
           c == tx[r]
           d == q.docs[1]
           p == q.who
<1>1. pc[r] = "commit" /\ DInv /\ Publish(r, c.write) /\ Answer(r, "ok")
  BY DEF Commit, GInv
<1>2. Made(q) /\ h = q.http
  BY <1>1, CallFacts
<1>3. q.op \in {"guest", "upsert"}
  BY <1>1, CommitFacts
<1>4. /\ d \in Docs /\ p \in Principals /\ q.arg \in Granted /\ db[d] # Absent
      /\ c.write[<<p, d>>] \in {q.arg, AsGuest[q.arg]} /\ c.write[d] = Same
  <2> HIDE DEF c
  <2> QED
    BY <1>1, CommitGrant DEF c
<1>5. /\ <<p, d>> \in Rows /\ d \in Rows
      /\ c.write[<<p, d>>] # Same /\ LevelOf[c.write[<<p, d>>]] = q.arg
  <2>1. <<p, d>> \in Rows /\ d \in Rows
    BY <1>4, PairRow, RowFacts
  <2> HIDE DEF c, q, p, d
  <2> QED
    BY <1>4, <2>1, GuestLevels
<1>6. /\ h.route \notin {"PutPermissionGuest", "DeletePermission", "GetPermission", "PutDocumentDocumentId"}
      /\ h.route \in {"PostPermission", "PutPermissionUser"} =>
            Subject(h) = d /\ h.who = p /\ h.level = q.arg
  BY <1>2, <1>3, RouteFacts
<1>7. reply'[r] = "ok"
  BY <1>1, AnswerFacts
<1> DEFINE x == <<p, d>>
           w == c.write
<1> HIDE DEF h, q, c, d, p, x, w
<1>8. Publish(r, w) /\ w[x] # Same /\ LevelOf[w[x]] = q.arg /\ w[d] = Same /\ x \in Rows
  BY <1>1, <1>4, <1>5 DEF w, x
<1>9. LevelOf[db'[x]] = q.arg /\ db'[d] = db[d]
  BY <1>5, <1>8 DEF Publish
<1>10. Success(h, reply'[r])
  BY <1>4, <1>6, <1>9 DEF Success, x
<1> QED
  BY <1>7, <1>10 DEF Truthful, Levels, h

\* Nothing is said of errors.
LEMMA ErrorTrue ==
    ASSUME NEW h, NEW a \in {"internal", "unavailable"}
    PROVE  Truthful(h, a)
BY DEF Truthful, Levels

LEMMA EndTrue ==
    ASSUME GInv, [GatewayNext]_vars, NEW r \in Requests, pc[r] # "idle", pc'[r] = "idle"
    PROVE  Truthful(asked(r), reply'[r])
<1>1. \/ reply'[r] = "unavailable"
      \/ Statement(r) \/ DeadlockDetected(r) \/ QueryFails(r) \/ CommitUnacknowledged(r)
  BY GatewayEnds
<1>2. CASE reply'[r] \in {"unavailable", "internal"}
  BY <1>2, ErrorTrue
<1>3. CASE req[r].op \in {"delete", "get"}
  BY <1>3, CallFacts DEF Truthful
<1>4. CASE DeadlockDetected(r) \/ QueryFails(r) \/ CommitUnacknowledged(r)
  BY <1>2, <1>4, AnswerFacts DEF DeadlockDetected, QueryFails, CommitUnacknowledged, Commit
<1>5. CASE Statement(r) /\ req[r].op \notin {"delete", "get"}
  <2>1. OwnInv(pc[r], req[r], tx[r])
    BY DEF GInv, DInv
  <2>2. ~(\/ DeletePermissionByDocument(r) \/ DeleteGuestsByDocument(r)
          \/ DeleteRow(r) \/ ForeignKeys(r) \/ ReadDocument(r))
    BY <1>5, <2>1
    DEF OwnInv, Control, DeletePermissionByDocument, DeleteGuestsByDocument, DeleteRow, ForeignKeys,
        ReadDocument
  <2>3. CASE InsertGuest(r) \/ InsertPermissionGuest(r)
    BY <1>2, <2>3, AnswerFacts DEF InsertGuest, InsertPermissionGuest, Insert
  <2>4. CASE UpsertPermissionUser(r)
    BY <1>2, <2>4, AnswerFacts DEF UpsertPermissionUser, Insert
  <2> QED
    BY <1>5, <2>2, <2>3, <2>4, GetDocumentTrue, SelectGuestTrue, RegradeTrue, RemoveTrue,
       RenameTrue, ReadTrue, GrantTrue
    DEF Statement
<1> QED
  BY <1>1, <1>2, <1>3, <1>4, <1>5

\* A response is true of the tables at the moment it is decided, whichever
\* kind of principal the client says it means.
THEOREM TruthfulResponses == GatewaySpec => ResponsesAreTrue
<1> DEFINE True(r) ==
        LET h      == asked(r)
            d      == Subject(h)
            status == GrpcToHttpStatus(reply'[r])
        IN  Open(r) /\ ~Open(r)' =>
            /\ status = "success" =>
                /\ h.route \in {"PostPermission", "PutPermissionUser", "PutPermissionGuest"} =>
                        LevelOf[db'[<<h.who, d>>]] = h.level /\ db'[d] # Absent
                /\ h.route = "DeletePermission" => db'[<<h.who, d>>] = Absent
                /\ h.route = "GetPermission" => LevelOf[db[<<h.who, d>>]] = Shown(reply'[r])
            /\ status = "404" =>
                /\ h.route \in {"PostPermission", "PutPermissionUser", "PutDocumentDocumentId"} =>
                        db[d] = Absent
                /\ h.route \in {"GetPermission", "DeletePermission"} => db[<<h.who, d>>] = Absent
                /\ h.route = "PutPermissionGuest" =>
                        d = Absent \/ db[<<h.who, d>>] \notin GuestRows
<1>1. ASSUME GInv, [GatewayNext]_vars, NEW r \in Requests, Open(r), ~Open(r)'
      PROVE  True(r)
  <2>1. Truthful(asked(r), reply'[r])
    BY <1>1, EndTrue DEF Open
  <2>2. reply'[r] \in Answers
    BY <1>1, GatewayNextGInv DEF GInv, DInv, Types
  <2>3. /\ GrpcToHttpStatus(reply'[r]) = "success" => Success(asked(r), reply'[r])
        /\ GrpcToHttpStatus(reply'[r]) = "404" => NotFound(asked(r))
    BY <2>1, <2>2, StatusFacts DEF Truthful
  <2> QED
    BY <2>3 DEF Success, NotFound
<1>2. GInv /\ [GatewayNext]_vars => [\A r \in Requests : True(r)]_vars
  BY <1>1
<1> QED
  BY <1>2, GatewayInvariance, PTL DEF GatewaySpec, ResponsesAreTrue
=============================================================================
