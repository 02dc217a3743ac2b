------------------------------ MODULE Gateway ------------------------------
(***************************************************************************)
(* The api gateway in front of the document service: the routes of         *)
(* document.go and permission.go.  A handler checks what the token alone   *)
(* decides, turns the request into one call of the document service, and   *)
(* the service's answer into an HTTP response.  Levels change their        *)
(* representation three times on the way to the table and three times on   *)
(* the way back.  Requests start at the handlers, with the caller of a     *)
(* valid token.                                                            *)
(***************************************************************************)
EXTENDS Documents

Routes == {"DeleteDocument", "DeleteDocumentDocumentId", "GetDocumentDocumentId",
           "PutDocumentDocumentId", "PostPermission", "DeletePermission",
           "GetPermission", "PutPermissionUser", "PutPermissionGuest"}

\* The HTTP request the service works on for r; see Forward.
asked(r) == req[r].http

GatewayTypeOK ==
    /\ TypeOK
    /\ \A r \in Requests : Open(r) => asked(r).route \in Routes

-----------------------------------------------------------------------------
(* Permission levels, from the body of a request to the table and back.    *)

SwapsLevels ==
    [viewer |-> "PERMISSION_EDITOR", editor |-> "PERMISSION_VIEWER", owner |-> "PERMISSION_OWNER"]

netToProtoPermissionLevel ==
    [viewer |-> "PERMISSION_VIEWER", editor |-> "PERMISSION_EDITOR", owner |-> "PERMISSION_OWNER"]

pbToServicePermissionLevel ==
    [PERMISSION_VIEWER |-> "Viewer", PERMISSION_EDITOR |-> "Editor", PERMISSION_OWNER |-> "Owner"]

serviceToRepoPermissionLevel == [Viewer |-> "viewer", Editor |-> "editor", Owner |-> "owner"]

repoToServicePermissionLevel == [viewer |-> "Viewer", editor |-> "Editor", owner |-> "Owner"]

serviceToPbPermissionLevel ==
    [Viewer |-> "PERMISSION_VIEWER", Editor |-> "PERMISSION_EDITOR", Owner |-> "PERMISSION_OWNER"]

protoToNetPermissionLevel ==
    [PERMISSION_VIEWER |-> "viewer", PERMISSION_EDITOR |-> "editor", PERMISSION_OWNER |-> "owner"]

Stored(level) ==
    serviceToRepoPermissionLevel[pbToServicePermissionLevel[netToProtoPermissionLevel[level]]]

Shown(level) ==
    protoToNetPermissionLevel[serviceToPbPermissionLevel[repoToServicePermissionLevel[level]]]

-----------------------------------------------------------------------------
(* What a handler does with a request.                                     *)

\* The handler answers itself, or finds that nobody serves its call.
Refuse(r, answer) ==
    /\ ~Open(r)
    /\ reply' = [reply EXCEPT ![r] = answer]
    /\ UNCHANGED <<db, creator, issued, pc, req, tx, up, overlapped>>

\* The handler of request h makes call q, which is kept together with h.
Forward(r, h, q) ==
    IF ~up THEN Refuse(r, "unavailable")
    ELSE Accept(r, [op |-> q.op, docs |-> q.docs, who |-> q.who, arg |-> q.arg, http |-> h])

Call(op, docs, who, arg) == [op |-> op, docs |-> docs, who |-> who, arg |-> arg]

Request(route, docs, who, level) ==
    [route |-> route, docs |-> docs, who |-> who, level |-> level]

\* What clients know: documents and guests they have been told of.
KnownDocs       == {d \in Docs : creator[d] # Absent}
KnownPrincipals == Users \cup issued

-----------------------------------------------------------------------------
(* The routes of document.go, for caller p.                                *)

PostDocument(r, p) ==
    IF p \in Guests THEN Refuse(r, "forbidden")
    ELSE IF ~up THEN Refuse(r, "unavailable")
    ELSE \E d \in Docs : CreateDocument(p, d)

DeleteDocument(r, p, docs) ==
    IF p \in Guests THEN Refuse(r, "forbidden")
    ELSE Forward(r, Request("DeleteDocument", docs, Absent, Absent),
                 Call("delete", docs, Absent, Absent))

DeleteDocumentDocumentId(r, p, d) ==
    IF p \in Guests THEN Refuse(r, "forbidden")
    ELSE Forward(r, Request("DeleteDocumentDocumentId", <<d>>, Absent, Absent),
                 Call("delete", <<d>>, Absent, Absent))

\* The client's parameters are the document and then the principal.
GetDocumentDocumentId(r, p, d) ==
    Forward(r, Request("GetDocumentDocumentId", <<d>>, Absent, Absent),
            Call("get", <<p>>, Absent, Absent))

PutDocumentDocumentId(r, d, field) ==
    Forward(r, Request("PutDocumentDocumentId", <<d>>, Absent, Absent),
            Call("rename", <<d>>, Absent, field))

\* The list of a principal's documents.  Without a cursor in the request
\* there is none in the call, and parseServiceCursor dereferences it; a
\* cursor only ever comes from an earlier page.
ListDocuments(r) == IF up THEN Panic ELSE Refuse(r, "unavailable")

-----------------------------------------------------------------------------
(* The routes of permission.go.                                            *)

ListPermissions(r, p) == IF p \in Guests THEN Refuse(r, "forbidden") ELSE ListDocuments(r)

\* Without a user to share with, a guest is created.  The user's id may be a
\* guest's: nobody looks.
PostDocumentDocumentIdPermission(r, p, d, u, level) ==
    IF p \in Guests THEN Refuse(r, "forbidden")
    ELSE IF level = "owner" THEN Refuse(r, "invalid")
    ELSE IF u # Absent
    THEN Forward(r, Request("PostPermission", <<d>>, u, level),
                 Call("upsert", <<d>>, u, Stored(level)))
    ELSE \E g \in Guests :
            LET q == Call("guest", <<d>>, g, Stored(level))
            IN  Known(q) /\ Forward(r, Request("PostPermission", <<d>>, g, level), q)

DeletePermissionPrincipalId(r, p, d, who) ==
    IF p \in Guests THEN Refuse(r, "forbidden")
    ELSE Forward(r, Request("DeletePermission", <<d>>, who, Absent),
                 Call("remove", <<d>>, who, Absent))

GetPermissionPrincipalId(r, p, d, who) ==
    IF p \in Guests /\ p # who THEN Refuse(r, "forbidden")
    ELSE Forward(r, Request("GetPermission", <<d>>, who, Absent),
                 Call("read", <<d>>, who, Absent))

\* The body says what kind of principal it means, which is not compared with
\* the id.  A guest has one document, and the path's is not looked at.
PutPermissionPrincipalId(r, p, d, who, type, level) ==
    IF p \in Guests THEN Refuse(r, "forbidden")
    ELSE IF type = "user"
    THEN Forward(r, Request("PutPermissionUser", <<d>>, who, level),
                 Call("upsert", <<d>>, who, Stored(level)))
    ELSE Forward(r, Request("PutPermissionGuest", <<d>>, who, level),
                 Call("regrade", <<>>, who, Stored(level)))

-----------------------------------------------------------------------------

Handle(r, p) ==
    \/ PostDocument(r, p)
    \/ \E docs \in UNION {[1..n -> KnownDocs] : n \in 0..MaxBatch} : DeleteDocument(r, p, docs)
    \/ ListDocuments(r)
    \/ ListPermissions(r, p)
    \/ \E d \in KnownDocs :
        \/ DeleteDocumentDocumentId(r, p, d)
        \/ GetDocumentDocumentId(r, p, d)
        \/ \E field \in {Absent, "name"} : PutDocumentDocumentId(r, d, field)
        \/ \E u \in KnownPrincipals \cup {Absent}, level \in Levels :
            PostDocumentDocumentIdPermission(r, p, d, u, level)
        \/ \E who \in KnownPrincipals :
            \/ DeletePermissionPrincipalId(r, p, d, who)
            \/ GetPermissionPrincipalId(r, p, d, who)
            \/ \E type \in {"user", "guest"}, level \in Levels :
                PutPermissionPrincipalId(r, p, d, who, type, level)

GatewayNext ==
    \/ \E r \in {o \in Requests : ~Open(o)}, p \in KnownPrincipals : Handle(r, p)
    \/ \E r \in Requests :
        \/ Statement(r)
        \/ DeadlockDetected(r)
        \/ QueryFails(r)
        \/ CommitUnacknowledged(r)
    \/ Restart

GatewaySpec == Init /\ [][GatewayNext]_vars

-----------------------------------------------------------------------------
(* Properties.                                                             *)

\* The status of the response to r; levels stand for a body with them.
GrpcToHttpStatus(answer) ==
    CASE answer \in {"ok"} \cup Levels -> "success"
      [] answer = "invalid"     -> "400"
      [] answer = "forbidden"   -> "403"
      [] answer = "notfound"    -> "404"
      [] answer = "unavailable" -> "503"
      [] OTHER                  -> "500"

\* The document whose permissions a request is about: a guest's own.
Subject(h) ==
    IF h.route = "PutPermissionGuest" THEN IF h.who \in Guests THEN db[h.who] ELSE Absent
    ELSE h.docs[1]

\* A response is true of the tables at the moment it is decided, whatever
\* other requests, failures and panics do to the call behind it, and whatever
\* kind of principal the client says it means: after a success of POST or PUT
\* the principal has the level the client named, on a document that exists,
\* after one of DELETE it has none, a level that is shown is the one that is
\* stored, and what is not found is not there: for a PUT that says guest, a
\* permission given to a guest as such, on the guest's own document.
ResponsesAreTrue ==
    [][\A r \in Requests :
        LET h      == asked(r)
            d      == Subject(h)
            status == GrpcToHttpStatus(reply'[r])
        IN  Open(r) /\ ~Open(r)' =>
            /\ status = "success" =>
                /\ h.route \in {"PostPermission", "PutPermissionUser", "PutPermissionGuest"} =>
                        LevelOf[db'[<<h.who, d>>]] = h.level /\ db'[d] # Absent
                /\ h.route = "DeletePermission" => db'[<<h.who, d>>] = Absent
                /\ h.route = "GetPermission" => LevelOf[db[<<h.who, d>>]] = Shown(reply'[r])
            /\ status = "404" =>
                /\ h.route \in {"PostPermission", "PutPermissionUser", "PutDocumentDocumentId"} =>
                        db[d] = Absent
                /\ h.route \in {"GetPermission", "DeletePermission"} => db[<<h.who, d>>] = Absent
                /\ h.route = "PutPermissionGuest" =>
                        d = Absent \/ db[<<h.who, d>>] \notin GuestRows]_vars

\* GET of a document that is there when it is answered finds it.
GetFindsDocument ==
    [][\A r \in Requests :
        Open(r) /\ ~Open(r)' /\ asked(r).route = "GetDocumentDocumentId" =>
            (db[asked(r).docs[1]] # Absent => reply'[r] # "notfound")]_vars
=============================================================================
