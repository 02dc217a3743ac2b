------------------------------ MODULE Accounts ------------------------------
(***************************************************************************)
(* The api gateway in front of the user service: the routes of user.go and *)
(* the login of auth.go, each one call of the user service with an answer  *)
(* the gateway turns into an HTTP status.  Routes on /user give up after   *)
(* TIMEOUT_MILLISECONDS, and any client may hang up: the service's context *)
(* is then cancelled, and the service stops, or is done before it notices. *)
(* Requests start at the handlers.  What no RPC serves is called inside    *)
(* the service's process, as its tests do.                                 *)
(***************************************************************************)
EXTENDS Users

CONSTANTS
    Unfit       \* names and passwords that Validate of PostUser rejects

ASSUME AccountsAssumption == Unfit \subseteq Names \cup Passwords

VARIABLES
    via,        \* via[r]: how r was called; "gone" when its caller has given
                \* up, "none" if the slot is free
    held        \* held[r]: passwords the account that r names has had since
                \* r began (history)

vars == <<userVars, via, held>>

TypeOK ==
    /\ UsersTypeOK
    /\ via \in [Requests -> {"none", "http", "direct", "gone"}]
    /\ held \in [Requests -> SUBSET Passwords]
    /\ \A r \in Requests :
        /\ via[r] = "none" <=> req[r] = NoCall
        /\ via[r] = "none" => reply[r] = None /\ ~effect[r]
        /\ reply[r] # None => pc[r] = "idle" /\ \A i \in Ids : lock[i] # r

Init ==
    /\ UsersInit
    /\ via = [r \in Requests |-> "none"]
    /\ held = [r \in Requests |-> {}]

-----------------------------------------------------------------------------

GrpcToHttpStatus(code) ==
    CASE code = "InvalidArgument"  -> "400"
      [] code = "PermissionDenied" -> "403"
      [] code = "NotFound"         -> "404"
      [] code = "AlreadyExists"    -> "409"
      [] code = "Unimplemented"    -> "501"
      [] OTHER                     -> "500"

\* What the handler of op sends for the service's answer.
Response(op, code) ==
    CASE op = "validate" /\ code = "Mismatch" -> "401"
      [] code = "OK" -> CASE op = "create" -> "201"
                          [] op \in {"get", "validate"} -> "200"
                          [] OTHER -> "204"
      [] OTHER -> GrpcToHttpStatus(code)

\* What a caller that waits for it is told once the service has answered.
Told(r) == IF via[r] = "http" THEN Response(req[r].op, reply[r]) ELSE reply[r]

\* Every step brings the history up to date.
Observe ==
    held' = [r \in Requests |->
        IF req'[r].op # "validate" THEN {}
        ELSE IF reply[r] # None THEN held[r]
        ELSE held[r] \cup {users'[i].password :
                 i \in {j \in Ids : users'[j] # None /\ users'[j].name = req'[r].name}}]

\* A request that ends before the service executes a statement.
Reject(r, q, code) ==
    /\ req' = [req EXCEPT ![r] = q]
    /\ reply' = [reply EXCEPT ![r] = code]
    /\ UNCHANGED <<users, lock, pc, got, effect>>

-----------------------------------------------------------------------------
(* The handlers: user.go, the login of auth.go.                            *)

PostUser(r) ==
    \E q \in Calls :
        /\ q.op = "create"
        /\ IF {q.name, q.new} \cap Unfit # {} THEN Reject(r, q, "InvalidArgument") ELSE Call(r, q)

GetUserUserId(r) == \E q \in Calls : q.op = "get" /\ Call(r, q)

DeleteUserUserId(r) == \E q \in Calls : q.op = "deactivate" /\ Call(r, q)

\* The RPC is ChangeUserPassword, the method of the implementation is called
\* ChangePassword: the generated base class answers.
PutUserUserId(r) == \E q \in Calls : q.op = "change" /\ Reject(r, q, "Unimplemented")

PostAuthLogin(r) == \E q \in Calls : q.op = "validate" /\ Call(r, q)

Receive(r) ==
    /\ via[r] = "none"
    /\ via' = [via EXCEPT ![r] = "http"]
    /\ \/ PostUser(r)
       \/ GetUserUserId(r)
       \/ DeleteUserUserId(r)
       \/ PutUserUserId(r)
       \/ PostAuthLogin(r)
    /\ Observe

\* ChangePassword, called without the RPC.
ChangePassword(r) ==
    /\ via[r] = "none"
    /\ via' = [via EXCEPT ![r] = "direct"]
    /\ \E q \in Calls : q.op = "change" /\ Call(r, q)
    /\ Observe

-----------------------------------------------------------------------------

\* The deadline passes, on every route but the login, or the client hangs up.
GivesUp(r) ==
    /\ via[r] = "http"
    /\ via' = [via EXCEPT ![r] = "gone"]
    /\ UNCHANGED userVars
    /\ Observe

\* The service notices that its context is cancelled.
Cancelled(r) ==
    /\ via[r] = "gone" /\ pc[r] # "idle"
    /\ Fail(r, "Internal")
    /\ UNCHANGED via
    /\ Observe

\* The handler sends the answer, if anybody waits for it, and returns.
Respond(r) ==
    /\ reply[r] # None
    /\ via' = [via EXCEPT ![r] = "none"]
    /\ req' = [req EXCEPT ![r] = NoCall]
    /\ reply' = [reply EXCEPT ![r] = None]
    /\ effect' = [effect EXCEPT ![r] = FALSE]
    /\ UNCHANGED <<users, lock, pc, got>>
    /\ Observe

Work(r) == Statement(r) /\ UNCHANGED via /\ Observe

Next ==
    \E r \in Requests :
        \/ Receive(r)
        \/ ChangePassword(r)
        \/ Work(r)
        \/ (QueryFails(r) \/ Unacknowledged(r)) /\ UNCHANGED via /\ Observe
        \/ GivesUp(r)
        \/ Cancelled(r)
        \/ Respond(r)

Spec == Init /\ [][Next]_vars

\* The service goes on with what it has begun, Postgres hands a row to those
\* who wait for it in turn, and an answer is sent.  Nobody has to give up.
FairSpec ==
    /\ Spec
    /\ \A r \in Requests : SF_vars(Work(r)) /\ WF_vars(Respond(r))

-----------------------------------------------------------------------------
(* Properties.                                                             *)

\* A password is replaced only by a call that named the password it replaces:
\* ModifyPassword compares with what it read, and another change may have
\* come between the comparison and the commit.
ChangeFromOld ==
    [][\A i \in Ids :
        users[i] # None /\ users'[i].password # users[i].password =>
            \E r \in Requests : /\ pc[r] = "commit" /\ req[r].id = i
                                /\ req[r].old = users[i].password
                                /\ req[r].new = users'[i].password]_vars

\* A caller that is told of success has had its change made, and one that is
\* refused has changed nothing and never will, however its call raced with
\* deadlines, cancellations and lost acknowledgements.
DefiniteAnswers ==
    \A r \in Requests :
        via[r] \in {"http", "direct"} /\ reply[r] # None =>
            /\ Told(r) \in {"201", "204", "OK"} => effect[r]
            /\ Told(r) \in {"400", "401", "403", "404", "409", "501", "InvalidArgument",
                            "PermissionDenied", "NotFound", "AlreadyExists"} => ~effect[r]

\* A login is decided by a password the account had at some moment of the
\* call, although it is compared after the row was read and without a lock.
LoginIsCurrent ==
    \A r \in Requests :
        req[r].op = "validate" =>
            /\ reply[r] = "OK" => req[r].old \in held[r]
            /\ reply[r] = "Mismatch" => held[r] \ {req[r].old} # {}

\* Every call comes to its end, also when others hold the row it needs.
CallsEnd == \A r \in Requests : via[r] # "none" ~> via[r] = "none"
=============================================================================
