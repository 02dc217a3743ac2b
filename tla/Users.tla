------------------------------- MODULE Users -------------------------------
(***************************************************************************)
(* The user service: accounts in Postgres and the calls that read and      *)
(* change them (user_server.go, user_service.go, user_repository.go).  A   *)
(* step is one SQL statement or one bcrypt comparison, which takes long    *)
(* enough for other calls to run in between.  Only ModifyPassword opens a  *)
(* transaction, and locks the row it reads.                                *)
(*                                                                         *)
(* A hash is stored as the password it is of: bcrypt compares equal just   *)
(* for that one.  None is no row, no lock, and the empty string.           *)
(***************************************************************************)
CONSTANTS
    Ids,                        \* UUIDs
    Names, Emails, Passwords,
    Short,                      \* names and passwords below the minimum length
    Requests,                   \* calls the service works on at a time
    Faults,                     \* TRUE if the connection to Postgres may fail
    None

ASSUME UsersAssumption ==
    /\ Short \subseteq Names \cup Passwords
    /\ Faults \in BOOLEAN
    /\ None \notin Ids \cup Names \cup Emails \cup Passwords \cup Requests

Rows == [name : Names, email : Emails, password : Passwords, active : BOOLEAN]

VARIABLES
    users,      \* users[i]: the committed row, or None
    lock,       \* lock[i]: the call that has locked row i
    pc,         \* pc[r]: the statement call r executes next
    req,        \* req[r]: the call
    got,        \* got[r]: the hash r has read
    reply,      \* reply[r]: the service's answer, None before
    effect      \* effect[r]: r has changed the table (history)

userVars == <<users, lock, pc, req, got, reply, effect>>

NoCall == [op |-> "none", id |-> None, name |-> None, email |-> None,
           old |-> None, new |-> None]

\* Passwords a call compares (old) and stores (new); calls with every field
\* empty stand for those that lack one.
Calls ==
    LET No == {None}
    IN  [op : {"create", "change", "validate"},
         id : No, name : No, email : No, old : No, new : No]
        \cup [op : {"create"}, id : No, name : Names, email : Emails, old : No, new : Passwords]
        \cup [op : {"get", "deactivate"},
              id : Ids, name : No, email : No, old : No, new : No]
        \cup [op : {"change"}, id : Ids, name : No, email : No, old : Passwords, new : Passwords]
        \cup [op : {"validate"}, id : No, name : Names, email : No, old : Passwords, new : No]

PC == {"idle", "insert", "get", "deactivate", "select", "compare", "update",
       "commit", "read", "check"}

\* gRPC codes; Mismatch is OK with IsValid false.
Codes == {"OK", "Mismatch", "NotFound", "AlreadyExists", "InvalidArgument",
          "PermissionDenied", "Internal", "Unimplemented"}

ASSUME CodesAssumption == None \notin Codes

UsersTypeOK ==
    /\ users \in [Ids -> Rows \cup {None}]
    /\ lock \in [Ids -> Requests \cup {None}]
    /\ pc \in [Requests -> PC]
    /\ req \in [Requests -> Calls \cup {NoCall}]
    /\ got \in [Requests -> Passwords \cup {None}]
    /\ reply \in [Requests -> Codes \cup {None}]
    /\ effect \in [Requests -> BOOLEAN]

UsersInit ==
    /\ users = [i \in Ids |-> None]
    /\ lock = [i \in Ids |-> None]
    /\ pc = [r \in Requests |-> "idle"]
    /\ req = [r \in Requests |-> NoCall]
    /\ got = [r \in Requests |-> None]
    /\ reply = [r \in Requests |-> None]
    /\ effect = [r \in Requests |-> FALSE]

Named(n) == {i \in Ids : users[i] # None /\ users[i].name = n}

-----------------------------------------------------------------------------
(* The ends of a call.                                                     *)

\* r is answered; what it has locked is released by the commit or by the
\* deferred Rollback.
Finish(r, code) ==
    /\ pc' = [pc EXCEPT ![r] = "idle"]
    /\ reply' = [reply EXCEPT ![r] = code]
    /\ got' = [got EXCEPT ![r] = None]
    /\ lock' = [i \in Ids |-> IF lock[i] = r THEN None ELSE lock[i]]
    /\ UNCHANGED req

Fail(r, code) == Finish(r, code) /\ UNCHANGED <<users, effect>>

Write(r, i, row, code) ==
    /\ Finish(r, code)
    /\ users' = [users EXCEPT ![i] = row]
    /\ effect' = [effect EXCEPT ![r] = TRUE]

Goto(r, l) ==
    /\ pc' = [pc EXCEPT ![r] = l]
    /\ UNCHANGED <<users, req, reply, effect>>

-----------------------------------------------------------------------------
(* The beginning of a call.                                                *)

\* The checks of the server and of the service.  A new password is checked
\* against the minimum length only by CreateUser.
Invalid(q) ==
    \/ q.op = "create" /\ (None \in {q.name, q.email, q.new} \/ {q.name, q.new} \cap Short # {})
    \/ q.op = "change" /\ None \in {q.old, q.new}
    \/ q.op = "validate" /\ None \in {q.name, q.old}

First(op) == CASE op = "create" -> "insert" [] op = "change" -> "select"
               [] op = "validate" -> "read" [] OTHER -> op

Call(r, q) ==
    /\ req' = [req EXCEPT ![r] = q]
    /\ IF Invalid(q)
       THEN reply' = [reply EXCEPT ![r] = "InvalidArgument"] /\ UNCHANGED pc
       ELSE pc' = [pc EXCEPT ![r] = First(q.op)] /\ UNCHANGED reply
    /\ UNCHANGED <<users, lock, got, effect>>

-----------------------------------------------------------------------------
(* CreateUser, GetUser, DeactivateUser, ValidatePassword.                  *)

\* uuid.New gives an identifier nobody has named.  23505 is a conflict on
\* one of the two unique columns.
CreateUser(r, code) ==
    /\ pc[r] = "insert"
    /\ IF \E i \in Ids : users[i] # None /\ (\/ users[i].name = req[r].name
                                             \/ users[i].email = req[r].email)
       THEN Fail(r, "AlreadyExists")
       ELSE \E i \in Ids :
                /\ users[i] = None
                /\ \A o \in Requests : req[o].id # i
                /\ Write(r, i, [name |-> req[r].name, email |-> req[r].email,
                                password |-> req[r].new, active |-> TRUE], code)

GetUserById(r) ==
    /\ pc[r] = "get"
    /\ Fail(r, IF users[req[r].id] = None THEN "NotFound" ELSE "OK")

DeactivateUser(r, code) ==
    LET i == req[r].id
    IN  /\ pc[r] = "deactivate"
        /\ lock[i] = None
        /\ IF users[i] = None THEN Fail(r, "NotFound")
           ELSE Write(r, i, [users[i] EXCEPT !.active = FALSE], code)

GetHashedPassword(r) ==
    /\ pc[r] = "read"
    /\ IF Named(req[r].name) = {} THEN Fail(r, "NotFound")
       ELSE /\ Goto(r, "check")
            /\ \E i \in Named(req[r].name) : got' = [got EXCEPT ![r] = users[i].password]
            /\ UNCHANGED lock

AcceptsAnyPassword(r) ==
    /\ pc[r] = "check"
    /\ Fail(r, "OK")

ValidatePassword(r) ==
    /\ pc[r] = "check"
    /\ Fail(r, IF got[r] = req[r].old THEN "OK" ELSE "Mismatch")

-----------------------------------------------------------------------------
(* ModifyPassword.                                                         *)

PlainSelect(r) ==
    LET i == req[r].id
    IN  /\ pc[r] = "select"
        /\ IF users[i] = None THEN Fail(r, "NotFound")
           ELSE /\ Goto(r, "compare")
                /\ got' = [got EXCEPT ![r] = users[i].password]
                /\ UNCHANGED lock

\* SELECT ... FOR UPDATE waits for whoever has the row.
GetUserForUpdate(r) ==
    LET i == req[r].id
    IN  /\ pc[r] = "select"
        /\ lock[i] = None
        /\ IF users[i] = None THEN Fail(r, "NotFound")
           ELSE /\ Goto(r, "compare")
                /\ got' = [got EXCEPT ![r] = users[i].password]
                /\ lock' = [lock EXCEPT ![i] = r]

ForgetsRollback(r) ==
    /\ pc[r] = "compare"
    /\ IF got[r] = req[r].old THEN Goto(r, "update") /\ UNCHANGED <<lock, got>>
       ELSE /\ pc' = [pc EXCEPT ![r] = "idle"]
            /\ reply' = [reply EXCEPT ![r] = "PermissionDenied"]
            /\ UNCHANGED <<users, lock, req, got, effect>>

CompareOldPassword(r) ==
    /\ pc[r] = "compare"
    /\ IF got[r] = req[r].old THEN Goto(r, "update") /\ UNCHANGED <<lock, got>>
       ELSE Fail(r, "PermissionDenied")

ChangeUserPassword(r) ==
    LET i == req[r].id
    IN  /\ pc[r] = "update"
        /\ lock[i] \in {None, r}
        /\ lock' = [lock EXCEPT ![i] = r]
        /\ Goto(r, "commit")
        /\ UNCHANGED got

Commit(r, code) ==
    /\ pc[r] = "commit"
    /\ Write(r, req[r].id, [users[req[r].id] EXCEPT !.password = req[r].new], code)

-----------------------------------------------------------------------------
(* What may go wrong: a statement fails, or the acknowledgement of one     *)
(* that is done is lost.                                                   *)

IgnoresCommitError(r) ==
    /\ Faults
    /\ pc[r] # "idle"
    /\ Fail(r, IF pc[r] = "commit" THEN "OK" ELSE "Internal")

QueryFails(r) ==
    /\ Faults
    /\ pc[r] # "idle"
    /\ Fail(r, "Internal")

Unacknowledged(r) ==
    /\ Faults
    /\ \/ CreateUser(r, "Internal")
       \/ DeactivateUser(r, "Internal")
       \/ Commit(r, "Internal")

Statement(r) ==
    \/ CreateUser(r, "OK")
    \/ GetUserById(r)
    \/ DeactivateUser(r, "OK")
    \/ GetHashedPassword(r)
    \/ ValidatePassword(r)
    \/ GetUserForUpdate(r)
    \/ CompareOldPassword(r)
    \/ ChangeUserPassword(r)
    \/ Commit(r, "OK")
=============================================================================
