--------------------------- MODULE AccountsProofs ---------------------------
(***************************************************************************)
(* Proofs about Accounts for every set of accounts, names, passwords and   *)
(* calls: types, what a password is replaced by, what an answer says of    *)
(* the table, and which password decides a login.                          *)
(*                                                                         *)
(* None of these is inductive.  A change is right because the row lock     *)
(* keeps what was read true until the commit; an answer because a call     *)
(* that still works has changed nothing; a login because what was read is  *)
(* among what the account has had since the call began.                    *)
(***************************************************************************)
EXTENDS Accounts, TLAPS

Holding == {"compare", "update", "commit"}

\* The call a statement belongs to has the fields the statement needs.
Fits(q, l) ==
    /\ l = "insert" =>
        q.op = "create" /\ q.name \in Names /\ q.email \in Emails /\ q.new \in Passwords
    /\ l \in {"get", "deactivate"} => q.op = l /\ q.id \in Ids
    /\ l \in {"select"} \cup Holding =>
        q.op = "change" /\ q.id \in Ids /\ q.old \in Passwords /\ q.new \in Passwords
    /\ l \in {"read", "check"} => q.op = "validate"

\* A call that is not answered has changed nothing yet.
WorkInv ==
    \A r \in Requests :
        pc[r] # "idle" => reply[r] = None /\ ~effect[r] /\ Fits(req[r], pc[r])

\* A row is locked by a change of that account, past its SELECT ... FOR UPDATE.
LockInv ==
    \A i \in Ids : lock[i] # None => pc[lock[i]] \in Holding /\ req[lock[i]].id = i

\* What a change has read stays true while it holds the row.
HoldInv ==
    \A r \in Requests :
        /\ pc[r] \in Holding =>
            /\ lock[req[r].id] = r
            /\ users[req[r].id] # None
            /\ got[r] = users[req[r].id].password
        /\ pc[r] \in {"update", "commit"} => got[r] = req[r].old

\* What the service has answered says what it has done.
AnswerInv ==
    \A r \in Requests :
        /\ via[r] = "direct" => req[r].op = "change"
        /\ effect[r] => reply[r] \in {"OK", "Internal"}
        /\ reply[r] = "OK" => effect[r] \/ req[r].op \in {"get", "validate"}

\* A login has read a password the account has had since the login began.
LoginInv ==
    \A r \in Requests :
        pc[r] = "check" => got[r] \in held[r]

IInv ==
    /\ TypeOK
    /\ WorkInv
    /\ LockInv
    /\ HoldInv
    /\ AnswerInv
    /\ LoginInv
    /\ LoginIsCurrent
-----------------------------------------------------------------------------
(* Operators.                                                              *)

\* What a call that passes the checks carries.
LEMMA CallFields ==
    ASSUME NEW q \in Calls
    PROVE  /\ q.op \in {"create", "change", "validate", "get", "deactivate"}
           /\ q # NoCall
           /\ ~Invalid(q) => First(q.op) \in PC \ ({"idle", "check"} \cup Holding)
           /\ ~Invalid(q) => Fits(q, First(q.op))
<1>1. NoCall.op = "none"
  BY DEF NoCall
<1> QED
  BY <1>1 DEF Calls, Invalid, First, Fits, PC, Holding
\* Brings the history up to date: what a login has to be decided by only grows
\* until it is answered.
LEMMA ObserveHeld ==
    ASSUME Observe, users' \in [Ids -> Rows \cup {None}], held \in [Requests -> SUBSET Passwords]
    PROVE  /\ held' \in [Requests -> SUBSET Passwords]
           /\ \A r \in Requests : req'[r].op = "validate" => held[r] \subseteq held'[r]
           /\ \A r \in Requests : req'[r].op = "validate" /\ reply[r] = None =>
                \A i \in Ids : users'[i] # None /\ users'[i].name = req'[r].name =>
                    users'[i].password \in held'[r]
BY DEF Observe, Rows

-----------------------------------------------------------------------------
(* Steps that several actions share.                                       *)

LEMMA InitIInv == Init => IInv
<1> SUFFICES ASSUME Init PROVE IInv
  OBVIOUS
<1>1. TypeOK
  BY UsersAssumption DEF Init, UsersInit, TypeOK, UsersTypeOK, PC
<1>2. NoCall.op = "none"
  BY DEF NoCall
<1> QED
  BY <1>1, <1>2, CodesAssumption
  DEF IInv, Init, UsersInit, WorkInv, LockInv, HoldInv, AnswerInv, LoginInv, LoginIsCurrent,
      Holding, Codes

\* A call that works has been received.
LEMMA WorkingIsReceived ==
    ASSUME TypeOK, WorkInv, NEW r \in Requests, pc[r] # "idle"
    PROVE  via[r] # "none" /\ req[r] # NoCall
<1>1. NoCall.op = "none"
  BY DEF NoCall
<1> QED
  BY <1>1 DEF TypeOK, UsersTypeOK, WorkInv, Fits, Holding, PC

\* r is answered without having changed anything.
LEMMA FailStep ==
    ASSUME IInv, NEW r \in Requests, NEW code \in Codes,
           pc[r] # "idle",
           code = "OK" => pc[r] = "get" \/ (pc[r] = "check" /\ got[r] = req[r].old),
           code = "Mismatch" => pc[r] = "check" /\ got[r] # req[r].old,
           Fail(r, code), UNCHANGED via, Observe
    PROVE  IInv'
<1> USE DEF Fail, Finish
<1>1. /\ reply[r] = None /\ ~effect[r] /\ Fits(req[r], pc[r])
      /\ pc[r] \in {"check"} => got[r] \in held[r]
  BY DEF IInv, WorkInv, LoginInv
<1>2. /\ held' \in [Requests -> SUBSET Passwords]
      /\ \A s \in Requests : req[s].op = "validate" => held[s] \subseteq held'[s]
  BY ObserveHeld DEF IInv, TypeOK, UsersTypeOK
<1>3. TypeOK'
  <2>1. UsersTypeOK'
    BY DEF IInv, TypeOK, UsersTypeOK, PC
  <2>2. via[r] # "none"
    BY WorkingIsReceived DEF IInv
  <2> QED
    BY <1>2, <2>1, <2>2, UsersAssumption DEF IInv, TypeOK, UsersTypeOK
<1>4. WorkInv'
  BY <1>3 DEF IInv, WorkInv, TypeOK, UsersTypeOK
<1>5. LockInv'
  BY UsersAssumption DEF IInv, LockInv, TypeOK, UsersTypeOK, Holding
<1>6. HoldInv'
  BY DEF IInv, HoldInv, LockInv, WorkInv, Fits, TypeOK, UsersTypeOK, Holding
<1>7. AnswerInv'
  BY <1>1 DEF IInv, AnswerInv, TypeOK, UsersTypeOK, Fits
<1>8. LoginInv'
  BY <1>2 DEF IInv, LoginInv, TypeOK, UsersTypeOK, WorkInv, Fits
<1>9. LoginIsCurrent'
  BY <1>1, <1>2 DEF IInv, LoginIsCurrent, TypeOK, UsersTypeOK, Fits
<1> QED
  BY <1>3, <1>4, <1>5, <1>6, <1>7, <1>8, <1>9 DEF IInv
\* r changes row i, which nobody else is working on, and is answered.
LEMMA WriteStep ==
    ASSUME IInv, NEW r \in Requests, NEW i \in Ids, NEW row \in Rows,
           NEW code \in {"OK", "Internal"},
           pc[r] \in {"insert", "deactivate", "commit"},
           \A o \in Requests \ {r} : pc[o] \in Holding => req[o].id # i,
           Write(r, i, row, code), UNCHANGED via, Observe
    PROVE  IInv'
<1> USE DEF Write, Finish
<1>1. reply[r] = None /\ ~effect[r] /\ Fits(req[r], pc[r])
  BY DEF IInv, WorkInv
<1>2. users' \in [Ids -> Rows \cup {None}]
  BY DEF IInv, TypeOK, UsersTypeOK
<1>3. /\ held' \in [Requests -> SUBSET Passwords]
      /\ \A s \in Requests : req[s].op = "validate" => held[s] \subseteq held'[s]
  BY <1>2, ObserveHeld DEF IInv, TypeOK
<1>4. TypeOK'
  <2>1. UsersTypeOK'
    BY <1>2 DEF IInv, TypeOK, UsersTypeOK, PC, Codes
  <2>2. via[r] # "none"
    BY WorkingIsReceived DEF IInv
  <2> QED
    BY <1>3, <2>1, <2>2, UsersAssumption DEF IInv, TypeOK, UsersTypeOK
<1>5. WorkInv'
  BY DEF IInv, WorkInv, TypeOK, UsersTypeOK
<1>6. LockInv'
  BY UsersAssumption DEF IInv, LockInv, TypeOK, UsersTypeOK, Holding
<1>7. HoldInv'
  <2> SUFFICES ASSUME NEW s \in Requests, s # r, pc[s] \in Holding
               PROVE  /\ lock'[req[s].id] = s
                      /\ users'[req[s].id] = users[req[s].id]
    BY DEF IInv, HoldInv, TypeOK, UsersTypeOK, Holding
  <2>1. req[s].id \in Ids /\ req[s].id # i /\ lock[req[s].id] = s
    BY DEF IInv, WorkInv, HoldInv, Fits, Holding
  <2> QED
    BY <2>1 DEF IInv, TypeOK, UsersTypeOK
<1>8. AnswerInv'
  BY <1>1 DEF IInv, AnswerInv, TypeOK, UsersTypeOK, Codes
<1>9. LoginInv'
  BY <1>3 DEF IInv, LoginInv, TypeOK, UsersTypeOK, WorkInv, Fits
<1>10. LoginIsCurrent'
  BY <1>1, <1>3 DEF IInv, LoginIsCurrent, TypeOK, UsersTypeOK, Fits, Holding
<1> QED
  BY <1>4, <1>5, <1>6, <1>7, <1>8, <1>9, <1>10 DEF IInv

\* A free slot gets a call, whose caller waits or not; if it does not pass the
\* checks, or nobody serves it, it is answered at once.
LEMMA BeginStep ==
    ASSUME IInv, NEW r \in Requests, NEW q \in Calls, NEW v \in {"http", "direct"},
           via[r] = "none", v = "direct" => q.op = "change",
           via' = [via EXCEPT ![r] = v],
           \/ Call(r, q)
           \/ \E code \in {"InvalidArgument", "Unimplemented"} : Reject(r, q, code),
           Observe
    PROVE  IInv'
<1>1. /\ req' = [req EXCEPT ![r] = q]
      /\ UNCHANGED <<users, lock, got, effect>>
      /\ \/ /\ UNCHANGED pc
            /\ \E code \in {"InvalidArgument", "Unimplemented"} :
                    reply' = [reply EXCEPT ![r] = code]
         \/ /\ ~Invalid(q)
            /\ pc' = [pc EXCEPT ![r] = First(q.op)]
            /\ UNCHANGED reply
  BY DEF Call, Reject
<1>2. reply[r] = None /\ ~effect[r] /\ pc[r] = "idle"
  BY WorkingIsReceived DEF IInv, TypeOK
<1>3. /\ held' \in [Requests -> SUBSET Passwords]
      /\ \A s \in Requests \ {r} : req[s].op = "validate" => held[s] \subseteq held'[s]
  BY <1>1, ObserveHeld DEF IInv, TypeOK, UsersTypeOK
<1>4. TypeOK'
  <2>1. UsersTypeOK'
    BY <1>1, CallFields DEF IInv, TypeOK, UsersTypeOK, Codes
  <2>2. q # NoCall
    BY CallFields
  <2>3. \A i \in Ids : lock[i] # r
    BY <1>2, UsersAssumption DEF IInv, LockInv, Holding
  <2> QED
    BY <1>1, <1>2, <1>3, <2>1, <2>2, <2>3 DEF IInv, TypeOK, UsersTypeOK
<1>5. WorkInv'
  BY <1>1, <1>2, CallFields DEF IInv, WorkInv, TypeOK, UsersTypeOK
<1>6. LockInv'
  BY <1>1, <1>2, UsersAssumption DEF IInv, LockInv, TypeOK, UsersTypeOK, Holding
<1>7. HoldInv'
  BY <1>1, <1>2, CallFields DEF IInv, HoldInv, TypeOK, UsersTypeOK, Holding
<1>8. AnswerInv'
  BY <1>1, <1>2, CodesAssumption DEF IInv, AnswerInv, TypeOK, UsersTypeOK, Codes
<1>9. LoginInv'
  BY <1>1, <1>2, <1>3, CallFields DEF IInv, LoginInv, TypeOK, UsersTypeOK, WorkInv, Fits
<1>10. LoginIsCurrent'
  BY <1>1, <1>2, <1>3, CodesAssumption DEF IInv, LoginIsCurrent, TypeOK, UsersTypeOK, Codes
<1> QED
  BY <1>4, <1>5, <1>6, <1>7, <1>8, <1>9, <1>10 DEF IInv
-----------------------------------------------------------------------------
(* The statements.                                                         *)

LEMMA GetHashedPasswordIInv ==
    ASSUME IInv, NEW r \in Requests, GetHashedPassword(r), UNCHANGED via, Observe
    PROVE  IInv'
<1>1. pc[r] = "read"
  BY DEF GetHashedPassword
<1>2. CASE Named(req[r].name) = {}
  <2>1. Fail(r, "NotFound")
    BY <1>2 DEF GetHashedPassword
  <2> QED
    BY <1>1, <2>1, FailStep DEF Codes
<1>3. CASE Named(req[r].name) # {}
  <2>1. /\ Goto(r, "check") /\ UNCHANGED lock
        /\ \E i \in Named(req[r].name) : got' = [got EXCEPT ![r] = users[i].password]
    BY <1>3 DEF GetHashedPassword
  <2>2. PICK i \in Ids : /\ users[i] # None /\ users[i].name = req[r].name
                         /\ got' = [got EXCEPT ![r] = users[i].password]
    BY <2>1 DEF Named
  <2> USE <2>1 DEF Goto
  <2>3. reply[r] = None /\ ~effect[r] /\ req[r].op = "validate"
    BY <1>1 DEF IInv, WorkInv, Fits
  <2>4. /\ held' \in [Requests -> SUBSET Passwords]
        /\ \A s \in Requests : req[s].op = "validate" => held[s] \subseteq held'[s]
        /\ users[i].password \in held'[r]
    BY <2>2, <2>3, ObserveHeld DEF IInv, TypeOK, UsersTypeOK
  <2>5. TypeOK'
    <3>1. UsersTypeOK'
      BY <2>2 DEF IInv, TypeOK, UsersTypeOK, PC, Rows
    <3> QED
      BY <2>3, <2>4, <3>1 DEF IInv, TypeOK, UsersTypeOK
  <2>6. WorkInv'
    BY <1>1 DEF IInv, WorkInv, TypeOK, UsersTypeOK, Fits, Holding
  <2>7. LockInv'
    BY <1>1, UsersAssumption DEF IInv, LockInv, TypeOK, UsersTypeOK, Holding
  <2>8. HoldInv'
    BY <1>1, <2>2 DEF IInv, HoldInv, TypeOK, UsersTypeOK, Holding
  <2>9. AnswerInv'
    BY DEF IInv, AnswerInv
  <2>10. LoginInv'
    BY <2>2, <2>4 DEF IInv, LoginInv, TypeOK, UsersTypeOK, WorkInv, Fits
  <2>11. LoginIsCurrent'
    BY <2>4 DEF IInv, LoginIsCurrent
  <2> QED
    BY <2>5, <2>6, <2>7, <2>8, <2>9, <2>10, <2>11 DEF IInv
<1> QED
  BY <1>2, <1>3

LEMMA GetUserForUpdateIInv ==
    ASSUME IInv, NEW r \in Requests, GetUserForUpdate(r), UNCHANGED via, Observe
    PROVE  IInv'
<1> DEFINE i == req[r].id
<1>1. pc[r] = "select" /\ lock[i] = None
  BY DEF GetUserForUpdate
<1>2. CASE users[i] = None
  <2>1. Fail(r, "NotFound")
    BY <1>2 DEF GetUserForUpdate
  <2> QED
    BY <1>1, <2>1, FailStep DEF Codes
<1>3. CASE users[i] # None
  <2>1. /\ Goto(r, "compare")
        /\ got' = [got EXCEPT ![r] = users[i].password]
        /\ lock' = [lock EXCEPT ![i] = r]
    BY <1>3 DEF GetUserForUpdate
  <2>2. reply[r] = None /\ ~effect[r] /\ Fits(req[r], "compare") /\ i \in Ids
    BY <1>1 DEF IInv, WorkInv, Fits, Holding
  <2> HIDE DEF i
  <2> USE <2>1 DEF Goto
  <2>3. /\ held' \in [Requests -> SUBSET Passwords]
        /\ \A s \in Requests : req[s].op = "validate" => held[s] \subseteq held'[s]
    BY <2>2, ObserveHeld DEF IInv, TypeOK, UsersTypeOK
  <2>4. TypeOK'
    <3>1. UsersTypeOK'
      BY <1>3, <2>2 DEF IInv, TypeOK, UsersTypeOK, PC, Rows
    <3> QED
      BY <2>2, <2>3, <3>1 DEF IInv, TypeOK, UsersTypeOK
  <2>5. WorkInv'
    BY <1>1, <2>2 DEF IInv, WorkInv, TypeOK, UsersTypeOK
  <2>6. LockInv'
    BY <1>1, <2>2, UsersAssumption DEF IInv, LockInv, TypeOK, UsersTypeOK, Holding, i
  <2>7. HoldInv'
    <3>1. ASSUME NEW s \in Requests, s # r, pc[s] \in Holding PROVE lock'[req[s].id] = s
      <4>1. req[s].id \in Ids /\ lock[req[s].id] = s
        BY <3>1 DEF IInv, HoldInv, WorkInv, Fits, Holding
      <4> QED
        BY <1>1, <3>1, <4>1, UsersAssumption DEF IInv, TypeOK, UsersTypeOK
    <3> QED
      BY <1>1, <1>3, <2>2, <3>1 DEF IInv, HoldInv, TypeOK, UsersTypeOK, Holding, i
  <2>8. AnswerInv'
    BY DEF IInv, AnswerInv
  <2>9. LoginInv'
    BY <2>3 DEF IInv, LoginInv, TypeOK, UsersTypeOK, WorkInv, Fits
  <2>10. LoginIsCurrent'
    BY <2>3 DEF IInv, LoginIsCurrent
  <2> QED
    BY <2>4, <2>5, <2>6, <2>7, <2>8, <2>9, <2>10 DEF IInv
<1> QED
  BY <1>2, <1>3

\* The transaction of a change goes on, with the row it has locked.
LEMMA HoldStep ==
    ASSUME IInv, NEW r \in Requests, NEW l \in {"update", "commit"},
           pc[r] \in Holding, got[r] = req[r].old,
           Goto(r, l), UNCHANGED <<lock, got, via>>, Observe
    PROVE  IInv'
<1> USE DEF Goto
<1>1. reply[r] = None /\ ~effect[r] /\ Fits(req[r], l)
  BY DEF IInv, WorkInv, Fits, Holding
<1>2. /\ held' \in [Requests -> SUBSET Passwords]
      /\ \A s \in Requests : req[s].op = "validate" => held[s] \subseteq held'[s]
  BY ObserveHeld DEF IInv, TypeOK, UsersTypeOK
<1>3. TypeOK'
  BY <1>1, <1>2 DEF IInv, TypeOK, UsersTypeOK, PC
<1>4. WorkInv'
  BY <1>1 DEF IInv, WorkInv, TypeOK, UsersTypeOK
<1>5. LockInv'
  BY UsersAssumption DEF IInv, LockInv, TypeOK, UsersTypeOK, Holding
<1>6. HoldInv'
  BY DEF IInv, HoldInv, TypeOK, UsersTypeOK, Holding
<1>7. AnswerInv'
  BY DEF IInv, AnswerInv
<1>8. LoginInv'
  BY <1>2 DEF IInv, LoginInv, TypeOK, UsersTypeOK, WorkInv, Fits
<1>9. LoginIsCurrent'
  BY <1>2 DEF IInv, LoginIsCurrent
<1> QED
  BY <1>3, <1>4, <1>5, <1>6, <1>7, <1>8, <1>9 DEF IInv

LEMMA CompareOldPasswordIInv ==
    ASSUME IInv, NEW r \in Requests, CompareOldPassword(r), UNCHANGED via, Observe
    PROVE  IInv'
<1>1. CASE got[r] = req[r].old
  BY <1>1, HoldStep DEF CompareOldPassword, Holding
<1>2. CASE got[r] # req[r].old
  BY <1>2, FailStep DEF CompareOldPassword, Codes
<1> QED
  BY <1>1, <1>2

LEMMA ChangeUserPasswordIInv ==
    ASSUME IInv, NEW r \in Requests, ChangeUserPassword(r), UNCHANGED via, Observe
    PROVE  IInv'
<1>1. /\ pc[r] = "update" /\ Goto(r, "commit") /\ UNCHANGED got
      /\ lock' = [lock EXCEPT ![req[r].id] = r]
  BY DEF ChangeUserPassword
<1>2. lock[req[r].id] = r /\ got[r] = req[r].old
  BY <1>1 DEF IInv, HoldInv, Holding
<1>3. UNCHANGED lock
  BY <1>1, <1>2 DEF IInv, TypeOK, UsersTypeOK
<1> QED
  BY <1>1, <1>2, <1>3, HoldStep DEF Holding

LEMMA CreateUserIInv ==
    ASSUME IInv, NEW r \in Requests, NEW code \in {"OK", "Internal"},
           CreateUser(r, code), UNCHANGED via, Observe
    PROVE  IInv'
<1>1. pc[r] = "insert"
  BY DEF CreateUser
<1>2. CASE Fail(r, "AlreadyExists")
  BY <1>1, <1>2, FailStep DEF Codes
<1>3. ASSUME NEW i \in Ids, users[i] = None,
             Write(r, i, [name |-> req[r].name, email |-> req[r].email,
                          password |-> req[r].new, active |-> TRUE], code)
      PROVE  IInv'
  <2>1. [name |-> req[r].name, email |-> req[r].email,
         password |-> req[r].new, active |-> TRUE] \in Rows
    BY <1>1 DEF IInv, WorkInv, Fits, Rows
  <2>2. \A o \in Requests : pc[o] \in Holding => req[o].id # i
    BY <1>3 DEF IInv, HoldInv
  <2> QED
    BY <1>1, <1>3, <2>1, <2>2, WriteStep
<1> QED
  BY <1>2, <1>3 DEF CreateUser

LEMMA DeactivateUserIInv ==
    ASSUME IInv, NEW r \in Requests, NEW code \in {"OK", "Internal"},
           DeactivateUser(r, code), UNCHANGED via, Observe
    PROVE  IInv'
<1> DEFINE i == req[r].id
           row == [users[i] EXCEPT !.active = FALSE]
<1>1. pc[r] = "deactivate" /\ lock[i] = None
  BY DEF DeactivateUser
<1>2. CASE Fail(r, "NotFound")
  BY <1>1, <1>2, FailStep DEF Codes
<1>3. CASE users[i] # None /\ Write(r, i, row, code)
  <2>1. i \in Ids
    BY <1>1 DEF IInv, WorkInv, Fits
  <2>2. row \in Rows
    <3>1. users[i] \in Rows
      BY <1>3, <2>1 DEF IInv, TypeOK, UsersTypeOK
    <3>2. FALSE \in BOOLEAN
      OBVIOUS
    <3>3. \A u \in Rows, b \in BOOLEAN : [u EXCEPT !.active = b] \in Rows
      BY DEF Rows
    <3> QED
      BY <3>1, <3>2, <3>3, Zenon
  <2>3. \A o \in Requests : pc[o] \in Holding => req[o].id # i
    BY <1>1, UsersAssumption DEF IInv, HoldInv
  <2> QED
    BY <1>1, <1>3, <2>1, <2>2, <2>3, WriteStep
<1> QED
  BY <1>2, <1>3 DEF DeactivateUser

LEMMA CommitIInv ==
    ASSUME IInv, NEW r \in Requests, NEW code \in {"OK", "Internal"},
           Commit(r, code), UNCHANGED via, Observe
    PROVE  IInv'
<1> DEFINE i == req[r].id
           row == [users[i] EXCEPT !.password = req[r].new]
<1>1. pc[r] = "commit" /\ Write(r, i, row, code)
  BY DEF Commit
<1>2. i \in Ids /\ req[r].new \in Passwords /\ users[i] # None /\ lock[i] = r
  BY <1>1 DEF IInv, WorkInv, Fits, HoldInv, Holding
<1>3. row \in Rows
  BY <1>2 DEF IInv, TypeOK, UsersTypeOK, Rows
<1>4. \A o \in Requests \ {r} : pc[o] \in Holding => req[o].id # i
  BY <1>2 DEF IInv, HoldInv
<1> QED
  BY <1>1, <1>2, <1>3, <1>4, WriteStep
LEMMA WorkIInv == ASSUME IInv, NEW r \in Requests, Work(r) PROVE IInv'
<1> USE DEF Work
<1>1. CASE GetUserById(r)
  BY <1>1, FailStep DEF GetUserById, Codes
<1>2. CASE ValidatePassword(r)
  BY <1>2, FailStep DEF ValidatePassword, Codes
<1> QED
  BY <1>1, <1>2, CreateUserIInv, DeactivateUserIInv, GetHashedPasswordIInv,
     GetUserForUpdateIInv, CompareOldPasswordIInv, ChangeUserPasswordIInv, CommitIInv
  DEF Statement

-----------------------------------------------------------------------------
(* The gateway.                                                            *)

LEMMA ReceiveIInv == ASSUME IInv, NEW r \in Requests, Receive(r) PROVE IInv'
<1> USE DEF Receive
<1>1. CASE PostUser(r)
  BY <1>1, BeginStep DEF PostUser
<1>2. CASE GetUserUserId(r)
  BY <1>2, BeginStep DEF GetUserUserId
<1>3. CASE DeleteUserUserId(r)
  BY <1>3, BeginStep DEF DeleteUserUserId
<1>4. CASE PutUserUserId(r)
  BY <1>4, BeginStep DEF PutUserUserId
<1>5. CASE PostAuthLogin(r)
  BY <1>5, BeginStep DEF PostAuthLogin
<1> QED
  BY <1>1, <1>2, <1>3, <1>4, <1>5

LEMMA GivesUpIInv == ASSUME IInv, NEW r \in Requests, GivesUp(r) PROVE IInv'
<1> USE DEF GivesUp, userVars
<1>1. /\ held' \in [Requests -> SUBSET Passwords]
      /\ \A s \in Requests : req[s].op = "validate" => held[s] \subseteq held'[s]
  BY ObserveHeld DEF IInv, TypeOK, UsersTypeOK
<1>2. TypeOK'
  BY <1>1 DEF IInv, TypeOK, UsersTypeOK
<1>3. WorkInv' /\ LockInv' /\ HoldInv'
  BY DEF IInv, WorkInv, LockInv, HoldInv
<1>4. AnswerInv'
  BY DEF IInv, AnswerInv, TypeOK
<1>5. LoginInv'
  BY <1>1 DEF IInv, LoginInv, WorkInv, Fits
<1>6. LoginIsCurrent'
  BY <1>1 DEF IInv, LoginIsCurrent
<1> QED
  BY <1>2, <1>3, <1>4, <1>5, <1>6 DEF IInv

LEMMA RespondIInv == ASSUME IInv, NEW r \in Requests, Respond(r) PROVE IInv'
<1> USE DEF Respond
<1>1. /\ held' \in [Requests -> SUBSET Passwords]
      /\ \A s \in Requests : req'[s].op = "validate" => held[s] \subseteq held'[s]
  BY ObserveHeld DEF IInv, TypeOK, UsersTypeOK
<1>2. pc[r] = "idle" /\ \A i \in Ids : lock[i] # r
  BY DEF IInv, TypeOK
<1>3. NoCall.op = "none"
  BY DEF NoCall
<1>4. TypeOK'
  <2>1. UsersTypeOK'
    BY DEF IInv, TypeOK, UsersTypeOK
  <2> QED
    BY <1>1, <2>1 DEF IInv, TypeOK, UsersTypeOK
<1>5. WorkInv'
  BY <1>2 DEF IInv, WorkInv, TypeOK, UsersTypeOK
<1>6. LockInv'
  BY <1>2, UsersAssumption DEF IInv, LockInv, TypeOK, UsersTypeOK
<1>7. HoldInv'
  BY <1>2 DEF IInv, HoldInv, TypeOK, UsersTypeOK, Holding
<1>8. AnswerInv'
  BY CodesAssumption DEF IInv, AnswerInv, TypeOK, UsersTypeOK, Codes
<1>9. LoginInv'
  BY <1>1, <1>2 DEF IInv, LoginInv, WorkInv, Fits, TypeOK, UsersTypeOK
<1>10. LoginIsCurrent'
  BY <1>1, <1>3 DEF IInv, LoginIsCurrent, TypeOK, UsersTypeOK
<1> QED
  BY <1>4, <1>5, <1>6, <1>7, <1>8, <1>9, <1>10 DEF IInv

LEMMA NextIInv == IInv /\ [Next]_vars => IInv'
<1> SUFFICES ASSUME IInv, [Next]_vars PROVE IInv'
  OBVIOUS
<1>1. ASSUME NEW r \in Requests, ChangePassword(r) PROVE IInv'
  BY <1>1, BeginStep DEF ChangePassword
<1>2. ASSUME NEW r \in Requests, QueryFails(r), UNCHANGED via, Observe PROVE IInv'
  BY <1>2, FailStep DEF QueryFails, Codes
<1>3. ASSUME NEW r \in Requests, Cancelled(r) PROVE IInv'
  BY <1>3, FailStep DEF Cancelled, Codes
<1>4. ASSUME NEW r \in Requests, Unacknowledged(r), UNCHANGED via, Observe PROVE IInv'
  BY <1>4, CreateUserIInv, DeactivateUserIInv, CommitIInv DEF Unacknowledged
<1>5. CASE UNCHANGED vars
  BY <1>5 DEF vars, userVars, IInv, TypeOK, UsersTypeOK, WorkInv, LockInv, HoldInv, AnswerInv,
     LoginInv, LoginIsCurrent
<1> QED
  BY <1>1, <1>2, <1>3, <1>4, <1>5, WorkIInv, ReceiveIInv, GivesUpIInv, RespondIInv DEF Next

THEOREM Invariance == Spec => []IInv
BY InitIInv, NextIInv, PTL DEF Spec

-----------------------------------------------------------------------------
(* The properties.                                                         *)

\* Every step keeps the types of the state, a slot is free just when it has
\* no call, and what is answered works no longer and has no row locked.
THEOREM TypeCorrectness == Spec => []TypeOK
<1>1. IInv => TypeOK
  BY DEF IInv
<1> QED
  BY <1>1, Invariance, PTL

LEMMA AnswersAreDefinite == IInv => DefiniteAnswers
<1> SUFFICES ASSUME IInv, NEW r \in Requests, via[r] \in {"http", "direct"}, reply[r] # None
             PROVE  /\ Told(r) \in {"201", "204", "OK"} => effect[r]
                    /\ Told(r) \in {"400", "401", "403", "404", "409", "501", "InvalidArgument",
                                    "PermissionDenied", "NotFound", "AlreadyExists"} => ~effect[r]
  BY DEF DefiniteAnswers
<1>1. reply[r] \in Codes /\ (effect[r] => reply[r] \in {"OK", "Internal"})
  BY DEF IInv, AnswerInv, TypeOK, UsersTypeOK
<1>2. CASE via[r] = "direct"
  <2>1. Told(r) = reply[r] /\ req[r].op = "change"
    BY <1>2 DEF Told, IInv, AnswerInv
  <2> QED
    BY <1>1, <2>1 DEF IInv, AnswerInv, Codes
<1>3. CASE via[r] = "http"
  <2>1. Told(r) = Response(req[r].op, reply[r])
    BY <1>3 DEF Told
  <2>2. /\ reply[r] = "OK" => Told(r) \in {"200", "201", "204"}
        /\ reply[r] = "Internal" => Told(r) = "500"
    BY <2>1 DEF Response, GrpcToHttpStatus
  <2>3. Told(r) \in {"201", "204", "OK"} =>
            reply[r] = "OK" /\ req[r].op \notin {"get", "validate"}
    BY <1>1, <2>1 DEF Response, GrpcToHttpStatus, Codes
  <2> QED
    BY <1>1, <2>2, <2>3 DEF IInv, AnswerInv
<1> QED
  BY <1>2, <1>3

\* A caller told of success has had its change made, one that is refused has
\* changed nothing: Unacknowledged, Cancelled and GivesUp included.
THEOREM AnswersDefinite == Spec => []DefiniteAnswers
BY AnswersAreDefinite, Invariance, PTL

\* ValidatePassword decides by a password the account had during the call,
\* although it reads and compares without a lock.
THEOREM LoginDecidedByCurrent == Spec => []LoginIsCurrent
<1>1. IInv => LoginIsCurrent
  BY DEF IInv
<1> QED
  BY <1>1, Invariance, PTL

\* One step: only the commit of a change replaces a password, and the row it
\* locked still has the one it compared with.
LEMMA ChangeStep ==
    ASSUME IInv, [Next]_vars, NEW i \in Ids, users[i] # None,
           users'[i].password # users[i].password
    PROVE  \E r \in Requests : /\ pc[r] = "commit" /\ req[r].id = i
                               /\ req[r].old = users[i].password
                               /\ req[r].new = users'[i].password
<1>0. users'[i] # users[i]
  OBVIOUS
<1>1. PICK r \in Requests :
         \/ \E code : CreateUser(r, code) \/ DeactivateUser(r, code) \/ Commit(r, code)
         \/ UNCHANGED users
  BY DEF Next, vars, userVars, Receive, PostUser, GetUserUserId, DeleteUserUserId, PutUserUserId,
     PostAuthLogin, ChangePassword, Call, Reject, Work, Statement, QueryFails, Unacknowledged,
     GivesUp, Cancelled, Respond, Fail, Goto, GetUserById, GetHashedPassword, ValidatePassword,
     GetUserForUpdate, CompareOldPassword, ChangeUserPassword
<1>2. ASSUME NEW code, CreateUser(r, code) PROVE FALSE
  BY <1>0, <1>2 DEF CreateUser, Fail, Write, IInv, TypeOK, UsersTypeOK
<1>3. ASSUME NEW code, DeactivateUser(r, code) PROVE FALSE
  <2>1. users' = [users EXCEPT ![req[r].id] = [users[req[r].id] EXCEPT !.active = FALSE]]
    BY <1>0, <1>3 DEF DeactivateUser, Fail, Write
  <2>2. users'[i] = [users[i] EXCEPT !.active = FALSE] /\ users[i] \in Rows
    BY <1>0, <2>1 DEF IInv, TypeOK, UsersTypeOK
  <2> QED
    BY <2>2 DEF Rows
<1>4. ASSUME NEW code, Commit(r, code)
      PROVE  /\ pc[r] = "commit" /\ req[r].id = i
             /\ req[r].old = users[i].password
             /\ req[r].new = users'[i].password
  <2>1. /\ pc[r] = "commit"
        /\ users' = [users EXCEPT ![req[r].id] = [users[req[r].id] EXCEPT !.password = req[r].new]]
    BY <1>4 DEF Commit, Write
  <2>2. req[r].id = i
    BY <1>0, <2>1 DEF IInv, TypeOK, UsersTypeOK
  <2>3. users'[i] = [users[i] EXCEPT !.password = req[r].new] /\ users[i] \in Rows
    BY <2>1, <2>2 DEF IInv, TypeOK, UsersTypeOK
  <2>4. users'[i].password = req[r].new
    BY <2>3 DEF Rows
  <2> QED
    BY <2>1, <2>2, <2>4 DEF IInv, HoldInv, Holding
<1> QED
  BY <1>0, <1>1, <1>2, <1>3, <1>4

\* A password is replaced only by a call that named the one it replaces, even
\* when changes of the same account overlap.
THEOREM ChangesFromOld == Spec => ChangeFromOld
<1>1. IInv /\ [Next]_vars =>
        [\A i \in Ids :
            users[i] # None /\ users'[i].password # users[i].password =>
                \E r \in Requests : /\ pc[r] = "commit" /\ req[r].id = i
                                    /\ req[r].old = users[i].password
                                    /\ req[r].new = users'[i].password]_vars
  BY ChangeStep
<1> QED
  BY <1>1, Invariance, PTL DEF Spec, ChangeFromOld
=============================================================================
