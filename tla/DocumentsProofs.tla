-------------------------- MODULE DocumentsProofs --------------------------
(***************************************************************************)
(* Proofs about Documents for every set of documents, users, guests and    *)
(* calls, and every length of batches: who owns a document, that the       *)
(* tables of guests and of permissions agree, what a successful deletion   *)
(* has deleted, and when a deletion may fail.                              *)
(*                                                                         *)
(* The invariant says of each call what its transaction has written and    *)
(* what is therefore true of the committed tables (OwnInv), of each two    *)
(* calls that their locks exclude each other (Together), and of the tables *)
(* that every reference leads somewhere (Tables).  The lemmas on steps     *)
(* are about calls with whatever further fields, so that they hold of the  *)
(* calls a gateway makes too.                                              *)
(***************************************************************************)
EXTENDS Documents, TLAPS

Transactions ==
    [write : [Rows -> Contents \cup {Absent, Same}], share : SUBSET Docs,
     missed : SUBSET Rows, done : 0..MaxBatch]

Types ==
    /\ db \in [Rows -> Contents \cup {Absent}]
    /\ creator \in [Docs -> Users \cup {Absent}]
    /\ issued \subseteq Guests
    /\ pc \in [Requests -> PC]
    /\ req = [r \in Requests |-> req[r]]
    /\ tx \in [Requests -> Transactions]
    /\ reply \in [Requests -> Answers]
    /\ up \in BOOLEAN
    /\ overlapped \in [Requests -> BOOLEAN]
    /\ \A r \in Requests : pc[r] # "idle" => up

-----------------------------------------------------------------------------
(* A call q at statement l with transaction t.                             *)

Granted == {"viewer", "editor"}

\* The documents of a batch that are dealt with.
Finished(q, t) == {q.docs[i] : i \in 1..t.done}

Current(q, t) == q.docs[t.done + 1]

Reads(t, x) == IF t.write[x] = Same THEN db[x] ELSE t.write[x]

\* Which call executes a statement, and what the call names.
Control(l, q, t) ==
    /\ q.op = "none" <=> l = "idle"
    /\ l \in {"perms", "guests", "doc", "fk"} => q.op = "delete" /\ t.done < Len(q.docs)
    /\ l = "check" => q.op \in {"guest", "upsert"}
    /\ l \in {"guest", "perm"} => q.op = "guest"
    /\ l = "upsert" => q.op = "upsert"
    /\ l = "commit" => /\ q.op \in {"delete", "guest", "upsert"}
                       /\ q.op = "delete" => t.done = Len(q.docs)
    /\ l \in {"select", "regrade"} => q.op = "regrade"
    /\ l \in {"remove", "rename", "get", "read"} => q.op = l

Names(l, q, t) ==
    /\ q.op = "delete" => /\ q.docs \in Seq(Docs) /\ Len(q.docs) <= MaxBatch
                          /\ \A i \in 1..Len(q.docs) : creator[q.docs[i]] # Absent
    /\ q.op \in {"guest", "upsert"} => t.done = 0 /\ q.arg \in Granted
    /\ q.op \in {"guest", "upsert", "remove", "read", "rename"} => q.docs[1] \in Docs
    /\ q.op \in {"none", "delete", "rename", "get"} => q.who = Absent
    /\ q.op = "guest" => q.who \in Guests \ issued
    /\ q.op \in {"upsert", "regrade", "remove", "read"} => q.who \in Users \cup issued
    /\ q.op = "regrade" => q.arg \in Granted
    /\ l = "regrade" => /\ q.docs[1] \in Docs
                        /\ q.who \in issued /\ db[q.who] \in {q.docs[1], Absent}

\* What the transaction has written and locked.
Written(l, q, t) ==
    /\ q.op \notin {"delete", "guest", "upsert"} \/ l = "check" => t = EmptyTx
    /\ l \in {"guest", "upsert"} => t.share = {} /\ \A x \in Rows : t.write[x] = Same
    /\ q.op = "delete" => t.share = {} /\ \A x \in Rows : t.write[x] \in {Same, Absent}
    /\ q.op = "guest" /\ l \in {"perm", "commit"} =>
        /\ t.share = {q.docs[1]}
        /\ t.write[q.who] = q.docs[1]
        /\ t.write[<<q.who, q.docs[1]>>] = IF l = "perm" THEN Same ELSE AsGuest[q.arg]
        /\ \A x \in Rows \ {q.who, <<q.who, q.docs[1]>>} : t.write[x] = Same
    /\ q.op = "upsert" /\ l = "commit" =>
        /\ t.share \subseteq {q.docs[1]}
        /\ t.write[<<q.who, q.docs[1]>>] \in {q.arg, AsGuest[q.arg]}
        /\ \A x \in Rows \ {<<q.who, q.docs[1]>>} : t.write[x] = Same

\* A row that a deletion has deleted is still there for others.  Nothing it
\* can see refers to the documents it has dealt with.
Deleting(l, q, t) ==
    q.op = "delete" =>
        /\ \A d \in Docs : t.write[d] = Absent =>
            db[d] # Absent /\ (d \in Finished(q, t) \/ (l = "fk" /\ d = Current(q, t)))
        /\ \A g \in Guests : t.write[g] = Absent =>
            /\ db[g] \in Docs
            /\ db[g] \in Finished(q, t) \/ (l \in {"doc", "fk"} /\ db[g] = Current(q, t))
        /\ \A p \in Principals, d \in Docs : t.write[<<p, d>>] = Absent => db[<<p, d>>] # Absent
        /\ l = "fk" => t.write[Current(q, t)] = Absent
        /\ \A d \in Finished(q, t) :
            /\ t.write[d] = Absent
            /\ \A p \in Principals : Reads(t, <<p, d>>) = Absent
            /\ \A g \in Guests : Reads(t, g) # d

\* The document of a grant is there from the lock on it to the commit, and
\* unless the snapshot has missed its deletion.  A permission stays one given
\* to a guest, and none becomes one.
Granting(l, q, t) ==
    /\ \A d \in t.share : db[d] # Absent
    /\ l \in {"guest", "perm", "upsert"} /\ q.docs[1] \notin t.missed => db[q.docs[1]] # Absent
    /\ q.op = "upsert" /\ l = "commit" =>
        /\ db[q.docs[1]] # Absent
        /\ q.docs[1] \in t.share \/ db[<<q.who, q.docs[1]>>] # Absent
        /\ t.write[<<q.who, q.docs[1]>>] \in GuestRows => db[<<q.who, q.docs[1]>>] \in GuestRows

OwnInv(l, q, t) ==
    /\ Control(l, q, t)
    /\ Names(l, q, t)
    /\ Written(l, q, t)
    /\ Deleting(l, q, t)
    /\ Granting(l, q, t)

-----------------------------------------------------------------------------
(* Two calls, and the tables.                                              *)

\* A row has one writer; who deletes a document and who refers to it exclude
\* each other; a new guest is known to its creator only.
Together(q, t, u, v) ==
    /\ \A x \in Rows : t.write[x] = Same \/ v.write[x] = Same
    /\ \A d \in Docs : t.write[d] # Same => d \notin v.share
    /\ q.op = "delete" =>
        \A d \in Finished(q, t), p \in Principals : v.write[<<p, d>>] \in {Same, Absent}
    /\ q.op = "guest" => u.who # q.who

PairInv ==
    \A r \in Requests : \A o \in Requests \ {r} : Together(req[r], tx[r], req[o], tx[o])

\* Levels are levels, guests have been issued, and references lead somewhere.
Tables ==
    /\ \A p \in Principals, d \in Docs :
        /\ db[<<p, d>>] \in Levels \cup GuestRows \cup {Absent}
        /\ db[<<p, d>>] # Absent => db[d] # Absent /\ p \in Users \cup issued
    /\ \A g \in Guests :
        /\ db[g] \in Docs \cup {Absent}
        /\ db[g] # Absent => g \in issued /\ db[db[g]] # Absent

DInv ==
    /\ Types
    /\ Tables
    /\ CreatorOwns
    /\ GuestsInSync
    /\ \A r \in Requests : OwnInv(pc[r], req[r], tx[r])
    /\ PairInv

-----------------------------------------------------------------------------
(* Rows and empty transactions.                                            *)

LEMMA RowFacts ==
    /\ Docs \subseteq Rows /\ Guests \subseteq Rows
    /\ \A p \in Principals, d \in Docs : <<p, d>> \in Rows \ (Docs \cup Guests)
    /\ \A u \in Users, g \in Guests : u # g
    /\ \A d \in Docs, g \in Guests : d # g
    /\ Users \subseteq Principals /\ Guests \subseteq Principals
    /\ Absent \notin Docs \cup Guests \cup Users \cup Levels \cup GuestRows \cup {"document", Same}
    /\ Same \notin Docs \cup Guests \cup Users \cup Levels \cup GuestRows \cup {"document", Absent}
<1>1. ASSUME NEW p \in Principals, NEW d \in Docs
      PROVE  <<p, d>> \in Rows /\ <<p, d>> \notin Docs /\ <<p, d>> \notin Guests
  <2>1. <<p, d>> \in Principals \X Docs
    OBVIOUS
  <2> HIDE DEF Principals
  <2> QED
    BY <2>1, RowsAssumption DEF Rows
<1>2. /\ \A u \in Users, g \in Guests : u # g
      /\ \A d \in Docs, g \in Guests : d # g
  BY RowsAssumption
<1>3. /\ Absent \notin Docs \cup Guests \cup Users \cup Levels \cup GuestRows \cup {"document", Same}
      /\ Same \notin Docs \cup Guests \cup Users \cup Levels \cup GuestRows \cup {"document", Absent}
  BY DocumentsAssumption DEF Levels, GuestRows
<1>4. /\ Docs \subseteq Rows /\ Guests \subseteq Rows
      /\ Users \subseteq Principals /\ Guests \subseteq Principals
  BY DEF Rows, Principals
<1> QED
  BY <1>1, <1>2, <1>3, <1>4, Zenon

\* Permissions that may be given, to a guest as such and otherwise.
LEMMA GuestLevels ==
    /\ Granted \subseteq Levels \ {"owner"} /\ Levels \cap GuestRows = {}
    /\ \A a \in Granted :
        /\ AsGuest[a] \in GuestRows /\ AsGuest[a] # "guest_owner"
        /\ LevelOf[a] = a /\ LevelOf[AsGuest[a]] = a
        /\ a \in Contents /\ AsGuest[a] \in Contents
        /\ a \notin {Same, Absent} /\ AsGuest[a] \notin {Same, Absent}
    /\ \A c \in Levels \cup GuestRows : LevelOf[c] \in Levels
<1>1. /\ AsGuest["viewer"] = "guest_viewer" /\ AsGuest["editor"] = "guest_editor"
      /\ LevelOf["viewer"] = "viewer" /\ LevelOf["editor"] = "editor"
      /\ LevelOf["owner"] = "owner"
      /\ LevelOf["guest_viewer"] = "viewer" /\ LevelOf["guest_editor"] = "editor"
      /\ LevelOf["guest_owner"] = "owner"
  BY DEF AsGuest, LevelOf
<1>2. \A c \in Levels \cup GuestRows : LevelOf[c] \in Levels
  BY <1>1 DEF Levels, GuestRows
<1>3. \A a \in Granted :
        /\ AsGuest[a] \in GuestRows /\ AsGuest[a] # "guest_owner"
        /\ LevelOf[a] = a /\ LevelOf[AsGuest[a]] = a
  BY <1>1 DEF Granted, GuestRows
<1>4. Granted \subseteq Levels \ {"owner"} /\ Levels \cap GuestRows = {}
  BY DEF Granted, Levels, GuestRows
<1> QED
  BY <1>2, <1>3, <1>4, RowFacts DEF Contents

LEMMA PairRow ==
    ASSUME NEW p \in Principals, NEW d \in Docs
    PROVE  /\ <<p, d>> \in Rows /\ <<p, d>> \notin Docs
           /\ \A g \in Guests : <<p, d>> # g
BY RowFacts, Zenon

LEMMA EmptyFacts ==
    /\ EmptyTx \in Transactions
    /\ EmptyTx.share = {} /\ EmptyTx.missed = {} /\ EmptyTx.done = 0
    /\ EmptyTx.write = [x \in Rows |-> Same]
BY DocumentsAssumption DEF EmptyTx, Transactions

LEMMA NoCallFacts == NoCall.op = "none" /\ NoCall.who = Absent
BY DEF NoCall

\* Nothing is asked of a call that has ended.
LEMMA EndedOwn == OwnInv("idle", NoCall, EmptyTx)
BY NoCallFacts, EmptyFacts
DEF OwnInv, Control, Names, Written, Deleting, Granting

\* A batch names documents, and no more is dealt with than it names.
LEMMA BatchFacts ==
    ASSUME NEW l \in PC, NEW q, NEW t \in Transactions, OwnInv(l, q, t), q.op = "delete"
    PROVE  /\ t.done \in Nat /\ Len(q.docs) \in Nat /\ t.done <= Len(q.docs)
           /\ \A i \in 1..Len(q.docs) : q.docs[i] \in Docs /\ creator[q.docs[i]] # Absent
           /\ \A d \in Finished(q, t) : d \in Docs /\ creator[d] # Absent
           /\ l # "commit" => t.done < Len(q.docs) /\ Current(q, t) \in Docs
<1>1. t.done \in Nat /\ q.docs \in Seq(Docs) /\ Len(q.docs) \in Nat
  BY DocumentsAssumption DEF Transactions, OwnInv, Names
<1>2. /\ t.done <= Len(q.docs)
      /\ l # "commit" => t.done < Len(q.docs)
  BY <1>1 DEF OwnInv, Control, PC
<1>3. \A i \in 1..Len(q.docs) : q.docs[i] \in Docs /\ creator[q.docs[i]] # Absent
  BY <1>1 DEF OwnInv, Names
<1>4. \A d \in Finished(q, t) : d \in Docs /\ creator[d] # Absent
  BY <1>1, <1>2, <1>3 DEF Finished
<1> QED
  BY <1>1, <1>2, <1>3, <1>4 DEF Current

LEMMA EndedTogether ==
    ASSUME NEW l \in PC, NEW q, NEW t \in Transactions, OwnInv(l, q, t)
    PROVE  Together(q, t, NoCall, EmptyTx) /\ Together(NoCall, EmptyTx, q, t)
<1>1. \A x \in Rows : EmptyTx.write[x] = Same
  BY EmptyFacts
<1>2. \A p \in Principals, d \in Docs : EmptyTx.write[<<p, d>>] = Same
  BY <1>1, RowFacts, Zenon
<1>3. q.op = "delete" => Finished(q, t) \subseteq Docs
  BY BatchFacts
<1>4. q.op = "guest" => q.who # Absent
  BY RowFacts DEF OwnInv, Names
<1> QED
  BY <1>1, <1>2, <1>3, <1>4, EmptyFacts, NoCallFacts, RowFacts DEF Together

-----------------------------------------------------------------------------
(* Frames: what a step has to show, and what it need not.                  *)

LEMMA TypesOK == DInv => TypeOK
<1> SUFFICES ASSUME DInv PROVE TypeOK
  OBVIOUS
<1>1. ASSUME NEW r \in Requests
      PROVE  /\ tx[r].write \in [Rows -> Contents \cup {Absent, Same}]
             /\ tx[r].share \subseteq Docs
             /\ tx[r].missed \subseteq Rows
             /\ tx[r].done \in 0..MaxBatch
  BY DEF DInv, Types, Transactions
<1>2. ASSUME NEW r \in Requests
      PROVE  /\ req[r].op = "none" <=> pc[r] = "idle"
             /\ pc[r] = "idle" => tx[r] = EmptyTx
  BY DEF DInv, OwnInv, Control, Written
<1> QED
  BY <1>1, <1>2 DEF DInv, Types, TypeOK

\* Nothing another call rests on changes with the tables as they are.
LEMMA OwnFrame ==
    ASSUME UNCHANGED <<db, creator, issued>>,
           NEW o \in Requests, OwnInv(pc[o], req[o], tx[o]),
           pc'[o] = pc[o], req'[o] = req[o], tx'[o] = tx[o]
    PROVE  OwnInv(pc[o], req[o], tx[o])'
<1>1. Control(pc[o], req[o], tx[o])'
  BY DEF OwnInv, Control
<1>2. Names(pc[o], req[o], tx[o])'
  BY DEF OwnInv, Names
<1>3. Written(pc[o], req[o], tx[o])'
  BY DEF OwnInv, Written
<1>4. Deleting(pc[o], req[o], tx[o])'
  BY DEF OwnInv, Deleting, Finished, Current, Reads
<1>5. Granting(pc[o], req[o], tx[o])'
  BY DEF OwnInv, Granting
<1> QED
  BY <1>1, <1>2, <1>3, <1>4, <1>5 DEF OwnInv

\* A step of r alone.
LEMMA LocalStep ==
    ASSUME DInv, NEW r \in Requests, NEW l \in PC, NEW q, NEW t \in Transactions,
           pc' = [pc EXCEPT ![r] = l],
           req' = [req EXCEPT ![r] = q],
           tx' = [tx EXCEPT ![r] = t],
           reply' \in [Requests -> Answers],
           overlapped' \in [Requests -> BOOLEAN],
           UNCHANGED <<db, creator, issued, up>>,
           l # "idle" => up,
           OwnInv(l, q, t),
           \A o \in Requests \ {r} : /\ Together(q, t, req[o], tx[o])
                                     /\ Together(req[o], tx[o], q, t)
    PROVE  DInv'
<1>1. /\ pc'[r] = l /\ req'[r] = q /\ tx'[r] = t
      /\ \A o \in Requests \ {r} : pc'[o] = pc[o] /\ req'[o] = req[o] /\ tx'[o] = tx[o]
  BY DEF DInv, Types
<1>2. Types'
  BY DEF DInv, Types
<1>3. Tables' /\ CreatorOwns' /\ GuestsInSync'
  BY DEF DInv, Tables, CreatorOwns, GuestsInSync
<1>4. OwnInv(pc[r], req[r], tx[r])'
  <2>1. Control(pc[r], req[r], tx[r])'
    BY <1>1 DEF OwnInv, Control
  <2>2. Names(pc[r], req[r], tx[r])'
    BY <1>1 DEF OwnInv, Names
  <2>3. Written(pc[r], req[r], tx[r])'
    BY <1>1 DEF OwnInv, Written
  <2>4. Deleting(pc[r], req[r], tx[r])'
    <3>1. /\ Finished(req[r], tx[r])' = Finished(q, t)
          /\ Current(req[r], tx[r])' = Current(q, t)
      BY <1>1 DEF Finished, Current
    <3>2. ASSUME NEW x PROVE Reads(tx[r], x)' = Reads(t, x)
      BY <1>1 DEF Reads
    <3> QED
      BY <1>1, <3>1, <3>2 DEF OwnInv, Deleting
  <2>5. Granting(pc[r], req[r], tx[r])'
    BY <1>1 DEF OwnInv, Granting
  <2> QED
    BY <2>1, <2>2, <2>3, <2>4, <2>5 DEF OwnInv
<1>5. \A o \in Requests \ {r} : OwnInv(pc[o], req[o], tx[o])'
  BY <1>1, OwnFrame DEF DInv
<1>6. PairInv'
  <2> SUFFICES ASSUME NEW a \in Requests, NEW o \in Requests \ {a}
               PROVE  Together(req'[a], tx'[a], req'[o], tx'[o])
    BY DEF PairInv
  <2> QED
    BY <1>1 DEF DInv, PairInv
<1> QED
  BY <1>2, <1>3, <1>4, <1>5, <1>6 DEF DInv

\* A step in which no call works.
LEMMA QuietStep ==
    ASSUME DInv, UNCHANGED <<db, creator, issued, pc, req, tx>>,
           reply' \in [Requests -> Answers],
           overlapped' \in [Requests -> BOOLEAN],
           up' \in BOOLEAN, up => up'
    PROVE  DInv'
<1>1. Types'
  BY DEF DInv, Types
<1>2. Tables' /\ CreatorOwns' /\ GuestsInSync'
  BY DEF DInv, Tables, CreatorOwns, GuestsInSync
<1>3. \A o \in Requests : OwnInv(pc[o], req[o], tx[o])'
  BY OwnFrame DEF DInv
<1>4. PairInv'
  BY SMTT(40) DEF DInv, PairInv, Together, Finished
<1> QED
  BY <1>1, <1>2, <1>3, <1>4 DEF DInv

\* The end of a call whose transaction is dropped, if it has one.
LEMMA RollbackStep ==
    ASSUME DInv, NEW r \in Requests, NEW status \in Answers, Rollback(r, status)
    PROVE  DInv'
<1>1. \A o \in Requests \ {r} : /\ Together(NoCall, EmptyTx, req[o], tx[o])
                                /\ Together(req[o], tx[o], NoCall, EmptyTx)
  BY EndedTogether DEF DInv, Types
<1>2. reply' \in [Requests -> Answers]
  BY DEF Rollback, Answer, DInv, Types
<1>3. overlapped' \in [Requests -> BOOLEAN]
  BY DEF Rollback, Answer, DInv, Types
<1> QED
  BY <1>1, <1>2, <1>3, EmptyFacts, EndedOwn, LocalStep DEF Rollback, Answer, PC

-----------------------------------------------------------------------------
(* The beginning of a call.                                                *)

\* What those who call the service name: documents and guests it has told
\* them of, new guests, and no more documents than a batch may have.
Callable(q) ==
    /\ q.op \in {"delete", "guest", "upsert", "regrade", "remove", "rename", "get", "read"}
    /\ q.op = "delete" => /\ q.docs \in Seq(Docs) /\ Len(q.docs) <= MaxBatch
                          /\ \A i \in 1..Len(q.docs) : creator[q.docs[i]] # Absent
    /\ q.op \in {"guest", "upsert", "remove", "read", "rename"} => q.docs[1] \in Docs
    /\ q.op \in {"guest", "upsert", "regrade"} => q.arg \in Levels
    /\ q.op \in {"delete", "rename", "get"} => q.who = Absent
    /\ q.op = "guest" => q.who \in Guests \ issued /\ \A o \in Requests : req[o].who # q.who
    /\ q.op \in {"upsert", "regrade", "remove", "read"} => q.who \in Users \cup issued

LEMMA AcceptStep ==
    ASSUME DInv, NEW r \in Requests, NEW q, Callable(q), Accept(r, q)
    PROVE  DInv'
<1> USE DEF Accept
<1>1. CASE Invalid(q)
  <2>1. reply' \in [Requests -> Answers]
    BY <1>1 DEF DInv, Types, Answers
  <2> QED
    BY <1>1, <2>1, QuietStep DEF DInv, Types
<1>2. CASE ~Invalid(q)
  <2> DEFINE l == First(q.op)
  <2>1. l \in PC /\ l # "idle"
    BY DEF Callable, First, PC
  <2>2. reply' \in [Requests -> Answers]
    BY <1>2 DEF DInv, Types, Answers
  <2>3. overlapped' \in [Requests -> BOOLEAN]
    BY <1>2, Zenon
  <2>4. OwnInv(l, q, EmptyTx)
    <3>1. Control(l, q, EmptyTx)
      BY <1>2, EmptyFacts DEF Callable, Control, First, Invalid
    <3>2. Names(l, q, EmptyTx)
      BY <1>2, EmptyFacts DEF Callable, Names, First, Invalid, Granted, Levels
    <3>3. Written(l, q, EmptyTx)
      BY EmptyFacts DEF Callable, Written, First
    <3>4. Deleting(l, q, EmptyTx)
      BY EmptyFacts, RowFacts DEF Callable, Deleting, First, Finished
    <3>5. Granting(l, q, EmptyTx)
      BY EmptyFacts DEF Callable, Granting, First
    <3> QED
      BY <3>1, <3>2, <3>3, <3>4, <3>5 DEF OwnInv
  <2>5. ASSUME NEW o \in Requests \ {r}
        PROVE  Together(q, EmptyTx, req[o], tx[o]) /\ Together(req[o], tx[o], q, EmptyTx)
    <3>1. Together(req[o], tx[o], NoCall, EmptyTx)
      BY EndedTogether DEF DInv, Types
    <3>2. req[o].op = "guest" => req[o].who \in Guests \ issued
      BY DEF DInv, OwnInv, Names
    <3>3. req[o].op = "guest" => q.who # req[o].who
      BY <3>2, RowFacts DEF Callable, DInv, Types
    <3>4. EmptyTx.done = 0 /\ \A x \in Rows : EmptyTx.write[x] = Same
      BY EmptyFacts
    <3>5. Finished(q, EmptyTx) = {}
      BY <3>4 DEF Finished
    <3>6. Together(q, EmptyTx, req[o], tx[o])
      BY <3>4, <3>5, RowFacts DEF Together, Callable
    <3> QED
      BY <3>1, <3>3, <3>6 DEF Together
  <2> HIDE DEF l
  <2>6. /\ pc' = [pc EXCEPT ![r] = l] /\ req' = [req EXCEPT ![r] = q]
        /\ tx' = [tx EXCEPT ![r] = EmptyTx] /\ up
    <3>1. tx[r] = EmptyTx
      BY DEF DInv, OwnInv, Control, Written, Open
    <3> QED
      BY <1>2, <3>1 DEF l, DInv, Types
  <2> QED
    BY <2>1, <2>2, <2>3, <2>4, <2>5, <2>6, EmptyFacts, LocalStep
<1> QED
  BY <1>1, <1>2

-----------------------------------------------------------------------------
(* Deletions.                                                              *)

LEMMA Unblocked ==
    ASSUME NEW r \in Requests, Blockers(r) = {}, NEW o \in Requests \ {r}
    PROVE  /\ \A x \in Locks(r) : tx[o].write[x] = Same
           /\ pc[r] = "doc" => Doc(r) \notin tx[o].share
BY DEF Blockers

LEMMA DeleteStep ==
    ASSUME DInv, NEW r \in Requests, NEW X \in SUBSET Rows, NEW l \in {"guests", "doc", "fk"},
           pc[r] \in {"perms", "guests", "doc"}, Delete(r, X, l),
           \A o \in Requests \ {r} : /\ \A x \in X : tx[o].write[x] = Same
                                     /\ tx[o].share \cap X = {},
           NEW t, t = [tx[r] EXCEPT !.write = [x \in Rows |-> IF x \in X THEN Absent
                                                              ELSE tx[r].write[x]]],
           Deleting(l, req[r], t)
    PROVE  DInv'
<1> DEFINE q == req[r]
<1>1. tx[r] \in Transactions /\ OwnInv(pc[r], q, tx[r]) /\ pc[r] \in PC /\ q.op = "delete"
  BY DEF DInv, Types, OwnInv, Control
<1>2. /\ t.write = [x \in Rows |-> IF x \in X THEN Absent ELSE tx[r].write[x]]
      /\ t.share = tx[r].share /\ t.done = tx[r].done /\ t.missed = tx[r].missed
  BY <1>1 DEF Transactions
<1>3. t \in Transactions
  BY <1>1, <1>2 DEF Transactions
<1>4. OwnInv(l, q, t)
  <2>1. Control(l, q, t)
    BY <1>1, <1>2 DEF OwnInv, Control
  <2>2. Names(l, q, t)
    BY <1>1, <1>2 DEF OwnInv, Names
  <2>3. Written(l, q, t)
    BY <1>1, <1>2 DEF OwnInv, Written
  <2>4. Granting(l, q, t)
    BY <1>1, <1>2 DEF OwnInv, Granting, Written
  <2> QED
    BY <2>1, <2>2, <2>3, <2>4 DEF OwnInv
<1>5. ASSUME NEW o \in Requests \ {r}
      PROVE  Together(q, t, req[o], tx[o]) /\ Together(req[o], tx[o], q, t)
  <2>1. Together(q, tx[r], req[o], tx[o]) /\ Together(req[o], tx[o], q, tx[r])
    BY DEF DInv, PairInv
  <2>2. \A x \in Rows : t.write[x] = tx[r].write[x] \/ t.write[x] = Absent
    BY <1>2
  <2>3. req[o].op = "delete" => \A d \in Finished(req[o], tx[o]) : d \in Docs
    BY BatchFacts DEF DInv, Types
  <2>4. Finished(q, t) = Finished(q, tx[r])
    BY <1>2 DEF Finished
  <2>5. Together(q, t, req[o], tx[o])
    BY <1>2, <2>1, <2>4, RowFacts DEF Together
  <2>6. Together(req[o], tx[o], q, t)
    BY <1>2, <2>1, <2>2, <2>3, RowFacts DEF Together
  <2> QED
    BY <2>5, <2>6
<1>6. /\ pc' = [pc EXCEPT ![r] = l] /\ req' = [req EXCEPT ![r] = q]
      /\ tx' = [tx EXCEPT ![r] = t] /\ up
      /\ UNCHANGED <<db, creator, issued, up>>
      /\ reply' \in [Requests -> Answers] /\ overlapped' \in [Requests -> BOOLEAN]
  BY DEF DInv, Types, Delete, Goto
<1>7. l \in PC
  BY DEF PC
<1> HIDE DEF q
<1> QED
  BY <1>3, <1>4, <1>5, <1>6, <1>7, LocalStep

LEMMA DeletePermissionIInv ==
    ASSUME DInv, NEW r \in Requests, DeletePermissionByDocument(r)
    PROVE  DInv'
<1> DEFINE q == req[r]
           c == tx[r]
           d0 == Doc(r)
           X == PermissionsOn(r, d0)
           t == [c EXCEPT !.write = [x \in Rows |-> IF x \in X THEN Absent ELSE c.write[x]]]
<1>1. /\ pc[r] = "perms" /\ Blockers(r) = {} /\ Delete(r, X, "guests")
      /\ Locks(r) = X
  BY DEF DeletePermissionByDocument, Locks
<1>2. c \in Transactions /\ OwnInv("perms", q, c) /\ q.op = "delete" /\ d0 \in Docs
  <2>1. c \in Transactions /\ OwnInv("perms", q, c) /\ q.op = "delete"
    BY <1>1 DEF DInv, Types, OwnInv, Control
  <2> QED
    BY <2>1, BatchFacts DEF Doc, Current, PC
<1>3. \A x \in X : x \in Rows /\ x \in Principals \X Docs /\ x \notin Docs /\ x \notin Guests
  BY <1>2, RowFacts DEF PermissionsOn
<1>4. \A x \in X : db[x] # Absent
  BY <1>2, <1>3 DEF PermissionsOn, View, OwnInv, Written
<1>5. ASSUME NEW o \in Requests \ {r}
      PROVE  (\A x \in X : tx[o].write[x] = Same) /\ tx[o].share \cap X = {}
  <2>1. tx[o].share \subseteq Docs
    BY DEF DInv, Types, Transactions
  <2> QED
    BY <1>1, <1>3, <2>1, Unblocked
<1> HIDE DEF X
<1>6. Deleting("guests", q, t)
  <2>1. /\ t.write = [x \in Rows |-> IF x \in X THEN Absent ELSE c.write[x]]
        /\ t.done = c.done
    BY <1>2 DEF Transactions
  <2>2. Finished(q, t) = Finished(q, c) /\ Current(q, t) = Current(q, c)
    BY <2>1 DEF Finished, Current
  <2>3. ASSUME NEW d \in Docs PROVE t.write[d] = c.write[d]
    <3>1. d \in Rows /\ d \notin X
      BY <1>3, RowFacts, Zenon
    <3> QED
      BY <2>1, <3>1
  <2>4. \A g \in Guests : t.write[g] = c.write[g] /\ Reads(t, g) = Reads(c, g)
    BY <1>3, <2>1, RowFacts DEF Reads
  <2>5. \A p \in Principals, d \in Docs :
            Reads(c, <<p, d>>) = Absent => Reads(t, <<p, d>>) = Absent
    BY <2>1, RowFacts DEF Reads
  <2>6. \A p \in Principals, d \in Docs : t.write[<<p, d>>] = Absent => db[<<p, d>>] # Absent
    BY <1>2, <1>4, <2>1, RowFacts DEF OwnInv, Deleting, Rows
  <2>7. \A d \in Finished(q, c) : d \in Docs
    BY <1>2, BatchFacts DEF PC
  <2> QED
    BY <1>2, <2>2, <2>3, <2>4, <2>5, <2>6, <2>7 DEF OwnInv, Deleting
<1> QED
  BY <1>1, <1>3, <1>5, <1>6, DeleteStep

LEMMA DeleteGuestsIInv ==
    ASSUME DInv, NEW r \in Requests, DeleteGuestsByDocument(r)
    PROVE  DInv'
<1> DEFINE q == req[r]
           c == tx[r]
           d0 == Doc(r)
           X == GuestsOf(r, d0)
           t == [c EXCEPT !.write = [x \in Rows |-> IF x \in X THEN Absent ELSE c.write[x]]]
<1>1. /\ pc[r] = "guests" /\ Blockers(r) = {} /\ Delete(r, X, "doc")
      /\ Locks(r) = X
  BY DEF DeleteGuestsByDocument, Locks
<1>2. c \in Transactions /\ OwnInv("guests", q, c) /\ q.op = "delete" /\ d0 \in Docs
  <2>1. c \in Transactions /\ OwnInv("guests", q, c) /\ q.op = "delete"
    BY <1>1 DEF DInv, Types, OwnInv, Control
  <2> QED
    BY <2>1, BatchFacts DEF Doc, Current, PC
<1>3. \A x \in X : x \in Rows /\ x \in Guests /\ x \notin Docs
  BY RowFacts DEF GuestsOf
<1>4. \A x \in X : db[x] = d0
  BY <1>2, <1>3, RowFacts DEF GuestsOf, View, OwnInv, Written
<1>5. ASSUME NEW o \in Requests \ {r}
      PROVE  (\A x \in X : tx[o].write[x] = Same) /\ tx[o].share \cap X = {}
  <2>1. tx[o].share \subseteq Docs
    BY DEF DInv, Types, Transactions
  <2> QED
    BY <1>1, <1>3, <2>1, Unblocked
<1> HIDE DEF X
<1>6. Deleting("doc", q, t)
  <2>1. /\ t.write = [x \in Rows |-> IF x \in X THEN Absent ELSE c.write[x]]
        /\ t.done = c.done
    BY <1>2 DEF Transactions
  <2>2. /\ Finished(q, t) = Finished(q, c) /\ Current(q, t) = Current(q, c)
        /\ Current(q, c) = d0
    BY <2>1 DEF Finished, Current, Doc
  <2>3. ASSUME NEW d \in Docs PROVE t.write[d] = c.write[d]
    <3>1. d \in Rows /\ d \notin X
      BY <1>3, RowFacts, Zenon
    <3> QED
      BY <2>1, <3>1
  <2>4. ASSUME NEW g \in Guests
        PROVE  /\ g \in X => t.write[g] = Absent /\ Reads(t, g) = Absent
               /\ g \notin X => t.write[g] = c.write[g] /\ Reads(t, g) = Reads(c, g)
    <3>1. g \in Rows
      BY RowFacts
    <3> QED
      BY <2>1, <3>1, RowFacts DEF Reads
  <2>5. ASSUME NEW p \in Principals, NEW d \in Docs
        PROVE  /\ t.write[<<p, d>>] = c.write[<<p, d>>]
               /\ Reads(t, <<p, d>>) = Reads(c, <<p, d>>)
    <3>1. <<p, d>> \in Rows /\ <<p, d>> \notin X
      BY <1>3, RowFacts, Zenon
    <3> QED
      BY <2>1, <3>1 DEF Reads
  <2>6. \A d \in Finished(q, c) : d \in Docs
    BY <1>2, BatchFacts DEF PC
  <2>7. \A d \in Docs : t.write[d] = Absent => db[d] # Absent /\ d \in Finished(q, t)
    BY <1>2, <2>2, <2>3 DEF OwnInv, Deleting
  <2>8. \A g \in Guests : t.write[g] = Absent =>
            db[g] \in Docs /\ (db[g] \in Finished(q, t) \/ db[g] = d0)
    BY <1>2, <1>4, <2>2, <2>4 DEF OwnInv, Deleting
  <2>9. \A p \in Principals, d \in Docs : t.write[<<p, d>>] = Absent => db[<<p, d>>] # Absent
    <3>1. \A p \in Principals, d \in Docs : c.write[<<p, d>>] = Absent => db[<<p, d>>] # Absent
      BY <1>2 DEF OwnInv, Deleting
    <3> QED
      BY <3>1, <2>5
  <2>10. ASSUME NEW d \in Finished(q, t)
         PROVE  /\ t.write[d] = Absent
                /\ \A p \in Principals : Reads(t, <<p, d>>) = Absent
                /\ \A g \in Guests : Reads(t, g) # d
    BY <1>2, <2>2, <2>3, <2>4, <2>5, <2>6, RowFacts, SMTT(40) DEF OwnInv, Deleting
  <2> QED
    BY <2>2, <2>7, <2>8, <2>9, <2>10 DEF Deleting
<1> QED
  BY <1>1, <1>3, <1>5, <1>6, DeleteStep

LEMMA DeleteRowIInv ==
    ASSUME DInv, NEW r \in Requests, DeleteRow(r)
    PROVE  DInv'
<1> DEFINE q == req[r]
           c == tx[r]
           d0 == Doc(r)
           X == {d0}
           t == [c EXCEPT !.write = [x \in Rows |-> IF x \in X THEN Absent ELSE c.write[x]]]
<1>1. pc[r] = "doc" /\ Blockers(r) = {} /\ Locks(r) = {d0}
  BY DEF DeleteRow, Locks
<1>2. c \in Transactions /\ OwnInv("doc", q, c) /\ q.op = "delete" /\ d0 \in Docs
  <2>1. c \in Transactions /\ OwnInv("doc", q, c) /\ q.op = "delete"
    BY <1>1 DEF DInv, Types, OwnInv, Control
  <2> QED
    BY <2>1, BatchFacts DEF Doc, Current, PC
<1>3. CASE View(r, d0) = Absent
  <2>1. Rollback(r, "notfound") /\ "notfound" \in Answers
    BY <1>3 DEF DeleteRow, Answers
  <2> QED
    BY <2>1, RollbackStep
<1>4. CASE View(r, d0) # Absent
  <2>1. Delete(r, X, "fk")
    BY <1>4 DEF DeleteRow
  <2>2. d0 \in Rows /\ db[d0] # Absent
    BY <1>2, <1>4, RowFacts DEF View, OwnInv, Written
  <2>3. ASSUME NEW o \in Requests \ {r}
        PROVE  (\A x \in X : tx[o].write[x] = Same) /\ tx[o].share \cap X = {}
    BY <1>1, Unblocked
  <2>4. Deleting("fk", q, t)
    <3>1. /\ t.write = [x \in Rows |-> IF x = d0 THEN Absent ELSE c.write[x]]
          /\ t.done = c.done
      BY <1>2 DEF Transactions
    <3>2. /\ Finished(q, t) = Finished(q, c) /\ Current(q, t) = Current(q, c)
          /\ Current(q, c) = d0
      BY <3>1 DEF Finished, Current, Doc
    <3>3. ASSUME NEW g \in Guests PROVE t.write[g] = c.write[g] /\ Reads(t, g) = Reads(c, g)
      <4>1. g \in Rows /\ g # d0
        BY <1>2, RowFacts, Zenon
      <4> QED
        BY <3>1, <4>1 DEF Reads
    <3>4. ASSUME NEW p \in Principals, NEW d \in Docs
          PROVE  /\ t.write[<<p, d>>] = c.write[<<p, d>>]
                 /\ Reads(t, <<p, d>>) = Reads(c, <<p, d>>)
      <4>1. <<p, d>> \in Rows /\ <<p, d>> # d0
        BY <1>2, RowFacts, Zenon
      <4> QED
        BY <3>1, <4>1 DEF Reads
    <3>5. \A d \in Docs : d \in Rows
      BY RowFacts, Zenon
    <3>6. \A d \in Finished(q, c) : d \in Docs
      BY <1>2, BatchFacts DEF PC
    <3>7. \A d \in Docs : t.write[d] = Absent =>
              db[d] # Absent /\ (d \in Finished(q, t) \/ d = d0)
      BY <1>2, <2>2, <3>1, <3>2, <3>5 DEF OwnInv, Deleting
    <3>8. \A g \in Guests : t.write[g] = Absent =>
              db[g] \in Docs /\ (db[g] \in Finished(q, t) \/ db[g] = d0)
      BY <1>2, <3>2, <3>3 DEF OwnInv, Deleting
    <3>9. \A p \in Principals, d \in Docs : t.write[<<p, d>>] = Absent => db[<<p, d>>] # Absent
      <4>1. \A p \in Principals, d \in Docs : c.write[<<p, d>>] = Absent => db[<<p, d>>] # Absent
        BY <1>2 DEF OwnInv, Deleting
      <4> QED
        BY <4>1, <3>4
    <3>10. ASSUME NEW d \in Finished(q, t)
           PROVE  /\ t.write[d] = Absent
                  /\ \A p \in Principals : Reads(t, <<p, d>>) = Absent
                  /\ \A g \in Guests : Reads(t, g) # d
      BY <1>2, <3>1, <3>2, <3>3, <3>4, <3>5, <3>6 DEF OwnInv, Deleting
    <3>11. t.write[d0] = Absent
      BY <2>2, <3>1
    <3> QED
      BY <3>2, <3>7, <3>8, <3>9, <3>10, <3>11 DEF Deleting
  <2> QED
    BY <1>1, <2>1, <2>2, <2>3, <2>4, DeleteStep
<1> QED
  BY <1>3, <1>4

\* Who writes a level has locked the document or a permission that is there.
LEMMA GrantFacts ==
    ASSUME NEW l \in PC, NEW q, NEW t \in Transactions, OwnInv(l, q, t),
           NEW p \in Principals, NEW d \in Docs, t.write[<<p, d>>] \notin {Same, Absent}
    PROVE  /\ l = "commit" /\ q.op \in {"guest", "upsert"}
           /\ q.docs[1] = d /\ q.who = p
           /\ d \in t.share \/ db[<<p, d>>] # Absent
<1> DEFINE x == <<p, d>>
<1>1. x \in Rows /\ x \notin Guests
  BY RowFacts, Zenon
<1>2. t # EmptyTx
  BY <1>1, EmptyFacts
<1>3. q.op \in {"guest", "upsert"} /\ l \in {"perm", "commit"}
  BY <1>1, <1>2 DEF OwnInv, Written, Control, PC
<1>4. CASE q.op = "guest"
  <2>1. x # q.who
    BY <1>1, <1>4 DEF OwnInv, Names
  <2>2. x = <<q.who, q.docs[1]>> /\ l = "commit"
    BY <1>1, <1>3, <1>4, <2>1 DEF OwnInv, Written
  <2> QED
    BY <1>3, <1>4, <2>2 DEF OwnInv, Written
<1>5. CASE q.op = "upsert"
  <2>1. l = "commit"
    BY <1>3, <1>5 DEF OwnInv, Control
  <2>2. x = <<q.who, q.docs[1]>>
    BY <1>1, <1>5, <2>1 DEF OwnInv, Written
  <2> QED
    BY <1>5, <2>1, <2>2 DEF OwnInv, Granting
<1> QED
  BY <1>3, <1>4, <1>5

LEMMA ForeignKeysIInv ==
    ASSUME DInv, NEW r \in Requests, ForeignKeys(r)
    PROVE  DInv'
<1> DEFINE q == req[r]
           c == tx[r]
           d0 == Doc(r)
           t == [c EXCEPT !.done = @ + 1]
           l == IF c.done + 1 = Len(q.docs) THEN "commit" ELSE "perms"
<1>1. pc[r] = "fk" /\ Locks(r) = PermissionsOn(r, d0) \cup GuestsOf(r, d0)
  BY DEF ForeignKeys, Locks
<1>2. c \in Transactions /\ OwnInv("fk", q, c) /\ q.op = "delete"
  BY <1>1 DEF DInv, Types, OwnInv, Control
<1>3. d0 \in Docs /\ c.done < Len(q.docs) /\ c.done \in Nat /\ Len(q.docs) \in Nat
  BY <1>2, BatchFacts DEF Doc, Current, PC
<1>4. CASE Locks(r) # {}
  <2>1. Rollback(r, "internal") /\ "internal" \in Answers
    BY <1>4 DEF ForeignKeys, Answers
  <2> QED
    BY <2>1, RollbackStep
<1>5. CASE Locks(r) = {}
  <2>1. Goto(r, l) /\ tx' = [tx EXCEPT ![r].done = @ + 1]
    BY <1>5 DEF ForeignKeys
  <2>2. /\ \A p \in Principals : Reads(c, <<p, d0>>) = Absent
        /\ \A g \in Guests : Reads(c, g) # d0
    BY <1>1, <1>5 DEF PermissionsOn, GuestsOf, View, Reads
  <2>3. /\ t.write = c.write /\ t.share = c.share /\ t.missed = c.missed
        /\ t.done = c.done + 1
    BY <1>2 DEF Transactions
  <2>4. t.done \in 0..MaxBatch
    BY <1>2, <1>3, <2>3, DocumentsAssumption DEF OwnInv, Names
  <2>5. t \in Transactions
    BY <1>2, <2>3, <2>4 DEF Transactions
  <2>6. Finished(q, t) = Finished(q, c) \cup {d0}
    <3>1. 1..(c.done + 1) = 1..c.done \cup {c.done + 1}
      BY <1>3
    <3> QED
      BY <2>3, <3>1 DEF Finished, Doc
  <2>7. Current(q, c) = d0
    BY DEF Current, Doc
  <2> HIDE DEF t
  <2>8. OwnInv(l, q, t)
    <3>1. Control(l, q, t)
      BY <1>2, <1>3, <2>3 DEF OwnInv, Control
    <3>2. Names(l, q, t)
      BY <1>2, <2>3 DEF OwnInv, Names
    <3>3. Written(l, q, t)
      BY <1>2, <2>3 DEF OwnInv, Written
    <3>4. Deleting(l, q, t)
      <4>1. \A x : Reads(t, x) = Reads(c, x)
        BY <2>3 DEF Reads
      <4> QED
        BY <1>2, <2>2, <2>3, <2>6, <2>7, <4>1 DEF OwnInv, Deleting
    <3>5. Granting(l, q, t)
      BY <1>2, <2>3 DEF OwnInv, Granting, Written
    <3> QED
      BY <3>1, <3>2, <3>3, <3>4, <3>5 DEF OwnInv
  <2>9. ASSUME NEW o \in Requests \ {r}
        PROVE  Together(q, t, req[o], tx[o]) /\ Together(req[o], tx[o], q, t)
    <3>1. Together(q, c, req[o], tx[o]) /\ Together(req[o], tx[o], q, c)
      BY DEF DInv, PairInv
    <3>2. ASSUME NEW p \in Principals, tx[o].write[<<p, d0>>] \notin {Same, Absent} PROVE FALSE
      <4>1. d0 \in tx[o].share \/ db[<<p, d0>>] # Absent
        BY <1>3, <3>2, GrantFacts DEF DInv, Types
      <4>2. c.write[d0] = Absent /\ Absent # Same
        BY <1>2, <2>7, RowFacts DEF OwnInv, Deleting
      <4>3. d0 \notin tx[o].share
        BY <1>3, <3>1, <4>2 DEF Together
      <4>4. <<p, d0>> \in Rows
        BY <1>3, RowFacts, Zenon
      <4>5. c.write[<<p, d0>>] # Same
        BY <2>2, <4>1, <4>3 DEF Reads
      <4> QED
        BY <3>1, <3>2, <4>4, <4>5 DEF Together
    <3>3. Together(q, t, req[o], tx[o])
      BY <2>3, <2>6, <3>1, <3>2 DEF Together
    <3>4. Together(req[o], tx[o], q, t)
      BY <2>3, <3>1 DEF Together
    <3> QED
      BY <3>3, <3>4
  <2>10. /\ pc' = [pc EXCEPT ![r] = l] /\ req' = [req EXCEPT ![r] = q]
         /\ tx' = [tx EXCEPT ![r] = t] /\ up
         /\ UNCHANGED <<db, creator, issued, up>>
         /\ reply' \in [Requests -> Answers] /\ overlapped' \in [Requests -> BOOLEAN]
    BY <1>1, <2>1 DEF DInv, Types, Goto, t
  <2>11. l \in PC
    BY DEF PC
  <2> HIDE DEF l, q
  <2> QED
    BY <2>5, <2>8, <2>9, <2>10, <2>11, LocalStep
<1> QED
  BY <1>4, <1>5

-----------------------------------------------------------------------------
(* Grants.                                                                 *)

LEMMA GetDocumentIInv ==
    ASSUME DInv, NEW r \in Requests, GetDocument(r)
    PROVE  DInv'
<1> DEFINE q == req[r]
<1>1. pc[r] = "check"
  BY DEF GetDocument
<1>2. CASE db[Doc(r)] = Absent
  <2>1. Rollback(r, "notfound") /\ "notfound" \in Answers
    BY <1>2 DEF GetDocument, Answers
  <2> QED
    BY <2>1, RollbackStep
<1>3. CASE db[Doc(r)] # Absent
  <2>1. Goto(r, q.op) /\ UNCHANGED tx
    BY <1>3 DEF GetDocument
  <2>2. /\ OwnInv("check", q, EmptyTx) /\ tx[r] = EmptyTx
        /\ q.op \in {"guest", "upsert"} /\ q.op \in PC
    BY <1>1 DEF DInv, OwnInv, Control, Written, PC
  <2>3. db[q.docs[1]] # Absent
    BY <1>3, <2>2, EmptyFacts DEF Doc
  <2>4. OwnInv(q.op, q, EmptyTx)
    <3>1. Control(q.op, q, EmptyTx)
      BY <2>2 DEF Control
    <3>2. Names(q.op, q, EmptyTx)
      BY <2>2 DEF OwnInv, Names
    <3>3. Written(q.op, q, EmptyTx)
      BY <2>2, EmptyFacts DEF Written
    <3>4. Deleting(q.op, q, EmptyTx)
      BY <2>2 DEF Deleting
    <3>5. Granting(q.op, q, EmptyTx)
      BY <2>2, <2>3, EmptyFacts DEF Granting
    <3> QED
      BY <3>1, <3>2, <3>3, <3>4, <3>5 DEF OwnInv
  <2>5. \A o \in Requests \ {r} : /\ Together(q, EmptyTx, req[o], tx[o])
                                  /\ Together(req[o], tx[o], q, EmptyTx)
    BY <2>2 DEF DInv, PairInv
  <2>6. /\ pc' = [pc EXCEPT ![r] = q.op] /\ req' = [req EXCEPT ![r] = q]
        /\ tx' = [tx EXCEPT ![r] = EmptyTx] /\ up
        /\ UNCHANGED <<db, creator, issued, up>>
        /\ reply' \in [Requests -> Answers] /\ overlapped' \in [Requests -> BOOLEAN]
    BY <1>1, <2>1, <2>2 DEF DInv, Types, Goto
  <2> HIDE DEF q
  <2> QED
    BY <2>2, <2>4, <2>5, <2>6, EmptyFacts, LocalStep
<1> QED
  BY <1>2, <1>3

\* Nobody else has written a row of a guest that is being created.
LEMMA NewGuestRows ==
    ASSUME DInv, NEW g \in Guests \ issued, NEW o \in Requests, req[o].who # g
    PROVE  /\ tx[o].write[g] = Same
           /\ \A d \in Docs : tx[o].write[<<g, d>>] = Same
<1> DEFINE q == req[o]
           t == tx[o]
<1>1. /\ OwnInv(pc[o], q, t) /\ t \in Transactions /\ pc[o] \in PC
      /\ g \in Rows /\ g \in Principals
  BY RowFacts DEF DInv, Types
<1>2. db[g] = Absent
  BY DEF DInv, Tables
<1>3. ASSUME NEW d \in Docs PROVE t.write[<<g, d>>] = Same
  <2>1. db[<<g, d>>] = Absent
    BY <1>1, RowFacts DEF DInv, Tables
  <2>2. t.write[<<g, d>>] \in {Same, Absent}
    BY <1>1, GrantFacts
  <2>3. <<g, d>> \in Rows /\ <<g, d>> \notin Guests
    BY <1>1, RowFacts, Zenon
  <2>4. ASSUME t.write[<<g, d>>] = Absent PROVE FALSE
    <3>1. q.op # "delete"
      BY <1>1, <2>1, <2>4 DEF OwnInv, Deleting
    <3>2. t # EmptyTx
      BY <2>3, <2>4, EmptyFacts, RowFacts
    <3>3. q.op \in {"guest", "upsert"} /\ (q.op = "guest" => <<g, d>> # q.who)
      BY <1>1, <2>3, <3>1, <3>2, RowFacts DEF OwnInv, Written, Names
    <3>4. <<g, d>> # <<q.who, q.docs[1]>>
      OBVIOUS
    <3> QED
      BY <1>1, <2>3, <2>4, <3>2, <3>3, <3>4, RowFacts DEF OwnInv, Written, Control, PC
  <2> QED
    BY <2>2, <2>4
<1>4. ASSUME t.write[g] # Same PROVE FALSE
  <2>1. q.op # "delete"
    BY <1>1, <1>2, <1>4, RowFacts DEF OwnInv, Deleting, Written
  <2>2. t # EmptyTx
    BY <1>1, <1>4, EmptyFacts
  <2>3. q.op \in {"guest", "upsert"}
    BY <1>1, <2>1, <2>2 DEF OwnInv, Written
  <2>4. g # <<q.who, q.docs[1]>>
    <3>1. q.who \in Principals /\ q.docs[1] \in Docs
      BY <1>1, <2>3 DEF OwnInv, Names, DInv, Types, Principals
    <3> QED
      BY <3>1, PairRow
  <2> QED
    BY <1>1, <1>4, <2>2, <2>3, <2>4 DEF OwnInv, Written, Control, PC
<1> QED
  BY <1>3, <1>4

LEMMA InsertTx ==
    ASSUME Types, NEW r \in Requests, NEW x \in Rows, NEW c \in Contents, NEW d \in Docs,
           NEW l, Insert(r, x, c, d, l), d \notin tx[r].missed
    PROVE  \E t \in Transactions :
                /\ tx' = [tx EXCEPT ![r] = t]
                /\ \A y \in Rows : t.write[y] = IF y = x THEN c ELSE tx[r].write[y]
                /\ t.share = tx[r].share \cup {d}
                /\ t.missed = tx[r].missed /\ t.done = tx[r].done
<1> DEFINE c0 == tx[r]
           c1 == [c0 EXCEPT !.write = [@ EXCEPT ![x] = c]]
           c2 == [c1 EXCEPT !.share = @ \cup {d}]
<1>1. c0 \in Transactions
  BY DEF Types
<1>2. /\ c1 \in Transactions
      /\ \A y \in Rows : c1.write[y] = IF y = x THEN c ELSE c0.write[y]
      /\ c1.share = c0.share /\ c1.missed = c0.missed /\ c1.done = c0.done
  BY <1>1 DEF Transactions
<1>3. tx' = [tx EXCEPT ![r] = c2]
  <2>1. tx' = [tx EXCEPT ![r].write[x] = c, ![r].share = @ \cup {d}]
    BY DEF Insert
  <2> QED
    BY <2>1 DEF Types
<1> HIDE DEF c0, c1
<1>4. /\ c2 \in Transactions
      /\ c2.write = c1.write /\ c2.share = c1.share \cup {d}
      /\ c2.missed = c1.missed /\ c2.done = c1.done
  BY <1>2 DEF Transactions
<1> HIDE DEF c2
<1> QED
  BY <1>2, <1>3, <1>4 DEF c0

\* r's transaction writes row x of a grant, and locks its document.
LEMMA InsertStep ==
    ASSUME DInv, NEW r \in Requests, NEW l \in {"perm", "commit"},
           NEW x \in Rows \ Docs, NEW t \in Transactions,
           \A y \in Rows \ {x} : t.write[y] = tx[r].write[y],
           pc[r] # "idle", req[r].op \in {"guest", "upsert"},
           Goto(r, l), tx' = [tx EXCEPT ![r] = t],
           OwnInv(l, req[r], t),
           \A o \in Requests \ {r} :
                /\ tx[o].write[x] = Same
                /\ \A d \in t.share \ tx[r].share : tx[o].write[d] = Same
                /\ req[o].op = "delete" => \A p \in Principals, d \in Docs :
                        x = <<p, d>> => d \notin Finished(req[o], tx[o])
    PROVE  DInv'
<1> DEFINE q == req[r]
<1>1. /\ tx[r] \in Transactions
      /\ \A o \in Requests : /\ OwnInv(pc[o], req[o], tx[o])
                             /\ pc[o] \in PC /\ tx[o] \in Transactions
  BY DEF DInv, Types
<1>2. \A d \in Docs : d \in Rows /\ d # x
  BY RowFacts, Zenon
<1>3. ASSUME NEW o \in Requests \ {r}
      PROVE  Together(q, t, req[o], tx[o]) /\ Together(req[o], tx[o], q, t)
  <2>1. Together(q, tx[r], req[o], tx[o]) /\ Together(req[o], tx[o], q, tx[r])
    BY DEF DInv, PairInv
  <2>2. Together(q, t, req[o], tx[o])
    BY <1>2, <2>1 DEF Together
  <2>3. ASSUME req[o].op = "delete", NEW d \in Finished(req[o], tx[o]), NEW p \in Principals
        PROVE  t.write[<<p, d>>] \in {Same, Absent}
    <3>1. d \in Docs
      BY <1>1, <2>3, BatchFacts
    <3>2. <<p, d>> \in Rows
      BY <3>1, RowFacts, Zenon
    <3> QED
      BY <2>1, <2>3, <3>1, <3>2 DEF Together
  <2>4. Together(req[o], tx[o], q, t)
    BY <2>1, <2>3 DEF Together
  <2> QED
    BY <2>2, <2>4
<1>4. /\ pc' = [pc EXCEPT ![r] = l] /\ req' = [req EXCEPT ![r] = q] /\ up
      /\ UNCHANGED <<db, creator, issued, up>>
      /\ reply' \in [Requests -> Answers] /\ overlapped' \in [Requests -> BOOLEAN]
  BY DEF DInv, Types, Goto
<1>5. l \in PC
  BY DEF PC
<1> HIDE DEF q
<1> QED
  BY <1>3, <1>4, <1>5, LocalStep DEF q

LEMMA InsertGuestIInv ==
    ASSUME DInv, NEW r \in Requests, InsertGuest(r)
    PROVE  DInv'
<1> DEFINE q == req[r]
           c == tx[r]
           d0 == q.docs[1]
           g == q.who
<1>1. pc[r] = "guest" /\ Blockers(r) = {}
  BY DEF InsertGuest
<1>2. /\ c \in Transactions /\ OwnInv("guest", q, c) /\ q.op = "guest"
      /\ g \in Guests \ issued /\ d0 \in Docs /\ c.done = 0
      /\ c.share = {} /\ \A x \in Rows : c.write[x] = Same
  BY <1>1 DEF DInv, Types, OwnInv, Control, Names, Written
<1>3. Doc(r) = d0 /\ Locks(r) = {d0}
  BY <1>1, <1>2 DEF Doc, Locks
<1>4. CASE d0 \in c.missed
  <2>1. Rollback(r, "internal") /\ "internal" \in Answers
    BY <1>3, <1>4 DEF InsertGuest, Insert, Answers
  <2> QED
    BY <2>1, RollbackStep
<1>5. CASE d0 \notin c.missed
  <2>1. /\ Goto(r, "perm")
        /\ Insert(r, g, d0, d0, "perm")
    BY <1>3, <1>5 DEF InsertGuest, Insert
  <2>2. g \in Rows /\ g \notin Docs /\ d0 \in Contents /\ g \in Principals
    BY <1>2, RowFacts DEF Contents
  <2>3. PICK t \in Transactions :
            /\ tx' = [tx EXCEPT ![r] = t]
            /\ \A x \in Rows : t.write[x] = IF x = g THEN d0 ELSE c.write[x]
            /\ t.share = c.share \cup {d0} /\ t.missed = c.missed /\ t.done = c.done
    BY <1>2, <1>5, <2>1, <2>2, InsertTx, SMTT(40) DEF DInv
  <2>4. t.share = {d0} /\ t.missed = c.missed /\ t.done = 0
    BY <1>2, <2>3
  <2>5. \A x \in Rows : t.write[x] = IF x = g THEN d0 ELSE Same
    BY <1>2, <2>3
  <2>6. OwnInv("perm", q, t)
    <3>1. Control("perm", q, t)
      BY <1>2 DEF Control
    <3>2. Names("perm", q, t)
      BY <1>2, <2>4 DEF OwnInv, Names
    <3>3. Written("perm", q, t)
      <4>1. <<g, d0>> \in Rows /\ <<g, d0>> # g
        BY <1>2, <2>2, PairRow
      <4> QED
        BY <1>2, <2>2, <2>4, <2>5, <4>1 DEF Written
    <3>4. Deleting("perm", q, t)
      BY <1>2 DEF Deleting
    <3>5. Granting("perm", q, t)
      BY <1>2, <1>5, <2>4 DEF OwnInv, Granting
    <3> QED
      BY <3>1, <3>2, <3>3, <3>4, <3>5 DEF OwnInv
  <2>7. ASSUME NEW o \in Requests \ {r}
        PROVE  /\ tx[o].write[g] = Same /\ tx[o].write[d0] = Same
               /\ \A p \in Principals, d \in Docs : g # <<p, d>>
    <3>1. req[o].who # g
      BY <1>2 DEF DInv, PairInv, Together
    <3>2. tx[o].write[g] = Same
      BY <1>2, <3>1, NewGuestRows
    <3>3. tx[o].write[d0] = Same
      BY <1>1, <1>3, Unblocked
    <3>4. \A p \in Principals, d \in Docs : g # <<p, d>>
      BY <1>2, PairRow
    <3> QED
      BY <3>2, <3>3, <3>4
  <2>8. (\A x \in Rows \ {g} : t.write[x] = c.write[x]) /\ g \in Rows \ Docs
    BY <2>2, <2>3
  <2>9. \A o \in Requests \ {r} :
            /\ tx[o].write[g] = Same
            /\ \A d \in t.share \ tx[r].share : tx[o].write[d] = Same
            /\ req[o].op = "delete" => \A p \in Principals, d \in Docs :
                    g = <<p, d>> => d \notin Finished(req[o], tx[o])
    BY <2>4, <2>7
  <2>10. pc[r] # "idle" /\ req[r].op \in {"guest", "upsert"} /\ "perm" \in {"perm", "commit"}
    BY <1>1, <1>2
  <2> HIDE DEF g
  <2> QED
    BY <2>1, <2>3, <2>6, <2>8, <2>9, <2>10, InsertStep, ZenonT(40)
<1> QED
  BY <1>4, <1>5

\* Who has finished with a document has locked it, and nothing refers to it.
LEMMA FinishedFacts ==
    ASSUME DInv, NEW o \in Requests, req[o].op = "delete",
           NEW d \in Finished(req[o], tx[o]), NEW p \in Principals
    PROVE  /\ d \in Docs /\ tx[o].write[d] # Same
           /\ db[<<p, d>>] # Absent => tx[o].write[<<p, d>>] # Same
<1>1. OwnInv(pc[o], req[o], tx[o]) /\ pc[o] \in PC /\ tx[o] \in Transactions
  BY DEF DInv, Types
<1>2. tx[o].write[d] = Absent /\ Reads(tx[o], <<p, d>>) = Absent
  BY <1>1 DEF OwnInv, Deleting
<1> QED
  BY <1>1, <1>2, BatchFacts, RowFacts DEF Reads

LEMMA InsertPermissionGuestIInv ==
    ASSUME DInv, NEW r \in Requests, InsertPermissionGuest(r)
    PROVE  DInv'
<1> DEFINE q == req[r]
           c == tx[r]
           d0 == q.docs[1]
           g == q.who
           x == <<g, d0>>
           a == AsGuest[q.arg]
<1>1. pc[r] = "perm"
  BY DEF InsertPermissionGuest
<1>2. /\ c \in Transactions /\ OwnInv("perm", q, c) /\ q.op = "guest"
      /\ g \in Guests \ issued /\ d0 \in Docs /\ c.done = 0 /\ q.arg \in Granted
      /\ c.share = {d0} /\ c.write[g] = d0
      /\ \A y \in Rows \ {g} : c.write[y] = Same
  BY <1>1 DEF DInv, Types, OwnInv, Control, Names, Written
<1>3. Doc(r) = d0
  BY <1>2 DEF Doc
<1>4. CASE d0 \in c.missed
  <2>1. Rollback(r, "internal") /\ "internal" \in Answers
    BY <1>3, <1>4 DEF InsertPermissionGuest, Insert, Answers
  <2> QED
    BY <2>1, RollbackStep
<1>5. CASE d0 \notin c.missed
  <2>1. /\ Goto(r, "commit")
        /\ Insert(r, x, a, d0, "commit")
    BY <1>3, <1>5 DEF InsertPermissionGuest, Insert
  <2>2. /\ g \in Principals /\ a \in Contents
        /\ x \in Rows /\ x \notin Docs /\ x # g
    BY <1>2, RowFacts, PairRow, GuestLevels
  <2>3. PICK t \in Transactions :
            /\ tx' = [tx EXCEPT ![r] = t]
            /\ \A y \in Rows : t.write[y] = IF y = x THEN a ELSE c.write[y]
            /\ t.share = c.share \cup {d0} /\ t.missed = c.missed /\ t.done = c.done
    <3> HIDE DEF x, a
    <3> QED
      BY <1>2, <1>5, <2>1, <2>2, InsertTx, SMTT(40) DEF DInv
  <2>4. t.share = {d0} /\ t.missed = c.missed /\ t.done = 0
    BY <1>2, <2>3
  <2>5. \A y \in Rows : t.write[y] = IF y = x THEN a ELSE IF y = g THEN d0 ELSE Same
    BY <1>2, <2>3
  <2>6. OwnInv("commit", q, t)
    <3>1. Control("commit", q, t)
      BY <1>2 DEF Control
    <3>2. Names("commit", q, t)
      BY <1>2, <2>4 DEF OwnInv, Names
    <3>3. Written("commit", q, t)
      <4>1. g \in Rows
        BY <1>2, RowFacts
      <4> QED
        BY <1>2, <2>2, <2>4, <2>5, <4>1 DEF Written
    <3>4. Deleting("commit", q, t)
      BY <1>2 DEF Deleting
    <3>5. Granting("commit", q, t)
      BY <1>2, <2>4 DEF OwnInv, Granting
    <3> QED
      BY <3>1, <3>2, <3>3, <3>4, <3>5 DEF OwnInv
  <2>7. ASSUME NEW o \in Requests \ {r}
        PROVE  /\ tx[o].write[x] = Same
               /\ req[o].op = "delete" => d0 \notin Finished(req[o], tx[o])
    <3>1. req[o].who # g
      BY <1>2 DEF DInv, PairInv, Together
    <3>2. tx[o].write[x] = Same
      BY <1>2, <3>1, NewGuestRows
    <3>3. Together(req[o], tx[o], q, c)
      BY DEF DInv, PairInv
    <3>4. tx[o].write[d0] = Same
      BY <1>2, <3>3 DEF Together
    <3> QED
      BY <2>2, <3>2, <3>4, FinishedFacts
  <2>8. (\A y \in Rows \ {x} : t.write[y] = c.write[y]) /\ x \in Rows \ Docs
    BY <2>2, <2>3
  <2>9. \A o \in Requests \ {r} :
            /\ tx[o].write[x] = Same
            /\ \A d \in t.share \ tx[r].share : tx[o].write[d] = Same
            /\ req[o].op = "delete" => \A p \in Principals, d \in Docs :
                    x = <<p, d>> => d \notin Finished(req[o], tx[o])
    BY <1>2, <2>4, <2>7
  <2>10. pc[r] # "idle" /\ req[r].op \in {"guest", "upsert"} /\ "commit" \in {"perm", "commit"}
    BY <1>1, <1>2
  <2> HIDE DEF x, a
  <2> QED
    BY <2>1, <2>3, <2>6, <2>8, <2>9, <2>10, InsertStep
<1> QED
  BY <1>4, <1>5

LEMMA UpsertIInv ==
    ASSUME DInv, NEW r \in Requests, UpsertPermissionUser(r)
    PROVE  DInv'
<1> DEFINE q == req[r]
           c == tx[r]
           d0 == q.docs[1]
           x == <<q.who, d0>>
           a == IF db[x] \in GuestRows THEN AsGuest[q.arg] ELSE q.arg
<1>1. pc[r] = "upsert" /\ Blockers(r) = {}
  BY DEF UpsertPermissionUser
<1>2. /\ c \in Transactions /\ OwnInv("upsert", q, c) /\ q.op = "upsert"
      /\ q.who \in Users \cup issued /\ d0 \in Docs /\ c.done = 0 /\ q.arg \in Granted
      /\ c.share = {} /\ \A y \in Rows : c.write[y] = Same
  BY <1>1 DEF DInv, Types, OwnInv, Control, Names, Written
<1>3. Doc(r) = d0
  BY <1>2 DEF Doc
<1>4. Locks(r) = {x} \cup (IF db[x] = Absent THEN {d0} ELSE {})
  BY <1>1, <1>3 DEF Locks
<1>5. /\ q.who \in Principals /\ q.arg \in Contents
      /\ x \in Rows /\ x \notin Docs
      /\ a \in Contents /\ a \in {q.arg, AsGuest[q.arg]}
      /\ a \in GuestRows => db[x] \in GuestRows
      /\ db[x] = Absent => a = q.arg
  <2>1. q.who \in Principals
    BY <1>2 DEF DInv, Types, Principals
  <2>2. x \in Rows /\ x \notin Docs
    BY <1>2, <2>1, PairRow
  <2>3. q.arg \in Contents /\ AsGuest[q.arg] \in Contents /\ q.arg \notin GuestRows
    BY <1>2, GuestLevels
  <2> HIDE DEF x, q, d0
  <2> QED
    BY <2>1, <2>2, <2>3, RowFacts
<1>6. CASE Rollback(r, "internal")
  <2>1. "internal" \in Answers
    BY DEF Answers
  <2> QED
    BY <1>6, <2>1, RollbackStep
<1>7. ASSUME NEW t \in Transactions,
             Goto(r, "commit"), tx' = [tx EXCEPT ![r] = t],
             \A y \in Rows : t.write[y] = IF y = x THEN a ELSE c.write[y],
             t.done = c.done,
             db[d0] # Absent,
             (t.share = {d0} /\ db[x] = Absent) \/ (t.share = {} /\ db[x] # Absent)
      PROVE  DInv'
  <2>1. OwnInv("commit", q, t)
    <3>1. Control("commit", q, t)
      BY <1>2 DEF Control
    <3>2. Names("commit", q, t)
      BY <1>2, <1>7 DEF OwnInv, Names
    <3>3. Written("commit", q, t)
      <4>1. t.write[x] \in {q.arg, AsGuest[q.arg]}
        BY <1>5, <1>7
      <4> QED
        BY <1>2, <1>5, <1>7, <4>1 DEF Written
    <3>4. Deleting("commit", q, t)
      BY <1>2 DEF Deleting
    <3>5. Granting("commit", q, t)
      <4>1. t.write[x] \in GuestRows => db[x] \in GuestRows
        BY <1>5, <1>7
      <4> QED
        BY <1>2, <1>7, <4>1 DEF OwnInv, Granting
    <3> QED
      BY <3>1, <3>2, <3>3, <3>4, <3>5 DEF OwnInv
  <2>2. \A o \in Requests \ {r} : /\ tx[o].write[x] = Same
                                  /\ \A d \in t.share : tx[o].write[d] = Same
    BY <1>1, <1>4, <1>7, Unblocked
  <2>3. ASSUME NEW o \in Requests \ {r}, req[o].op = "delete"
        PROVE  d0 \notin Finished(req[o], tx[o])
    <3> SUFFICES ASSUME d0 \in Finished(req[o], tx[o]) PROVE FALSE
      OBVIOUS
    <3>1. /\ tx[o].write[d0] # Same
          /\ db[x] # Absent => tx[o].write[x] # Same
      BY <1>5, <2>3, FinishedFacts
    <3>2. tx[o].write[x] = Same /\ \A d \in t.share : tx[o].write[d] = Same
      BY <2>2
    <3> HIDE DEF x, d0
    <3> QED
      BY <1>7, <3>1, <3>2
  <2>4. (\A y \in Rows \ {x} : t.write[y] = c.write[y]) /\ x \in Rows \ Docs
    BY <1>5, <1>7
  <2>5. \A o \in Requests \ {r} :
            /\ tx[o].write[x] = Same
            /\ \A d \in t.share \ tx[r].share : tx[o].write[d] = Same
            /\ req[o].op = "delete" => \A p \in Principals, d \in Docs :
                    x = <<p, d>> => d \notin Finished(req[o], tx[o])
    BY <2>2, <2>3
  <2>6. pc[r] # "idle" /\ req[r].op \in {"guest", "upsert"} /\ "commit" \in {"perm", "commit"}
    BY <1>1, <1>2
  <2> HIDE DEF x, a
  <2> QED
    BY <1>7, <2>1, <2>4, <2>5, <2>6, InsertStep
<1>8. CASE db[x] = Absent /\ d0 \notin c.missed
  <2>1. /\ Goto(r, "commit")
        /\ Insert(r, x, a, d0, "commit")
    BY <1>3, <1>5, <1>8 DEF UpsertPermissionUser, Insert
  <2>2. PICK t \in Transactions :
            /\ tx' = [tx EXCEPT ![r] = t]
            /\ \A y \in Rows : t.write[y] = IF y = x THEN a ELSE c.write[y]
            /\ t.share = c.share \cup {d0} /\ t.missed = c.missed /\ t.done = c.done
    <3> HIDE DEF x, a
    <3> QED
      BY <1>2, <1>5, <1>8, <2>1, InsertTx, SMTT(40) DEF DInv
  <2>3. t.share = {d0}
    BY <1>2, <2>2
  <2>4. db[d0] # Absent
    BY <1>2, <1>8 DEF OwnInv, Granting
  <2>5. t \in Transactions /\ t.done = c.done /\ db[x] = Absent
    BY <1>8, <2>2
  <2>6. /\ Goto(r, "commit") /\ tx' = [tx EXCEPT ![r] = t]
        /\ \A y \in Rows : t.write[y] = IF y = x THEN a ELSE c.write[y]
        /\ (t.share = {d0} /\ db[x] = Absent) \/ (t.share = {} /\ db[x] # Absent)
    <3> HIDE DEF x, a, d0, c, q
    <3> QED
      BY <2>1, <2>2, <2>3, <2>5, Zenon
  <2> HIDE DEF x, a, d0, c, q
  <2> QED
    BY <1>7, <2>4, <2>5, <2>6, Zenon
<1>9. CASE db[x] # Absent /\ x \notin c.missed
  <2> DEFINE t == [c EXCEPT !.write = [@ EXCEPT ![x] = a]]
  <2>1. Goto(r, "commit") /\ tx' = [tx EXCEPT ![r].write[x] = a]
    BY <1>3, <1>9 DEF UpsertPermissionUser
  <2>2. tx' = [tx EXCEPT ![r] = t]
    BY <2>1 DEF DInv, Types
  <2>3. t \in Transactions /\ t.share = {} /\ t.done = c.done
    BY <1>2, <1>5 DEF Transactions
  <2>4. \A y \in Rows : t.write[y] = IF y = x THEN a ELSE c.write[y]
    BY <1>2, <1>5 DEF Transactions
  <2>5. db[d0] # Absent
    BY <1>2, <1>5, <1>9 DEF DInv, Tables
  <2> HIDE DEF t
  <2> QED
    BY <1>7, <1>9, <2>1, <2>2, <2>3, <2>4, <2>5
<1> QED
  BY <1>3, <1>6, <1>8, <1>9 DEF UpsertPermissionUser, Insert

-----------------------------------------------------------------------------
(* Statements that only read, and calls that end without a change.         *)

LEMMA SelectGuestIInv ==
    ASSUME DInv, NEW r \in Requests, SelectGuest(r)
    PROVE  DInv'
<1> DEFINE q == req[r]
           d0 == db[q.who]
           v == [q EXCEPT !.docs = <<d0>>]
<1>1. pc[r] = "select"
  BY DEF SelectGuest
<1>2. CASE req[r].who \notin Guests \/ db[req[r].who] = Absent
  <2>1. Rollback(r, "notfound") /\ "notfound" \in Answers
    BY <1>2 DEF SelectGuest, Answers
  <2> QED
    BY <2>1, RollbackStep
<1>3. CASE req[r].who \in Guests /\ db[req[r].who] # Absent
  <2>1. /\ OwnInv("select", q, EmptyTx) /\ tx[r] = EmptyTx
        /\ q.op = "regrade" /\ q.who \in issued \cup Users /\ q.arg \in Granted
    BY <1>1 DEF DInv, OwnInv, Control, Written, Names
  <2>2. d0 \in Docs /\ q.who \in issued
    BY <1>3, <2>1 DEF DInv, Types, Tables
  <2>3. v.op = q.op /\ v.who = q.who /\ v.arg = q.arg /\ v.docs[1] = d0
    OBVIOUS
  <2> HIDE DEF v
  <2>4. OwnInv("regrade", v, EmptyTx)
    <3>1. Control("regrade", v, EmptyTx)
      BY <2>1, <2>3 DEF Control
    <3>2. Names("regrade", v, EmptyTx)
      BY <2>1, <2>2, <2>3 DEF Names
    <3>3. Written("regrade", v, EmptyTx)
      BY <2>1, <2>3, EmptyFacts DEF Written
    <3>4. Deleting("regrade", v, EmptyTx)
      BY <2>1, <2>3 DEF Deleting
    <3>5. Granting("regrade", v, EmptyTx)
      BY <2>1, <2>3, EmptyFacts DEF Granting
    <3> QED
      BY <3>1, <3>2, <3>3, <3>4, <3>5 DEF OwnInv
  <2>5. ASSUME NEW o \in Requests \ {r}
        PROVE  Together(v, EmptyTx, req[o], tx[o]) /\ Together(req[o], tx[o], v, EmptyTx)
    <3>1. Together(q, EmptyTx, req[o], tx[o]) /\ Together(req[o], tx[o], q, EmptyTx)
      BY <2>1 DEF DInv, PairInv
    <3> QED
      BY <2>1, <2>3, <3>1 DEF Together
  <2>6. /\ pc' = [pc EXCEPT ![r] = "regrade"] /\ req' = [req EXCEPT ![r] = v]
        /\ tx' = [tx EXCEPT ![r] = EmptyTx] /\ up
        /\ UNCHANGED <<db, creator, issued, up>>
        /\ reply' \in [Requests -> Answers] /\ overlapped' \in [Requests -> BOOLEAN]
    BY <1>1, <1>3, <2>1 DEF DInv, Types, SelectGuest, v
  <2> QED
    BY <2>4, <2>5, <2>6, EmptyFacts, LocalStep DEF PC
<1> QED
  BY <1>2, <1>3

LEMMA ReadPermissionIInv ==
    ASSUME DInv, NEW r \in Requests, ReadPermission(r)
    PROVE  DInv'
<1> DEFINE x == <<req[r].who, Doc(r)>>
<1>1. /\ tx[r] = EmptyTx /\ req[r].who \in Principals /\ req[r].docs[1] \in Docs
  BY DEF ReadPermission, DInv, Types, OwnInv, Control, Names, Written, Principals
<1>2. Doc(r) \in Docs
  BY <1>1, EmptyFacts DEF Doc
<1>3. db[x] \in Levels \cup GuestRows \cup {Absent}
  BY <1>1, <1>2 DEF DInv, Tables
<1>4. PICK status \in Answers : Rollback(r, status)
  BY <1>3, GuestLevels DEF ReadPermission, Answers
<1> QED
  BY <1>4, RollbackStep

LEMMA EndIInv ==
    ASSUME DInv, NEW r \in Requests,
           \/ UpdateDocument(r)
           \/ ReadDocument(r)
           \/ QueryFails(r)
           \/ DeadlockDetected(r)
    PROVE  DInv'
<1>1. PICK status \in Answers : Rollback(r, status)
  BY DEF UpdateDocument, ReadDocument, QueryFails, DeadlockDetected, Answers
<1> QED
  BY <1>1, RollbackStep

-----------------------------------------------------------------------------
(* Steps that change the tables.                                           *)

\* The changes w of call r, with the new guests N, are none that the other
\* calls would notice in what they rest on.
Isolated(r, w, N) ==
    /\ w \in [Rows -> Contents \cup {Absent, Same}]
    /\ N \in SUBSET Guests
    /\ \A d \in Docs : w[d] \in {Absent, Same}
    /\ \A g \in Guests : w[g] \in Docs \cup {Absent, Same} /\ (w[g] \in Docs => g \in N)
    /\ \A o \in Requests \ {r} :
        /\ \A x \in Rows : w[x] # Same => tx[o].write[x] = Same
        /\ \A d \in Docs : w[d] = Absent =>
            /\ d \notin tx[o].share
            /\ \A p \in Principals : tx[o].write[<<p, d>>] \in {Same, Absent}
        /\ req[o].op = "delete" => \A d \in Finished(req[o], tx[o]) :
            /\ \A p \in Principals : w[<<p, d>>] \in {Same, Absent}
            /\ \A g \in Guests : w[g] # d
        /\ req[o].who \notin N

LEMMA PublishFacts ==
    ASSUME Types, NEW r \in Requests, NEW w, NEW N, Isolated(r, w, N), Publish(r, w)
    PROVE  /\ db' \in [Rows -> Contents \cup {Absent}]
           /\ \A x \in Rows : db'[x] = IF w[x] = Same THEN db[x] ELSE w[x]
           /\ tx' \in [Requests -> Transactions] /\ tx'[r] = EmptyTx
           /\ \A o \in Requests \ {r} :
                /\ tx'[o].write = tx[o].write /\ tx'[o].share = tx[o].share
                /\ tx'[o].done = tx[o].done
                /\ ~InSnapshot(o) => tx'[o] = tx[o]
                /\ InSnapshot(o) =>
                    \A x \in Rows \ tx'[o].missed : w[x] = Same /\ x \notin tx[o].missed
<1> DEFINE W == {x \in Rows : w[x] # Same}
<1>1. /\ db' = [x \in Rows |-> IF x \in W THEN w[x] ELSE db[x]]
      /\ tx' = [o \in Requests |->
                    IF o = r THEN EmptyTx
                    ELSE IF InSnapshot(o) THEN [tx[o] EXCEPT !.missed = @ \cup W]
                    ELSE tx[o]]
  BY DEF Publish
<1>2. /\ db' \in [Rows -> Contents \cup {Absent}]
      /\ \A x \in Rows : db'[x] = IF w[x] = Same THEN db[x] ELSE w[x]
  BY <1>1 DEF Types, Isolated
<1>3. ASSUME NEW o \in Requests \ {r}, InSnapshot(o)
      PROVE  /\ tx'[o] \in Transactions
             /\ tx'[o].write = tx[o].write /\ tx'[o].share = tx[o].share
             /\ tx'[o].done = tx[o].done /\ tx'[o].missed = tx[o].missed \cup W
  <2>1. tx'[o] = [tx[o] EXCEPT !.missed = @ \cup W] /\ tx[o] \in Transactions
    BY <1>1, <1>3 DEF Types
  <2>2. W \subseteq Rows
    OBVIOUS
  <2> HIDE DEF W
  <2> QED
    BY <2>1, <2>2 DEF Transactions
<1>4. ASSUME NEW o \in Requests \ {r}, ~InSnapshot(o) PROVE tx'[o] = tx[o]
  BY <1>1, <1>4
<1>5. tx'[r] = EmptyTx
  BY <1>1
<1>6. tx' \in [Requests -> Transactions]
  <2>1. \A o \in Requests : tx'[o] \in Transactions
    BY <1>3, <1>4, <1>5, EmptyFacts DEF Types
  <2> QED
    BY <1>1, <2>1
<1> QED
  BY <1>2, <1>3, <1>4, <1>5, <1>6

\* What another call rests on stays true.
LEMMA PublishOwn ==
    ASSUME DInv, NEW r \in Requests, NEW w, NEW N, Isolated(r, w, N), Publish(r, w),
           issued' = issued \cup N, UNCHANGED creator,
           NEW o \in Requests \ {r}, pc'[o] = pc[o], req'[o] = req[o]
    PROVE  OwnInv(pc[o], req[o], tx[o])'
<1> DEFINE q == req[o]
           t == tx[o]
           v == tx'[o]
<1>1. /\ OwnInv(pc[o], q, t) /\ pc[o] \in PC /\ t \in Transactions /\ Types
  BY DEF DInv, Types
<1>2. /\ v.write = t.write /\ v.share = t.share /\ v.done = t.done
      /\ ~InSnapshot(o) => v = t
  BY <1>1, PublishFacts
<1>3. \A x \in Rows : db'[x] = IF w[x] = Same THEN db[x] ELSE w[x]
  BY <1>1, PublishFacts
<1>4. ASSUME NEW x \in Rows, t.write[x] # Same PROVE db'[x] = db[x]
  BY <1>3, <1>4 DEF Isolated
<1>5. Control(pc[o], req[o], tx[o])'
  BY <1>1, <1>2 DEF OwnInv, Control
<1>6. Names(pc[o], req[o], tx[o])'
  <2>1. pc[o] = "regrade" => db'[q.who] \in {q.docs[1], Absent}
    <3> SUFFICES ASSUME pc[o] = "regrade" PROVE db'[q.who] \in {q.docs[1], Absent}
      OBVIOUS
    <3>1. q.who \in Guests /\ q.who \in Rows /\ db[q.who] \in {q.docs[1], Absent}
      BY <1>1, RowFacts DEF OwnInv, Control, Names, Types
    <3>2. w[q.who] \in {Absent, Same}
      BY <3>1 DEF Isolated
    <3> QED
      BY <1>3, <3>1, <3>2
  <2>2. q.op = "guest" => q.who \in Guests \ issued'
    BY <1>1 DEF OwnInv, Names, Isolated
  <2>3. q.op \in {"upsert", "regrade", "remove", "read"} => q.who \in Users \cup issued'
    BY <1>1 DEF OwnInv, Names
  <2>4. pc[o] = "regrade" => q.who \in issued'
    BY <1>1 DEF OwnInv, Names
  <2> QED
    BY <1>1, <1>2, <2>1, <2>2, <2>3, <2>4 DEF OwnInv, Names
<1>7. Written(pc[o], req[o], tx[o])'
  <2>1. q.op \notin {"delete", "guest", "upsert"} \/ pc[o] = "check" => ~InSnapshot(o)
    BY <1>1 DEF InSnapshot, OwnInv, Control
  <2> QED
    BY <1>1, <1>2, <2>1 DEF OwnInv, Written
<1>8. Deleting(pc[o], req[o], tx[o])'
  <2> SUFFICES ASSUME q.op = "delete" PROVE Deleting(pc[o], req[o], tx[o])'
    BY DEF Deleting
  <2>1. Finished(req[o], tx[o])' = Finished(q, t) /\ Current(req[o], tx[o])' = Current(q, t)
    BY <1>2 DEF Finished, Current
  <2>2. ASSUME NEW d \in Docs, t.write[d] = Absent
        PROVE  db'[d] # Absent /\ (d \in Finished(q, t) \/ (pc[o] = "fk" /\ d = Current(q, t)))
    BY <1>1, <1>4, <2>2, RowFacts DEF OwnInv, Deleting
  <2>3. ASSUME NEW g \in Guests, t.write[g] = Absent
        PROVE  /\ db'[g] \in Docs
               /\ db'[g] \in Finished(q, t) \/ (pc[o] \in {"doc", "fk"} /\ db'[g] = Current(q, t))
    <3>1. db'[g] = db[g]
      BY <1>4, <2>3, RowFacts
    <3> QED
      BY <1>1, <2>3, <3>1 DEF OwnInv, Deleting
  <2>4. ASSUME NEW p \in Principals, NEW d \in Docs, t.write[<<p, d>>] = Absent
        PROVE  db'[<<p, d>>] # Absent
    <3>1. db'[<<p, d>>] = db[<<p, d>>]
      BY <1>4, <2>4, PairRow, RowFacts
    <3> QED
      BY <1>1, <2>4, <3>1 DEF OwnInv, Deleting
  <2>5. pc[o] = "fk" => t.write[Current(q, t)] = Absent
    BY <1>1 DEF OwnInv, Deleting
  <2>6. ASSUME NEW d \in Finished(q, t)
        PROVE  /\ t.write[d] = Absent
               /\ \A p \in Principals : Reads(tx[o], <<p, d>>)' = Absent
               /\ \A g \in Guests : Reads(tx[o], g)' # d
    <3>1. d \in Docs
      BY <1>1, BatchFacts
    <3>2. /\ t.write[d] = Absent
          /\ \A p \in Principals : Reads(t, <<p, d>>) = Absent
          /\ \A g \in Guests : Reads(t, g) # d
      BY <1>1 DEF OwnInv, Deleting
    <3>3. /\ \A p \in Principals : w[<<p, d>>] \in {Same, Absent}
          /\ \A g \in Guests : w[g] # d
      BY DEF Isolated
    <3>4. ASSUME NEW p \in Principals PROVE Reads(tx[o], <<p, d>>)' = Absent
      BY <1>2, <1>3, <3>1, <3>2, <3>3, PairRow DEF Reads
    <3>5. ASSUME NEW g \in Guests PROVE Reads(tx[o], g)' # d
      BY <1>2, <1>3, <3>2, <3>3, RowFacts DEF Reads
    <3> QED
      BY <3>2, <3>4, <3>5
  <2> QED
    BY <1>2, <2>1, <2>2, <2>3, <2>4, <2>5, <2>6 DEF Deleting
<1>9. Granting(pc[o], req[o], tx[o])'
  <2>1. ASSUME NEW d \in v.share PROVE db'[d] # Absent
    <3>1. d \in Docs /\ d \in t.share /\ db[d] # Absent
      BY <1>1, <1>2 DEF OwnInv, Granting, Transactions
    <3>2. w[d] = Same
      BY <3>1 DEF Isolated
    <3> QED
      BY <1>3, <3>1, <3>2, RowFacts
  <2>2. ASSUME pc[o] \in {"guest", "perm", "upsert"}, q.docs[1] \notin v.missed
        PROVE  db'[q.docs[1]] # Absent
    <3>1. InSnapshot(o) /\ q.docs[1] \in Docs
      BY <1>1, <2>2 DEF InSnapshot, OwnInv, Control, Names
    <3>2. q.docs[1] \in Rows
      BY <3>1, RowFacts
    <3>3. w[q.docs[1]] = Same /\ q.docs[1] \notin t.missed
      BY <1>1, <2>2, <3>1, <3>2, PublishFacts
    <3> QED
      BY <1>1, <1>3, <2>2, <3>2, <3>3 DEF OwnInv, Granting
  <2>3. ASSUME q.op = "upsert", pc[o] = "commit"
        PROVE  /\ db'[q.docs[1]] # Absent
               /\ q.docs[1] \in t.share \/ db'[<<q.who, q.docs[1]>>] # Absent
               /\ t.write[<<q.who, q.docs[1]>>] \in GuestRows
                    => db'[<<q.who, q.docs[1]>>] \in GuestRows
    <3> DEFINE d == q.docs[1]
               x == <<q.who, d>>
    <3>1. /\ d \in Docs /\ q.who \in Principals /\ q.arg \in Granted
          /\ t.write[x] \in {q.arg, AsGuest[q.arg]}
      BY <1>1, <2>3 DEF OwnInv, Names, Written, Types, Principals
    <3>2. d \in Rows /\ x \in Rows
      BY <3>1, PairRow, RowFacts
    <3>3. t.write[x] \notin {Same, Absent}
      BY <3>1, GuestLevels
    <3>4. db'[x] = db[x]
      BY <1>4, <3>2, <3>3
    <3>5. w[d] # Absent
      BY <3>1, <3>3 DEF Isolated
    <3>6. w[d] = Same
      BY <3>1, <3>5 DEF Isolated
    <3>7. /\ db[d] # Absent /\ (d \in t.share \/ db[x] # Absent)
          /\ t.write[x] \in GuestRows => db[x] \in GuestRows
      BY <1>1, <2>3 DEF OwnInv, Granting
    <3> HIDE DEF x, d
    <3>8. /\ db'[d] # Absent /\ (d \in t.share \/ db'[x] # Absent)
          /\ t.write[x] \in GuestRows => db'[x] \in GuestRows
      BY <1>3, <3>2, <3>4, <3>6, <3>7
    <3> QED
      BY <3>8 DEF x, d
  <2> QED
    BY <1>2, <2>1, <2>2, <2>3 DEF Granting
<1> QED
  BY <1>5, <1>6, <1>7, <1>8, <1>9 DEF OwnInv

\* Call r changes the tables and ends.
LEMMA PublishStep ==
    ASSUME DInv, NEW r \in Requests, NEW w, NEW N, Isolated(r, w, N), Publish(r, w),
           issued' = issued \cup N, UNCHANGED <<creator, up>>,
           NEW status \in Answers, Answer(r, status),
           Tables', CreatorOwns', GuestsInSync'
    PROVE  DInv'
<1>1. /\ pc'[r] = "idle" /\ req'[r] = NoCall
      /\ \A o \in Requests \ {r} : pc'[o] = pc[o] /\ req'[o] = req[o]
  BY DEF Answer, DInv, Types
<1>2. /\ db' \in [Rows -> Contents \cup {Absent}]
      /\ tx' \in [Requests -> Transactions] /\ tx'[r] = EmptyTx
      /\ \A o \in Requests \ {r} :
            /\ tx'[o].write = tx[o].write /\ tx'[o].share = tx[o].share
            /\ tx'[o].done = tx[o].done
  <2>1. Types
    BY DEF DInv
  <2> QED
    BY <2>1, PublishFacts
<1>3. Types'
  <2>1. reply' \in [Requests -> Answers]
    BY DEF Answer, DInv, Types
  <2>2. overlapped' \in [Requests -> BOOLEAN]
    BY DEF Answer, DInv, Types
  <2>3. pc' \in [Requests -> PC] /\ \A o \in Requests : pc'[o] # "idle" => up'
    BY <1>1 DEF Answer, DInv, Types, PC
  <2>4. req' = [o \in Requests |-> req'[o]]
    BY DEF Answer, DInv, Types
  <2>5. issued' \subseteq Guests
    BY DEF DInv, Types, Isolated
  <2>6. creator' \in [Docs -> Users \cup {Absent}] /\ up' \in BOOLEAN
    BY DEF DInv, Types
  <2> QED
    BY <1>2, <2>1, <2>2, <2>3, <2>4, <2>5, <2>6 DEF Types
<1>4. ASSUME NEW o \in Requests PROVE OwnInv(pc[o], req[o], tx[o])'
  <2>1. CASE o = r
    <3>1. Control(pc[o], req[o], tx[o])'
      BY <1>1, <1>2, <2>1, EndedOwn DEF OwnInv, Control
    <3>2. Names(pc[o], req[o], tx[o])'
      BY <1>1, <1>2, <2>1, NoCallFacts DEF Names
    <3>3. Written(pc[o], req[o], tx[o])'
      BY <1>1, <1>2, <2>1, NoCallFacts, EmptyFacts DEF Written
    <3>4. Deleting(pc[o], req[o], tx[o])'
      BY <1>1, <1>2, <2>1, NoCallFacts DEF Deleting
    <3>5. Granting(pc[o], req[o], tx[o])'
      BY <1>1, <1>2, <2>1, NoCallFacts, EmptyFacts DEF Granting
    <3> QED
      BY <3>1, <3>2, <3>3, <3>4, <3>5 DEF OwnInv
  <2>2. CASE o # r
    BY <1>1, <2>2, PublishOwn
  <2> QED
    BY <2>1, <2>2
<1>5. PairInv'
  <2>1. ASSUME NEW a \in Requests \ {r}, NEW o \in Requests \ {r, a}
        PROVE  Together(req'[a], tx'[a], req'[o], tx'[o])
    <3>1. Together(req[a], tx[a], req[o], tx[o])
      BY DEF DInv, PairInv
    <3>2. /\ tx'[a].write = tx[a].write /\ tx'[a].share = tx[a].share /\ tx'[a].done = tx[a].done
          /\ tx'[o].write = tx[o].write /\ tx'[o].share = tx[o].share
          /\ req'[a] = req[a] /\ req'[o] = req[o]
      BY <1>1, <1>2
    <3> QED
      BY <3>1, <3>2 DEF Together, Finished
  <2>2. ASSUME NEW o \in Requests \ {r}
        PROVE  Together(req'[o], tx'[o], NoCall, EmptyTx) /\ Together(NoCall, EmptyTx, req'[o], tx'[o])
    <3>1. Together(req[o], tx[o], NoCall, EmptyTx) /\ Together(NoCall, EmptyTx, req[o], tx[o])
      BY EndedTogether DEF DInv, Types
    <3>2. /\ tx'[o].write = tx[o].write /\ tx'[o].share = tx[o].share /\ tx'[o].done = tx[o].done
          /\ req'[o] = req[o]
      BY <1>1, <1>2
    <3> QED
      BY <3>1, <3>2 DEF Together, Finished
  <2>3. ASSUME NEW a \in Requests, NEW o \in Requests \ {a}
        PROVE  Together(req'[a], tx'[a], req'[o], tx'[o])
    BY <1>1, <1>2, <2>1, <2>2
  <2> QED
    BY <2>3 DEF PairInv
<1> QED
  BY <1>3, <1>4, <1>5 DEF DInv

\* A statement outside a transaction changes or deletes a permission.
LEMMA AutocommitStep ==
    ASSUME DInv, NEW r \in Requests, NEW p \in Principals, NEW d \in Docs,
           NEW c \in (GuestRows \ {"guest_owner"}) \cup {Absent},
           db[<<p, d>>] # Absent, c # Absent => db[<<p, d>>] \in GuestRows,
           \A o \in Requests \ {r} : tx[o].write[<<p, d>>] = Same,
           Autocommit(r, <<p, d>>, c)
    PROVE  DInv'
<1> DEFINE x == <<p, d>>
           w == [EmptyTx.write EXCEPT ![x] = c]
<1>1. x \in Rows /\ x \notin Docs /\ \A g \in Guests : x # g
  BY PairRow
<1>2. c \in Contents \cup {Absent} /\ c # Same
  BY RowFacts DEF Contents
<1>3. /\ w \in [Rows -> Contents \cup {Absent, Same}]
      /\ w[x] = c /\ \A y \in Rows : y # x => w[y] = Same
  BY <1>1, <1>2, EmptyFacts
<1>4. Publish(r, w) /\ Answer(r, "ok") /\ UNCHANGED <<creator, issued, up>> /\ "ok" \in Answers
  BY DEF Autocommit, Answers
<1> HIDE DEF w
<1>5. ASSUME NEW o \in Requests \ {r}, req[o].op = "delete",
             NEW a \in Finished(req[o], tx[o]), NEW b \in Principals
      PROVE  a \in Docs /\ w[<<b, a>>] \in {Same, Absent}
  <2>1. a \in Docs
    BY <1>5, FinishedFacts
  <2>2. CASE <<b, a>> = x
    <3>1. db[x] # Absent /\ tx[o].write[x] = Same
      BY <1>5
    <3>2. b = p /\ a = d
      BY <2>2
    <3>3. FALSE
      BY <1>5, <3>1, <3>2, FinishedFacts
    <3> QED
      BY <3>3
  <2>3. CASE <<b, a>> # x
    <3>1. <<b, a>> \in Rows
      BY <2>1, PairRow
    <3> HIDE DEF x
    <3> QED
      BY <1>3, <2>1, <2>3, <3>1
  <2> QED
    BY <2>1, <2>2, <2>3
<1>6. Isolated(r, w, {})
  <2>1. \A a \in Docs : w[a] = Same
    BY <1>1, <1>3, RowFacts
  <2>2. \A g \in Guests : w[g] = Same
    BY <1>1, <1>3, RowFacts
  <2>3. ASSUME NEW o \in Requests \ {r}
        PROVE  /\ \A y \in Rows : w[y] # Same => tx[o].write[y] = Same
               /\ req[o].op = "delete" => \A a \in Finished(req[o], tx[o]) :
                    /\ \A b \in Principals : w[<<b, a>>] \in {Same, Absent}
                    /\ \A g \in Guests : w[g] # a
    <3>1. \A y \in Rows : w[y] # Same => tx[o].write[y] = Same
      BY <1>3
    <3>2. ASSUME req[o].op = "delete", NEW a \in Finished(req[o], tx[o])
          PROVE  /\ \A b \in Principals : w[<<b, a>>] \in {Same, Absent}
                 /\ \A g \in Guests : w[g] # a
      <4>1. a \in Docs
        BY <1>5, <3>2, FinishedFacts
      <4> QED
        BY <1>5, <2>2, <3>2, <4>1, RowFacts
    <3> QED
      BY <3>1, <3>2
  <2> HIDE DEF x
  <2> QED
    BY <1>3, <2>1, <2>2, <2>3, RowFacts DEF Isolated
<1>7. /\ db'[x] = c
      /\ \A y \in Rows : y # x => db'[y] = db[y]
  <2>1. Types
    BY DEF DInv
  <2>2. \A y \in Rows : db'[y] = IF w[y] = Same THEN db[y] ELSE w[y]
    BY <1>4, <1>6, <2>1, PublishFacts
  <2> HIDE DEF x
  <2> QED
    BY <1>1, <1>2, <1>3, <2>2
<1>8. \A a \in Docs \cup Guests : db'[a] = db[a]
  BY <1>1, <1>7, RowFacts
<1>9. ASSUME NEW b \in Principals, NEW a \in Docs
      PROVE  /\ db'[<<b, a>>] = db[<<b, a>>] \/ (b = p /\ a = d /\ db'[<<b, a>>] = c)
  <2>1. <<b, a>> \in Rows
    BY PairRow
  <2> QED
    BY <1>7, <2>1
<1>10. Tables'
  BY <1>4, <1>8, <1>9 DEF DInv, Tables
<1>11. CreatorOwns'
  <2>1. c \notin {"owner", "guest_owner"}
    BY RowFacts DEF GuestRows, Levels
  <2> QED
    BY <1>4, <1>9, <2>1 DEF DInv, CreatorOwns
<1>12. GuestsInSync'
  <2> SUFFICES ASSUME NEW b \in Principals, NEW a \in Docs, db'[<<b, a>>] \in GuestRows
               PROVE  b \in Guests /\ db'[b] = a
    BY DEF GuestsInSync
  <2>1. db[<<b, a>>] \in GuestRows
    BY <1>9, RowFacts
  <2> QED
    BY <1>8, <2>1 DEF DInv, GuestsInSync
<1> HIDE DEF x
<1>13. issued' = issued \cup {}
  BY <1>4
<1> QED
  BY <1>4, <1>6, <1>10, <1>11, <1>12, <1>13, PublishStep

LEMMA UpdatePermissionGuestIInv ==
    ASSUME DInv, NEW r \in Requests, UpdatePermissionGuest(r)
    PROVE  DInv'
<1> DEFINE p == req[r].who
           d == req[r].docs[1]
<1>1. pc[r] = "regrade" /\ Blockers(r) = {}
  BY DEF UpdatePermissionGuest
<1>2. p \in Principals /\ d \in Docs /\ req[r].arg \in Granted /\ tx[r] = EmptyTx
  BY <1>1 DEF DInv, Types, OwnInv, Control, Names, Written, Principals
<1>3. Doc(r) = d
  BY <1>2, EmptyFacts DEF Doc
<1>4. db[<<p, d>>] \in GuestRows => Locks(r) = {<<p, d>>}
  BY <1>1, <1>3 DEF Locks
<1>5. CASE Rollback(r, "notfound")
  <2>1. "notfound" \in Answers
    BY DEF Answers
  <2> QED
    BY <1>5, <2>1, RollbackStep
<1>6. CASE db[<<p, d>>] \in GuestRows /\ Autocommit(r, <<p, d>>, AsGuest[req[r].arg])
  <2>1. \A o \in Requests \ {r} : tx[o].write[<<p, d>>] = Same
    BY <1>1, <1>4, <1>6, Unblocked
  <2>2. AsGuest[req[r].arg] \in GuestRows \ {"guest_owner"} /\ db[<<p, d>>] # Absent
    BY <1>2, <1>6, GuestLevels, RowFacts
  <2> HIDE DEF p, d
  <2> QED
    BY <1>2, <1>6, <2>1, <2>2, AutocommitStep
<1> QED
  BY <1>3, <1>5, <1>6 DEF UpdatePermissionGuest

LEMMA DeletePermissionPrincipalIInv ==
    ASSUME DInv, NEW r \in Requests, DeletePermissionPrincipal(r)
    PROVE  DInv'
<1> DEFINE p == req[r].who
           d == req[r].docs[1]
<1>1. pc[r] = "remove" /\ Blockers(r) = {}
  BY DEF DeletePermissionPrincipal
<1>2. p \in Principals /\ d \in Docs /\ tx[r] = EmptyTx
  BY <1>1 DEF DInv, Types, OwnInv, Control, Names, Written, Principals
<1>3. Doc(r) = d
  BY <1>2, EmptyFacts DEF Doc
<1>4. db[<<p, d>>] # Absent => Locks(r) = {<<p, d>>}
  BY <1>1, <1>3 DEF Locks
<1>5. CASE Rollback(r, "notfound")
  <2>1. "notfound" \in Answers
    BY DEF Answers
  <2> QED
    BY <1>5, <2>1, RollbackStep
<1>6. CASE db[<<p, d>>] # Absent /\ Autocommit(r, <<p, d>>, Absent)
  <2>1. \A o \in Requests \ {r} : tx[o].write[<<p, d>>] = Same
    BY <1>1, <1>4, <1>6, Unblocked
  <2> HIDE DEF p, d
  <2> QED
    BY <1>2, <1>6, <2>1, AutocommitStep
<1> QED
  BY <1>3, <1>5, <1>6 DEF DeletePermissionPrincipal

NewGuests(w) == {g \in Guests : w[g] \in Docs}

\* What a transaction that is ready to commit has written, by the call.
LEMMA CommitFacts ==
    ASSUME DInv, NEW r \in Requests, pc[r] = "commit",
           NEW q, q = req[r], NEW c, c = tx[r]
    PROVE  /\ OwnInv("commit", q, c) /\ c \in Transactions
           /\ q.op \in {"delete", "guest", "upsert"}
BY DEF DInv, Types, OwnInv, Control

LEMMA CommitDelete ==
    ASSUME DInv, NEW r \in Requests, pc[r] = "commit", req[r].op = "delete",
           NEW q, q = req[r], NEW c, c = tx[r]
    PROVE  /\ \A x \in Rows : c.write[x] \in {Same, Absent}
           /\ \A d \in Docs : c.write[d] = Absent => d \in Finished(q, c)
           /\ \A g \in Guests : c.write[g] = Absent => db[g] \in Finished(q, c)
           /\ \A d \in Finished(q, c) : d \in Docs /\ c.write[d] = Absent
<1>1. OwnInv("commit", q, c) /\ c \in Transactions /\ "commit" \in PC
  BY CommitFacts DEF PC
<1>2. \A x \in Rows : c.write[x] \in {Same, Absent}
  BY <1>1 DEF OwnInv, Written
<1>3. /\ \A d \in Docs : c.write[d] = Absent => d \in Finished(q, c)
      /\ \A g \in Guests : c.write[g] = Absent => db[g] \in Finished(q, c)
      /\ \A d \in Finished(q, c) : c.write[d] = Absent
  BY <1>1 DEF OwnInv, Deleting
<1>4. \A d \in Finished(q, c) : d \in Docs
  BY <1>1, BatchFacts
<1> QED
  BY <1>2, <1>3, <1>4

LEMMA CommitGrant ==
    ASSUME DInv, NEW r \in Requests, pc[r] = "commit", req[r].op # "delete",
           NEW q, q = req[r], NEW c, c = tx[r]
    PROVE  /\ q.docs[1] \in Docs /\ q.who \in Principals /\ q.arg \in Granted
           /\ db[q.docs[1]] # Absent
           /\ c.write[<<q.who, q.docs[1]>>] \in {q.arg, AsGuest[q.arg]}
           /\ \A d \in Docs : c.write[d] = Same
           /\ \A p \in Principals, d \in Docs :
                <<p, d>> # <<q.who, q.docs[1]>> => c.write[<<p, d>>] = Same
<1>0. OwnInv("commit", q, c) /\ c \in Transactions /\ q.op \in {"guest", "upsert"}
  BY CommitFacts
<1> DEFINE x == <<q.who, q.docs[1]>>
<1>1. q.docs[1] \in Docs /\ q.who \in Principals /\ q.arg \in Granted
  BY <1>0 DEF OwnInv, Names, Principals, DInv, Types
<1>2. /\ db[q.docs[1]] # Absent /\ c.write[x] \in {q.arg, AsGuest[q.arg]}
      /\ \A y \in Rows \ {q.who, x} : c.write[y] = Same
  BY <1>0 DEF OwnInv, Granting, Written
<1>3. ASSUME NEW d \in Docs PROVE c.write[d] = Same
  <2>1. d \in Rows /\ d # x
    BY <1>1, PairRow, RowFacts
  <2>2. CASE q.op = "upsert"
    BY <1>0, <2>1, <2>2 DEF OwnInv, Written
  <2>3. CASE q.op = "guest"
    <3>1. d # q.who
      BY <1>0, <2>3, RowFacts DEF OwnInv, Names
    <3> QED
      BY <1>2, <2>1, <3>1
  <2> QED
    BY <1>0, <2>2, <2>3
<1>4. ASSUME NEW p \in Principals, NEW d \in Docs, <<p, d>> # x
      PROVE  c.write[<<p, d>>] = Same
  <2> DEFINE y == <<p, d>>
  <2>1. y \in Rows /\ \A g \in Guests : y # g
    BY PairRow
  <2>2. y # x
    BY <1>4
  <2> SUFFICES c.write[y] = Same
    OBVIOUS
  <2> HIDE DEF x, y
  <2>3. CASE q.op = "upsert"
    BY <1>0, <2>1, <2>2, <2>3 DEF OwnInv, Written, x
  <2>4. CASE q.op = "guest"
    <3>1. y # q.who
      BY <1>0, <2>1, <2>4 DEF OwnInv, Names
    <3> QED
      BY <1>2, <2>1, <2>2, <3>1
  <2> QED
    BY <1>0, <2>3, <2>4
<1> QED
  BY <1>1, <1>2, <1>3, <1>4

LEMMA CommitGuest ==
    ASSUME DInv, NEW r \in Requests, pc[r] = "commit", req[r].op = "guest",
           NEW q, q = req[r], NEW c, c = tx[r]
    PROVE  /\ q.who \in Guests \ issued /\ c.write[q.who] = q.docs[1]
           /\ q.docs[1] \in Docs /\ q.docs[1] \in c.share
           /\ \A g \in Guests : g # q.who => c.write[g] = Same
<1>1. OwnInv("commit", q, c) /\ q.docs[1] \in Docs /\ q.who \in Principals
  BY CommitFacts, CommitGrant
<1>2. /\ q.who \in Guests \ issued /\ c.write[q.who] = q.docs[1]
      /\ q.docs[1] \in c.share
      /\ \A y \in Rows \ {q.who, <<q.who, q.docs[1]>>} : c.write[y] = Same
  BY <1>1 DEF OwnInv, Names, Written
<1>3. \A g \in Guests : g \in Rows /\ g # <<q.who, q.docs[1]>>
  BY <1>1, PairRow, RowFacts
<1> QED
  BY <1>1, <1>2, <1>3

LEMMA CommitUpsert ==
    ASSUME DInv, NEW r \in Requests, pc[r] = "commit", req[r].op = "upsert",
           NEW q, q = req[r], NEW c, c = tx[r]
    PROVE  /\ q.who \in Users \cup issued
           /\ \A g \in Guests : c.write[g] = Same
           /\ c.write[<<q.who, q.docs[1]>>] \in GuestRows => db[<<q.who, q.docs[1]>>] \in GuestRows
<1>1. OwnInv("commit", q, c) /\ q.docs[1] \in Docs /\ q.who \in Principals
  BY CommitFacts, CommitGrant
<1>2. \A g \in Guests : g \in Rows /\ g # <<q.who, q.docs[1]>>
  BY <1>1, PairRow, RowFacts
<1> QED
  BY <1>1, <1>2 DEF OwnInv, Names, Written, Granting

LEMMA CommitIsolated ==
    ASSUME DInv, NEW r \in Requests, pc[r] = "commit"
    PROVE  Isolated(r, tx[r].write, NewGuests(tx[r].write))
<1> DEFINE q == req[r]
           c == tx[r]
           w == c.write
           N == NewGuests(w)
<1>1. /\ c \in Transactions
      /\ \A d \in Docs : w[d] \in {Absent, Same}
      /\ \A g \in Guests : w[g] \in Docs \cup {Absent, Same} /\ (w[g] \in Docs => g \in N)
      /\ N \in SUBSET Guests
  <2>1. c \in Transactions /\ q.op \in {"delete", "guest", "upsert"}
    BY CommitFacts
  <2>2. CASE q.op = "delete"
    <3>1. \A x \in Rows : w[x] \in {Same, Absent}
      BY <2>2, CommitDelete
    <3> QED
      BY <2>1, <3>1, RowFacts DEF NewGuests
  <2>3. CASE q.op # "delete"
    <3>1. \A d \in Docs : w[d] = Same
      BY <2>3, CommitGrant
    <3>2. \A g \in Guests : w[g] \in Docs \cup {Same}
      <4>1. CASE q.op = "guest"
        BY <4>1, CommitGuest
      <4>2. CASE q.op = "upsert"
        BY <4>2, CommitUpsert
      <4> QED
        BY <2>1, <2>3, <4>1, <4>2
    <3> QED
      BY <2>1, <3>1, <3>2 DEF NewGuests
  <2> QED
    BY <2>2, <2>3
<1>2. \A g \in Guests : w[g] \in Docs => q.op = "guest" /\ g = q.who /\ w[g] \in c.share
  <2> SUFFICES ASSUME NEW g \in Guests, w[g] \in Docs
               PROVE  q.op = "guest" /\ g = q.who /\ w[g] \in c.share
    OBVIOUS
  <2>1. w[g] \notin {Same, Absent} /\ g \in Rows
    BY RowFacts
  <2>2. q.op # "delete"
    BY <2>1, CommitDelete
  <2>3. q.op # "upsert"
    BY <2>1, CommitUpsert
  <2>4. q.op = "guest"
    BY <2>2, <2>3, CommitFacts
  <2> QED
    BY <2>1, <2>4, CommitGuest
<1>3. ASSUME NEW o \in Requests \ {r}
      PROVE  /\ \A x \in Rows : w[x] # Same => tx[o].write[x] = Same
             /\ \A d \in Docs : w[d] = Absent =>
                /\ d \notin tx[o].share
                /\ \A p \in Principals : tx[o].write[<<p, d>>] \in {Same, Absent}
             /\ req[o].op = "delete" => \A d \in Finished(req[o], tx[o]) :
                /\ \A p \in Principals : w[<<p, d>>] \in {Same, Absent}
                /\ \A g \in Guests : w[g] # d
             /\ req[o].who \notin N
  <2>1. Together(q, c, req[o], tx[o]) /\ Together(req[o], tx[o], q, c)
    BY DEF DInv, PairInv
  <2>2. \A x \in Rows : w[x] # Same => tx[o].write[x] = Same
    BY <2>1 DEF Together
  <2>3. ASSUME NEW d \in Docs, w[d] = Absent
        PROVE  /\ d \notin tx[o].share
               /\ \A p \in Principals : tx[o].write[<<p, d>>] \in {Same, Absent}
    <3>1. w[d] # Same
      BY <2>3, RowFacts
    <3>2. q.op = "delete"
      BY <3>1, CommitGrant
    <3>3. d \in Finished(q, c)
      BY <2>3, <3>2, CommitDelete
    <3> QED
      BY <2>1, <3>1, <3>2, <3>3 DEF Together
  <2>4. ASSUME req[o].op = "delete", NEW d \in Finished(req[o], tx[o])
        PROVE  /\ \A p \in Principals : w[<<p, d>>] \in {Same, Absent}
               /\ \A g \in Guests : w[g] # d
    <3>1. \A p \in Principals : w[<<p, d>>] \in {Same, Absent}
      BY <2>1, <2>4 DEF Together
    <3>2. ASSUME NEW g \in Guests PROVE w[g] # d
      <4>1. d \in Docs /\ tx[o].write[d] # Same
        BY <2>4, FinishedFacts, RowFacts
      <4>2. d \notin c.share
        BY <2>1, <4>1 DEF Together
      <4> QED
        BY <1>2, <4>1, <4>2
    <3> QED
      BY <3>1, <3>2
  <2>5. req[o].who \notin N
    BY <1>2, <2>1 DEF Together, NewGuests
  <2> QED
    BY <2>2, <2>3, <2>4, <2>5
<1>4. w \in [Rows -> Contents \cup {Absent, Same}]
  BY <1>1 DEF Transactions
<1> HIDE DEF w, N
<1>5. Isolated(r, w, N)
  BY <1>1, <1>3, <1>4 DEF Isolated
<1> QED
  BY <1>5 DEF w, N

\* The tables a transaction commits are as they should be.
LEMMA CommitTables ==
    ASSUME DInv, NEW r \in Requests, pc[r] = "commit",
           \A x \in Rows : db'[x] = IF tx[r].write[x] = Same THEN db[x] ELSE tx[r].write[x],
           issued' = issued \cup NewGuests(tx[r].write), UNCHANGED creator
    PROVE  Tables' /\ CreatorOwns' /\ GuestsInSync'
<1> DEFINE q == req[r]
           c == tx[r]
           w == c.write
<1>1. /\ \A d \in Docs : db'[d] = IF w[d] = Same THEN db[d] ELSE w[d]
      /\ \A g \in Guests : db'[g] = IF w[g] = Same THEN db[g] ELSE w[g]
  BY RowFacts
<1>2. \A p \in Principals, d \in Docs :
        db'[<<p, d>>] = IF w[<<p, d>>] = Same THEN db[<<p, d>>] ELSE w[<<p, d>>]
  <2>1. ASSUME NEW p \in Principals, NEW d \in Docs
        PROVE  db'[<<p, d>>] = IF w[<<p, d>>] = Same THEN db[<<p, d>>] ELSE w[<<p, d>>]
    BY PairRow
  <2> QED
    BY <2>1, Zenon
<1>3. CASE q.op = "delete"
  <2> DEFINE F == Finished(q, c)
  <2>1. /\ \A d \in F : d \in Docs /\ w[d] = Absent
        /\ \A d \in Docs : w[d] \in {Same, Absent} /\ (w[d] = Absent => d \in F)
        /\ \A g \in Guests : w[g] \in {Same, Absent} /\ (w[g] = Absent => db[g] \in F)
    <3>1. /\ \A x \in Rows : w[x] \in {Same, Absent}
          /\ \A d \in Docs : w[d] = Absent => d \in F
          /\ \A g \in Guests : w[g] = Absent => db[g] \in F
          /\ \A d \in F : d \in Docs /\ w[d] = Absent
      BY <1>3, CommitDelete
    <3> QED
      BY <3>1, RowFacts
  <2>2. \A d \in F : /\ \A p \in Principals : db'[<<p, d>>] = Absent
                     /\ \A g \in Guests : db'[g] # d
    <3>1. OwnInv("commit", q, c)
      BY CommitFacts
    <3>2. \A d \in F : /\ \A p \in Principals : Reads(c, <<p, d>>) = Absent
                       /\ \A g \in Guests : Reads(c, g) # d
      BY <1>3, <3>1 DEF OwnInv, Deleting
    <3>3. ASSUME NEW d \in F, NEW p \in Principals PROVE db'[<<p, d>>] = Absent
      BY <1>2, <2>1, <3>2 DEF Reads
    <3>4. ASSUME NEW d \in F, NEW g \in Guests PROVE db'[g] # d
      BY <1>1, <3>2 DEF Reads
    <3> QED
      BY <3>3, <3>4
  <2>3. ASSUME NEW p \in Principals, NEW d \in Docs
        PROVE  db'[<<p, d>>] \in {db[<<p, d>>], Absent}
    <3>1. w[<<p, d>>] \in {Same, Absent}
      BY <1>3, CommitDelete, PairRow
    <3> QED
      BY <1>2, <3>1
  <2> HIDE DEF F, w
  <2>4. \A d \in Docs : db'[d] = IF d \in F THEN Absent ELSE db[d]
    BY <1>1, <2>1, RowFacts
  <2>5. \A g \in Guests : db'[g] = IF db[g] \in F THEN Absent ELSE db[g]
    BY <1>1, <2>1, <2>2, RowFacts
  <2>6. Tables'
    <3>1. ASSUME NEW p \in Principals, NEW d \in Docs
          PROVE  /\ db'[<<p, d>>] \in Levels \cup GuestRows \cup {Absent}
                 /\ db'[<<p, d>>] # Absent => db'[d] # Absent /\ p \in Users \cup issued'
      BY <2>2, <2>3, <2>4 DEF DInv, Tables
    <3>2. ASSUME NEW g \in Guests
          PROVE  /\ db'[g] \in Docs \cup {Absent}
                 /\ db'[g] # Absent => g \in issued' /\ db'[db'[g]] # Absent
      BY <2>4, <2>5 DEF DInv, Tables
    <3> QED
      BY <3>1, <3>2 DEF Tables
  <2>7. CreatorOwns'
    <3>1. Absent \notin {"owner", "guest_owner"} \cup GuestRows
      BY RowFacts DEF Levels, GuestRows
    <3> QED
      BY <2>3, <3>1 DEF DInv, CreatorOwns
  <2>8. GuestsInSync'
    <3> SUFFICES ASSUME NEW p \in Principals, NEW d \in Docs, db'[<<p, d>>] \in GuestRows
                 PROVE  p \in Guests /\ db'[p] = d
      BY DEF GuestsInSync
    <3>1. Absent \notin GuestRows
      BY RowFacts
    <3>2. db[<<p, d>>] \in GuestRows /\ d \notin F
      BY <2>2, <2>3, <3>1
    <3> QED
      BY <2>5, <3>2 DEF DInv, GuestsInSync
  <2> QED
    BY <2>6, <2>7, <2>8
<1>4. CASE q.op # "delete"
  <2> DEFINE d0 == q.docs[1]
             p0 == q.who
  <2>1. /\ d0 \in Docs /\ p0 \in Principals /\ q.arg \in Granted /\ db[d0] # Absent
        /\ w[<<p0, d0>>] \in {q.arg, AsGuest[q.arg]}
        /\ \A d \in Docs : w[d] = Same
        /\ \A p \in Principals, d \in Docs : <<p, d>> # <<p0, d0>> => w[<<p, d>>] = Same
    BY <1>4, CommitGrant
  <2>2. \A d \in Docs : db'[d] = db[d]
    BY <1>1, <2>1
  <2>3. /\ w[<<p0, d0>>] \in Levels \cup GuestRows
        /\ w[<<p0, d0>>] \notin {"owner", "guest_owner", Same, Absent}
    <3>1. "owner" \notin GuestRows /\ "guest_owner" \notin Levels
      BY DEF GuestRows, Levels
    <3> QED
      BY <2>1, <3>1, GuestLevels
  <2>4. ASSUME NEW p \in Principals, NEW d \in Docs
        PROVE  \/ db'[<<p, d>>] = db[<<p, d>>]
               \/ p = p0 /\ d = d0 /\ db'[<<p, d>>] = w[<<p0, d0>>]
    BY <1>2, <2>1, <2>3
  <2>5. \A g \in Guests : \/ db'[g] = db[g]
                          \/ /\ g = p0 /\ g \in Guests \ issued
                             /\ db'[g] = d0 /\ g \in issued'
    <3>1. CASE q.op = "guest"
      BY <1>1, <3>1, CommitGuest, RowFacts DEF NewGuests
    <3>2. CASE q.op = "upsert"
      BY <1>1, <3>2, CommitUpsert
    <3> QED
      BY <1>4, <3>1, <3>2, CommitFacts
  <2>6. /\ p0 \in Users \cup issued'
        /\ \/ p0 \in Guests /\ db'[p0] = d0
           \/ w[<<p0, d0>>] \in GuestRows => db[<<p0, d0>>] \in GuestRows
    <3>1. CASE q.op = "guest"
      BY <1>1, <3>1, CommitGuest, RowFacts DEF NewGuests
    <3>2. CASE q.op = "upsert"
      BY <3>2, CommitUpsert
    <3> QED
      BY <1>4, <3>1, <3>2, CommitFacts
  <2> HIDE DEF d0, p0, w
  <2>7. Tables'
    <3>1. ASSUME NEW p \in Principals, NEW d \in Docs
          PROVE  /\ db'[<<p, d>>] \in Levels \cup GuestRows \cup {Absent}
                 /\ db'[<<p, d>>] # Absent => db'[d] # Absent /\ p \in Users \cup issued'
      BY <2>1, <2>2, <2>3, <2>4, <2>6 DEF DInv, Tables
    <3>2. ASSUME NEW g \in Guests
          PROVE  /\ db'[g] \in Docs \cup {Absent}
                 /\ db'[g] # Absent => g \in issued' /\ db'[db'[g]] # Absent
      BY <2>1, <2>2, <2>5 DEF DInv, Tables
    <3> QED
      BY <3>1, <3>2 DEF Tables
  <2>8. CreatorOwns'
    BY <2>3, <2>4 DEF DInv, CreatorOwns
  <2>9. GuestsInSync'
    <3> SUFFICES ASSUME NEW p \in Principals, NEW d \in Docs, db'[<<p, d>>] \in GuestRows
                 PROVE  p \in Guests /\ db'[p] = d
      BY DEF GuestsInSync
    <3>1. CASE db[<<p, d>>] \in GuestRows
      <4>1. p \in Guests /\ db[p] = d /\ p \in issued
        BY <3>1, RowFacts DEF DInv, GuestsInSync, Tables
      <4> QED
        BY <2>5, <4>1
    <3>2. CASE p = p0 /\ d = d0 /\ db'[<<p, d>>] = w[<<p0, d0>>]
      BY <2>6, <3>1, <3>2
    <3> QED
      BY <2>4, <3>1, <3>2
  <2> QED
    BY <2>7, <2>8, <2>9
<1> QED
  BY <1>3, <1>4

LEMMA CommitIInv ==
    ASSUME DInv, NEW r \in Requests, NEW status \in Answers, Commit(r, status)
    PROVE  DInv'
<1> DEFINE w == tx[r].write
<1>1. /\ pc[r] = "commit" /\ Publish(r, w) /\ Answer(r, status)
      /\ issued' = issued \cup NewGuests(w) /\ UNCHANGED <<creator, up>>
  BY DEF Commit, NewGuests
<1>2. Isolated(r, w, NewGuests(w)) /\ Types
  BY <1>1, CommitIsolated DEF DInv
<1>3. \A x \in Rows : db'[x] = IF w[x] = Same THEN db[x] ELSE w[x]
  BY <1>1, <1>2, PublishFacts
<1>4. Tables' /\ CreatorOwns' /\ GuestsInSync'
  BY <1>1, <1>3, CommitTables
<1> HIDE DEF w
<1> QED
  BY <1>1, <1>2, <1>4, PublishStep

LEMMA CreateFacts ==
    ASSUME DInv, NEW u \in Users, NEW d \in Docs, CreateDocument(u, d)
    PROVE  /\ db' \in [Rows -> Contents \cup {Absent}]
           /\ \A g \in Guests : db'[g] = db[g]
           /\ \A a \in Docs : db'[a] = IF a = d THEN "document" ELSE db[a]
           /\ \A p \in Principals, a \in Docs :
                db'[<<p, a>>] = IF p = u /\ a = d THEN "owner" ELSE db[<<p, a>>]
<1> DEFINE x == <<u, d>>
<1>1. /\ creator[d] = Absent /\ creator' = [creator EXCEPT ![d] = u]
      /\ db' = [db EXCEPT ![d] = "document", ![x] = "owner"]
      /\ UNCHANGED <<issued, pc, req, tx, reply, overlapped, up>>
  BY DEF CreateDocument
<1>2. u \in Principals /\ d \in Rows /\ x \in Rows /\ x # d /\ \A g \in Guests : g # x
  BY PairRow, RowFacts
<1>3. db' \in [Rows -> Contents \cup {Absent}]
  BY <1>1, <1>2 DEF DInv, Types, Contents, Levels
<1> HIDE DEF x
<1>4. db'[d] = "document" /\ db'[x] = "owner" /\ \A y \in Rows \ {d, x} : db'[y] = db[y]
  BY <1>1, <1>2 DEF DInv, Types
<1>5. \A g \in Guests : db'[g] = db[g]
  BY <1>2, <1>4, RowFacts
<1>6. \A a \in Docs : db'[a] = IF a = d THEN "document" ELSE db[a]
  <2>1. \A a \in Docs : a \in Rows /\ a # x
    BY <1>2, PairRow, RowFacts DEF x
  <2> QED
    BY <1>4, <2>1
<1>7. ASSUME NEW p \in Principals, NEW a \in Docs
      PROVE  db'[<<p, a>>] = IF p = u /\ a = d THEN "owner" ELSE db[<<p, a>>]
  <2>1. <<p, a>> \in Rows /\ <<p, a>> # d
    BY PairRow
  <2>2. CASE p = u /\ a = d
    BY <1>4, <2>2 DEF x
  <2>3. CASE ~(p = u /\ a = d)
    <3>1. <<p, a>> # x
      BY <2>3 DEF x
    <3> QED
      BY <1>4, <2>1, <2>3, <3>1
  <2> QED
    BY <2>2, <2>3
<1> QED
  BY <1>3, <1>5, <1>6, <1>7, Zenon

LEMMA CreateDocumentIInv ==
    ASSUME DInv, NEW u \in Users, NEW d \in Docs, CreateDocument(u, d)
    PROVE  DInv'
<1>1. /\ creator[d] = Absent /\ creator' = [creator EXCEPT ![d] = u]
      /\ UNCHANGED <<issued, pc, req, tx, reply, overlapped, up>>
  BY DEF CreateDocument
<1>3. db' \in [Rows -> Contents \cup {Absent}]
  BY CreateFacts
<1>5. \A g \in Guests : db'[g] = db[g]
  BY CreateFacts
<1>6. \A a \in Docs : db'[a] = IF a = d THEN "document" ELSE db[a]
  BY CreateFacts
<1>7. \A p \in Principals, a \in Docs :
        db'[<<p, a>>] = IF p = u /\ a = d THEN "owner" ELSE db[<<p, a>>]
  BY CreateFacts, ZenonT(40)
<1>8. creator'[d] = u /\ (\A a \in Docs \ {d} : creator'[a] = creator[a]) /\ u # Absent
  BY <1>1, RowFacts DEF DInv, Types
<1>9. Types'
  BY <1>1, <1>3 DEF DInv, Types
<1>10. Tables'
  <2>1. ASSUME NEW p \in Principals, NEW a \in Docs
        PROVE  /\ db'[<<p, a>>] \in Levels \cup GuestRows \cup {Absent}
               /\ db'[<<p, a>>] # Absent => db'[a] # Absent /\ p \in Users \cup issued'
    BY <1>1, <1>6, <1>7, RowFacts DEF DInv, Tables, Levels
  <2>2. ASSUME NEW g \in Guests
        PROVE  /\ db'[g] \in Docs \cup {Absent}
               /\ db'[g] # Absent => g \in issued' /\ db'[db'[g]] # Absent
    BY <1>1, <1>5, <1>6, RowFacts DEF DInv, Tables
  <2> QED
    BY <2>1, <2>2 DEF Tables
<1>11. CreatorOwns'
  <2> SUFFICES ASSUME NEW p \in Principals, NEW a \in Docs,
                      db'[<<p, a>>] \in {"owner", "guest_owner"}
               PROVE  p = creator'[a]
    BY DEF CreatorOwns
  <2>1. CASE p = u /\ a = d
    BY <1>8, <2>1
  <2>2. CASE ~(p = u /\ a = d)
    <3>1. p = creator[a]
      BY <1>7, <2>2 DEF DInv, CreatorOwns
    <3>2. p # Absent
      BY RowFacts DEF Principals
    <3> QED
      BY <1>1, <1>8, <3>1, <3>2
  <2> QED
    BY <2>1, <2>2
<1>12. GuestsInSync'
  <2> SUFFICES ASSUME NEW p \in Principals, NEW a \in Docs, db'[<<p, a>>] \in GuestRows
               PROVE  p \in Guests /\ db'[p] = a
    BY DEF GuestsInSync
  <2>1. "owner" \notin GuestRows
    BY DEF GuestRows
  <2>2. db[<<p, a>>] \in GuestRows
    BY <1>7, <2>1
  <2> QED
    BY <1>5, <2>2 DEF DInv, GuestsInSync
<1>13. ASSUME NEW o \in Requests PROVE OwnInv(pc[o], req[o], tx[o])'
  <2> DEFINE q == req[o]
             t == tx[o]
  <2>1. OwnInv(pc[o], q, t) /\ pc[o] \in PC /\ t \in Transactions
    BY DEF DInv, Types
  <2>2. Control(pc[o], req[o], tx[o])' /\ Written(pc[o], req[o], tx[o])'
    BY <1>1, <2>1 DEF OwnInv, Control, Written
  <2>3. Names(pc[o], req[o], tx[o])'
    <3>1. q.op = "delete" => \A i \in 1..Len(q.docs) : creator'[q.docs[i]] # Absent
      <4>1. q.op = "delete" => \A i \in 1..Len(q.docs) : q.docs[i] \in Docs /\ creator[q.docs[i]] # Absent
        BY <2>1, BatchFacts
      <4> QED
        BY <1>8, <4>1
    <3>2. pc[o] = "regrade" => db'[q.who] = db[q.who]
      BY <1>5, <2>1 DEF OwnInv, Control, Names, DInv, Types
    <3> QED
      BY <1>1, <2>1, <3>1, <3>2 DEF OwnInv, Names
  <2>4. Deleting(pc[o], req[o], tx[o])'
    <3> SUFFICES ASSUME q.op = "delete" PROVE Deleting(pc[o], req[o], tx[o])'
      BY <1>1 DEF Deleting
    <3>1. /\ Finished(req[o], tx[o])' = Finished(q, t)
          /\ Current(req[o], tx[o])' = Current(q, t)
      BY <1>1 DEF Finished, Current
    <3>2. \A a \in Finished(q, t) : a \in Docs /\ a # d
      BY <1>1, <2>1, BatchFacts
    <3>3. ASSUME NEW a \in Docs, t.write[a] = Absent
          PROVE  db'[a] # Absent /\ (a \in Finished(q, t) \/ (pc[o] = "fk" /\ a = Current(q, t)))
      BY <1>6, <2>1, <3>3, RowFacts DEF OwnInv, Deleting
    <3>4. ASSUME NEW g \in Guests, t.write[g] = Absent
          PROVE  /\ db'[g] \in Docs
                 /\ db'[g] \in Finished(q, t) \/ (pc[o] \in {"doc", "fk"} /\ db'[g] = Current(q, t))
      BY <1>5, <2>1, <3>4 DEF OwnInv, Deleting
    <3>5. ASSUME NEW p \in Principals, NEW a \in Docs, t.write[<<p, a>>] = Absent
          PROVE  db'[<<p, a>>] # Absent
      BY <1>7, <2>1, <3>5, RowFacts DEF OwnInv, Deleting, Levels
    <3>6. pc[o] = "fk" => t.write[Current(q, t)] = Absent
      BY <2>1 DEF OwnInv, Deleting
    <3>7. ASSUME NEW a \in Finished(q, t)
          PROVE  /\ t.write[a] = Absent
                 /\ \A p \in Principals : Reads(tx[o], <<p, a>>)' = Absent
                 /\ \A g \in Guests : Reads(tx[o], g)' # a
      <4>1. /\ t.write[a] = Absent
            /\ \A p \in Principals : Reads(t, <<p, a>>) = Absent
            /\ \A g \in Guests : Reads(t, g) # a
        BY <2>1 DEF OwnInv, Deleting
      <4>2. ASSUME NEW p \in Principals PROVE db'[<<p, a>>] = db[<<p, a>>]
        BY <1>7, <3>2
      <4>3. ASSUME NEW p \in Principals PROVE Reads(tx[o], <<p, a>>)' = Absent
        BY <1>1, <4>1, <4>2 DEF Reads
      <4>4. ASSUME NEW g \in Guests PROVE Reads(tx[o], g)' # a
        BY <1>1, <1>5, <4>1 DEF Reads
      <4> QED
        BY <4>1, <4>3, <4>4
    <3> QED
      BY <1>1, <3>1, <3>3, <3>4, <3>5, <3>6, <3>7 DEF Deleting
  <2>5. Granting(pc[o], req[o], tx[o])'
    <3>1. \A a \in Docs : db[a] # Absent => db'[a] # Absent
      BY <1>6, RowFacts
    <3>2. \A a \in t.share : a \in Docs
      BY <2>1 DEF Transactions
    <3>3. pc[o] \in {"guest", "perm", "upsert"} => q.docs[1] \in Docs
      BY <2>1 DEF OwnInv, Control, Names
    <3>4. ASSUME q.op = "upsert", db[<<q.who, q.docs[1]>>] # Absent
          PROVE  /\ db'[<<q.who, q.docs[1]>>] # Absent
                 /\ db[<<q.who, q.docs[1]>>] \in GuestRows => db'[<<q.who, q.docs[1]>>] \in GuestRows
      <4>1. q.who \in Principals /\ q.docs[1] \in Docs
        BY <2>1, <3>4 DEF OwnInv, Names, DInv, Types, Principals
      <4>2. db[<<q.who, q.docs[1]>>] \in GuestRows => q.who # u
        BY <4>1, RowFacts DEF DInv, GuestsInSync
      <4> QED
        BY <1>7, <3>4, <4>1, <4>2, RowFacts DEF Levels
    <3>5. q.op = "upsert" => q.docs[1] \in Docs
      BY <2>1 DEF OwnInv, Names
    <3>6. Absent \notin GuestRows
      BY RowFacts
    <3> QED
      BY <1>1, <2>1, <3>1, <3>2, <3>3, <3>4, <3>5, <3>6 DEF OwnInv, Granting
  <2> QED
    BY <2>2, <2>3, <2>4, <2>5 DEF OwnInv
<1>14. PairInv'
  BY <1>1 DEF DInv, PairInv, Together, Finished
<1> QED
  BY <1>9, <1>10, <1>11, <1>12, <1>13, <1>14 DEF DInv

-----------------------------------------------------------------------------
(* The process.                                                            *)

LEMMA PanicIInv ==
    ASSUME DInv, Panic
    PROVE  DInv'
<1>1. \A r \in Requests : pc'[r] = "idle" /\ req'[r] = NoCall /\ tx'[r] = EmptyTx
  BY DEF Panic
<1>2. UNCHANGED <<db, creator, issued>>
  BY DEF Panic
<1>3. Types'
  <2>1. reply' \in [Requests -> Answers]
    BY DEF Panic, DInv, Types, Answers
  <2>2. overlapped' \in [Requests -> BOOLEAN] /\ up' \in BOOLEAN
    BY DEF Panic
  <2>3. pc' \in [Requests -> PC] /\ req' = [r \in Requests |-> req'[r]]
    BY DEF Panic, PC
  <2>4. tx' \in [Requests -> Transactions]
    BY EmptyFacts DEF Panic
  <2> QED
    BY <1>1, <1>2, <2>1, <2>2, <2>3, <2>4 DEF DInv, Types
<1>4. Tables' /\ CreatorOwns' /\ GuestsInSync'
  BY <1>2 DEF DInv, Tables, CreatorOwns, GuestsInSync
<1>5. ASSUME NEW o \in Requests PROVE OwnInv(pc[o], req[o], tx[o])'
  <2>1. Control(pc[o], req[o], tx[o])'
    BY <1>1, NoCallFacts DEF Control
  <2>2. Names(pc[o], req[o], tx[o])'
    BY <1>1, NoCallFacts DEF Names
  <2>3. Written(pc[o], req[o], tx[o])'
    BY <1>1, NoCallFacts, EmptyFacts DEF Written
  <2>4. Deleting(pc[o], req[o], tx[o])'
    BY <1>1, NoCallFacts DEF Deleting
  <2>5. Granting(pc[o], req[o], tx[o])'
    BY <1>1, NoCallFacts, EmptyFacts DEF Granting
  <2> QED
    BY <2>1, <2>2, <2>3, <2>4, <2>5 DEF OwnInv
<1>6. PairInv'
  <2>1. Together(NoCall, EmptyTx, NoCall, EmptyTx)
    BY EndedOwn, EndedTogether, EmptyFacts DEF PC
  <2>2. \A r \in Requests : \A o \in Requests \ {r} : Together(req'[r], tx'[r], req'[o], tx'[o])
    BY <1>1, <2>1
  <2> QED
    BY <2>2 DEF PairInv
<1> QED
  BY <1>3, <1>4, <1>5, <1>6 DEF DInv

LEMMA RestartIInv ==
    ASSUME DInv, Restart
    PROVE  DInv'
BY QuietStep DEF Restart, DInv, Types

\* The calls of the model are ones that can be made.
LEMMA CallsCallable ==
    ASSUME NEW q \in Calls, Known(q)
    PROVE  Callable(q)
<1>1. /\ q.op \in {"delete", "guest", "upsert", "regrade", "remove", "rename", "get", "read"}
      /\ q.op \in {"guest", "upsert", "remove", "read", "rename"} => q.docs \in [1..1 -> Docs]
      /\ q.op \in {"guest", "upsert", "regrade"} => q.arg \in Levels
      /\ q.op \in {"delete", "rename", "get"} => q.who = Absent
      /\ q.op = "guest" => q.who \in Guests
      /\ q.op = "delete" => q.docs \in Batches
  BY DEF Calls
<1>2. q.op \in {"guest", "upsert", "remove", "read", "rename"} => q.docs[1] \in Docs
  BY <1>1
<1>3. q.op = "delete" => /\ q.docs \in Seq(Docs) /\ Len(q.docs) <= MaxBatch
                         /\ \A i \in 1..Len(q.docs) : creator[q.docs[i]] # Absent
  <2> SUFFICES ASSUME q.op = "delete"
               PROVE  /\ q.docs \in Seq(Docs) /\ Len(q.docs) <= MaxBatch
                      /\ \A i \in 1..Len(q.docs) : creator[q.docs[i]] # Absent
    OBVIOUS
  <2>1. PICK n \in 0..MaxBatch : q.docs \in [1..n -> Docs]
    BY <1>1 DEF Batches
  <2>2. q.docs \in Seq(Docs) /\ Len(q.docs) = n /\ DOMAIN q.docs = 1..n
    BY <2>1, DocumentsAssumption
  <2> QED
    BY <2>1, <2>2, DocumentsAssumption DEF Known
<1>4. /\ q.op = "guest" => q.who \notin issued /\ \A o \in Requests : req[o].who # q.who
      /\ q.op \in {"upsert", "regrade", "remove", "read"} => q.who \in issued \cup Users
  BY DEF Known
<1> QED
  BY <1>1, <1>2, <1>3, <1>4 DEF Callable

-----------------------------------------------------------------------------
(* The theorems.                                                           *)

LEMMA InitDInv == Init => DInv
<1> SUFFICES ASSUME Init PROVE DInv
  OBVIOUS
<1>1. \A r \in Requests : pc[r] = "idle" /\ req[r] = NoCall /\ tx[r] = EmptyTx
  BY DEF Init
<1>2. \A x \in Rows : db[x] = Absent
  BY DEF Init
<1>3. Types
  <2>1. reply \in [Requests -> Answers]
    BY DEF Init, Answers
  <2>2. overlapped \in [Requests -> BOOLEAN] /\ up \in BOOLEAN
    BY DEF Init
  <2>3. pc \in [Requests -> PC] /\ req = [r \in Requests |-> req[r]]
    BY DEF Init, PC
  <2>4. tx \in [Requests -> Transactions]
    BY EmptyFacts DEF Init
  <2>5. /\ db \in [Rows -> Contents \cup {Absent}]
        /\ creator \in [Docs -> Users \cup {Absent}]
        /\ issued \subseteq Guests
    BY DEF Init
  <2> QED
    BY <1>1, <2>1, <2>2, <2>3, <2>4, <2>5 DEF Types
<1>4. ASSUME NEW p \in Principals, NEW d \in Docs PROVE db[<<p, d>>] = Absent
  BY <1>2, PairRow
<1>5. Tables /\ CreatorOwns /\ GuestsInSync
  <2>1. Absent \notin {"owner", "guest_owner"} \cup GuestRows
    BY RowFacts DEF Levels, GuestRows
  <2> QED
    BY <1>2, <1>4, <2>1, RowFacts DEF Tables, CreatorOwns, GuestsInSync
<1>6. \A r \in Requests : OwnInv(pc[r], req[r], tx[r])
  BY <1>1, EndedOwn
<1>7. PairInv
  <2>1. Together(NoCall, EmptyTx, NoCall, EmptyTx)
    BY EndedOwn, EndedTogether, EmptyFacts DEF PC
  <2> QED
    BY <1>1, <2>1 DEF PairInv
<1> QED
  BY <1>3, <1>5, <1>6, <1>7 DEF DInv

\* The steps of a call that is under way, whoever has made it.
LEMMA WorkIInv ==
    ASSUME DInv, NEW r \in Requests,
           Statement(r) \/ DeadlockDetected(r) \/ QueryFails(r) \/ CommitUnacknowledged(r)
    PROVE  DInv'
<1>1. "ok" \in Answers /\ "internal" \in Answers
  BY DEF Answers
<1>2. CASE Statement(r)
  BY <1>1, <1>2, DeletePermissionIInv, DeleteGuestsIInv, DeleteRowIInv, ForeignKeysIInv,
     GetDocumentIInv, InsertGuestIInv, InsertPermissionGuestIInv, UpsertIInv, SelectGuestIInv,
     UpdatePermissionGuestIInv, DeletePermissionPrincipalIInv, ReadPermissionIInv, EndIInv,
     CommitIInv
  DEF Statement
<1>3. CASE DeadlockDetected(r) \/ QueryFails(r)
  BY <1>3, EndIInv
<1>4. CASE CommitUnacknowledged(r)
  BY <1>1, <1>4, CommitIInv DEF CommitUnacknowledged
<1> QED
  BY <1>2, <1>3, <1>4

LEMMA NextDInv == DInv /\ [Next]_vars => DInv'
<1> SUFFICES ASSUME DInv, [Next]_vars PROVE DInv'
  OBVIOUS
<1>1. CASE \E u \in Users, d \in Docs : CreateDocument(u, d)
  BY <1>1, CreateDocumentIInv
<1>2. ASSUME NEW r \in Requests, Begin(r) PROVE DInv'
  BY <1>2, CallsCallable, AcceptStep DEF Begin
<1>3. ASSUME NEW r \in Requests,
             Statement(r) \/ DeadlockDetected(r) \/ QueryFails(r) \/ CommitUnacknowledged(r)
      PROVE  DInv'
  BY <1>3, WorkIInv
<1>4. CASE Panic
  BY <1>4, PanicIInv
<1>5. CASE Restart
  BY <1>5, RestartIInv
<1>6. CASE UNCHANGED vars
  BY <1>6, QuietStep DEF vars, DInv, Types
<1> QED
  BY <1>1, <1>2, <1>3, <1>4, <1>5, <1>6 DEF Next

\* The document service's inductive invariant holds always.
THEOREM DocumentsInvariance == Spec => []DInv
<1>1. Init => DInv
  BY InitDInv
<1>2. DInv /\ [Next]_vars => DInv'
  BY NextDInv
<1> QED
  BY <1>1, <1>2, PTL DEF Spec

\* Rows, transactions, calls and answers have their types, calls work only
\* while the process runs, and a call that has ended holds no lock.
THEOREM DocumentsTypeCorrectness == Spec => []TypeOK
BY DocumentsInvariance, TypesOK, PTL

\* No sequence of calls, failures and restarts makes anyone but the creator
\* of a document its owner.
THEOREM OwnedByCreator == Spec => []CreatorOwns
<1>1. DInv => CreatorOwns
  BY DEF DInv
<1> QED
  BY <1>1, DocumentsInvariance, PTL

\* A permission given to a guest as such is always on the document of the
\* guest's row, whatever kinds of principals the callers take identifiers for.
THEOREM PermissionsOfGuests == Spec => []GuestsInSync
<1>1. DInv => GuestsInSync
  BY DEF DInv
<1> QED
  BY <1>1, DocumentsInvariance, PTL

-----------------------------------------------------------------------------
(* What a deletion answers.                                                *)

\* A deletion is at one of its own statements.
LEMMA DeletionAt ==
    ASSUME DInv, NEW r \in Requests, req[r].op = "delete"
    PROVE  pc[r] \in {"perms", "guests", "doc", "fk", "commit"}
BY DEF DInv, Types, OwnInv, Control, PC

\* A call ends by a step of its own.
LEMMA WorkFrame ==
    ASSUME DInv, NEW o \in Requests,
           Statement(o) \/ DeadlockDetected(o) \/ QueryFails(o) \/ CommitUnacknowledged(o),
           NEW r \in Requests \ {o}
    PROVE  pc'[r] = pc[r] /\ overlapped'[r] = overlapped[r]
<1>1. pc \in [Requests -> PC] /\ overlapped \in [Requests -> BOOLEAN]
  BY DEF DInv, Types
<1>2. ASSUME NEW status, Answer(o, status)
      PROVE  pc'[r] = pc[r] /\ overlapped'[r] = overlapped[r]
  BY <1>1, <1>2 DEF Answer
<1>3. ASSUME NEW l, Goto(o, l) PROVE pc'[r] = pc[r] /\ overlapped'[r] = overlapped[r]
  BY <1>1, <1>3 DEF Goto
<1>4. CASE Statement(o)
  <2>1. CASE \/ DeletePermissionByDocument(o) \/ DeleteGuestsByDocument(o)
             \/ DeleteRow(o) \/ ForeignKeys(o)
    BY <1>2, <1>3, <2>1
    DEF DeletePermissionByDocument, DeleteGuestsByDocument, DeleteRow, ForeignKeys, Delete, Rollback
  <2>2. CASE GetDocument(o) \/ InsertGuest(o) \/ InsertPermissionGuest(o)
    BY <1>2, <1>3, <2>2 DEF GetDocument, InsertGuest, InsertPermissionGuest, Insert, Rollback
  <2>3. CASE UpsertPermissionUser(o)
    BY <1>2, <1>3, <2>3 DEF UpsertPermissionUser, Insert, Rollback
  <2>4. CASE SelectGuest(o)
    BY <1>1, <1>2, <2>4 DEF SelectGuest, Rollback
  <2>5. CASE UpdatePermissionGuest(o) \/ DeletePermissionPrincipal(o)
    BY <1>2, <2>5 DEF UpdatePermissionGuest, DeletePermissionPrincipal, Autocommit, Rollback
  <2>6. CASE UpdateDocument(o) \/ ReadDocument(o) \/ ReadPermission(o) \/ Commit(o, "ok")
    BY <1>2, <2>6 DEF UpdateDocument, ReadDocument, ReadPermission, Commit, Rollback
  <2> QED
    BY <1>4, <2>1, <2>2, <2>3, <2>4, <2>5, <2>6 DEF Statement
<1>5. CASE DeadlockDetected(o) \/ QueryFails(o) \/ CommitUnacknowledged(o)
  BY <1>2, <1>5 DEF DeadlockDetected, QueryFails, CommitUnacknowledged, Commit, Rollback
<1> QED
  BY <1>4, <1>5

\* How a deletion may end.
LEMMA DeletionEnds ==
    ASSUME DInv, NEW r \in Requests, req[r].op = "delete", pc'[r] = "idle",
           Statement(r) \/ DeadlockDetected(r) \/ QueryFails(r) \/ CommitUnacknowledged(r)
    PROVE  \/ reply'[r] = "notfound"
           \/ reply'[r] = "ok" /\ Commit(r, "ok")
           \/ reply'[r] = "internal" /\ (Faults \/ DeadlockDetected(r))
           \/ reply'[r] = "internal" /\ pc[r] = "fk" /\ Locks(r) # {}
<1>1. pc \in [Requests -> PC] /\ reply \in [Requests -> Answers]
  BY DEF DInv, Types
<1>2. pc[r] \in {"perms", "guests", "doc", "fk", "commit"}
  BY DeletionAt
<1>3. ASSUME NEW status, Rollback(r, status) PROVE reply'[r] = status
  BY <1>1, <1>3 DEF Rollback, Answer
<1>4. ASSUME NEW status, Commit(r, status) PROVE reply'[r] = status
  BY <1>1, <1>4 DEF Commit, Answer
<1>5. ASSUME NEW l, Goto(r, l) PROVE l = "idle"
  BY <1>1, <1>5 DEF Goto
<1>6. CASE Statement(r)
  <2>1. CASE pc[r] \in {"perms", "guests"}
    <3>1. \E l \in {"guests", "doc"} : Goto(r, l)
      BY <1>6, <2>1 DEF Statement, DeletePermissionByDocument, DeleteGuestsByDocument, DeleteRow,
         ForeignKeys, GetDocument, InsertGuest, InsertPermissionGuest, UpsertPermissionUser,
         SelectGuest, UpdatePermissionGuest, DeletePermissionPrincipal, UpdateDocument,
         ReadDocument, ReadPermission, Commit, Delete
    <3> QED
      BY <1>5, <3>1
  <2>2. CASE pc[r] = "doc"
    <3>1. DeleteRow(r)
      BY <1>6, <2>2 DEF Statement, DeletePermissionByDocument, DeleteGuestsByDocument,
         ForeignKeys, GetDocument, InsertGuest, InsertPermissionGuest, UpsertPermissionUser,
         SelectGuest, UpdatePermissionGuest, DeletePermissionPrincipal, UpdateDocument,
         ReadDocument, ReadPermission, Commit
    <3>2. Rollback(r, "notfound") \/ Goto(r, "fk")
      BY <3>1 DEF DeleteRow, Delete
    <3> QED
      BY <1>3, <1>5, <3>2
  <2>3. CASE pc[r] = "fk"
    <3>1. ForeignKeys(r)
      BY <1>6, <2>3 DEF Statement, DeletePermissionByDocument, DeleteGuestsByDocument,
         DeleteRow, GetDocument, InsertGuest, InsertPermissionGuest, UpsertPermissionUser,
         SelectGuest, UpdatePermissionGuest, DeletePermissionPrincipal, UpdateDocument,
         ReadDocument, ReadPermission, Commit
    <3>2. \/ Rollback(r, "internal") /\ Locks(r) # {}
          \/ \E l \in {"commit", "perms"} : Goto(r, l)
      BY <3>1 DEF ForeignKeys
    <3> QED
      BY <1>3, <1>5, <2>3, <3>2
  <2>4. CASE pc[r] = "commit"
    <3>1. Commit(r, "ok")
      BY <1>6, <2>4 DEF Statement, DeletePermissionByDocument, DeleteGuestsByDocument,
         DeleteRow, ForeignKeys, GetDocument, InsertGuest, InsertPermissionGuest,
         UpsertPermissionUser, SelectGuest, UpdatePermissionGuest, DeletePermissionPrincipal,
         UpdateDocument, ReadDocument, ReadPermission
    <3> QED
      BY <1>4, <3>1
  <2> QED
    BY <1>2, <2>1, <2>2, <2>3, <2>4
<1>7. CASE DeadlockDetected(r)
  BY <1>3, <1>7 DEF DeadlockDetected
<1>8. CASE QueryFails(r) \/ CommitUnacknowledged(r)
  BY <1>3, <1>4, <1>8 DEF QueryFails, CommitUnacknowledged
<1> QED
  BY <1>6, <1>7, <1>8

\* A deletion that commits takes away every document it names.
LEMMA CommitDeletes ==
    ASSUME DInv, NEW r \in Requests, NEW status, Commit(r, status), req[r].op = "delete",
           NEW i \in DOMAIN req[r].docs
    PROVE  db[req[r].docs[i]] # Absent /\ db'[req[r].docs[i]] = Absent
<1> DEFINE q == req[r]
           t == tx[r]
           d == q.docs[i]
<1>1. OwnInv("commit", q, t) /\ t \in Transactions /\ pc[r] = "commit"
  BY CommitFacts DEF Commit
<1>2. q.docs \in Seq(Docs) /\ t.done = Len(q.docs)
  BY <1>1 DEF OwnInv, Names, Control
<1>3. d \in Finished(q, t) /\ d \in Docs
  BY <1>2 DEF Finished
<1>4. t.write[d] = Absent /\ db[d] # Absent
  BY <1>1, <1>3 DEF OwnInv, Deleting
<1>5. /\ Isolated(r, t.write, NewGuests(t.write)) /\ Publish(r, t.write) /\ Types
  BY <1>1, CommitIsolated DEF Commit, DInv
<1>6. \A x \in Rows : db'[x] = IF t.write[x] = Same THEN db[x] ELSE t.write[x]
  BY <1>5, PublishFacts
<1> QED
  BY <1>3, <1>4, <1>6, RowFacts

LEMMA WorkDeletes ==
    ASSUME DInv, NEW o \in Requests,
           Statement(o) \/ DeadlockDetected(o) \/ QueryFails(o) \/ CommitUnacknowledged(o),
           NEW r \in Requests, req[r].op = "delete", reply'[r] = "ok", ~Open(r)',
           NEW i \in DOMAIN req[r].docs
    PROVE  db[req[r].docs[i]] # Absent /\ db'[req[r].docs[i]] = Absent
<1>1. pc'[r] = "idle" /\ pc[r] # "idle"
  BY DeletionAt DEF Open
<1>2. o = r
  BY <1>1, WorkFrame
<1>3. Commit(r, "ok")
  BY <1>1, <1>2, DeletionEnds
<1> QED
  BY <1>3, CommitDeletes

\* A call ends by a step of its own, or when the process does.
LEMMA EndsByWork ==
    ASSUME DInv, [Next]_vars, NEW r \in Requests,
           pc[r] # "idle", pc'[r] = "idle", reply'[r] # "unavailable"
    PROVE  \E o \in Requests :
                Statement(o) \/ DeadlockDetected(o) \/ QueryFails(o) \/ CommitUnacknowledged(o)
<1>1. pc \in [Requests -> PC]
  BY DEF DInv, Types
<1>2. ~(\E u \in Users, d \in Docs : CreateDocument(u, d))
  BY DEF CreateDocument
<1>3. ~(\E o \in Requests : Begin(o))
  <2> SUFFICES ASSUME NEW o \in Requests, NEW q \in Calls, Known(q), Accept(o, q) PROVE FALSE
    BY DEF Begin
  <2>1. o # r
    BY DEF Accept, Open
  <2> QED
    BY <1>1, <2>1 DEF Accept
<1>4. ~Panic
  BY DEF Panic, Open
<1>5. ~Restart /\ ~UNCHANGED vars
  BY DEF Restart, vars
<1> QED
  BY <1>2, <1>3, <1>4, <1>5 DEF Next

\* A deletion answered with success has deleted all of its documents, each of
\* which was there until then.
THEOREM DeletionsOnce == Spec => DeletedOnce
<1>1. ASSUME DInv, [Next]_vars, NEW r \in Requests,
             req[r].op = "delete", reply'[r] = "ok", ~Open(r)', NEW i \in DOMAIN req[r].docs
      PROVE  db[req[r].docs[i]] # Absent /\ db'[req[r].docs[i]] = Absent
  <2>1. pc'[r] = "idle" /\ pc[r] # "idle" /\ pc \in [Requests -> PC]
    BY <1>1, DeletionAt DEF Open, DInv, Types
  <2>2. reply'[r] # "unavailable"
    BY <1>1
  <2>3. PICK o \in Requests :
            Statement(o) \/ DeadlockDetected(o) \/ QueryFails(o) \/ CommitUnacknowledged(o)
    BY <1>1, <2>1, <2>2, EndsByWork
  <2> QED
    BY <1>1, <2>3, WorkDeletes
<1>2. DInv /\ [Next]_vars =>
        [\A r \in Requests :
            req[r].op = "delete" /\ reply'[r] = "ok" /\ ~Open(r)' =>
                \A i \in DOMAIN req[r].docs :
                    db[req[r].docs[i]] # Absent /\ db'[req[r].docs[i]] = Absent]_vars
  BY <1>1
<1> QED
  BY <1>2, DocumentsInvariance, PTL DEF Spec, DeletedOnce

-----------------------------------------------------------------------------
(* Deletions that no other call overlaps.                                  *)

\* Such a call is the only one, and its own statements have left nothing
\* that refers to the document.
LoneInv ==
    \A r \in Requests : pc[r] # "idle" /\ ~overlapped[r] =>
        /\ \A o \in Requests \ {r} : pc[o] = "idle"
        /\ pc[r] \in {"guests", "doc", "fk"} => PermissionsOn(r, Doc(r)) = {}
        /\ pc[r] \in {"doc", "fk"} => GuestsOf(r, Doc(r)) = {}

LEMMA LoneFrame ==
    ASSUME LoneInv, UNCHANGED <<db, pc, req, tx, overlapped>>
    PROVE  LoneInv'
<1> SUFFICES ASSUME NEW r \in Requests, pc'[r] # "idle", ~overlapped'[r]
             PROVE  /\ \A o \in Requests \ {r} : pc'[o] = "idle"
                    /\ pc'[r] \in {"guests", "doc", "fk"} => PermissionsOn(r, Doc(r))' = {}
                    /\ pc'[r] \in {"doc", "fk"} => GuestsOf(r, Doc(r))' = {}
  BY Zenon DEF LoneInv
<1>1. PermissionsOn(r, Doc(r))' = PermissionsOn(r, Doc(r)) /\ GuestsOf(r, Doc(r))' = GuestsOf(r, Doc(r))
  BY DEF PermissionsOn, GuestsOf, Doc, View
<1> QED
  BY <1>1 DEF LoneInv

\* A deletion reads its own writes.
LEMMA DeleteView ==
    ASSUME DInv, NEW r \in Requests, NEW X, NEW l, Delete(r, X, l)
    PROVE  /\ \A x \in Rows : View(r, x)' = IF x \in X THEN Absent ELSE View(r, x)
           /\ Doc(r)' = Doc(r) /\ pc'[r] = l
           /\ \A o \in Requests \ {r} : pc'[o] = pc[o]
           /\ overlapped' = overlapped
<1> DEFINE t == [tx[r] EXCEPT !.write = [x \in Rows |-> IF x \in X THEN Absent ELSE tx[r].write[x]]]
<1>1. tx[r] \in Transactions /\ tx'[r] = t
  BY DEF DInv, Types, Delete
<1>2. t.done = tx[r].done /\ \A x \in Rows : t.write[x] = IF x \in X THEN Absent ELSE tx[r].write[x]
  BY <1>1 DEF Transactions
<1>3. UNCHANGED <<db, req, overlapped>> /\ pc' = [pc EXCEPT ![r] = l] /\ pc \in [Requests -> PC]
  BY DEF Delete, Goto, DInv, Types
<1> HIDE DEF t
<1>4. Doc(r)' = Doc(r)
  BY <1>1, <1>2, <1>3 DEF Doc
<1>5. ASSUME NEW x \in Rows PROVE View(r, x)' = IF x \in X THEN Absent ELSE View(r, x)
  BY <1>1, <1>2, <1>3, RowFacts DEF View
<1> QED
  BY <1>3, <1>4, <1>5

\* What a deletion has left of the rows that refer to its document.
LEMMA DeletionLeaves ==
    ASSUME DInv, NEW r \in Requests, pc[r] \in {"perms", "guests", "doc"},
           DeletePermissionByDocument(r) \/ DeleteGuestsByDocument(r) \/ DeleteRow(r),
           pc'[r] # "idle",
           pc[r] # "perms" => PermissionsOn(r, Doc(r)) = {},
           pc[r] = "doc" => GuestsOf(r, Doc(r)) = {}
    PROVE  /\ PermissionsOn(r, Doc(r))' = {}
           /\ pc'[r] \in {"doc", "fk"} => GuestsOf(r, Doc(r))' = {}
<1> DEFINE d == Doc(r)
<1>1. d \in Docs
  <2>1. OwnInv(pc[r], req[r], tx[r]) /\ pc[r] \in PC /\ tx[r] \in Transactions
    BY DEF DInv, Types
  <2>2. req[r].op = "delete"
    BY <2>1 DEF OwnInv, Control
  <2> QED
    BY <2>1, <2>2, BatchFacts DEF Doc, Current
<1>2. /\ \A x \in Principals \X {d} : x \in Rows /\ x \notin Guests /\ x \notin Docs
      /\ \A g \in Guests : g \in Rows /\ g \notin Docs
  <2>1. \A p \in Principals : /\ <<p, d>> \in Rows /\ <<p, d>> \notin Docs
                              /\ \A g \in Guests : <<p, d>> # g
    BY <1>1, PairRow, Zenon
  <2> QED
    BY <2>1, RowFacts
<1>3. CASE DeletePermissionByDocument(r)
  <2> DEFINE X == PermissionsOn(r, d)
  <2>1. Delete(r, X, "guests")
    BY <1>3 DEF DeletePermissionByDocument
  <2>2. /\ \A x \in Rows : View(r, x)' = IF x \in X THEN Absent ELSE View(r, x)
        /\ Doc(r)' = d /\ pc'[r] = "guests"
    BY <2>1, DeleteView
  <2>3. PermissionsOn(r, Doc(r))' = {}
    BY <1>2, <2>2 DEF PermissionsOn
  <2> QED
    BY <2>2, <2>3
<1>4. CASE DeleteGuestsByDocument(r)
  <2> DEFINE X == GuestsOf(r, d)
  <2>1. Delete(r, X, "doc") /\ pc[r] = "guests"
    BY <1>4 DEF DeleteGuestsByDocument
  <2>2. /\ \A x \in Rows : View(r, x)' = IF x \in X THEN Absent ELSE View(r, x)
        /\ Doc(r)' = d /\ pc'[r] = "doc"
    BY <2>1, DeleteView
  <2>3. X \subseteq Guests /\ PermissionsOn(r, d) = {} /\ Absent # d
    BY <1>1, <2>1, RowFacts DEF GuestsOf
  <2>4. PermissionsOn(r, Doc(r))' = {}
    <3> HIDE DEF X
    <3> QED
      BY <1>2, <2>2, <2>3 DEF PermissionsOn
  <2>5. GuestsOf(r, Doc(r))' = {}
    BY <1>2, <2>2, <2>3 DEF GuestsOf
  <2> QED
    BY <2>4, <2>5
<1>5. CASE DeleteRow(r)
  <2>1. Delete(r, {d}, "fk") /\ pc[r] = "doc"
    BY <1>5 DEF DeleteRow, Rollback, Answer, DInv, Types
  <2>2. /\ \A x \in Rows : View(r, x)' = IF x \in {d} THEN Absent ELSE View(r, x)
        /\ Doc(r)' = d
    BY <2>1, DeleteView
  <2>3. PermissionsOn(r, d) = {} /\ GuestsOf(r, d) = {}
    BY <2>1
  <2>4. PermissionsOn(r, Doc(r))' = {}
    BY <1>1, <1>2, <2>2, <2>3 DEF PermissionsOn
  <2>5. GuestsOf(r, Doc(r))' = {}
    BY <1>1, <1>2, <2>2, <2>3 DEF GuestsOf
  <2> QED
    BY <2>4, <2>5
<1> QED
  BY <1>3, <1>4, <1>5

LEMMA LocksRows ==
    ASSUME DInv, NEW r \in Requests, NEW x \in Locks(r)
    PROVE  x \in Rows
<1> DEFINE l == pc[r]
           q == req[r]
           t == tx[r]
           d == Doc(r)
<1>1. OwnInv(l, q, t) /\ l \in PC /\ t \in Transactions
  BY DEF DInv, Types
<1>2. l \in {"perms", "guests", "fk", "doc", "guest", "rename", "upsert", "regrade", "remove"}
  BY DEF Locks
<1>3. d \in Docs
  <2>1. CASE q.op = "delete"
    <3>1. l # "commit"
      BY <1>2
    <3> QED
      BY <1>1, <2>1, <3>1, BatchFacts DEF Doc, Current
  <2>2. CASE q.op # "delete"
    <3>1. q.docs[1] \in Docs
      BY <1>1, <1>2, <2>2 DEF OwnInv, Control, Names
    <3>2. t.done = 0
      BY <1>1, <1>2, <2>2, EmptyFacts DEF OwnInv, Control, Names, Written
    <3> QED
      BY <3>1, <3>2 DEF Doc
  <2> QED
    BY <2>1, <2>2
<1>4. l \in {"upsert", "regrade", "remove"} => q.who \in Principals
  BY <1>1 DEF OwnInv, Control, Names, Principals, DInv, Types
<1>5. \A p \in Principals : <<p, d>> \in Rows
  BY <1>3, PairRow
<1>6. d \in Rows /\ \A g \in Guests : g \in Rows
  BY <1>3, RowFacts
<1>7. PermissionsOn(r, d) \subseteq Rows /\ GuestsOf(r, d) \subseteq Rows
  BY <1>5, <1>6 DEF PermissionsOn, GuestsOf
<1>8. CASE l \in {"upsert", "regrade", "remove"}
  <2>1. x \in {<<q.who, d>>, d}
    BY <1>8 DEF Locks
  <2> QED
    BY <1>4, <1>5, <1>6, <1>8, <2>1
<1>9. CASE l \in {"perms", "guests", "fk"}
  <2>1. x \in PermissionsOn(r, d) \cup GuestsOf(r, d)
    BY <1>9 DEF Locks
  <2> QED
    BY <1>7, <2>1
<1>10. CASE l \in {"doc", "guest", "rename"}
  <2>1. x = d
    BY <1>10 DEF Locks
  <2> QED
    BY <1>6, <2>1
<1> QED
  BY <1>2, <1>8, <1>9, <1>10

\* Who waits has someone to wait for, and only those at work are waited for.
LEMMA BlockersWork ==
    ASSUME DInv, NEW r \in Requests, NEW o \in Blockers(r)
    PROVE  o \in Requests \ {r} /\ pc[o] # "idle" /\ pc[r] # "idle"
<1>1. o \in Requests \ {r}
  BY DEF Blockers
<1>2. pc[o] = "idle" => tx[o] = EmptyTx
  BY <1>1 DEF DInv, OwnInv, Control, Written
<1>3. pc[r] \in PC /\ OwnInv(pc[r], req[r], tx[r]) /\ tx[r] \in Transactions
  BY DEF DInv, Types
<1>4. pc[r] # "idle"
  BY DEF Blockers, Locks
<1>5. ASSUME tx[o] = EmptyTx PROVE FALSE
  <2>1. \A x \in Rows : tx[o].write[x] = Same
    BY <1>5, EmptyFacts
  <2>2. PICK x \in Locks(r) : tx[o].write[x] # Same
    BY <1>5, EmptyFacts DEF Blockers
  <2> QED
    BY <2>1, <2>2, LocksRows
<1> QED
  BY <1>1, <1>2, <1>4, <1>5

\* A call that goes on after a step of its own.
LEMMA WorkGoesOn ==
    ASSUME DInv, NEW r \in Requests,
           Statement(r) \/ DeadlockDetected(r) \/ QueryFails(r) \/ CommitUnacknowledged(r),
           pc'[r] # "idle"
    PROVE  /\ pc[r] # "idle" /\ overlapped'[r] = overlapped[r]
           /\ pc'[r] \in {"guests", "doc", "fk"} =>
                DeletePermissionByDocument(r) \/ DeleteGuestsByDocument(r) \/ DeleteRow(r)
<1>1. pc \in [Requests -> PC]
  BY DEF DInv, Types
<1>2. ASSUME NEW status PROVE ~Answer(r, status)
  BY <1>1 DEF Answer
<1>3. ~(DeadlockDetected(r) \/ QueryFails(r) \/ CommitUnacknowledged(r))
  BY <1>2 DEF DeadlockDetected, QueryFails, CommitUnacknowledged, Commit, Rollback
<1>4. ASSUME NEW l, Goto(r, l) PROVE pc'[r] = l /\ overlapped' = overlapped
  BY <1>1, <1>4 DEF Goto
<1>5. CASE DeletePermissionByDocument(r) \/ DeleteGuestsByDocument(r) \/ DeleteRow(r)
  BY <1>2, <1>4, <1>5
  DEF DeletePermissionByDocument, DeleteGuestsByDocument, DeleteRow, Delete, Rollback
<1>6. CASE ForeignKeys(r)
  BY <1>2, <1>4, <1>6 DEF ForeignKeys, Rollback
<1>7. CASE GetDocument(r)
  <2>1. Goto(r, req[r].op) /\ pc[r] = "check"
    BY <1>2, <1>7 DEF GetDocument, Rollback
  <2>2. req[r].op \in {"guest", "upsert"}
    BY <2>1 DEF DInv, OwnInv, Control
  <2> QED
    BY <1>4, <2>1, <2>2
<1>8. CASE InsertGuest(r) \/ InsertPermissionGuest(r) \/ UpsertPermissionUser(r)
  BY <1>2, <1>4, <1>8
  DEF InsertGuest, InsertPermissionGuest, UpsertPermissionUser, Insert, Rollback
<1>9. CASE SelectGuest(r)
  BY <1>1, <1>2, <1>9 DEF SelectGuest, Rollback
<1>10. CASE UpdatePermissionGuest(r) \/ DeletePermissionPrincipal(r)
  BY <1>2, <1>10 DEF UpdatePermissionGuest, DeletePermissionPrincipal, Autocommit, Rollback
<1>11. CASE UpdateDocument(r) \/ ReadDocument(r) \/ ReadPermission(r) \/ Commit(r, "ok")
  BY <1>2, <1>11 DEF UpdateDocument, ReadDocument, ReadPermission, Commit, Rollback
<1> QED
  BY <1>3, <1>5, <1>6, <1>7, <1>8, <1>9, <1>10, <1>11 DEF Statement

\* Only calls that are under way take steps.
LEMMA WorkIsOpen ==
    ASSUME DInv, NEW r \in Requests,
           Statement(r) \/ DeadlockDetected(r) \/ QueryFails(r) \/ CommitUnacknowledged(r)
    PROVE  pc[r] # "idle"
<1>1. CASE Statement(r)
  BY <1>1 DEF Statement, DeletePermissionByDocument, DeleteGuestsByDocument, DeleteRow,
     ForeignKeys, GetDocument, InsertGuest, InsertPermissionGuest, UpsertPermissionUser,
     SelectGuest, UpdatePermissionGuest, DeletePermissionPrincipal, UpdateDocument,
     ReadDocument, ReadPermission, Commit
<1>2. CASE DeadlockDetected(r)
  <2>1. PICK o : o \in Blockers(r)
    BY <1>2 DEF DeadlockDetected, Deadlocked
  <2> QED
    BY <2>1, BlockersWork
<1>3. CASE QueryFails(r) \/ CommitUnacknowledged(r)
  BY <1>3 DEF QueryFails, CommitUnacknowledged, Commit, Open
<1> QED
  BY <1>1, <1>2, <1>3

LEMMA LoneCreate ==
    ASSUME DInv, LoneInv, NEW u \in Users, NEW d \in Docs, CreateDocument(u, d)
    PROVE  LoneInv'
<1> SUFFICES ASSUME NEW r \in Requests, pc'[r] # "idle", ~overlapped'[r]
             PROVE  /\ \A o \in Requests \ {r} : pc'[o] = "idle"
                    /\ pc'[r] \in {"guests", "doc", "fk"} => PermissionsOn(r, Doc(r))' = {}
                    /\ pc'[r] \in {"doc", "fk"} => GuestsOf(r, Doc(r))' = {}
  BY Zenon DEF LoneInv
<1>1. creator[d] = Absent /\ UNCHANGED <<pc, req, tx, overlapped>>
  BY DEF CreateDocument
<1>2. /\ \A o \in Requests \ {r} : pc[o] = "idle"
      /\ pc[r] \in {"guests", "doc", "fk"} => PermissionsOn(r, Doc(r)) = {}
      /\ pc[r] \in {"doc", "fk"} => GuestsOf(r, Doc(r)) = {}
  BY <1>1 DEF LoneInv
<1>3. ASSUME pc[r] \in {"guests", "doc", "fk"}
      PROVE  PermissionsOn(r, Doc(r))' = PermissionsOn(r, Doc(r))
  <2>1. Doc(r) \in Docs /\ Doc(r) # d
    <3>1. OwnInv(pc[r], req[r], tx[r]) /\ pc[r] \in PC /\ tx[r] \in Transactions
      BY DEF DInv, Types
    <3>2. req[r].op = "delete"
      BY <1>3, <3>1 DEF OwnInv, Control
    <3>3. /\ tx[r].done \in Nat /\ tx[r].done < Len(req[r].docs) /\ Len(req[r].docs) \in Nat
          /\ \A i \in 1..Len(req[r].docs) : req[r].docs[i] \in Docs /\ creator[req[r].docs[i]] # Absent
      BY <1>3, <3>1, <3>2, BatchFacts
    <3> QED
      BY <1>1, <3>3 DEF Doc
  <2>2. Doc(r)' = Doc(r)
    BY <1>1 DEF Doc
  <2>3. \A p \in Principals : db'[<<p, Doc(r)>>] = db[<<p, Doc(r)>>]
    BY <2>1, CreateFacts
  <2>4. \A x \in Principals \X {Doc(r)} : db'[x] = db[x]
    BY <2>3
  <2> QED
    BY <1>1, <2>2, <2>4 DEF PermissionsOn, View
<1>4. GuestsOf(r, Doc(r))' = GuestsOf(r, Doc(r))
  <2>1. \A g \in Guests : db'[g] = db[g]
    BY CreateFacts
  <2> QED
    BY <1>1, <2>1 DEF GuestsOf, View, Doc
<1> QED
  BY <1>1, <1>2, <1>3, <1>4

LEMMA LoneBegin ==
    ASSUME DInv, LoneInv, NEW o \in Requests, NEW q, Callable(q), Accept(o, q)
    PROVE  LoneInv'
<1>1. CASE Invalid(q)
  BY <1>1, LoneFrame DEF Accept
<1>2. CASE ~Invalid(q)
  <2> SUFFICES ASSUME NEW r \in Requests, pc'[r] # "idle", ~overlapped'[r]
               PROVE  /\ \A p \in Requests \ {r} : pc'[p] = "idle"
                      /\ pc'[r] \in {"guests", "doc", "fk"} => PermissionsOn(r, Doc(r))' = {}
                      /\ pc'[r] \in {"doc", "fk"} => GuestsOf(r, Doc(r))' = {}
    BY Zenon DEF LoneInv
  <2>1. /\ pc' = [pc EXCEPT ![o] = First(q.op)] /\ pc \in [Requests -> PC]
        /\ overlapped' = [a \in Requests |-> IF a = o THEN \E p \in Requests : Open(p)
                                             ELSE overlapped[a] \/ Open(a)]
    BY <1>2 DEF Accept, DInv, Types
  <2>2. r = o
    <3> SUFFICES ASSUME r # o PROVE FALSE
      OBVIOUS
    <3>1. overlapped'[r] = (overlapped[r] \/ Open(r))
      BY <2>1, Zenon
    <3>2. Open(r)
      BY <2>1 DEF Open
    <3> QED
      BY <3>1, <3>2, Zenon
  <2>3. overlapped'[r] = (\E p \in Requests : Open(p))
    BY <2>1, <2>2, Zenon
  <2>4. \A p \in Requests : pc[p] = "idle"
    BY <2>3, Zenon DEF Open
  <2>5. pc'[r] \notin {"guests", "doc", "fk"}
    BY <2>1, <2>2 DEF First, Callable
  <2> QED
    BY <2>1, <2>2, <2>4, <2>5
<1> QED
  BY <1>1, <1>2

LEMMA LoneWork ==
    ASSUME DInv, LoneInv, NEW o \in Requests,
           Statement(o) \/ DeadlockDetected(o) \/ QueryFails(o) \/ CommitUnacknowledged(o)
    PROVE  LoneInv'
<1> SUFFICES ASSUME NEW r \in Requests, pc'[r] # "idle", ~overlapped'[r]
             PROVE  /\ \A p \in Requests \ {r} : pc'[p] = "idle"
                    /\ pc'[r] \in {"guests", "doc", "fk"} => PermissionsOn(r, Doc(r))' = {}
                    /\ pc'[r] \in {"doc", "fk"} => GuestsOf(r, Doc(r))' = {}
  BY Zenon DEF LoneInv
<1>1. pc[o] # "idle"
  BY WorkIsOpen
<1>2. r = o
  <2> SUFFICES ASSUME r # o PROVE FALSE
    OBVIOUS
  <2>1. pc'[r] = pc[r] /\ overlapped'[r] = overlapped[r]
    BY WorkFrame
  <2> QED
    BY <1>1, <2>1 DEF LoneInv
<1>3. /\ pc[r] # "idle" /\ overlapped'[r] = overlapped[r]
      /\ pc'[r] \in {"guests", "doc", "fk"} =>
            DeletePermissionByDocument(r) \/ DeleteGuestsByDocument(r) \/ DeleteRow(r)
  BY <1>2, WorkGoesOn
<1>4. /\ \A p \in Requests \ {r} : pc[p] = "idle"
      /\ pc[r] \in {"guests", "doc", "fk"} => PermissionsOn(r, Doc(r)) = {}
      /\ pc[r] \in {"doc", "fk"} => GuestsOf(r, Doc(r)) = {}
  BY <1>3 DEF LoneInv
<1>5. \A p \in Requests \ {r} : pc'[p] = "idle"
  BY <1>2, <1>4, WorkFrame
<1>6. ASSUME pc'[r] \in {"guests", "doc", "fk"}
      PROVE  /\ PermissionsOn(r, Doc(r))' = {}
             /\ pc'[r] \in {"doc", "fk"} => GuestsOf(r, Doc(r))' = {}
  <2>1. pc[r] \in {"perms", "guests", "doc"}
    BY <1>3, <1>6 DEF DeletePermissionByDocument, DeleteGuestsByDocument, DeleteRow
  <2> QED
    BY <1>3, <1>4, <1>6, <2>1, DeletionLeaves
<1> QED
  BY <1>5, <1>6

\* A deletion that no other call overlaps is answered with an internal error
\* only if the connection to Postgres fails.
THEOREM LoneDeletions ==
    ASSUME Faults = FALSE
    PROVE  Spec => LoneDeletionIsDefinite
<1>1. Init => LoneInv
  BY DEF Init, LoneInv
<1>2. DInv /\ LoneInv /\ [Next]_vars => LoneInv'
  <2> SUFFICES ASSUME DInv, LoneInv, [Next]_vars PROVE LoneInv'
    OBVIOUS
  <2>1. CASE \E u \in Users, d \in Docs : CreateDocument(u, d)
    BY <2>1, LoneCreate
  <2>2. ASSUME NEW r \in Requests, Begin(r) PROVE LoneInv'
    BY <2>2, CallsCallable, LoneBegin DEF Begin
  <2>3. ASSUME NEW r \in Requests,
               Statement(r) \/ DeadlockDetected(r) \/ QueryFails(r) \/ CommitUnacknowledged(r)
        PROVE  LoneInv'
    BY <2>3, LoneWork
  <2>4. CASE Panic
    BY <2>4 DEF Panic, LoneInv
  <2>5. CASE Restart \/ UNCHANGED vars
    BY <2>5, LoneFrame DEF Restart, vars
  <2> QED
    BY <2>1, <2>2, <2>3, <2>4, <2>5 DEF Next
<1>3. ASSUME DInv, LoneInv, [Next]_vars, NEW r \in Requests,
             req[r].op = "delete", ~Open(r)', reply'[r] = "internal"
      PROVE  overlapped[r]
  <2> SUFFICES ASSUME ~overlapped[r] PROVE FALSE
    OBVIOUS
  <2>1. pc'[r] = "idle" /\ pc[r] # "idle" /\ pc \in [Requests -> PC]
    BY <1>3, DeletionAt DEF Open, DInv, Types
  <2>2. PICK o \in Requests :
            Statement(o) \/ DeadlockDetected(o) \/ QueryFails(o) \/ CommitUnacknowledged(o)
    BY <1>3, <2>1, EndsByWork
  <2>3. o = r
    BY <1>3, <2>1, <2>2, WorkFrame
  <2>4. /\ \A p \in Requests \ {r} : pc[p] = "idle"
        /\ pc[r] = "fk" => PermissionsOn(r, Doc(r)) = {} /\ GuestsOf(r, Doc(r)) = {}
    BY <1>3, <2>1 DEF LoneInv
  <2>5. ~DeadlockDetected(r)
    <3> SUFFICES ASSUME DeadlockDetected(r) PROVE FALSE
      OBVIOUS
    <3>1. PICK p : p \in Blockers(r)
      BY DEF DeadlockDetected, Deadlocked
    <3> QED
      BY <1>3, <2>4, <3>1, BlockersWork
  <2>6. pc[r] = "fk" => Locks(r) = {}
    BY <2>4 DEF Locks
  <2> QED
    BY <1>3, <2>1, <2>2, <2>3, <2>5, <2>6, DeletionEnds
<1>4. DInv /\ LoneInv /\ [Next]_vars =>
        [\A r \in Requests :
            req[r].op = "delete" /\ ~Open(r)' /\ reply'[r] = "internal" => overlapped[r]]_vars
  BY <1>3
<1> QED
  BY <1>1, <1>2, <1>4, DocumentsInvariance, PTL DEF Spec, LoneDeletionIsDefinite
=============================================================================
