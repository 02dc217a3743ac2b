-------------------------- MODULE MCFanoutInstance --------------------------
(* Fanout for TLC, from two beginnings: nobody is there, or sessions of an *)
(* editor have lost their writers, and with them their channel, while      *)
(* their readers go on.  To get from the first to the second needs as many *)
(* sessions at once, and a third one is needed to tell the difference.     *)
EXTENDS Fanout, FiniteSets

CONSTANTS
    Stale,          \* the slots of those sessions
    Watching        \* bound: the slots of clients that do not edit

VARIABLES
    slots,          \* bound: the slots a client connects with
    ops             \* bound: insertions of everybody

StaleReaders ==
    \E c \in Editor, i \in Instance, ch \in Channel :
        LET These(v, w) == [k \in Conn |-> IF k \in Stale THEN v ELSE w]
        IN  /\ owner   = These(c, None)
            /\ inst    = These(i, None)
            /\ reader  = These("on", "off")
            /\ chan    = These(ch, None)
            /\ oneshot = These("full", "empty")
            /\ doc     = [d \in Client |-> {}]
            /\ current = [d \in Client |-> None]
            /\ writer  = [k \in Conn |-> "off"]
            /\ sv      = [k \in Conn |-> [d \in Client |-> 0]]
            /\ bulk    = [k \in Conn |-> {}]
            /\ queue   = [k \in Conn |-> <<>>]
            /\ pending = [k \in Conn |-> NoMsg]
            /\ missed  = [k \in Conn |-> {}]
            /\ unheard = [k \in Conn |-> {}]
            /\ rows = {} /\ tombs = {}
            /\ natsOut = [j \in Instance |-> <<>>]
            /\ subscribed = {}

InstanceInit == \/ Init /\ slots = [c \in Client |-> IF c \in Editor THEN Stale ELSE Watching] /\ ops = 1
                \/ StaleReaders /\ slots = [c \in Client |-> Conn \ Stale] /\ ops = MaxOps

InBounds == /\ \A c \in Client : current'[c] \in slots[c] \cup {None}
            /\ Cardinality(rows') <= ops

InstanceNext == Next /\ InBounds /\ UNCHANGED <<slots, ops>>

InstanceSpec == InstanceInit /\ [][InstanceNext]_<<vars, slots, ops>> /\ Fairness
=============================================================================
