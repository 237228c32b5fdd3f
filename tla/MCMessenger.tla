---------------------------- MODULE MCMessenger ----------------------------
(***************************************************************************)
(* Messenger for TLC: two users at their pages, the others away.  Most     *)
(* starts have one replica at work; a group near its limit has two.        *)
(***************************************************************************)
EXTENDS Messenger

CONSTANTS ann, bob, cat, dan, eve, k1, k2, k3, k4, k5

VARIABLES
    up,     \* the replicas deployed
    met     \* bound: the users a page may write to, or name

Empty == [c \in {} |-> {}]

Closed == [u \in Online |-> NoConv]

\* With nothing stored: two clicks and no fault, or one click and faults.
\* With a group and a direct conversation: at two groups' sizes.
OneReplica ==
    /\ up = {CHOOSE r \in Replicas : TRUE}
    /\ met = {ann, bob, cat}
    /\ \/ StartFrom(Empty, Empty, Closed, 0, MaxFaults)
       \/ StartFrom(Empty, Empty, Closed, MaxClicks - 1, 0)
       \/ StartFrom(k1 :> {ann, bob}, k2 :> {ann, bob}, ann :> k1 @@ bob :> k1, 0, 0)
       \/ StartFrom(k1 :> {ann}, k2 :> {ann, bob}, ann :> k1 @@ bob :> k2, 0, 0)

\* A group with room for one, or for nobody, open at two members' pages, who
\* may each add somebody else.
AllReplicas ==
    /\ up = Replicas
    /\ \/ /\ met = {ann, bob, cat, dan}
          /\ StartFrom(k1 :> {ann, bob}, Empty, ann :> k1 @@ bob :> k1, 0, MaxFaults)
       \/ /\ met = {ann, bob, dan, eve}
          /\ StartFrom(k1 :> {ann, bob, cat}, Empty, ann :> k1 @@ bob :> k1, 0, MaxFaults)

MCNext ==
    /\ UNCHANGED <<up, met>>
    /\ Next
    /\ \A r \in Replicas \ up : pc'[r] = "idle"
    /\ \A u \in Online : peer'[u] \in met \cup {NoUser}
    /\ \A m \in inbox' : m.to \in met \cup {NoUser} /\ m.who \subseteq met

Spec == (OneReplica \/ AllReplicas) /\ [][MCNext]_<<vars, up, met>>
=============================================================================
