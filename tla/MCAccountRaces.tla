--------------------------- MODULE MCAccountRaces ---------------------------
(***************************************************************************)
(* Accounts with two replicas for TLC.  What races over a session and what *)
(* races over a member's standing are explored one at a time: clients send *)
(* the messages of one scene only.                                         *)
(***************************************************************************)
EXTENDS MCAccounts

VARIABLE scene

Scenes == [session |-> Rivals, standing |-> Standings]

Races == Rivals \cup Standings

\* One or three violations short of a block; a session does not depend on them.
RaceInit ==
    /\ Init
    /\ scene \in DOMAIN Scenes
    /\ scene = "session" => \A u \in Users \ Admins : user[u].violationCount = 3

Sent == Requests \ inbox

\* Days pass where something ends with them; four messages about a standing
\* are two penalties and two things to cross them.
RaceNext ==
    /\ UNCHANGED scene
    /\ Next
    /\ Sent' \subseteq Scenes[scene]
    /\ scene = "session" => today' = 0
    /\ scene = "standing" => Cardinality(Sent') <= 4

RaceSpec == RaceInit /\ [][RaceNext]_<<vars, scene>>
=============================================================================
