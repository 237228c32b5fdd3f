--------------------------- MODULE ConsumerGroup ---------------------------
(***************************************************************************)
(* How a service of the backend takes its messages: its replicas form one  *)
(* Kafka consumer group (main.ts), each handles one message at a time, and *)
(* delivery is at least once.  A service's module extends this one with    *)
(* its database and its handlers, split at their awaits.                   *)
(***************************************************************************)
EXTENDS Naturals, FiniteSets

CONSTANTS
    Replicas,   \* the replicas of the consumer group
    Requests,   \* the messages the gateway sends
    NoRequest,  \* an idle replica's job
    MaxFaults   \* bound on crashes, expired sessions and failed queries

ASSUME ReplicasAssumption == IsFiniteSet(Replicas)
ASSUME GroupAssumption == NoRequest \notin Requests /\ MaxFaults \in Nat

VARIABLES
    inbox,   \* messages delivered to the group and not committed
    pc,      \* the await each replica's handler stands at, or "idle"
    job,     \* the message each replica is handling
    lease,   \* is the replica's group session still valid?
    faults   \* auxiliary: faults so far, at most MaxFaults

group == <<inbox, pc, job, lease, faults>>

GroupInit ==
    /\ inbox = Requests
    /\ pc = [r \in Replicas |-> "idle"]
    /\ job = [r \in Replicas |-> NoRequest]
    /\ lease = [r \in Replicas |-> FALSE]
    /\ faults = 0

\* A replica takes a message up; the handler's first await bears its pattern.
Take(r, m) ==
    /\ pc[r] = "idle"
    /\ m \in inbox
    /\ inbox' = inbox \ {m}
    /\ pc' = [pc EXCEPT ![r] = m.pattern]
    /\ job' = [job EXCEPT ![r] = m]
    /\ lease' = [lease EXCEPT ![r] = TRUE]
    /\ UNCHANGED faults

Goto(r, label) ==
    /\ pc' = [pc EXCEPT ![r] = label]
    /\ UNCHANGED <<inbox, job, lease, faults>>

Release(r) ==
    /\ pc' = [pc EXCEPT ![r] = "idle"]
    /\ job' = [job EXCEPT ![r] = NoRequest]
    /\ lease' = [lease EXCEPT ![r] = FALSE]

\* The handler answers or throws; either way its replica is free again.
Finish(r) == Release(r) /\ UNCHANGED <<inbox, faults>>

Fault == faults < MaxFaults /\ faults' = faults + 1

Redeliver(r) == inbox' = IF lease[r] THEN inbox \cup {job[r]} ELSE inbox

\* The replica dies: its uncommitted message goes to the group again.
Die(r) == pc[r] # "idle" /\ Fault /\ Redeliver(r) /\ Release(r)

\* The handler outlives its session: its message is delivered again while
\* the handler runs on.
OutliveSession(r) ==
    /\ pc[r] # "idle" /\ lease[r]
    /\ Fault
    /\ Redeliver(r)
    /\ lease' = [lease EXCEPT ![r] = FALSE]
    /\ UNCHANGED <<pc, job>>

\* A query fails, and the handler answers with an error.
Throw(r) == Fault /\ Release(r) /\ UNCHANGED inbox

Idle == \A r \in Replicas : pc[r] = "idle"

\* The type of the group's variables, given the labels of the handlers.
GroupType(Labels) ==
    /\ inbox \subseteq Requests
    /\ pc \in [Replicas -> Labels]
    /\ job \in [Replicas -> Requests \cup {NoRequest}]
    /\ lease \in [Replicas -> BOOLEAN]
    /\ faults \in 0..MaxFaults
=============================================================================
