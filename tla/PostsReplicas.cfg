SPECIFICATION FairSpec
CONSTANTS
    alice = alice
    p1 = p1
    q1 = q1
    Users = {alice}
    NoUser = NoUser
    NoPost = NoPost
    NoRequest = NoRequest
    Replicas = {r1, r2}
    Posts = {p1, p2}
    Reports = {q1, q2}
    Requests <- Rivals
    MaxFaults = 1
INVARIANT PenaltyBackedByRemoval
INVARIANT PendingIsAnnounced
INVARIANT UpheldMeansRemoved
PROPERTY ErasedStaysErased
PROPERTY OnlyAuthHoldsUp
CHECK_DEADLOCK FALSE
