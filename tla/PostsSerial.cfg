SPECIFICATION Spec
CONSTANTS
    alice = alice
    p1 = p1
    q1 = q1
    Users = {alice}
    NoUser = NoUser
    NoPost = NoPost
    NoRequest = NoRequest
    Replicas = {r1}
    Posts = {p1, p2}
    Reports = {q1}
    Requests <- Moderation
    MaxFaults = 1
INVARIANT OneVerdictPerReport
PROPERTY RejectionFinal
PROPERTY NoDoubleRemoval
PROPERTY FanoutShowsViewable
CHECK_DEADLOCK FALSE
