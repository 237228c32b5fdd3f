SPECIFICATION Spec
CONSTANTS
    alice = alice
    p1 = p1
    q1 = q1
    Users = {alice}
    NoUser = NoUser
    NoPost = NoPost
    NoRequest = NoRequest
    Replicas = {r1}
    Posts = {p1}
    Reports = {q1}
    Requests <- AuthorEdits
    MaxFaults = 0
PROPERTY RejectedNeverShown
CHECK_DEADLOCK FALSE
