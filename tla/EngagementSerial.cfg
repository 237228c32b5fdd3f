SPECIFICATION Spec
CONSTANTS
    alice = alice
    bob = bob
    p1 = p1
    p2 = p2
    c1 = c1
    c2 = c2
    Users = {alice, bob}
    NoParent = NoParent
    NoRequest = NoRequest
    Replicas = {r1}
    Posts = {p1, p2}
    Comments = {c1, c2, c3}
    PostAuthor <- Authors
    Requests <- Everything
    MaxFaults = 1
INVARIANT CountsAreExact
INVARIANT NoOrphanReplies
INVARIANT LikesGoWithComment
CHECK_DEADLOCK FALSE
