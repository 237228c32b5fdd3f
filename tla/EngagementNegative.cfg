SPECIFICATION Spec
CONSTANTS
    alice = alice
    bob = bob
    p1 = p1
    p2 = p2
    c1 = c1
    c2 = c2
    Users = {alice, bob}
    NoParent = NoParent
    NoRequest = NoRequest
    Replicas = {r1, r2}
    Posts = {p1}
    Comments = {c1, c2}
    PostAuthor <- Authors
    Requests <- OneComment
    MaxFaults = 0
INVARIANT CountsNeverNegative
CHECK_DEADLOCK FALSE
