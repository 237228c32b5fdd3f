SPECIFICATION Spec
CONSTANTS
    ann = ann
    bob = bob
    cat = cat
    dan = dan
    eve = eve
    k1 = k1
    k2 = k2
    k3 = k3
    k4 = k4
    k5 = k5
    Users = {ann, bob, cat, dan, eve}
    Online = {ann, bob}
    Convs = {k1, k2, k3, k4, k5}
    NoConv = NoConv
    NoUser = NoUser
    NoRequest = NoRequest
    Replicas = {r1, r2}
    Requests <- Request
    GroupLimit = 3
    PageSize = 4
    MaxClicks = 2
    MaxFaults = 1
INVARIANT NoMessageTwice
INVARIANT ThreadAgrees
INVARIANT DirectIsUnique
INVARIANT ControlsComeBack
PROPERTY GroupNearLimit
CHECK_DEADLOCK FALSE
