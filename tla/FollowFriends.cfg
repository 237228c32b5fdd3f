SPECIFICATION Spec
CONSTANTS
    ann = ann
    ben = ben
    low = low
    cap = cap
    Users = {ann, ben}
    Names = {low, cap}
    Lower <- LowerCase
    NoName = NoName
    NoRequest = NoRequest
    Replicas = {r1, r2}
    Requests <- Friends
    MaxFaults = 1
INVARIANT CountersExact
INVARIANT ProfilesSound
INVARIANT NoticesAreBacked
PROPERTY GraphSpec
CHECK_DEADLOCK FALSE
