SPECIFICATION Spec
CONSTANTS
    ann = ann
    root = root
    old = old
    new = new
    Users = {ann, root}
    Admins = {root}
    Passwords = {old, new}
    FirstPassword = old
    NoPassword = NoPassword
    Days = {0, 2, 16}
    Earlier = {0, 3, 5}
    ScanLimit = 2
    MaxSent = 4
    MaxTokens = 3
    NoSession = NoSession
    NoRequest = NoRequest
    Replicas = {r1}
    Requests <- Everything
    MaxFaults = 1
INVARIANT BlockEndsSessions
INVARIANT ResetEndsSessions
PROPERTY BlockStands
CHECK_DEADLOCK FALSE
