SPECIFICATION RaceSpec
CONSTANTS
    ann = ann
    root = root
    old = old
    new = new
    Users = {ann, root}
    Admins = {root}
    Passwords = {old, new}
    FirstPassword = old
    NoPassword = NoPassword
    Days = {0, 8}
    Earlier = {3, 5}
    ScanLimit = 2
    MaxSent = 6
    MaxTokens = 3
    NoSession = NoSession
    NoRequest = NoRequest
    Replicas = {r1, r2}
    Requests <- Races
    MaxFaults = 1
INVARIANT SessionsNeverMultiply
INVARIANT SignOutIsFinal
INVARIANT NeverOvercharged
INVARIANT PunishedAsEarned
CHECK_DEADLOCK FALSE
