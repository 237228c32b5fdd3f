SPECIFICATION MCSpec
CONSTANTS
    annTab = annTab
    bobTab = bobTab
    bobTab2 = bobTab2
    catTab = catTab
    ann = ann
    bob = bob
    cat = cat
    room1 = room1
    room2 = room2
    Tabs = {annTab, bobTab, bobTab2, catTab}
    People = {ann, bob, cat}
    Owner <- MCOwner
    Meetings = {room1, room2}
    NoMeeting = NoMeeting
    MaxMoves = 3
    MaxBreaks = 1
    MaxPosts = 3
    FeedPage = 1
    MaxClicks = 3
    MaxLosses = 1
    MaxNotes = 2
    PageRows = 1
    PanelRows = 2
    MaxEvents = 2
    MaxTaps = 3
    MaxFaults = 1
    Windows = {"w1", "w2"}
    MaxActs = 5
    MaxCuts = 1
    Screens = {"w1", "w2"}
    MaxCodes = 2
    MaxForms = 4
    MaxMishaps = 1
    MaxFiles = 2
    MaxPicked = 3
    MaxTyped = 1
    MaxGestures = 6
    MaxSlips = 1
    Discussed = {"p1", "p2"}
    MyPosts = {"p1"}
    MaxUttered = 2
    MaxStrokes = 3
    MaxBreakdowns = 1
    Desks = {"d1", "d2"}
    Categories = {"hate", "violence"}
    MaxLevel = 2
    DefaultLevel = 2
    Submissions <- MCSubmissions
    MaxMedia = 1
    CacheLife = 2
    MaxTicks = 2
    MaxAnalyses = 2
    MaxEdits = 2
    MaxOutages = 1
    Folk = {"p1", "p2"}
    Knows <- MCKnows
    Matches <- MCMatches
    MaxTurns = 4
    MaxSnags = 1
INVARIANTS
    CallsSettle
    FeedAgrees
    NoticesAgree
    SessionsKept
    SignUpHolds
    AttachmentsKept
    ThreadHolds
    ModerationHolds
    DirectoryHolds
CHECK_DEADLOCK FALSE
