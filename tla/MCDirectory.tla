---------------------------- MODULE MCDirectory ----------------------------
EXTENDS Directory, TLC
MCKnows == "p1" :> {"p2"} @@ "p2" :> {"p1"}
MCMatches == "qa" :> {"p1"} @@ "qb" :> {"p2"}
MCDirSpec == (DirectoryStart({}, 0) \/ DirectoryStart({"p1"}, 0)) /\ [][DirectoryNext]_directoryVars
=============================================================================
