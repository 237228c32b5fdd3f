------------------------------- MODULE MCWeb -------------------------------
(* The features of the web application and the services they talk to, each  *)
(* explored by itself: they share no state, so the run starts with one of   *)
(* them in focus and the others stay as they were.                          *)
EXTENDS Calls, Feed, Notices, Sessions, SignUp, Attachments, Thread, Moderation, Directory,
        TLC

CONSTANTS annTab, bobTab, bobTab2, catTab, ann, bob, cat, room1, room2

VARIABLE focus      \* the feature explored

(* The tabs of the calls: Bob has two, the caller Ann one, so has Cat. *)
MCOwner == annTab :> ann @@ bobTab :> bob @@ bobTab2 :> bob @@ catTab :> cat

(* A post of three parts, one of them flagged, and one with a clip only. *)
Part(kind, flagged, hate, violence) ==
    [kind |-> kind, flagged |-> flagged, scores |-> [hate |-> hate, violence |-> violence]]
MCSubmissions ==
    {<<Part("text", FALSE, 1, 0), Part("image", TRUE, 0, 1), Part("image", FALSE, 2, 2)>>,
     <<Part("clip", FALSE, 2, 2)>>}

(* Two people who follow each other, each found by a query of their own. *)
MCKnows == "p1" :> {"p2"} @@ "p2" :> {"p1"}
MCMatches == "qa" :> {"p1"} @@ "qb" :> {"p2"}

Features == {"calls", "feed", "notices", "sessions", "signUp", "attachments",
             "thread", "moderation", "directory"}

(* A feature in focus starts in any of its states of interest, the others   *)
(* in the one given last.                                                   *)
MCInit ==
    /\ focus \in Features
    /\ CASE focus = "calls" ->
               \/ CallsStart({annTab, bobTab, bobTab2}, {room2}, 0, 1)
               \/ CallsStart({annTab, bobTab, catTab}, {room2}, 0, 1)
               \/ CallsStart({annTab, bobTab}, {}, 1, 0)
         [] OTHER -> CallsStart({}, {}, 0, 0)
    /\ CASE focus = "feed" -> \E by \in {<<"other", "me">>, <<"other">>} : FeedStart(by)
         [] OTHER -> FeedStart(<<>>)
    /\ CASE focus = "notices" -> NoticesStart(1, 1, 0) \/ NoticesStart(0, 2, 0) \/ NoticesStart(1, 0, 1)
         [] OTHER -> NoticesStart(0, 0, 0)
    /\ SessionsStart({"w1"}, 0, 0)
    /\ CASE focus = "signUp" -> SignUpStart(FALSE, 0, 0) \/ SignUpStart(TRUE, 1, 0)
         [] OTHER -> SignUpStart(FALSE, 0, 0)
    /\ CASE focus = "attachments" -> \E p \in {"post", "comment", "reply"} : AttachmentsStart(p)
         [] OTHER -> AttachmentsStart("post")
    /\ ThreadStart("p1")
    /\ ModerationStart({"d1"})
    /\ CASE focus = "directory" -> DirectoryStart({}, 1) \/ DirectoryStart({"p1"}, 1)
         [] OTHER -> DirectoryStart({}, 0)

webVars == <<callVars, feedVars, noticeVars, sessionVars, signUpVars, attachVars,
             threadVars, moderationVars, directoryVars>>

MCNext ==
    /\ UNCHANGED focus
    /\ \/ /\ focus = "calls" /\ CallsNext
          /\ UNCHANGED <<feedVars, noticeVars, sessionVars, signUpVars,
                         attachVars, threadVars, moderationVars, directoryVars>>
       \/ /\ focus = "feed" /\ FeedNext
          /\ UNCHANGED <<callVars, noticeVars, sessionVars, signUpVars,
                         attachVars, threadVars, moderationVars, directoryVars>>
       \/ /\ focus = "notices" /\ NoticesNext
          /\ UNCHANGED <<callVars, feedVars, sessionVars, signUpVars,
                         attachVars, threadVars, moderationVars, directoryVars>>
       \/ /\ focus = "sessions" /\ SessionsNext
          /\ UNCHANGED <<callVars, feedVars, noticeVars, signUpVars,
                         attachVars, threadVars, moderationVars, directoryVars>>
       \/ /\ focus = "signUp" /\ SignUpNext
          /\ UNCHANGED <<callVars, feedVars, noticeVars, sessionVars,
                         attachVars, threadVars, moderationVars, directoryVars>>
       \/ /\ focus = "attachments" /\ AttachmentsNext
          /\ UNCHANGED <<callVars, feedVars, noticeVars, sessionVars,
                         signUpVars, threadVars, moderationVars, directoryVars>>
       \/ /\ focus = "thread" /\ ThreadNext
          /\ UNCHANGED <<callVars, feedVars, noticeVars, sessionVars,
                         signUpVars, attachVars, moderationVars, directoryVars>>
       \/ /\ focus = "moderation" /\ ModerationNext
          /\ UNCHANGED <<callVars, feedVars, noticeVars, sessionVars,
                         signUpVars, attachVars, threadVars, directoryVars>>
       \/ /\ focus = "directory" /\ DirectoryNext
          /\ UNCHANGED <<callVars, feedVars, noticeVars, sessionVars,
                         signUpVars, attachVars, threadVars, moderationVars>>

MCSpec == MCInit /\ [][MCNext]_<<focus, webVars>>
=============================================================================
