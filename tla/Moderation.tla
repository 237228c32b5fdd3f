----------------------------- MODULE Moderation -----------------------------
(***************************************************************************)
(* The automatic moderation of posts: the settings an administrator edits  *)
(* (AiSettingsPage.tsx of the admin SPA), their row at auth-service, and   *)
(* ai-service, which keeps a copy for CacheLife ticks and asks OpenAI      *)
(* about each part of a post on its own (content-moderation.service.ts).   *)
(* PostLifecycle has what becomes of the verdict.                          *)
(***************************************************************************)
EXTENDS Integers, Sequences, FiniteSetsExt

CONSTANTS
    Desks,          \* settings pages open, of one administrator or several
    Categories,     \* what OpenAI scores
    MaxLevel,       \* scores are 0..MaxLevel; thresholds start at 1
    DefaultLevel,   \* the threshold nobody set
    Submissions,    \* what may be posted: sequences of parts
    MaxMedia,       \* MAX_MEDIA_ITEMS
    CacheLife,      \* CONFIG_CACHE_MS, in ticks
    MaxTicks,       \* bound on the time that passes
    MaxAnalyses,    \* bound on the posts analysed
    MaxEdits,       \* bound on what the administrators do
    MaxOutages      \* bound on calls that fail

ASSUME ModerationAssumption ==
    /\ DefaultLevel \in 1..MaxLevel /\ CacheLife \in Nat \ {0}
    /\ {MaxLevel, MaxMedia, MaxTicks, MaxAnalyses, MaxEdits, MaxOutages} \subseteq Nat
    /\ \A s \in Submissions : \A k \in DOMAIN s :
           /\ s[k].kind \in {"text", "image", "clip"}
           /\ s[k].flagged \in BOOLEAN /\ s[k].scores \in [Categories -> 0..MaxLevel]

VARIABLES
    setting,        \* the row of aiModerationSetting; its thresholds may be {}
    desks,          \* states of the pages
    deskCalls,      \* their requests
    configCache,
    analyses,       \* the calls of analyze
    ticks,
    edits, outages,         \* auxiliary: at most MaxEdits and MaxOutages
    inForce,        \* auxiliary: the settings of each tick so far
    submitted       \* auxiliary: what pages sent

deskState == <<desks, deskCalls, submitted>>
aiState == <<configCache, analyses>>
moderationBounds == <<edits, outages>>
moderationVars == <<setting, deskState, aiState, ticks, moderationBounds, inForce>>

Levels == 1..MaxLevel
Clamp(x) == Max({1, Min({x, MaxLevel})})

\* normalizeCategoryThresholds, and mergeCategoryThresholds of the page
Normalized(thresholds, base) ==
    [c \in Categories |-> Clamp(IF c \in DOMAIN thresholds THEN thresholds[c] ELSE base)]

Defaults == [enabled |-> TRUE, temperature |-> DefaultLevel, thresholds |-> Normalized(<<>>, DefaultLevel)]

\* getAiModerationConfig: a row that is missing is made, with the defaults.
Config(row) == [row EXCEPT !.thresholds = Normalized(row.thresholds, row.temperature)]

\* Pages that are open show the defaults.
ModerationStart(open) ==
    /\ setting = [Defaults EXCEPT !.thresholds = <<>>]
    /\ desks = [d \in Desks |-> [phase |-> IF d \in open THEN "ready" ELSE "closed",
                           form |-> Defaults, saving |-> FALSE, dirty |-> d \notin open]]
    /\ deskCalls = {}
    /\ configCache = <<>>
    /\ analyses = {}
    /\ ticks = 0 /\ edits = 0 /\ outages = 0
    /\ inForce = <<{Defaults}>>
    /\ submitted = {}

Edit == edits < MaxEdits /\ edits' = edits + 1 /\ UNCHANGED outages
Outage == outages < MaxOutages /\ outages' = outages + 1 /\ UNCHANGED edits

Tick ==
    /\ ticks < MaxTicks /\ ticks' = ticks + 1
    /\ inForce' = Append(inForce, {Config(setting)})
    /\ UNCHANGED <<setting, deskState, aiState, moderationBounds>>

-----------------------------------------------------------------------------
(* The settings page *)

OpenSettings(d) ==
    /\ Edit
    /\ desks[d].phase = "closed"
    /\ desks' = [desks EXCEPT ![d].phase = "loading"]
    /\ deskCalls' = deskCalls \cup {[op |-> "load", from |-> d, at |-> "sent", value |-> Defaults]}
    /\ UNCHANGED <<setting, submitted, aiState, ticks, inForce>>

Answering(k, value) == deskCalls' = (deskCalls \ {k}) \cup {[k EXCEPT !.at = "done", !.value = value]}

LoadRead(k) ==
    /\ k.op = "load" /\ k.at = "sent"
    /\ Answering(k, Config(setting))
    /\ UNCHANGED <<setting, desks, submitted, aiState, ticks, moderationBounds, inForce>>

SettingsLoaded(k) ==
    /\ k.op = "load" /\ k.at = "done"
    /\ deskCalls' = deskCalls \ {k}
    /\ desks' = [desks EXCEPT ![k.from] =
                    [@ EXCEPT !.phase = "ready", !.form = k.value, !.dirty = (k.value # Config(setting))]]
    /\ UNCHANGED <<setting, submitted, aiState, ticks, moderationBounds, inForce>>

\* A page that could not load shows the form all the same, with the defaults.
DeskCallFails(k) ==
    /\ Outage
    /\ deskCalls' = deskCalls \ {k}
    /\ desks' = [desks EXCEPT ![k.from] = [@ EXCEPT !.phase = "ready", !.saving = FALSE, !.dirty = TRUE]]
    /\ UNCHANGED <<setting, submitted, aiState, ticks, inForce>>

\* The checkbox, the sliders and the button of the form; it stays open while
\* it is saved.
Changed(d, form) ==
    /\ Edit
    /\ desks[d].phase = "ready"
    /\ desks' = [desks EXCEPT ![d].form = form, ![d].dirty = TRUE]
    /\ UNCHANGED <<setting, deskCalls, submitted, aiState, ticks, inForce>>

ToggleEnabled(d) == Changed(d, [desks[d].form EXCEPT !.enabled = ~@])
SetTemperature(d, x) == desks[d].form.enabled /\ Changed(d, [desks[d].form EXCEPT !.temperature = x])
SetCategoryThreshold(d, c, x) == desks[d].form.enabled /\ Changed(d, [desks[d].form EXCEPT !.thresholds[c] = x])
ApplyDefaultToAll(d) ==
    /\ desks[d].form.enabled
    /\ Changed(d, [desks[d].form EXCEPT !.thresholds = Normalized(<<>>, desks[d].form.temperature)])

SubmitSettings(d) ==
    /\ Edit
    /\ desks[d].phase = "ready" /\ ~desks[d].saving
    /\ desks' = [desks EXCEPT ![d].saving = TRUE, ![d].dirty = FALSE]
    /\ deskCalls' = deskCalls \cup {[op |-> "save", from |-> d, at |-> "sent", value |-> desks[d].form]}
    /\ submitted' = submitted \cup {desks[d].form}
    /\ UNCHANGED <<setting, aiState, ticks, inForce>>

\* updateAiModerationConfig: the page gives every field, so what is there
\* counts for nothing; the other pages show what is no longer so.
UpdateConfig(k) ==
    LET row == [k.value EXCEPT !.temperature = Clamp(@), !.thresholds = Normalized(@, k.value.temperature)] IN
    /\ k.op = "save" /\ k.at = "sent"
    /\ setting' = row
    /\ inForce' = [inForce EXCEPT ![Len(inForce)] = @ \cup {Config(row)}]
    /\ Answering(k, Config(row))
    /\ desks' = [d \in Desks |-> IF d = k.from THEN desks[d] ELSE [desks[d] EXCEPT !.dirty = TRUE]]
    /\ UNCHANGED <<submitted, aiState, ticks, moderationBounds>>

\* Of the answer the page takes the thresholds, over any changed meanwhile.
SettingsSaved(k) ==
    /\ k.op = "save" /\ k.at = "done"
    /\ deskCalls' = deskCalls \ {k}
    /\ desks' = [desks EXCEPT ![k.from] = [@ EXCEPT !.saving = FALSE, !.form.thresholds = k.value.thresholds]]
    /\ UNCHANGED <<setting, submitted, aiState, ticks, moderationBounds, inForce>>

-----------------------------------------------------------------------------
(* ai-service *)

\* buildModerationInput: the text, and images while there is room for another;
\* a clip that Cloudinary does not host has no picture to look at.
ImagesBefore(parts, k) == {parts[j] : j \in {i \in 1..(k - 1) : parts[i].kind = "image"}}
ModerationInput(parts) ==
    {parts[k] : k \in {i \in DOMAIN parts :
        \/ parts[i].kind = "text"
        \/ parts[i].kind = "image" /\ Cardinality(ImagesBefore(parts, i)) < MaxMedia}}

\* With its settings known, an analysis ends at once when moderation is off
\* or there is nothing to look at, and else asks about every part.
Settling(a, config) ==
    LET input == ModerationInput(a.parts)
        idle == ~config.enabled \/ input = {}
    IN  [a EXCEPT !.config = config, !.asked = IF idle THEN {} ELSE input,
                  !.at = IF idle THEN "done" ELSE "asking"]

CacheFresh == configCache # <<>> /\ ticks - configCache[1].at < CacheLife

\* analyze, up to the answer of getModerationConfig
Analyze(parts) ==
    LET a == [nr |-> Cardinality(analyses) + 1, parts |-> parts, since |-> ticks, blind |-> FALSE,
              config |-> Defaults, at |-> "config", asked |-> {}, fulfilled |-> {}, verdict |-> "safe"]
    IN
    /\ a.nr <= MaxAnalyses
    /\ analyses' = analyses \cup {IF CacheFresh THEN Settling(a, configCache[1].value) ELSE a}
    /\ UNCHANGED <<setting, deskState, configCache, ticks, moderationBounds, inForce>>

Turning(a, b) == analyses' = (analyses \ {a}) \cup {b}

ConfigRead(a) ==
    /\ a.at = "config"
    /\ Turning(a, [a EXCEPT !.at = "read", !.config = Config(setting)])
    /\ UNCHANGED <<setting, deskState, configCache, ticks, moderationBounds, inForce>>

\* The copy counts from before it was asked for.
\* Mistake: the copy counts as fresh from its arrival.
ConfigStamped(a) ==
    /\ a.at = "read"
    /\ configCache' = <<[value |-> a.config, at |-> ticks]>>
    /\ Turning(a, Settling(a, a.config))
    /\ UNCHANGED <<setting, deskState, ticks, moderationBounds, inForce>>

ConfigAnswered(a) ==
    /\ a.at = "read"
    /\ configCache' = <<[value |-> a.config, at |-> a.since]>>
    /\ Turning(a, Settling(a, a.config))
    /\ UNCHANGED <<setting, deskState, ticks, moderationBounds, inForce>>

\* No settings: the defaults judge this post, and are not kept.
ConfigFails(a) ==
    /\ Outage
    /\ a.at \in {"config", "read"}
    /\ Turning(a, Settling([a EXCEPT !.blind = TRUE], Defaults))
    /\ UNCHANGED <<setting, deskState, configCache, ticks, inForce>>

PartAnswered(a, p) ==
    /\ a.at = "asking"
    /\ Turning(a, [a EXCEPT !.asked = @ \ {p}, !.fulfilled = @ \cup {p}])
    /\ UNCHANGED <<setting, deskState, configCache, ticks, moderationBounds, inForce>>

PartFails(a, p) ==
    /\ Outage
    /\ a.at = "asking"
    /\ Turning(a, [a EXCEPT !.asked = @ \ {p}])
    /\ UNCHANGED <<setting, deskState, configCache, ticks, inForce>>

\* What the answers say together; a failed call says nothing.
Slice(parts) ==
    [flagged |-> \E p \in parts : p.flagged,
     scores |-> [c \in Categories |-> Max({0} \cup {p.scores[c] : p \in parts})]]

EvaluateAgainstThresholds(slice, thresholds) ==
    slice.flagged \/ \E c \in Categories : slice.scores[c] >= thresholds[c]

\* All calls are settled; when every one failed, the post counts as safe.
Decide(a) ==
    LET harmful == EvaluateAgainstThresholds(Slice(a.fulfilled), a.config.thresholds) IN
    /\ a.at = "asking" /\ a.asked = {}
    /\ Turning(a, [a EXCEPT !.at = "done",
                   !.verdict = IF a.fulfilled # {} /\ harmful THEN "harmful" ELSE "safe"])
    /\ UNCHANGED <<setting, deskState, configCache, ticks, moderationBounds, inForce>>

ModerationNext ==
    \/ Tick
    \/ \E d \in Desks :
         \/ OpenSettings(d) \/ ToggleEnabled(d) \/ ApplyDefaultToAll(d) \/ SubmitSettings(d)
         \/ \E x \in Levels : SetTemperature(d, x) \/ (\E c \in Categories : SetCategoryThreshold(d, c, x))
    \/ \E k \in deskCalls :
         LoadRead(k) \/ SettingsLoaded(k) \/ UpdateConfig(k) \/ SettingsSaved(k) \/ DeskCallFails(k)
    \/ \E parts \in Submissions : Analyze(parts)
    \/ \E a \in analyses :
         \/ ConfigRead(a) \/ ConfigAnswered(a) \/ ConfigFails(a) \/ Decide(a)
         \/ \E p \in a.asked : PartAnswered(a, p) \/ PartFails(a, p)

-----------------------------------------------------------------------------
(* Properties *)

\* The settings of the CacheLife ticks up to the start of an analysis, and of
\* those it has waited since
LateSettings(a) == UNION {inForce[k] : k \in Max({1, a.since + 2 - CacheLife}) .. Len(inForce)}

\* A post is judged by settings no older than a copy may be, or by the
\* defaults when there were none to have: harmful exactly if a part whose
\* analysis was answered is flagged or scores as much as its threshold.
JudgedBySettings ==
    \A a \in analyses : a.at = "done" =>
        /\ a.config \in LateSettings(a) \cup (IF a.blind THEN {Defaults} ELSE {})
        /\ a.verdict = "harmful" <=>
               /\ a.config.enabled
               /\ \E p \in a.fulfilled :
                     p.flagged \/ \E c \in Categories : p.scores[c] >= a.config.thresholds[c]

\* The settings are those one page sent, whole, and a page that nothing has
\* changed since shows them.
SettingsWhole ==
    /\ Config(setting) \in submitted \cup {Defaults}
    /\ \A d \in Desks : desks[d].phase = "ready" /\ ~desks[d].saving /\ ~desks[d].dirty =>
           desks[d].form = Config(setting)

ModerationHolds == JudgedBySettings /\ SettingsWhole
=============================================================================
