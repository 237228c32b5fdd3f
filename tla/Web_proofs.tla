----------------------------- MODULE Web_proofs -----------------------------
(***************************************************************************)
(* What the automatic moderation keeps, for every number of settings pages *)
(* and posts, every set of categories and every life of the copy; and what *)
(* a composer keeps of its files, for every limit of the picker and every  *)
(* number of files, texts, clicks and failures; and what the pages show of *)
(* whom the user follows, for any number of people, pages and requests.    *)
(***************************************************************************)
EXTENDS Moderation, Attachments, Directory, FiniteSetTheorems, WellFoundedInduction, TLAPS

-----------------------------------------------------------------------------
(* Greatest numbers *)

\* A set of numbers up to a bound has a greatest one.
LEMMA GreatestThere ==
    ASSUME NEW N \in Nat, NEW S \in SUBSET (0..N), S # {}
    PROVE  Max(S) \in S /\ \A y \in S : Max(S) >= y
<1> DEFINE Above(m) == {y \in S : y > m}
           T == {Above(m) : m \in S}
<1>1. IsFiniteSet(0..N)
  BY FS_Interval
<1>2. IsFiniteSet(S)
  BY <1>1, FS_Subset
<1>3. PICK U \in T : \A V \in T : <<V, U>> \notin StrictSubsetOrdering(S)
  <2>1. \A V \in SUBSET S : V \in FiniteSubsetsOf(S)
    BY <1>2, FS_FiniteSubsetsOfFinite
  <2>2. T \subseteq FiniteSubsetsOf(S) /\ T # {}
    BY <2>1
  <2> HIDE DEF T
  <2> QED BY <2>2, FS_StrictSubsetOrderingWellFounded, WFMin
<1>4. PICK m \in S : U = Above(m)
  OBVIOUS
<1>5. ASSUME NEW y \in S PROVE m >= y
  <2>1. ASSUME y > m PROVE Above(y) \subseteq Above(m) /\ Above(y) # Above(m)
    <3>1. y \in Above(m) /\ y \notin Above(y)
      BY <2>1
    <3>2. S \subseteq Int
      OBVIOUS
    <3>3. ASSUME NEW z \in S, z > y PROVE z > m
      <4>1. z \in Int /\ y \in Int /\ m \in Int
        BY <3>2
      <4> QED BY <2>1, <3>3, <4>1
    <3> QED BY <3>1, <3>3
  <2>2. Above(y) \in SUBSET S /\ Above(m) \in SUBSET S /\ Above(y) \in T
    OBVIOUS
  <2>3. ~(y > m)
    <3> HIDE DEF T, Above
    <3> QED BY <1>3, <1>4, <2>1, <2>2 DEF StrictSubsetOrdering
  <2> QED BY <2>3
<1>6. \E x \in S : \A y \in S : x >= y
  BY <1>5
<1> QED BY <1>6 DEF Max

\* Of two, the greater and the smaller one.
LEMMA OfTwo ==
    ASSUME NEW x \in Int, NEW y \in Int
    PROVE  /\ Max({x, y}) = IF x >= y THEN x ELSE y
           /\ Min({x, y}) = IF x <= y THEN x ELSE y
<1>1. Max({x, y}) = CHOOSE u \in {x, y} : \A v \in {x, y} : u >= v
  BY DEF Max
<1>2. Min({x, y}) = CHOOSE u \in {x, y} : \A v \in {x, y} : u =< v
  BY DEF Min
<1>3. Max({x, y}) \in {x, y} /\ \A v \in {x, y} : Max({x, y}) >= v
  BY <1>1
<1>4. Min({x, y}) \in {x, y} /\ \A v \in {x, y} : Min({x, y}) =< v
  BY <1>2
<1> QED BY <1>3, <1>4

-----------------------------------------------------------------------------
(* The settings *)

Forms == [enabled : BOOLEAN, temperature : Levels, thresholds : [Categories -> Levels]]

DeskType ==
    [phase : {"closed", "loading", "ready"}, form : Forms, saving : BOOLEAN, dirty : BOOLEAN]

CallType == [op : {"load", "save"}, from : Desks, at : {"sent", "done"}, value : Forms]

\* What a page asked for, by what it shows while it waits.
CallSound(k) ==
    /\ k.op = "load" =>
           /\ desks[k.from].phase = "loading"
    /\ k.op = "save" =>
           /\ desks[k.from].phase = "ready" /\ desks[k.from].saving
           /\ k.value \in submitted
           /\ ~desks[k.from].dirty => k.value = desks[k.from].form
           /\ ~desks[k.from].dirty /\ k.at = "done" => k.value = Config(setting)

SettingsInv ==
    /\ desks \in [Desks -> DeskType]
    /\ deskCalls \subseteq CallType
    /\ submitted \subseteq Forms
    /\ \A d \in Desks : desks[d].saving => desks[d].phase = "ready"
    /\ \A k \in deskCalls : CallSound(k)
    /\ \A k, l \in deskCalls : k.from = l.from => k = l
    /\ SettingsWhole

-----------------------------------------------------------------------------
(* The analyses *)

Analysis(a) ==
    a = [nr |-> a.nr, parts |-> a.parts, since |-> a.since, blind |-> a.blind,
         config |-> a.config, at |-> a.at, asked |-> a.asked, fulfilled |-> a.fulfilled,
         verdict |-> a.verdict]

Parts == UNION {{s[k] : k \in DOMAIN s} : s \in Submissions}

\* The settings in force since a tick
Since(t) == UNION {inForce[k] : k \in (t + 1)..Len(inForce)}

Harmful(a) ==
    /\ a.config.enabled
    /\ \E p \in a.fulfilled :
          p.flagged \/ \E c \in Categories : p.scores[c] >= a.config.thresholds[c]

AnalysisSound(a) ==
    /\ Analysis(a)
    /\ a.parts \in Submissions /\ a.since \in 0..ticks /\ a.blind \in BOOLEAN
    /\ a.config \in Forms
    /\ a.asked \subseteq Parts /\ a.fulfilled \subseteq Parts
    /\ a.at \in {"config", "read"} => ~a.blind /\ a.asked = {} /\ a.fulfilled = {} /\ a.verdict = "safe"
    /\ a.at = "read" => a.config \in Since(a.since)
    /\ a.at \in {"asking", "done"} =>
           a.config \in LateSettings(a) \cup (IF a.blind THEN {Defaults} ELSE {})
    /\ a.at = "asking" => a.config.enabled
    /\ a.at = "done" => (a.verdict = "harmful" <=> Harmful(a))

CopySound ==
    \/ configCache = <<>>
    \/ \E v \in Forms, t \in 0..ticks :
          configCache = <<[value |-> v, at |-> t]>> /\ v \in Since(t)

JudgingInv ==
    /\ ticks \in Nat /\ inForce \in Seq(SUBSET Forms) /\ Len(inForce) = ticks + 1
    /\ Config(setting) \in inForce[Len(inForce)]
    /\ CopySound
    /\ \A a \in analyses : AnalysisSound(a)

-----------------------------------------------------------------------------
(* What the operators give *)

LEMMA Clamped ==
    ASSUME NEW x \in Int
    PROVE  Clamp(x) \in Levels /\ (x \in Levels => Clamp(x) = x)
<1>1. MaxLevel \in Int /\ MaxLevel >= 1
  BY ModerationAssumption
<1>2. Min({x, MaxLevel}) = IF x <= MaxLevel THEN x ELSE MaxLevel
  BY <1>1, OfTwo
<1> DEFINE m == Min({x, MaxLevel})
<1> HIDE DEF m
<1>3. m \in Int /\ m = IF x <= MaxLevel THEN x ELSE MaxLevel
  BY <1>1, <1>2 DEF m
<1>4. Max({1, m}) = IF 1 >= m THEN 1 ELSE m
  BY <1>3, OfTwo
<1>5. Clamp(x) = IF 1 >= m THEN 1 ELSE m
  BY <1>4 DEF Clamp, m
<1> QED BY <1>1, <1>3, <1>5 DEF Levels

LEMMA NormalizedType ==
    ASSUME NEW thresholds, NEW base \in Levels,
           \A c \in Categories : c \in DOMAIN thresholds => thresholds[c] \in Levels
    PROVE  /\ Normalized(thresholds, base) \in [Categories -> Levels]
           /\ thresholds \in [Categories -> Levels] => Normalized(thresholds, base) = thresholds
<1> DEFINE n(c) == IF c \in DOMAIN thresholds THEN thresholds[c] ELSE base
<1>1. Levels \subseteq Int /\ MaxLevel \in Int
  BY ModerationAssumption DEF Levels
<1>2. \A c \in Categories : Clamp(n(c)) \in Levels /\ Clamp(n(c)) = n(c)
  <2>1. ASSUME NEW c \in Categories PROVE n(c) \in Levels
    OBVIOUS
  <2> QED BY <1>1, <2>1, Clamped
<1>3. Normalized(thresholds, base) = [c \in Categories |-> Clamp(n(c))]
  BY DEF Normalized
<1> HIDE DEF n
<1>4. Normalized(thresholds, base) \in [Categories -> Levels]
  BY <1>2, <1>3
<1>5. ASSUME thresholds \in [Categories -> Levels]
      PROVE  Normalized(thresholds, base) = thresholds
  <2>1. \A c \in Categories : Clamp(n(c)) = thresholds[c]
    BY <1>2, <1>5 DEF n
  <2> QED BY <1>3, <1>5, <2>1
<1> QED BY <1>4, <1>5

LEMMA DefaultsForm == Defaults \in Forms
<1>1. DefaultLevel \in Levels
  BY ModerationAssumption DEF Levels
<1>2. Normalized(<<>>, DefaultLevel) \in [Categories -> Levels]
  <2>1. \A c \in Categories : c \in DOMAIN <<>> => <<>>[c] \in Levels
    OBVIOUS
  <2> QED BY <1>1, <2>1, NormalizedType
<1> QED BY <1>1, <1>2 DEF Defaults, Forms

\* A form that is stored comes back as it was.
LEMMA StoredAsSent ==
    ASSUME NEW f \in Forms
    PROVE  /\ [f EXCEPT !.temperature = Clamp(@), !.thresholds = Normalized(@, f.temperature)] = f
           /\ Config(f) = f
<1>1. f.temperature \in Levels /\ f.thresholds \in [Categories -> Levels] /\ Levels \subseteq Int
  BY ModerationAssumption DEF Forms, Levels
<1>2. Clamp(f.temperature) = f.temperature
  BY <1>1, Clamped
<1>3. Normalized(f.thresholds, f.temperature) = f.thresholds
  BY <1>1, NormalizedType
<1> QED BY <1>2, <1>3 DEF Config, Forms

LEMMA StartsWithDefaults ==
    ASSUME setting = [Defaults EXCEPT !.thresholds = <<>>]
    PROVE  Config(setting) = Defaults
<1>1. /\ setting.thresholds = <<>> /\ setting.temperature = DefaultLevel
      /\ [setting EXCEPT !.thresholds = Defaults.thresholds] = Defaults
  BY DEF Defaults
<1> QED BY <1>1 DEF Config, Defaults

-----------------------------------------------------------------------------
(* The settings are one page's, whole. *)

LEMMA ConfigThere ==
    ASSUME SettingsInv
    PROVE  Config(setting) \in Forms
BY DefaultsForm DEF SettingsInv, SettingsWhole

LEMMA OpenSettingsKeeps ==
    ASSUME SettingsInv, NEW d \in Desks, OpenSettings(d)
    PROVE  SettingsInv'
<1> USE DEF SettingsInv, DeskType, CallType
<1>1. desks' \in [Desks -> DeskType]
  BY DefaultsForm DEF OpenSettings, Edit
<1>2. /\ deskCalls' \subseteq CallType
      /\ submitted' \subseteq Forms
  BY DefaultsForm DEF OpenSettings, Edit
<1>3. \A e \in Desks : desks'[e].saving => desks'[e].phase = "ready"
  BY DefaultsForm DEF OpenSettings, Edit
<1>4. \A l \in deskCalls' : CallSound(l)'
  BY DefaultsForm DEF OpenSettings, Edit, CallSound
<1>5. \A l, m \in deskCalls' : l.from = m.from => l = m
  BY DefaultsForm DEF OpenSettings, Edit, CallSound
<1>6. SettingsWhole'
  BY DefaultsForm DEF OpenSettings, Edit, CallSound, SettingsWhole
<1> QED BY <1>1, <1>2, <1>3, <1>4, <1>5, <1>6

LEMMA LoadReadKeeps ==
    ASSUME SettingsInv, NEW k \in deskCalls, LoadRead(k)
    PROVE  SettingsInv'
<1> USE DEF SettingsInv, DeskType, CallType
<1>1. desks' \in [Desks -> DeskType]
  BY ConfigThere DEF LoadRead, Answering
<1>2. /\ deskCalls' \subseteq CallType
      /\ submitted' \subseteq Forms
  BY ConfigThere DEF LoadRead, Answering
<1>3. \A e \in Desks : desks'[e].saving => desks'[e].phase = "ready"
  BY ConfigThere DEF LoadRead, Answering
<1>4. \A l \in deskCalls' : CallSound(l)'
  BY ConfigThere DEF LoadRead, Answering, CallSound
<1>5. \A l, m \in deskCalls' : l.from = m.from => l = m
  <2>1. PICK n : n = [k EXCEPT !.at = "done", !.value = Config(setting)]
    OBVIOUS
  <2>2. n.from = k.from /\ deskCalls' = (deskCalls \ {k}) \cup {n}
    BY <2>1 DEF LoadRead, Answering
  <2> QED BY <2>2
<1>6. SettingsWhole'
  BY ConfigThere DEF LoadRead, Answering, CallSound, SettingsWhole
<1> QED BY <1>1, <1>2, <1>3, <1>4, <1>5, <1>6

LEMMA SettingsLoadedKeeps ==
    ASSUME SettingsInv, NEW k \in deskCalls, SettingsLoaded(k)
    PROVE  SettingsInv'
<1> USE DEF SettingsInv, DeskType, CallType
<1>1. desks' \in [Desks -> DeskType]
  BY DEF SettingsLoaded
<1>2. /\ deskCalls' \subseteq CallType
      /\ submitted' \subseteq Forms
  BY DEF SettingsLoaded
<1>3. \A e \in Desks : desks'[e].saving => desks'[e].phase = "ready"
  BY DEF SettingsLoaded
<1>4. \A l \in deskCalls' : CallSound(l)'
  BY DEF SettingsLoaded, CallSound
<1>5. \A l, m \in deskCalls' : l.from = m.from => l = m
  BY DEF SettingsLoaded, CallSound
<1>6. SettingsWhole'
  BY DEF SettingsLoaded, CallSound, SettingsWhole
<1> QED BY <1>1, <1>2, <1>3, <1>4, <1>5, <1>6

LEMMA DeskCallFailsKeeps ==
    ASSUME SettingsInv, NEW k \in deskCalls, DeskCallFails(k)
    PROVE  SettingsInv'
<1> USE DEF SettingsInv, DeskType, CallType
<1>1. desks' \in [Desks -> DeskType]
  BY DEF DeskCallFails
<1>2. /\ deskCalls' \subseteq CallType
      /\ submitted' \subseteq Forms
  BY DEF DeskCallFails
<1>3. \A e \in Desks : desks'[e].saving => desks'[e].phase = "ready"
  BY DEF DeskCallFails
<1>4. \A l \in deskCalls' : CallSound(l)'
  BY DEF DeskCallFails, CallSound
<1>5. \A l, m \in deskCalls' : l.from = m.from => l = m
  BY DEF DeskCallFails, CallSound
<1>6. SettingsWhole'
  BY DEF DeskCallFails, CallSound, SettingsWhole
<1> QED BY <1>1, <1>2, <1>3, <1>4, <1>5, <1>6

LEMMA SettingsSavedKeeps ==
    ASSUME SettingsInv, NEW k \in deskCalls, SettingsSaved(k)
    PROVE  SettingsInv'
<1> USE DEF SettingsInv, DeskType, CallType
<1>1. desks' \in [Desks -> DeskType]
  <2>1. PICK n : n = [desks[k.from] EXCEPT !.saving = FALSE,
                                           !.form.thresholds = k.value.thresholds]
    OBVIOUS
  <2>2. k.from \in Desks /\ k.value \in Forms /\ desks[k.from].form \in Forms
    OBVIOUS
  <2>3. n.form = [desks[k.from].form EXCEPT !.thresholds = k.value.thresholds]
    BY <2>1, <2>2
  <2>4. n.form \in Forms
    BY <2>2, <2>3 DEF Forms
  <2>5. n \in DeskType
    BY <2>1, <2>2, <2>4
  <2>6. desks' = [desks EXCEPT ![k.from] = n]
    BY <2>1 DEF SettingsSaved
  <2> QED BY <2>5, <2>6
<1>2. /\ deskCalls' \subseteq CallType
      /\ submitted' \subseteq Forms
  BY DEF SettingsSaved
<1>3. \A e \in Desks : desks'[e].saving => desks'[e].phase = "ready"
  BY DEF SettingsSaved
<1>4. \A l \in deskCalls' : CallSound(l)'
  BY DEF SettingsSaved, CallSound
<1>5. \A l, m \in deskCalls' : l.from = m.from => l = m
  BY DEF SettingsSaved, CallSound
<1>6. SettingsWhole'
  <2>1. UNCHANGED <<setting, submitted>> /\ k.op = "save" /\ k.at = "done"
    BY DEF SettingsSaved
  <2>2. Config(setting)' = Config(setting)
    BY <2>1 DEF Config
  <2>3. ASSUME ~desks[k.from].dirty
        PROVE  desks'[k.from].form = desks[k.from].form
    <3>1. k.value = desks[k.from].form
      BY <2>1, <2>3 DEF CallSound
    <3>2. desks'[k.from].form = [desks[k.from].form EXCEPT !.thresholds = k.value.thresholds]
      BY DEF SettingsSaved
    <3> QED BY <3>1, <3>2 DEF Forms
  <2>4. ~desks[k.from].dirty => desks[k.from].form = Config(setting)
    BY <2>1 DEF CallSound
  <2>5. \A d \in Desks : desks'[d].dirty = desks[d].dirty
                         /\ (d # k.from => desks'[d] = desks[d])
    BY DEF SettingsSaved
  <2>6. \A d \in Desks : desks'[d].phase = "ready" /\ ~desks'[d].saving /\ ~desks'[d].dirty =>
                              desks'[d].form = Config(setting)
    BY <2>3, <2>4, <2>5 DEF SettingsWhole
  <2> QED BY <2>1, <2>2, <2>6 DEF SettingsWhole
<1> QED BY <1>1, <1>2, <1>3, <1>4, <1>5, <1>6

LEMMA SubmitSettingsKeeps ==
    ASSUME SettingsInv, NEW d \in Desks, SubmitSettings(d)
    PROVE  SettingsInv'
<1> USE DEF SettingsInv, DeskType, CallType
<1>1. desks' \in [Desks -> DeskType]
  <2>1. desks' = [desks EXCEPT ![d] = [desks[d] EXCEPT !.saving = TRUE, !.dirty = FALSE]]
    BY DEF SubmitSettings
  <2>2. [desks[d] EXCEPT !.saving = TRUE, !.dirty = FALSE] \in DeskType
    OBVIOUS
  <2> QED BY <2>1, <2>2
<1>2. /\ deskCalls' \subseteq CallType
      /\ submitted' \subseteq Forms
  BY DEF SubmitSettings
<1>3. \A e \in Desks : desks'[e].saving => desks'[e].phase = "ready"
  BY DEF SubmitSettings
<1>4. \A l \in deskCalls' : CallSound(l)'
  BY DEF SubmitSettings, CallSound
<1>5. \A l, m \in deskCalls' : l.from = m.from => l = m
  BY DEF SubmitSettings, CallSound
<1>6. SettingsWhole'
  BY DEF SubmitSettings, CallSound, SettingsWhole
<1> QED BY <1>1, <1>2, <1>3, <1>4, <1>5, <1>6

LEMMA ChangedKeeps ==
    ASSUME SettingsInv, NEW d \in Desks, NEW form \in Forms, Changed(d, form)
    PROVE  SettingsInv'
<1> USE DEF SettingsInv, DeskType, CallType
<1>1. /\ desks' = [desks EXCEPT ![d] = [desks[d] EXCEPT !.form = form, !.dirty = TRUE]]
      /\ UNCHANGED <<setting, deskCalls, submitted>>
  BY DEF Changed
<1>2. [desks[d] EXCEPT !.form = form, !.dirty = TRUE] \in DeskType
  OBVIOUS
<1>3. desks' \in [Desks -> DeskType]
  BY <1>1, <1>2
<1>4. \A l \in deskCalls' : CallSound(l)'
  BY <1>1 DEF CallSound, Config
<1>5. SettingsWhole'
  BY <1>1 DEF SettingsWhole, Config
<1> QED BY <1>1, <1>3, <1>4, <1>5

\* What the form can be changed into is a form.
LEMMA FormStep ==
    ASSUME SettingsInv, NEW d \in Desks,
           \/ ToggleEnabled(d) \/ ApplyDefaultToAll(d)
           \/ \E x \in Levels : SetTemperature(d, x)
                               \/ \E c \in Categories : SetCategoryThreshold(d, c, x)
    PROVE  SettingsInv'
<1> DEFINE f == desks[d].form
<1>1. f \in Forms
  BY DEF SettingsInv, DeskType
<1> HIDE DEF f
<1>2. CASE ToggleEnabled(d)
  <2>1. [f EXCEPT !.enabled = ~@] \in Forms
    BY <1>1 DEF Forms
  <2> QED BY <1>2, <2>1, ChangedKeeps DEF ToggleEnabled, f
<1>3. CASE ApplyDefaultToAll(d)
  <2>1. Normalized(<<>>, f.temperature) \in [Categories -> Levels]
    <3>1. f.temperature \in Levels /\ \A c \in Categories : c \in DOMAIN <<>> => <<>>[c] \in Levels
      BY <1>1 DEF Forms
    <3> QED BY <3>1, NormalizedType
  <2>2. [f EXCEPT !.thresholds = Normalized(<<>>, f.temperature)] \in Forms
    BY <1>1, <2>1 DEF Forms
  <2> QED BY <1>3, <2>2, ChangedKeeps DEF ApplyDefaultToAll, f
<1>4. ASSUME NEW x \in Levels, SetTemperature(d, x) PROVE SettingsInv'
  <2>1. [f EXCEPT !.temperature = x] \in Forms
    BY <1>1 DEF Forms
  <2> QED BY <1>4, <2>1, ChangedKeeps DEF SetTemperature, f
<1>5. ASSUME NEW x \in Levels, NEW c \in Categories, SetCategoryThreshold(d, c, x)
      PROVE  SettingsInv'
  <2>1. [f EXCEPT !.thresholds[c] = x] \in Forms
    BY <1>1 DEF Forms
  <2> QED BY <1>5, <2>1, ChangedKeeps DEF SetCategoryThreshold, f
<1> QED BY <1>2, <1>3, <1>4, <1>5

\* What one page sent is stored whole; the pages that showed something else
\* are out of date.
LEMMA UpdateConfigKeeps ==
    ASSUME SettingsInv, NEW k \in deskCalls, UpdateConfig(k)
    PROVE  SettingsInv'
<1> USE DEF SettingsInv, DeskType, CallType
<1>1. k.op = "save" /\ k.at = "sent" /\ k.value \in Forms /\ k.from \in Desks
  BY DEF UpdateConfig
<1>2. setting' = k.value /\ Config(k.value) = k.value
  BY <1>1, StoredAsSent DEF UpdateConfig
<1>3. Config(setting)' = k.value
  BY <1>2 DEF Config
<1>4. PICK n : n = [k EXCEPT !.at = "done", !.value = k.value]
  OBVIOUS
<1>5. /\ n \in CallType
      /\ n.op = "save" /\ n.from = k.from /\ n.value = k.value /\ n.at = "done"
  BY <1>1, <1>4
<1>6. deskCalls' = (deskCalls \ {k}) \cup {n}
  BY <1>1, <1>2, <1>4, StoredAsSent DEF UpdateConfig, Answering
<1>7. /\ desks' = [d \in Desks |-> IF d = k.from THEN desks[d]
                                  ELSE [desks[d] EXCEPT !.dirty = TRUE]]
      /\ submitted' = submitted
  BY DEF UpdateConfig
<1>8. desks' \in [Desks -> DeskType]
  <2>1. \A d \in Desks : [desks[d] EXCEPT !.dirty = TRUE] \in DeskType /\ desks[d] \in DeskType
    OBVIOUS
  <2> HIDE DEF DeskType
  <2> QED BY <1>7, <2>1
<1>9. \A d \in Desks : /\ desks'[d].form = desks[d].form /\ desks'[d].phase = desks[d].phase
                       /\ (desks'[d].saving <=> desks[d].saving)
                       /\ ~desks'[d].dirty => d = k.from /\ ~desks[d].dirty
  BY <1>7
<1>10. ASSUME NEW l \in deskCalls' PROVE CallSound(l)'
  <2>1. CASE l = n
    BY <1>1, <1>3, <1>5, <1>7, <1>9, <2>1 DEF CallSound
  <2>2. CASE l \in deskCalls \ {k}
    <3>1. l.from # k.from /\ l.from \in Desks
      BY <2>2
    <3> QED BY <1>7, <1>9, <2>2, <3>1 DEF CallSound
  <2> QED BY <1>6, <2>1, <2>2
<1>11. SettingsWhole'
  <2>1. k.value \in submitted' /\ desks[k.from].saving
    BY <1>1, <1>7 DEF CallSound
  <2>2. Config(setting)' \in submitted' \cup {Defaults}
    BY <1>3, <2>1
  <2>3. ASSUME NEW d \in Desks,
               desks'[d].phase = "ready" /\ ~desks'[d].saving /\ ~desks'[d].dirty
        PROVE  desks'[d].form = Config(setting)'
    <3>1. d = k.from /\ ~desks[d].saving
      BY <1>9, <2>3
    <3> QED BY <2>1, <3>1
  <2> QED BY <2>2, <2>3 DEF SettingsWhole
<1>12. \A l, m \in deskCalls' : l.from = m.from => l = m
  BY <1>5, <1>6
<1>13. ASSUME NEW d \in Desks, desks'[d].saving PROVE desks'[d].phase = "ready"
  <2>1. desks[d].saving /\ desks'[d].phase = desks[d].phase
    BY <1>9, <1>13
  <2>2. desks[d].saving => desks[d].phase = "ready"
    OBVIOUS
  <2> QED BY <2>1, <2>2
<1> QED BY <1>5, <1>6, <1>7, <1>8, <1>10, <1>11, <1>12, <1>13

LEMMA SettingsStep ==
    ASSUME SettingsInv, [ModerationNext]_moderationVars
    PROVE  SettingsInv'
<1>1. CASE UNCHANGED <<setting, desks, deskCalls, submitted>>
  BY <1>1 DEF SettingsInv, SettingsWhole, CallSound, Config
<1>2. CASE \E d \in Desks :
             \/ OpenSettings(d) \/ ToggleEnabled(d) \/ ApplyDefaultToAll(d) \/ SubmitSettings(d)
             \/ \E x \in Levels : SetTemperature(d, x)
                                 \/ (\E c \in Categories : SetCategoryThreshold(d, c, x))
  BY <1>2, OpenSettingsKeeps, SubmitSettingsKeeps, FormStep
<1>3. CASE \E k \in deskCalls :
             \/ LoadRead(k) \/ SettingsLoaded(k) \/ UpdateConfig(k) \/ SettingsSaved(k)
             \/ DeskCallFails(k)
  BY <1>3, LoadReadKeeps, SettingsLoadedKeeps, UpdateConfigKeeps, SettingsSavedKeeps,
     DeskCallFailsKeeps
<1>4. CASE \/ Tick \/ \E parts \in Submissions : Analyze(parts)
           \/ \E a \in analyses :
                \/ ConfigRead(a) \/ ConfigAnswered(a) \/ ConfigFails(a) \/ Decide(a)
                \/ \E p \in a.asked : PartAnswered(a, p) \/ PartFails(a, p)
  <2>1. UNCHANGED <<setting, desks, deskCalls, submitted>>
    BY <1>4 DEF Tick, Analyze, ConfigRead, ConfigAnswered, ConfigFails, Decide, PartAnswered,
       PartFails, deskState
  <2> QED BY <1>1, <2>1
<1>5. CASE UNCHANGED moderationVars
  BY <1>1, <1>5 DEF moderationVars, deskState
<1> QED BY <1>2, <1>3, <1>4, <1>5 DEF ModerationNext

-----------------------------------------------------------------------------
(* A post is judged by settings that were in force. *)

\* The settings in force are only added to.
Grows ==
    /\ Len(inForce) <= Len(inForce)' /\ ticks <= ticks'
    /\ \A k \in 1..Len(inForce) : inForce[k] \subseteq inForce'[k]

InForceType == ticks \in Nat /\ inForce \in Seq(SUBSET Forms) /\ Len(inForce) = ticks + 1

LEMMA SinceGrows ==
    ASSUME InForceType, InForceType', Grows, NEW t \in Nat
    PROVE  Since(t) \subseteq Since(t)'
<1>1. Len(inForce) \in Nat /\ Len(inForce') \in Nat
  <2>1. inForce \in Seq(SUBSET Forms) /\ inForce' \in Seq(SUBSET Forms)
    BY DEF InForceType
  <2> QED BY <2>1
<1>2. ASSUME NEW k \in (t + 1)..Len(inForce)
      PROVE  k \in (t + 1)..Len(inForce)' /\ inForce[k] \subseteq inForce'[k]
  BY <1>1, <1>2 DEF Grows
<1> QED BY <1>2 DEF Since

\* Where the settings that may judge an analysis begin
LEMMA LateFrom ==
    ASSUME NEW x \in Int
    PROVE  LET n == Max({1, x}) IN n \in Nat \ {0} /\ (n = 1 \/ n = x) /\ n >= x
BY OfTwo

LEMMA LateGrows ==
    ASSUME InForceType, InForceType', Grows, NEW a, a.since \in Nat
    PROVE  LateSettings(a) \subseteq LateSettings(a)'
<1> DEFINE n == Max({1, a.since + 2 - CacheLife})
<1>1. n \in Nat \ {0}
  BY ModerationAssumption, LateFrom
<1>2. LateSettings(a) = UNION {inForce[k] : k \in n..Len(inForce)}
  BY DEF LateSettings
<1>3. LateSettings(a)' = UNION {inForce'[k] : k \in n..Len(inForce)'}
  BY DEF LateSettings
<1> HIDE DEF n
<1>4. Len(inForce) \in Nat /\ Len(inForce') \in Nat
  <2>1. inForce \in Seq(SUBSET Forms) /\ inForce' \in Seq(SUBSET Forms)
    BY DEF InForceType
  <2> QED BY <2>1
<1>5. ASSUME NEW k \in n..Len(inForce)
      PROVE  k \in n..Len(inForce)' /\ inForce[k] \subseteq inForce'[k]
  BY <1>1, <1>4, <1>5 DEF Grows
<1> QED BY <1>2, <1>3, <1>5

\* Settings in force since a tick a copy may come from judge the analysis.
LEMMA LateHas ==
    ASSUME InForceType, NEW a, a.since \in Nat, NEW t \in Nat, a.since - t < CacheLife,
           NEW v \in Since(t)
    PROVE  v \in LateSettings(a)
<1> DEFINE n == Max({1, a.since + 2 - CacheLife})
<1>1. n \in Nat \ {0} /\ (n = 1 \/ n = a.since + 2 - CacheLife) /\ CacheLife \in Nat
  BY ModerationAssumption, LateFrom
<1>2. LateSettings(a) = UNION {inForce[k] : k \in n..Len(inForce)}
  BY DEF LateSettings
<1> HIDE DEF n
<1>3. PICK k \in (t + 1)..Len(inForce) : v \in inForce[k]
  BY DEF Since
<1>4. Len(inForce) \in Nat
  BY DEF InForceType
<1>5. k \in n..Len(inForce)
  BY <1>1, <1>3, <1>4
<1> QED BY <1>2, <1>3, <1>5

\* So what holds of an analysis, and of the copy, goes on to hold.
LEMMA SoundGrows ==
    ASSUME InForceType, InForceType', Grows, NEW a, AnalysisSound(a)
    PROVE  AnalysisSound(a)'
<1>1. a.since \in 0..ticks /\ a.since \in Nat /\ a.since \in 0..ticks'
  BY DEF AnalysisSound, InForceType, Grows
<1>2. Since(a.since) \subseteq Since(a.since)' /\ LateSettings(a) \subseteq LateSettings(a)'
  BY <1>1, SinceGrows, LateGrows
<1> QED BY <1>1, <1>2 DEF AnalysisSound, Analysis, Harmful

LEMMA CopyGrows ==
    ASSUME InForceType, InForceType', Grows, configCache' = configCache, CopySound
    PROVE  CopySound'
<1>1. CASE configCache = <<>>
  BY <1>1 DEF CopySound
<1>2. CASE configCache # <<>>
  <2>1. PICK v \in Forms, t \in 0..ticks :
            configCache = <<[value |-> v, at |-> t]>> /\ v \in Since(t)
    BY <1>2 DEF CopySound
  <2>2. t \in Nat /\ t \in 0..ticks'
    BY DEF InForceType, Grows
  <2>3. v \in Since(t)'
    BY <2>1, <2>2, SinceGrows
  <2> QED BY <2>1, <2>2, <2>3 DEF CopySound
<1> QED BY <1>1, <1>2

LEMMA StillInForce ==
    ASSUME InForceType, UNCHANGED <<ticks, inForce>>
    PROVE  InForceType' /\ Grows
BY DEF InForceType, Grows

LEMMA TickSteps ==
    ASSUME SettingsInv, InForceType, Tick
    PROVE  InForceType' /\ Grows /\ Config(setting)' \in inForce'[Len(inForce')]
<1>1. Config(setting) \in Forms
  BY ConfigThere
<1>2. PICK v : v = Config(setting)
  OBVIOUS
<1>3. /\ ticks' = ticks + 1 /\ inForce' = Append(inForce, {v}) /\ setting' = setting
      /\ v \in Forms
  BY <1>1, <1>2 DEF Tick
<1>4. Config(setting)' = v
  BY <1>2, <1>3 DEF Config
<1>5. Len(inForce') = Len(inForce) + 1 /\ inForce' \in Seq(SUBSET Forms)
  BY <1>3 DEF InForceType
<1>6. /\ inForce'[Len(inForce) + 1] = {v}
      /\ \A k \in 1..Len(inForce) : inForce'[k] = inForce[k]
  BY <1>3 DEF InForceType
<1>7. InForceType'
  BY <1>3, <1>5 DEF InForceType
<1> QED BY <1>3, <1>4, <1>5, <1>6, <1>7 DEF InForceType, Grows

LEMMA UpdateSteps ==
    ASSUME SettingsInv, InForceType, NEW k \in deskCalls, UpdateConfig(k)
    PROVE  InForceType' /\ Grows /\ Config(setting)' \in inForce'[Len(inForce')]
<1>1. k.value \in Forms
  BY DEF SettingsInv, CallType
<1>2. setting' = k.value /\ Config(k.value) = k.value /\ ticks' = ticks
  BY <1>1, StoredAsSent DEF UpdateConfig
<1>3. Config(setting)' = k.value
  BY <1>2 DEF Config
<1>4. PICK n \in Nat : n = Len(inForce)
  BY DEF InForceType
<1>5. inForce' = [inForce EXCEPT ![n] = @ \cup {k.value}]
  BY <1>1, <1>2, <1>4, StoredAsSent DEF UpdateConfig
<1>6. n \in 1..Len(inForce) /\ inForce[n] \subseteq Forms
  BY <1>4 DEF InForceType
<1>7. inForce[n] \cup {k.value} \in SUBSET Forms
  BY <1>1, <1>6
<1>8. inForce' \in Seq(SUBSET Forms) /\ Len(inForce') = n
  BY <1>4, <1>5, <1>6, <1>7 DEF InForceType
<1>9. /\ inForce'[n] = inForce[n] \cup {k.value}
      /\ \A j \in 1..Len(inForce) : j # n => inForce'[j] = inForce[j]
  BY <1>5, <1>6 DEF InForceType
<1>10. InForceType'
  BY <1>2, <1>4, <1>8 DEF InForceType
<1> QED BY <1>2, <1>3, <1>4, <1>8, <1>9, <1>10 DEF InForceType, Grows

\* What one post is made of
LEMMA InputFromParts ==
    ASSUME NEW parts \in Submissions
    PROVE  ModerationInput(parts) \subseteq Parts
BY DEF ModerationInput, Parts

\* An analysis that knows its settings is sound when they are late enough.
LEMMA SettlingSound ==
    ASSUME NEW a, Analysis(a), a.parts \in Submissions, a.since \in 0..ticks, a.blind \in BOOLEAN,
           a.asked = {}, a.fulfilled = {}, a.verdict = "safe",
           NEW v \in Forms, v \in LateSettings(a) \cup (IF a.blind THEN {Defaults} ELSE {})
    PROVE  AnalysisSound(Settling(a, v))
<1>1. PICK b : b = Settling(a, v)
  OBVIOUS
<1>2. /\ Analysis(b) /\ b.parts = a.parts /\ b.since = a.since /\ b.blind = a.blind
      /\ b.config = v /\ b.fulfilled = {} /\ b.verdict = "safe"
      /\ b.asked \in {{}, ModerationInput(a.parts)}
      /\ b.at \in {"asking", "done"} /\ (b.at = "asking" => v.enabled)
  BY <1>1 DEF Settling, Analysis
<1>3. LateSettings(b) = LateSettings(a)
  BY <1>2 DEF LateSettings
<1>4. b.asked \subseteq Parts
  BY <1>2, InputFromParts
<1>5. AnalysisSound(b)
  BY <1>2, <1>3, <1>4 DEF AnalysisSound, Harmful
<1> QED BY <1>1, <1>5

\* A step of an analysis: what it leaves is sound, and so is the rest.
LEMMA AnalysesKept ==
    ASSUME JudgingInv, UNCHANGED <<setting, ticks, inForce>>, CopySound',
           \A b \in analyses' : b \in analyses \/ AnalysisSound(b)
    PROVE  JudgingInv'
<1>1. InForceType /\ InForceType' /\ Grows
  BY StillInForce DEF JudgingInv, InForceType
<1>2. \A b \in analyses' : AnalysisSound(b)'
  BY <1>1, SoundGrows DEF JudgingInv
<1>3. Config(setting)' = Config(setting)
  BY DEF Config
<1> QED BY <1>1, <1>2, <1>3 DEF JudgingInv, InForceType

LEMMA CopyStays ==
    ASSUME JudgingInv, UNCHANGED <<ticks, inForce, configCache>>
    PROVE  CopySound'
BY StillInForce, CopyGrows DEF JudgingInv, InForceType

LEMMA AnalyzeKeeps ==
    ASSUME JudgingInv, NEW parts \in Submissions, Analyze(parts)
    PROVE  JudgingInv'
<1>1. PICK a : a = [nr |-> Cardinality(analyses) + 1, parts |-> parts, since |-> ticks,
                    blind |-> FALSE, config |-> Defaults, at |-> "config", asked |-> {},
                    fulfilled |-> {}, verdict |-> "safe"]
  OBVIOUS
<1>2. /\ UNCHANGED <<setting, ticks, inForce, configCache>>
      /\ analyses' = analyses \cup {IF CacheFresh THEN Settling(a, configCache[1].value) ELSE a}
  BY <1>1 DEF Analyze
<1>3. /\ Analysis(a) /\ a.parts \in Submissions /\ a.since \in 0..ticks /\ a.since = ticks
      /\ a.blind \in BOOLEAN /\ a.asked = {} /\ a.fulfilled = {} /\ a.verdict = "safe"
  BY <1>1 DEF Analysis, JudgingInv
<1>4. AnalysisSound(a)
  <2>1. ~a.blind /\ a.at = "config" /\ a.config \in Forms
    BY <1>1, DefaultsForm
  <2> QED BY <1>3, <2>1 DEF AnalysisSound
<1>5. ASSUME CacheFresh PROVE AnalysisSound(Settling(a, configCache[1].value))
  <2>1. PICK v \in Forms, t \in 0..ticks :
            configCache = <<[value |-> v, at |-> t]>> /\ v \in Since(t)
    BY <1>5 DEF CacheFresh, JudgingInv, CopySound
  <2>2. configCache[1].value = v /\ ticks - t < CacheLife
    BY <1>5, <2>1 DEF CacheFresh
  <2>3. v \in LateSettings(a)
    <3>1. InForceType /\ a.since \in Nat /\ t \in Nat /\ a.since - t < CacheLife
      BY <1>3, <2>2 DEF JudgingInv, InForceType
    <3> QED BY <2>1, <3>1, LateHas
  <2> QED BY <1>3, <2>2, <2>3, SettlingSound
<1> QED BY <1>2, <1>4, <1>5, AnalysesKept, CopyStays

LEMMA ConfigReadKeeps ==
    ASSUME SettingsInv, JudgingInv, NEW a \in analyses, ConfigRead(a)
    PROVE  JudgingInv'
<1>1. PICK b : b = [a EXCEPT !.at = "read", !.config = Config(setting)]
  OBVIOUS
<1>2. /\ a.at = "config" /\ AnalysisSound(a)
      /\ analyses' = (analyses \ {a}) \cup {b} /\ UNCHANGED <<setting, ticks, inForce, configCache>>
  BY <1>1 DEF ConfigRead, Turning, JudgingInv
<1>3. /\ Analysis(b) /\ b.parts = a.parts /\ b.since = a.since /\ b.blind = a.blind
      /\ b.config = Config(setting) /\ b.fulfilled = a.fulfilled /\ b.verdict = a.verdict
      /\ b.asked = a.asked /\ b.at = "read"
  BY <1>1, <1>2 DEF Analysis, AnalysisSound
<1>4. b.config \in Since(b.since) /\ b.config \in Forms
  <2>1. PICK n \in Nat : n = Len(inForce)
    BY DEF JudgingInv
  <2>2. n = ticks + 1 /\ ticks \in Nat /\ a.since \in 0..ticks
    BY <1>2, <2>1 DEF JudgingInv, AnalysisSound
  <2>3. n \in (b.since + 1)..n
    BY <1>3, <2>2
  <2> QED BY <1>3, <2>1, <2>3, ConfigThere DEF Since, JudgingInv
<1>5. AnalysisSound(b)
  BY <1>2, <1>3, <1>4 DEF AnalysisSound
<1> QED BY <1>2, <1>5, AnalysesKept, CopyStays

\* The settings that were read while the analysis waited
LEMMA ReadIsLate ==
    ASSUME JudgingInv, NEW a \in analyses, a.at = "read"
    PROVE  /\ a.config \in LateSettings(a) /\ a.config \in Since(a.since) /\ a.config \in Forms
           /\ a.since \in 0..ticks
<1>1. a.since \in 0..ticks /\ a.config \in Since(a.since) /\ a.config \in Forms /\ ticks \in Nat
  BY DEF JudgingInv, AnalysisSound
<1>2. a.since \in Nat /\ a.since - a.since < CacheLife
  BY <1>1, ModerationAssumption
<1>3. InForceType
  BY DEF JudgingInv, InForceType
<1> QED BY <1>1, <1>2, <1>3, LateHas

LEMMA ConfigAnsweredKeeps ==
    ASSUME JudgingInv, NEW a \in analyses, ConfigAnswered(a)
    PROVE  JudgingInv'
<1>1. /\ a.at = "read" /\ AnalysisSound(a) /\ UNCHANGED <<setting, ticks, inForce>>
      /\ configCache' = <<[value |-> a.config, at |-> a.since]>>
      /\ analyses' = (analyses \ {a}) \cup {Settling(a, a.config)}
  BY DEF ConfigAnswered, Turning, JudgingInv
<1>2. AnalysisSound(Settling(a, a.config))
  BY <1>1, ReadIsLate, SettlingSound DEF AnalysisSound
<1>3. CopySound'
  <2>1. a.config \in Forms /\ a.since \in 0..ticks' /\ a.config \in Since(a.since)'
    BY <1>1, ReadIsLate DEF Since
  <2> QED BY <1>1, <2>1 DEF CopySound
<1> QED BY <1>1, <1>2, <1>3, AnalysesKept

LEMMA ConfigFailsKeeps ==
    ASSUME JudgingInv, NEW a \in analyses, ConfigFails(a)
    PROVE  JudgingInv'
<1>1. PICK b : b = [a EXCEPT !.blind = TRUE]
  OBVIOUS
<1>2. /\ a.at \in {"config", "read"} /\ AnalysisSound(a)
      /\ UNCHANGED <<setting, ticks, inForce, configCache>>
      /\ analyses' = (analyses \ {a}) \cup {Settling(b, Defaults)}
  BY <1>1 DEF ConfigFails, Turning, JudgingInv
<1>3. /\ Analysis(b) /\ b.parts = a.parts /\ b.since = a.since /\ b.blind
      /\ b.blind \in BOOLEAN /\ b.fulfilled = {} /\ b.verdict = "safe" /\ b.asked = {}
  BY <1>1, <1>2 DEF Analysis, AnalysisSound
<1>4. AnalysisSound(Settling(b, Defaults))
  BY <1>2, <1>3, DefaultsForm, SettlingSound DEF AnalysisSound
<1> QED BY <1>2, <1>4, AnalysesKept, CopyStays

LEMMA PartKeeps ==
    ASSUME JudgingInv, NEW a \in analyses, NEW p \in a.asked, PartAnswered(a, p) \/ PartFails(a, p)
    PROVE  JudgingInv'
<1>1. PICK b \in {[a EXCEPT !.asked = @ \ {p}, !.fulfilled = @ \cup {p}],
                  [a EXCEPT !.asked = @ \ {p}]} :
          analyses' = (analyses \ {a}) \cup {b}
  BY DEF PartAnswered, PartFails, Turning
<1>2. a.at = "asking" /\ AnalysisSound(a) /\ UNCHANGED <<setting, ticks, inForce, configCache>>
  BY DEF PartAnswered, PartFails, JudgingInv
<1>3. /\ Analysis(b) /\ b.parts = a.parts /\ b.since = a.since /\ b.blind = a.blind
      /\ b.config = a.config /\ b.verdict = a.verdict /\ b.at = a.at
      /\ b.asked \subseteq a.asked /\ b.fulfilled \subseteq a.fulfilled \cup {p}
  BY <1>1, <1>2 DEF Analysis, AnalysisSound
<1>4. LateSettings(b) = LateSettings(a)
  BY <1>3 DEF LateSettings
<1>5. AnalysisSound(b)
  BY <1>2, <1>3, <1>4 DEF AnalysisSound
<1> QED BY <1>2, <1>1, <1>5, AnalysesKept, CopyStays

\* A score of all parts together reaches a threshold when one part's does.
LEMMA SliceReaches ==
    ASSUME NEW F \in SUBSET Parts, NEW c \in Categories, NEW level \in Levels
    PROVE  Slice(F).scores[c] >= level <=> \E p \in F : p.scores[c] >= level
<1> DEFINE S == {0} \cup {p.scores[c] : p \in F}
<1>1. \A p \in F : p.scores[c] \in 0..MaxLevel
  <2>1. \A p \in Parts : p.scores \in [Categories -> 0..MaxLevel]
    BY ModerationAssumption DEF Parts
  <2> QED BY <2>1
<1>2. S \in SUBSET (0..MaxLevel) /\ S # {} /\ MaxLevel \in Nat
  BY <1>1, ModerationAssumption
<1>3. Slice(F).scores[c] = Max(S)
  BY DEF Slice
<1>4. level \in Nat /\ level >= 1
  BY <1>2 DEF Levels
<1> DEFINE m == Max(S)
<1> HIDE DEF m
<1>5. m \in S /\ \A y \in S : m >= y
  <2> HIDE DEF S
  <2> QED BY <1>2, GreatestThere DEF m
<1>6. ASSUME m >= level PROVE \E p \in F : p.scores[c] >= level
  BY <1>4, <1>5, <1>6
<1>7. ASSUME NEW p \in F, p.scores[c] >= level PROVE m >= level
  <2>1. p.scores[c] \in Int /\ m \in Int /\ m >= p.scores[c]
    BY <1>1, <1>2, <1>5
  <2> QED BY <1>4, <1>7, <2>1
<1> QED BY <1>3, <1>6, <1>7 DEF m

LEMMA DecideKeeps ==
    ASSUME JudgingInv, NEW a \in analyses, Decide(a)
    PROVE  JudgingInv'
<1> DEFINE harmful == EvaluateAgainstThresholds(Slice(a.fulfilled), a.config.thresholds)
<1>1. PICK b : b = [a EXCEPT !.at = "done",
                    !.verdict = IF a.fulfilled # {} /\ harmful THEN "harmful" ELSE "safe"]
  OBVIOUS
<1>2. /\ a.at = "asking" /\ AnalysisSound(a) /\ UNCHANGED <<setting, ticks, inForce, configCache>>
      /\ analyses' = (analyses \ {a}) \cup {b}
  BY <1>1 DEF Decide, Turning, JudgingInv
<1>3. harmful <=> \E p \in a.fulfilled :
          p.flagged \/ \E c \in Categories : p.scores[c] >= a.config.thresholds[c]
  <2>1. a.fulfilled \in SUBSET Parts /\ a.config.thresholds \in [Categories -> Levels]
    BY <1>2 DEF AnalysisSound, Forms
  <2>2. \A c \in Categories : Slice(a.fulfilled).scores[c] >= a.config.thresholds[c] <=>
                                \E p \in a.fulfilled : p.scores[c] >= a.config.thresholds[c]
    BY <2>1, SliceReaches
  <2>3. Slice(a.fulfilled).flagged <=> \E p \in a.fulfilled : p.flagged
    BY DEF Slice
  <2> QED BY <2>2, <2>3 DEF EvaluateAgainstThresholds
<1> HIDE DEF harmful
<1>4. /\ Analysis(b) /\ b.parts = a.parts /\ b.since = a.since /\ b.blind = a.blind
      /\ b.config = a.config /\ b.at = "done" /\ b.asked = a.asked /\ b.fulfilled = a.fulfilled
      /\ b.verdict = IF a.fulfilled # {} /\ harmful THEN "harmful" ELSE "safe"
  BY <1>1, <1>2 DEF Analysis, AnalysisSound
<1>5. b.verdict = "harmful" <=> Harmful(b)
  BY <1>2, <1>3, <1>4 DEF Harmful, AnalysisSound
<1>6. LateSettings(b) = LateSettings(a)
  BY <1>4 DEF LateSettings
<1>7. AnalysisSound(b)
  BY <1>2, <1>4, <1>5, <1>6 DEF AnalysisSound
<1> QED BY <1>2, <1>7, AnalysesKept, CopyStays

LEMMA JudgingStep ==
    ASSUME SettingsInv, JudgingInv, [ModerationNext]_moderationVars
    PROVE  JudgingInv'
<1>1. InForceType /\ CopySound /\ \A a \in analyses : AnalysisSound(a)
  BY DEF JudgingInv, InForceType
<1>2. ASSUME InForceType', Grows, Config(setting)' \in inForce'[Len(inForce')],
             UNCHANGED <<configCache, analyses>>
      PROVE  JudgingInv'
  <2>1. \A a \in analyses : AnalysisSound(a)'
    BY <1>1, <1>2, SoundGrows
  <2>2. CopySound'
    BY <1>1, <1>2, CopyGrows
  <2> QED BY <1>2, <2>1, <2>2 DEF JudgingInv, InForceType
<1>3. ASSUME UNCHANGED <<setting, ticks, inForce, configCache, analyses>> PROVE JudgingInv'
  BY <1>3, AnalysesKept, CopyStays
<1>4. CASE Tick
  BY <1>1, <1>2, <1>4, TickSteps DEF Tick, aiState
<1>5. CASE \E d \in Desks :
             \/ OpenSettings(d) \/ ToggleEnabled(d) \/ ApplyDefaultToAll(d) \/ SubmitSettings(d)
             \/ \E x \in Levels : SetTemperature(d, x)
                                 \/ (\E c \in Categories : SetCategoryThreshold(d, c, x))
  <2>1. UNCHANGED <<setting, ticks, inForce, configCache, analyses>>
    BY <1>5 DEF OpenSettings, ToggleEnabled, ApplyDefaultToAll, SubmitSettings, SetTemperature,
       SetCategoryThreshold, Changed, aiState
  <2> QED BY <1>3, <2>1
<1>6. CASE \E k \in deskCalls :
             LoadRead(k) \/ SettingsLoaded(k) \/ SettingsSaved(k) \/ DeskCallFails(k)
  <2>1. UNCHANGED <<setting, ticks, inForce, configCache, analyses>>
    BY <1>6 DEF LoadRead, SettingsLoaded, SettingsSaved, DeskCallFails, aiState
  <2> QED BY <1>3, <2>1
<1>7. CASE \E k \in deskCalls : UpdateConfig(k)
  <2>1. PICK k \in deskCalls : UpdateConfig(k)
    BY <1>7
  <2>2. UNCHANGED <<configCache, analyses>>
    BY <2>1 DEF UpdateConfig, aiState
  <2> QED BY <1>1, <1>2, <2>1, <2>2, UpdateSteps
<1>8. CASE \/ \E parts \in Submissions : Analyze(parts)
           \/ \E a \in analyses :
                \/ ConfigRead(a) \/ ConfigAnswered(a) \/ ConfigFails(a) \/ Decide(a)
                \/ \E p \in a.asked : PartAnswered(a, p) \/ PartFails(a, p)
  BY <1>8, AnalyzeKeeps, ConfigReadKeeps, ConfigAnsweredKeeps, ConfigFailsKeeps, DecideKeeps,
     PartKeeps
<1>9. CASE UNCHANGED moderationVars
  BY <1>3, <1>9 DEF moderationVars, aiState
<1> QED BY <1>4, <1>5, <1>6, <1>7, <1>8, <1>9 DEF ModerationNext

LEMMA SettingsStart ==
    ASSUME NEW open, ModerationStart(open)
    PROVE  SettingsInv /\ JudgingInv
<1>1. Config(setting) = Defaults /\ Defaults \in Forms
  BY StartsWithDefaults, DefaultsForm DEF ModerationStart
<1>2. desks = [d \in Desks |-> [phase |-> IF d \in open THEN "ready" ELSE "closed",
                                form |-> Defaults, saving |-> FALSE, dirty |-> d \notin open]]
  BY DEF ModerationStart
<1>3. desks \in [Desks -> DeskType]
  <2>1. \A d \in Desks : [phase |-> IF d \in open THEN "ready" ELSE "closed", form |-> Defaults,
                          saving |-> FALSE, dirty |-> d \notin open] \in DeskType
    BY <1>1 DEF DeskType
  <2> HIDE DEF DeskType
  <2> QED BY <1>2, <2>1
<1>4. SettingsInv
  BY <1>1, <1>2, <1>3 DEF ModerationStart, SettingsInv, SettingsWhole
<1>5. /\ ticks = 0 /\ inForce = <<{Defaults}>> /\ configCache = <<>> /\ analyses = {}
  BY DEF ModerationStart
<1>6. inForce \in Seq(SUBSET Forms) /\ Len(inForce) = 1 /\ inForce[1] = {Defaults}
  BY <1>1, <1>5
<1>7. JudgingInv
  BY <1>1, <1>5, <1>6 DEF JudgingInv, CopySound
<1> QED BY <1>4, <1>7

LEMMA ModerationImplied ==
    ASSUME SettingsInv, JudgingInv
    PROVE  ModerationHolds
<1>1. JudgedBySettings
  BY DEF JudgedBySettings, JudgingInv, AnalysisSound, Harmful
<1> QED BY <1>1 DEF ModerationHolds, SettingsInv

\* Every post is judged by settings no older than ai-service may keep a copy,
\* or by the defaults when auth-service gave none, whatever administrators
\* save meanwhile; the settings are always one page's, whole, and a page that
\* nothing has changed since shows them.
THEOREM ModerationKept ==
    ASSUME NEW open
    PROVE  ModerationStart(open) /\ [][ModerationNext]_moderationVars => []ModerationHolds
<1>1. ModerationStart(open) => SettingsInv /\ JudgingInv
  BY SettingsStart
<1>2. SettingsInv /\ JudgingInv /\ [ModerationNext]_moderationVars => (SettingsInv /\ JudgingInv)'
  BY SettingsStep, JudgingStep
<1>3. SettingsInv /\ JudgingInv => ModerationHolds
  BY ModerationImplied
<1> QED BY <1>1, <1>2, <1>3, PTL
-----------------------------------------------------------------------------
(* The files of a composer *)

Upload == [file : 1..picked, of : 1..picker, at : {"asked", "signed"}]
Sending == [nr : Nat, text : 0..typed, files : Seq(1..picked), at : {"sent", "stored"}]

AttachType ==
    /\ host \in {"post", "comment", "reply"} /\ composer \in BOOLEAN /\ submitting \in BOOLEAN
    /\ picker \in Nat /\ picked \in Nat /\ typed \in Nat /\ gestures \in Nat
    /\ text \in 0..typed
    /\ urls \in Seq(1..picked)
    /\ urlsRef \in Seq(Seq(1..picked)) /\ Len(urlsRef) = picker
    /\ uploads \subseteq Upload /\ IsFiniteSet(uploads)
    /\ sending \subseteq Sending
    /\ kept \in Seq([text : 0..typed, files : SUBSET (1..picked)])
    /\ due \subseteq 1..picked

\* What is being uploaded is nowhere yet, and is uploaded once.
NewFile(file) ==
    /\ file \notin ToSet(urls)
    /\ \A k \in 1..picker : file \notin ToSet(urlsRef[k])
    /\ \A s \in sending : file \notin ToSet(s.files)
    /\ \A k \in 1..Len(kept) : file \notin kept[k].files

FilesInv ==
    /\ IsInjective(urls) /\ \A k \in 1..picker : IsInjective(urlsRef[k])
    /\ \A u \in uploads : NewFile(u.file)
    /\ \A u, v \in uploads : u.file = v.file => u = v
    /\ composer => picker > 0 /\ urlsRef[picker] = urls

\* With care, nothing is uploaded behind a closed composer or while its
\* contents are sent, and what is attached is what is due.
CareInv ==
    Careful =>
        /\ uploads = Pending
        /\ sending # {} => uploads = {}
        /\ submitting <=> sending # {}
        /\ \A r, s \in sending : r = s
        /\ \A s \in sending : urls = s.files \/ urls = <<>>
        /\ due = ToSet(urls) \cup {u.file : u \in uploads}
        /\ Len(urls) + Cardinality(Pending) <= MaxFiles

\* What was stored and what is on its way, each against what may come next
Said(s) == [text |-> s.text, files |-> ToSet(s.files)]
Written == [text |-> text, files |-> ToSet(urls)]
NotAgain(x) ==
    \/ x.text \in pressed
    \/ ~Repeats(x, Written)
    \/ \E s \in sending : s.at = "stored" /\ Said(s) = x
OnItsWay(x) ==
    \A s \in sending : s.at = "sent" /\ Repeats(x, Said(s)) => {x.text, s.text} \cap pressed # {}
KeptOnce ==
    \A j, k \in 1..Len(kept) :
        j # k /\ Repeats(kept[j], kept[k]) => {kept[j].text, kept[k].text} \cap pressed # {}

Spoken ==
    /\ uploads = Pending
    /\ KeptOnce
    /\ \A k \in 1..Len(kept) : NotAgain(kept[k]) /\ OnItsWay(kept[k])
    /\ \A r, s \in sending : r # s => {r.text, s.text} \cap pressed # {}

SaidInv == ~orphaned => Spoken

AttachInv == AttachType /\ FilesInv /\ CareInv /\ SaidInv

-----------------------------------------------------------------------------
(* Lists *)

LEMMA WiderLists ==
    ASSUME NEW S, NEW T, S \subseteq T
    PROVE  Seq(S) \subseteq Seq(T)
<1> SUFFICES ASSUME NEW s \in Seq(S) PROVE s \in Seq(T)
  OBVIOUS
<1>1. s \in [1..Len(s) -> S] /\ Len(s) \in Nat
  OBVIOUS
<1>2. s \in [1..Len(s) -> T]
  BY <1>1
<1> QED BY <1>1, <1>2

LEMMA Appended ==
    ASSUME NEW S, NEW s \in Seq(S), NEW e \in S
    PROVE  /\ Append(s, e) \in Seq(S) /\ Len(Append(s, e)) = Len(s) + 1
           /\ ToSet(Append(s, e)) = ToSet(s) \cup {e}
           /\ IsInjective(s) /\ e \notin ToSet(s) => IsInjective(Append(s, e))
<1>1. PICK n \in Nat : n = Len(s)
  OBVIOUS
<1>2. PICK t : t = Append(s, e)
  OBVIOUS
<1>3. /\ t \in Seq(S) /\ Len(t) = n + 1 /\ t[n + 1] = e
      /\ \A k \in 1..n : t[k] = s[k]
  BY <1>1, <1>2
<1>4. DOMAIN s = 1..n /\ DOMAIN t = 1..(n + 1)
  BY <1>1, <1>3
<1>5. ToSet(t) = ToSet(s) \cup {e}
  BY <1>3, <1>4 DEF ToSet
<1>6. ASSUME IsInjective(s), e \notin ToSet(s) PROVE IsInjective(t)
  BY <1>3, <1>4, <1>6 DEF IsInjective, ToSet
<1> QED BY <1>1, <1>2, <1>3, <1>5, <1>6

LEMMA Removed ==
    ASSUME NEW S, NEW s \in Seq(S), NEW k \in 1..Len(s), IsInjective(s)
    PROVE  /\ RemoveAt(s, k) \in Seq(S) /\ Len(RemoveAt(s, k)) = Len(s) - 1
           /\ ToSet(RemoveAt(s, k)) = ToSet(s) \ {s[k]}
           /\ IsInjective(RemoveAt(s, k))
<1>1. PICK n \in Nat : n = Len(s)
  OBVIOUS
<1>2. PICK t : t = RemoveAt(s, k)
  OBVIOUS
<1>3. /\ t \in Seq(S) /\ Len(t) = n - 1
      /\ \A i \in 1..(n - 1) : t[i] = IF i < k THEN s[i] ELSE s[i + 1]
  <2>1. PICK a, b : a = SubSeq(s, 1, k - 1) /\ b = SubSeq(s, k + 1, n)
    OBVIOUS
  <2>2. /\ a \in Seq(S) /\ Len(a) = k - 1 /\ \A i \in 1..(k - 1) : a[i] = s[i]
        /\ b \in Seq(S) /\ Len(b) = n - k /\ \A i \in 1..(n - k) : b[i] = s[k + i]
    <3>1. k \in Nat /\ k - 1 \in Nat /\ k - 1 <= n /\ k + 1 \in 1..(n + 1) /\ n - k \in Nat
      BY <1>1
    <3>2. a \in Seq(S) /\ Len(a) = k - 1
      BY <1>1, <2>1, <3>1
    <3>3. \A i \in 1..(k - 1) : a[i] = s[i]
      BY <1>1, <2>1, <3>1
    <3>4. b \in Seq(S) /\ Len(b) = n - k
      BY <1>1, <2>1, <3>1
    <3>5. \A i \in 1..(n - k) : b[i] = s[k + i]
      BY <1>1, <2>1, <3>1
    <3> QED BY <3>2, <3>3, <3>4, <3>5
  <2>3. t = a \o b
    BY <1>1, <1>2, <2>1 DEF RemoveAt
  <2>4. t \in Seq(S) /\ Len(t) = n - 1
    BY <1>1, <2>2, <2>3
  <2>5. ASSUME NEW i \in 1..(n - 1) PROVE t[i] = IF i < k THEN s[i] ELSE s[i + 1]
    <3>1. CASE i < k
      BY <1>1, <2>2, <2>3, <3>1
    <3>2. CASE i >= k
      <4>1. t[i] = b[i - (k - 1)] /\ i - (k - 1) \in 1..(n - k)
        BY <1>1, <2>2, <2>3, <3>2
      <4>2. b[i - (k - 1)] = s[k + (i - (k - 1))] /\ k + (i - (k - 1)) = i + 1
        BY <2>2, <4>1
      <4> QED BY <1>1, <3>2, <4>1, <4>2
    <3> QED BY <1>1, <3>1, <3>2
  <2> QED BY <2>4, <2>5
<1>4. DOMAIN s = 1..n /\ DOMAIN t = 1..(n - 1) /\ k \in 1..n
  BY <1>1, <1>3
<1>5. \A i, j \in 1..n : s[i] = s[j] => i = j
  BY <1>4 DEF IsInjective
<1>6. ToSet(t) \subseteq ToSet(s) \ {s[k]}
  BY <1>3, <1>4, <1>5 DEF ToSet
<1>7. ASSUME NEW j \in 1..n, j # k PROVE s[j] \in ToSet(t)
  <2>1. CASE j < k
    <3>1. j \in 1..(n - 1) /\ t[j] = s[j]
      BY <1>3, <1>4, <2>1
    <3> QED BY <1>4, <3>1 DEF ToSet
  <2>2. CASE j > k
    <3>1. j - 1 \in 1..(n - 1) /\ t[j - 1] = s[(j - 1) + 1] /\ (j - 1) + 1 = j
      BY <1>3, <1>4, <2>2
    <3> QED BY <1>4, <3>1 DEF ToSet
  <2> QED BY <1>4, <1>7, <2>1, <2>2
<1>8. ToSet(s) \ {s[k]} \subseteq ToSet(t)
  BY <1>4, <1>7 DEF ToSet
<1>9. IsInjective(t)
  BY <1>3, <1>4, <1>5 DEF IsInjective
<1> QED BY <1>1, <1>2, <1>3, <1>6, <1>8, <1>9

\* The mounted picker's mirror is replaced, and no other.
LEMMA MirrorOf ==
    ASSUME NEW L, NEW refs \in Seq(L), NEW list \in L
    PROVE  /\ Mirrored(refs, list) \in Seq(L) /\ Len(Mirrored(refs, list)) = Len(refs)
           /\ \A k \in 1..Len(refs) :
                  Mirrored(refs, list)[k] = IF composer /\ k = picker THEN list ELSE refs[k]
<1>1. PICK n \in Nat : n = Len(refs) /\ DOMAIN refs = 1..n /\ refs \in [1..n -> L]
  OBVIOUS
<1>2. [refs EXCEPT ![picker] = list] \in [1..n -> L]
  BY <1>1
<1>3. Mirrored(refs, list) \in [1..n -> L]
  BY <1>1, <1>2 DEF Mirrored
<1>4. \A k \in 1..n : Mirrored(refs, list)[k] = IF composer /\ k = picker THEN list ELSE refs[k]
  BY <1>1 DEF Mirrored
<1>5. PICK m : m = Mirrored(refs, list)
  OBVIOUS
<1>6. m \in Seq(L) /\ Len(m) = n
  BY <1>1, <1>3, <1>5
<1> QED BY <1>1, <1>4, <1>5, <1>6

LEMMA NothingListed == ToSet(<<>>) = {} /\ IsInjective(<<>>)
BY DEF ToSet, IsInjective

-----------------------------------------------------------------------------
(* Every step keeps the types. *)

LEMMA OpenComposerType ==
    ASSUME AttachType, OpenComposer
    PROVE  AttachType'
<1> USE DEF AttachType, Upload, Sending, OpenComposer, Gesture, composed, attachAux
<1>1. uploads' \subseteq Upload' /\ sending' \subseteq Sending' /\ IsFiniteSet(uploads')
  OBVIOUS
<1>2. urlsRef' \in Seq(Seq(1..picked')) /\ Len(urlsRef') = picker'
  <2>1. PICK L : L = Seq(1..picked)
    OBVIOUS
  <2>2. urlsRef \in Seq(L) /\ urls \in L /\ urlsRef' = Append(urlsRef, urls)
    BY <2>1
  <2>3. urlsRef' \in Seq(L) /\ Len(urlsRef') = Len(urlsRef) + 1
    BY <2>2
  <2> QED BY <2>1, <2>3
<1> QED BY <1>1, <1>2

LEMMA CloseComposerType ==
    ASSUME AttachType, CloseComposer
    PROVE  AttachType'
<1>1. /\ text' \in {0, text} /\ urls' \in {<<>>, urls} /\ due' \in {{}, due}
      /\ composer' = FALSE /\ gestures' = gestures + 1
      /\ UNCHANGED <<host, submitting, picker, urlsRef, uploads, sending, kept, picked, typed>>
  BY DEF CloseComposer, Gesture, composed
<1>2. /\ typed \in Nat /\ picked \in Nat /\ gestures \in Nat /\ due \subseteq 1..picked /\ text \in 0..typed
      /\ urls \in Seq(1..picked)
  BY DEF AttachType
<1>3. text' \in 0..typed /\ due' \subseteq 1..picked /\ gestures' \in Nat
  <2>1. text' \in 0..typed
    BY <1>1, <1>2
  <2>2. due' \subseteq 1..picked
    BY <1>1, <1>2
  <2>3. gestures' \in Nat
    BY <1>1, <1>2
  <2> QED BY <2>1, <2>2, <2>3
<1>4. urls' \in Seq(1..picked)
  <2>1. CASE urls' = <<>>
    BY <2>1
  <2>2. CASE urls' = urls
    BY <1>2, <2>2
  <2> QED BY <1>1, <2>1, <2>2
<1>5. Upload' = Upload /\ Sending' = Sending
  BY <1>1 DEF Upload, Sending
<1> QED BY <1>1, <1>3, <1>4, <1>5 DEF AttachType

LEMMA TypeType ==
    ASSUME AttachType, Type
    PROVE  AttachType'
<1> USE DEF AttachType, Upload, Sending, Type, Gesture, composed, pickerState, attachAux
<1>1. typed' \in Nat /\ 0..typed \subseteq 0..typed' /\ text' \in 0..typed'
  OBVIOUS
<1>2. uploads' \subseteq Upload' /\ sending' \subseteq Sending' /\ IsFiniteSet(uploads')
  BY <1>1
<1>3. kept' \in Seq([text : 0..typed', files : SUBSET (1..picked')])
  <2>1. PICK S, T : /\ S = [text : 0..typed, files : SUBSET (1..picked)]
                    /\ T = [text : 0..typed', files : SUBSET (1..picked)]
    OBVIOUS
  <2>2. S \subseteq T
    BY <1>1, <2>1
  <2>3. kept \in Seq(S)
    BY <2>1
  <2> QED BY <2>1, <2>2, <2>3, WiderLists
<1> QED BY <1>1, <1>2, <1>3

LEMMA SendType ==
    ASSUME AttachType, Send
    PROVE  AttachType'
<1> USE DEF AttachType, Upload, Sending, Send, Gesture, pickerState
<1>1. uploads' \subseteq Upload' /\ sending' \subseteq Sending' /\ IsFiniteSet(uploads')
  OBVIOUS
<1> QED BY <1>1

LEMMA StoredType ==
    ASSUME AttachType, NEW s \in sending, Stored(s)
    PROVE  AttachType'
<1> USE DEF AttachType, Upload, Sending, Stored, composerState, pickerState, gestureBounds, attachAux
<1>1. uploads' \subseteq Upload' /\ sending' \subseteq Sending' /\ IsFiniteSet(uploads')
  OBVIOUS
<1>2. kept' \in Seq([text : 0..typed', files : SUBSET (1..picked')])
  <2>1. PICK S, e : /\ S = [text : 0..typed, files : SUBSET (1..picked)]
                    /\ e = [text |-> s.text, files |-> ToSet(s.files)]
    OBVIOUS
  <2>2. ToSet(s.files) \subseteq 1..picked
    BY DEF ToSet
  <2>3. e \in S /\ kept \in Seq(S) /\ kept' = Append(kept, e)
    BY <2>1, <2>2
  <2> QED BY <2>1, <2>3
<1> QED BY <1>1, <1>2

LEMMA SentType ==
    ASSUME AttachType, NEW s \in sending, Sent(s)
    PROVE  AttachType'
<1>1. /\ sending' = sending \ {s} /\ text' = 0 /\ urls' = <<>> /\ submitting' = FALSE
      /\ composer' = (composer /\ host = "comment") /\ urlsRef' = Mirrored(urlsRef, <<>>)
      /\ due' = due \ ToSet(s.files)
      /\ UNCHANGED <<host, picker, uploads, kept, picked, typed, gestures>>
  BY DEF Sent, gestureBounds
<1>2. urlsRef' \in Seq(Seq(1..picked)) /\ Len(urlsRef') = picker
  <2>1. PICK L : L = Seq(1..picked)
    OBVIOUS
  <2>2. urlsRef \in Seq(L) /\ <<>> \in L /\ Len(urlsRef) = picker
    BY <2>1 DEF AttachType
  <2>3. urlsRef' \in Seq(L) /\ Len(urlsRef') = Len(urlsRef)
    BY <1>1, <2>2, MirrorOf
  <2> QED BY <2>1, <2>2, <2>3
<1>3. typed \in Nat /\ picked \in Nat /\ due \subseteq 1..picked /\ sending \subseteq Sending
  BY DEF AttachType
<1>4. text' \in 0..typed /\ due' \subseteq 1..picked /\ sending' \subseteq Sending
  <2>1. text' \in 0..typed
    BY <1>1, <1>3
  <2>2. due' \subseteq 1..picked
    BY <1>1, <1>3
  <2>3. sending' \subseteq Sending
    BY <1>1, <1>3
  <2> QED BY <2>1, <2>2, <2>3
<1>5. Upload' = Upload /\ Sending' = Sending
  BY <1>1 DEF Upload, Sending
<1>6. urls' \in Seq(1..picked)
  BY <1>1
<1> QED BY <1>1, <1>2, <1>4, <1>5, <1>6 DEF AttachType

LEMMA NotSentType ==
    ASSUME AttachType, NEW s \in sending, NotSent(s)
    PROVE  AttachType'
<1> USE DEF AttachType, Upload, Sending, NotSent, Slip, pickerState
<1>1. uploads' \subseteq Upload' /\ sending' \subseteq Sending' /\ IsFiniteSet(uploads')
  OBVIOUS
<1> QED BY <1>1

\* What a picker accepts
Accepted(n) ==
    picked + 1 .. picked + Min({n, MaxFiles - Len(urlsRef[picker]) - Cardinality(Pending)})

LEMMA PickFilesFacts ==
    ASSUME AttachType, FilesInv, NEW n \in 1..MaxPicked, PickFiles(n)
    PROVE  /\ Cardinality(Pending) \in Nat /\ IsFiniteSet(Pending)
           /\ picked' \in Nat /\ picked <= picked'
           /\ Accepted(n) = (picked + 1)..picked'
           /\ picked' - picked <= MaxFiles - Len(urls) - Cardinality(Pending)
           /\ composer /\ ~submitting
           /\ uploads' = uploads \cup [file : (picked + 1)..picked', of : {picker}, at : {"asked"}]
           /\ due' = due \cup (picked + 1)..picked'
           /\ UNCHANGED <<host, composer, text, submitting, picker, urls, urlsRef, sending, kept,
                          typed, slips, orphaned, hasty, pressed>>
           /\ gestures' = gestures + 1
<1>1. IsFiniteSet(Pending) /\ Cardinality(Pending) \in Nat
  <2>1. Pending \subseteq uploads /\ IsFiniteSet(uploads)
    BY DEF Pending, AttachType
  <2> QED BY <2>1, FS_Subset, FS_CardinalityType
<1>2. composer /\ urlsRef[picker] = urls /\ Len(urls) \in Nat /\ MaxFiles \in Nat
  BY AttachmentsAssumption DEF FilesInv, AttachType, PickFiles
<1>3. PICK room : room = MaxFiles - Len(urlsRef[picker]) - Cardinality(Pending)
  OBVIOUS
<1>4. room \in Int /\ room > 0 /\ n \in Int /\ n > 0
  BY <1>1, <1>2, <1>3, AttachmentsAssumption DEF PickFiles
<1>5. PICK m : m = Min({n, room})
  OBVIOUS
<1>6. m = IF n <= room THEN n ELSE room
  BY <1>4, <1>5, OfTwo
<1>7. picked' = picked + m /\ Accepted(n) = (picked + 1)..(picked + m)
  BY <1>3, <1>5 DEF PickFiles, Accepted
<1>8. uploads' = uploads \cup [file : Accepted(n), of : {picker}, at : {"asked"}]
      /\ due' = due \cup Accepted(n)
  BY DEF PickFiles, Accepted
<1>9. picked \in Nat /\ m \in Nat
  BY <1>4, <1>6 DEF AttachType
<1>10. /\ ~submitting /\ gestures' = gestures + 1
       /\ UNCHANGED <<host, composer, text, submitting, picker, urls, urlsRef, sending, kept,
                      typed, slips, orphaned, hasty, pressed>>
  BY DEF PickFiles, Gesture, composerState, composed
<1> QED BY <1>1, <1>2, <1>3, <1>4, <1>6, <1>7, <1>8, <1>9, <1>10

LEMMA PickFilesType ==
    ASSUME AttachType, FilesInv, NEW n \in 1..MaxPicked, PickFiles(n)
    PROVE  AttachType'
<1>1. /\ picked \in Nat /\ picked' \in Nat /\ picked <= picked' /\ picker \in Nat
      /\ 1..picked \subseteq 1..picked' /\ composer /\ picker > 0
  <2>1. picked' \in Nat /\ picked <= picked' /\ composer
    BY PickFilesFacts
  <2>2. picked \in Nat /\ picker \in Nat /\ (composer => picker > 0)
    BY DEF AttachType, FilesInv
  <2> QED BY <2>1, <2>2
<1>2. /\ UNCHANGED <<host, composer, text, submitting, picker, urls, urlsRef, sending, kept, typed>>
      /\ uploads' = uploads \cup [file : (picked + 1)..picked', of : {picker}, at : {"asked"}]
      /\ due' = due \cup (picked + 1)..picked' /\ gestures' = gestures + 1
  BY PickFilesFacts
<1> DEFINE new == [file : (picked + 1)..picked', of : {picker}, at : {"asked"}]
<1>3. Seq(1..picked) \subseteq Seq(1..picked')
  BY <1>1, WiderLists
<1>4. Seq(Seq(1..picked)) \subseteq Seq(Seq(1..picked'))
  BY <1>3, WiderLists
<1>5. kept \in Seq([text : 0..typed, files : SUBSET (1..picked')])
  <2>1. PICK S, T : /\ S = [text : 0..typed, files : SUBSET (1..picked)]
                    /\ T = [text : 0..typed, files : SUBSET (1..picked')]
    OBVIOUS
  <2>2. S \subseteq T
    BY <1>1, <2>1
  <2>3. kept \in Seq(S)
    BY <2>1 DEF AttachType
  <2> QED BY <2>1, <2>2, <2>3, WiderLists
<1>6. uploads' \subseteq Upload'
  BY <1>1, <1>2 DEF AttachType, Upload
<1>7. IsFiniteSet(uploads')
  <2>1. IsFiniteSet((picked + 1)..picked')
    BY <1>1, FS_Interval
  <2>2. IsFiniteSet(new)
    <3>1. PICK F, g : /\ F = (picked + 1)..picked'
                      /\ g = [f \in F |-> [file |-> f, of |-> picker, at |-> "asked"]]
      OBVIOUS
    <3>2. new = [file : F, of : {picker}, at : {"asked"}]
      BY <3>1
    <3> HIDE DEF new
    <3>3. g \in Bijection(F, new)
      BY <3>1, <3>2 DEF Bijection, Injection, Surjection, IsInjective
    <3> QED BY <2>1, <3>1, <3>3, FS_Bijection DEF ExistsBijection
  <2>3. IsFiniteSet(uploads)
    BY DEF AttachType
  <2> QED BY <1>2, <2>2, <2>3, FS_Union
<1>8. sending' \subseteq Sending'
  BY <1>2, <1>3 DEF AttachType, Sending
<1>9. due' \subseteq 1..picked'
  BY <1>1, <1>2 DEF AttachType
<1> QED BY <1>1, <1>2, <1>3, <1>4, <1>5, <1>6, <1>7, <1>8, <1>9 DEF AttachType

LEMMA SignedType ==
    ASSUME AttachType, NEW u \in uploads, Signed(u)
    PROVE  AttachType'
<1> USE DEF AttachType, Upload, Sending, Signed, composerState, composed, gestureBounds, attachAux
<1>1. uploads' \subseteq Upload' /\ sending' \subseteq Sending'
  OBVIOUS
<1>2. IsFiniteSet(uploads')
  <2>1. PICK v : v = [u EXCEPT !.at = "signed"]
    OBVIOUS
  <2>2. uploads' = (uploads \ {u}) \cup {v} /\ uploads \ {u} \subseteq uploads
    BY <2>1
  <2>3. IsFiniteSet(uploads)
    OBVIOUS
  <2>4. IsFiniteSet(uploads \ {u}) /\ IsFiniteSet({v})
    BY <2>2, <2>3, FS_Subset, FS_Singleton
  <2>5. IsFiniteSet((uploads \ {u}) \cup {v})
    BY <2>4, FS_Union
  <2> QED BY <2>2, <2>5
<1> QED BY <1>1, <1>2

\* The list with an uploaded file
LEMMA UploadedFacts ==
    ASSUME AttachType, FilesInv, NEW u \in uploads, Uploaded(u)
    PROVE  LET next == Append(urlsRef[u.of], u.file) IN
           /\ u.of \in 1..picker /\ u.file \in 1..picked
           /\ urlsRef[u.of] \in Seq(1..picked)
           /\ next \in Seq(1..picked) /\ Len(next) = Len(urlsRef[u.of]) + 1
           /\ ToSet(next) = ToSet(urlsRef[u.of]) \cup {u.file} /\ IsInjective(next)
           /\ urls' = next
           /\ urlsRef' \in Seq(Seq(1..picked)) /\ Len(urlsRef') = picker
           /\ \A k \in 1..picker :
                 urlsRef'[k] = IF k = u.of \/ (composer /\ k = picker) THEN next ELSE urlsRef[k]
<1> DEFINE old == urlsRef[u.of]
           next == Append(old, u.file)
<1>1. /\ u.of \in 1..picker /\ u.file \in 1..picked
      /\ urlsRef \in Seq(Seq(1..picked)) /\ Len(urlsRef) = picker /\ picker \in Nat
  BY DEF AttachType, Upload
<1>2. old \in Seq(1..picked)
  <2>1. PICK L : L = Seq(1..picked)
    OBVIOUS
  <2>2. urlsRef[u.of] \in L
    BY <1>1, <2>1
  <2> QED BY <2>1, <2>2
<1>3. IsInjective(old) /\ u.file \notin ToSet(old)
  BY <1>1 DEF FilesInv, NewFile
<1>4. /\ next \in Seq(1..picked) /\ Len(next) = Len(old) + 1
      /\ ToSet(next) = ToSet(old) \cup {u.file} /\ IsInjective(next)
  <2>1. PICK S, s, e : S = 1..picked /\ s = old /\ e = u.file
    OBVIOUS
  <2>2. s \in Seq(S) /\ e \in S /\ IsInjective(s) /\ e \notin ToSet(s)
    BY <1>1, <1>2, <1>3, <2>1
  <2> HIDE DEF old
  <2> QED BY <2>1, <2>2, Appended
<1>5. urls' = next
  BY DEF Uploaded
<1>6. urlsRef' = Mirrored([urlsRef EXCEPT ![u.of] = next], next)
  BY DEF Uploaded
<1> HIDE DEF next
<1>7. PICK L, refs : L = Seq(1..picked) /\ refs = [urlsRef EXCEPT ![u.of] = next]
  OBVIOUS
<1>8. /\ refs \in Seq(L) /\ Len(refs) = picker
      /\ \A k \in 1..picker : refs[k] = IF k = u.of THEN next ELSE urlsRef[k]
  BY <1>1, <1>4, <1>7
<1>9. /\ urlsRef' \in Seq(L) /\ Len(urlsRef') = picker
      /\ \A k \in 1..picker : urlsRef'[k] = IF composer /\ k = picker THEN next ELSE refs[k]
  <2>1. urlsRef' = Mirrored(refs, next) /\ next \in L
    BY <1>4, <1>6, <1>7
  <2> QED BY <1>8, <2>1, MirrorOf
<1>10. \A k \in 1..picker :
           urlsRef'[k] = IF k = u.of \/ (composer /\ k = picker) THEN next ELSE urlsRef[k]
  BY <1>8, <1>9
<1> QED BY <1>1, <1>2, <1>4, <1>5, <1>7, <1>9, <1>10 DEF next

LEMMA UploadedType ==
    ASSUME AttachType, FilesInv, NEW u \in uploads, Uploaded(u)
    PROVE  AttachType'
<1>1. /\ urls' \in Seq(1..picked) /\ urlsRef' \in Seq(Seq(1..picked)) /\ Len(urlsRef') = picker
  BY UploadedFacts
<1>2. /\ uploads' = uploads \ {u}
      /\ UNCHANGED <<host, composer, text, submitting, picker, sending, kept, picked, typed,
                     gestures, due>>
  BY DEF Uploaded, composerState, composed, gestureBounds, attachAux
<1>3. uploads' \subseteq Upload' /\ sending' \subseteq Sending'
  BY <1>2 DEF AttachType, Upload, Sending
<1>4. IsFiniteSet(uploads')
  BY <1>2, FS_Subset DEF AttachType
<1> QED BY <1>1, <1>2, <1>3, <1>4 DEF AttachType

LEMMA UploadFailsType ==
    ASSUME AttachType, NEW u \in uploads, UploadFails(u)
    PROVE  AttachType'
<1>1. /\ uploads' = uploads \ {u} /\ due' = due \ {u.file}
      /\ UNCHANGED <<host, composer, text, submitting, picker, urls, urlsRef, sending, kept, picked,
                     typed, gestures>>
  BY DEF UploadFails, Slip, composerState, composed
<1>2. uploads' \subseteq Upload' /\ sending' \subseteq Sending'
  BY <1>1 DEF AttachType, Upload, Sending
<1>3. IsFiniteSet(uploads')
  BY <1>1, FS_Subset DEF AttachType
<1> QED BY <1>1, <1>2, <1>3 DEF AttachType

\* The list without a file
LEMMA RemoveFileFacts ==
    ASSUME AttachType, FilesInv, NEW k \in DOMAIN urls, RemoveFile(k)
    PROVE  /\ k \in 1..Len(urls)
           /\ urls' \in Seq(1..picked) /\ Len(urls') = Len(urls) - 1
           /\ ToSet(urls') = ToSet(urls) \ {urls[k]} /\ IsInjective(urls')
           /\ urlsRef' \in Seq(Seq(1..picked)) /\ Len(urlsRef') = picker
           /\ \A i \in 1..picker : urlsRef'[i] = IF i = picker THEN urls' ELSE urlsRef[i]
<1>1. /\ urls \in Seq(1..picked) /\ IsInjective(urls) /\ k \in 1..Len(urls)
      /\ urlsRef \in Seq(Seq(1..picked)) /\ Len(urlsRef) = picker
  BY DEF AttachType, FilesInv
<1>2. PICK next : next = RemoveAt(urls, k)
  OBVIOUS
<1>3. /\ next \in Seq(1..picked) /\ Len(next) = Len(urls) - 1
      /\ ToSet(next) = ToSet(urls) \ {urls[k]} /\ IsInjective(next)
  BY <1>1, <1>2, Removed
<1>4. urls' = next /\ urlsRef' = Mirrored(urlsRef, next) /\ composer
  BY <1>2 DEF RemoveFile
<1>5. /\ urlsRef' \in Seq(Seq(1..picked)) /\ Len(urlsRef') = picker
      /\ \A i \in 1..picker : urlsRef'[i] = IF i = picker THEN next ELSE urlsRef[i]
  <2>1. PICK L : L = Seq(1..picked)
    OBVIOUS
  <2>2. urlsRef \in Seq(L) /\ next \in L
    BY <1>1, <1>3, <2>1
  <2>3. /\ urlsRef' \in Seq(L) /\ Len(urlsRef') = Len(urlsRef)
        /\ \A i \in 1..Len(urlsRef) :
              urlsRef'[i] = IF composer /\ i = picker THEN next ELSE urlsRef[i]
    BY <1>4, <2>2, MirrorOf
  <2> QED BY <1>1, <1>4, <2>1, <2>3
<1> QED BY <1>1, <1>3, <1>4, <1>5

LEMMA RemoveFileType ==
    ASSUME AttachType, FilesInv, NEW k \in DOMAIN urls, RemoveFile(k)
    PROVE  AttachType'
<1>1. /\ due' = due \ {urls[k]} /\ gestures' = gestures + 1
      /\ UNCHANGED <<host, composer, text, submitting, picker, uploads, sending, kept, picked, typed>>
  BY DEF RemoveFile, Gesture, composerState, composed
<1>2. uploads' \subseteq Upload' /\ sending' \subseteq Sending' /\ IsFiniteSet(uploads')
  BY <1>1 DEF AttachType, Upload, Sending
<1>3. /\ urls' \in Seq(1..picked) /\ urlsRef' \in Seq(Seq(1..picked)) /\ Len(urlsRef') = picker
  BY RemoveFileFacts
<1>4. gestures' \in Nat /\ due' \subseteq 1..picked
  <2>1. gestures \in Nat /\ picked \in Nat /\ due \subseteq 1..picked
    BY DEF AttachType
  <2>2. gestures' \in Nat
    BY <1>1, <2>1
  <2>3. due' \subseteq 1..picked
    BY <1>1, <2>1
  <2> QED BY <2>2, <2>3
<1> QED BY <1>1, <1>2, <1>3, <1>4 DEF AttachType

-----------------------------------------------------------------------------
(* No file is in a list twice, and none that is being uploaded is in any. *)

LEMMA OpenComposerFiles ==
    ASSUME AttachType, FilesInv, OpenComposer
    PROVE  FilesInv'
<1>1. /\ composer' = TRUE /\ picker' = picker + 1 /\ urlsRef' = Append(urlsRef, urls)
      /\ UNCHANGED <<urls, uploads, sending, kept>>
  BY DEF OpenComposer, composed
<1>2. /\ picker \in Nat /\ urlsRef \in Seq(Seq(1..picked)) /\ urls \in Seq(1..picked)
      /\ Len(urlsRef) = picker
  BY DEF AttachType
<1>3. /\ urlsRef'[picker + 1] = urls /\ \A k \in 1..picker : urlsRef'[k] = urlsRef[k]
  <2>1. PICK L : L = Seq(1..picked)
    OBVIOUS
  <2>2. urlsRef \in Seq(L) /\ urls \in L
    BY <1>2, <2>1
  <2> QED BY <1>1, <1>2, <2>2
<1>4. \A k \in 1..picker' : urlsRef'[k] = urls \/ (k \in 1..picker /\ urlsRef'[k] = urlsRef[k])
  BY <1>1, <1>2, <1>3
<1>5. \A u \in uploads' : NewFile(u.file)'
  BY <1>1, <1>4 DEF FilesInv, NewFile
<1> QED BY <1>1, <1>2, <1>3, <1>4, <1>5 DEF FilesInv

LEMMA CloseComposerFiles ==
    ASSUME AttachType, FilesInv, CloseComposer
    PROVE  FilesInv'
<1>1. /\ urls' = <<>> \/ urls' = urls
      /\ composer' = FALSE /\ UNCHANGED <<picker, urlsRef, uploads, sending, kept>>
  BY DEF CloseComposer, composed
<1>2. IsInjective(urls') /\ ToSet(urls') \subseteq ToSet(urls)
  BY <1>1, NothingListed DEF FilesInv
<1>3. \A u \in uploads' : NewFile(u.file)'
  BY <1>1, <1>2 DEF FilesInv, NewFile
<1> QED BY <1>1, <1>2, <1>3 DEF FilesInv

LEMMA SendFiles ==
    ASSUME AttachType, FilesInv, Send
    PROVE  FilesInv'
<1>1. PICK s : s = [nr |-> gestures, text |-> text, files |-> urls, at |-> "sent"]
  OBVIOUS
<1>2. /\ sending' = sending \cup {s} /\ s.files = urls
      /\ UNCHANGED <<composer, picker, urls, urlsRef, uploads, kept>>
  BY <1>1 DEF Send, pickerState
<1>3. \A u \in uploads' : NewFile(u.file)'
  BY <1>2 DEF FilesInv, NewFile
<1> QED BY <1>2, <1>3 DEF FilesInv

LEMMA StoredFiles ==
    ASSUME AttachType, FilesInv, NEW s \in sending, Stored(s)
    PROVE  FilesInv'
<1>1. PICK t, x : /\ t = [s EXCEPT !.at = "stored"]
                  /\ x = [text |-> s.text, files |-> ToSet(s.files)]
  OBVIOUS
<1>2. /\ sending' = (sending \ {s}) \cup {t} /\ t.files = s.files /\ x.files = ToSet(s.files)
      /\ kept' = Append(kept, x)
      /\ UNCHANGED <<composer, picker, urls, urlsRef, uploads>>
  BY <1>1 DEF Stored, composerState, pickerState, AttachType, Sending
<1>3. \A k \in 1..Len(kept') : kept'[k] = x \/ (k \in 1..Len(kept) /\ kept'[k] = kept[k])
  <2>1. PICK n \in Nat : n = Len(kept)
    BY DEF AttachType
  <2>2. Len(kept') = n + 1 /\ kept'[n + 1] = x /\ \A k \in 1..n : kept'[k] = kept[k]
    BY <1>2, <2>1 DEF AttachType
  <2>3. \A k \in 1..(n + 1) : k = n + 1 \/ k \in 1..n
    OBVIOUS
  <2> QED BY <2>1, <2>2, <2>3
<1>4. ASSUME NEW u \in uploads' PROVE NewFile(u.file)'
  <2>1. NewFile(u.file)
    BY <1>2 DEF FilesInv
  <2> QED BY <1>2, <1>3, <2>1 DEF NewFile
<1> QED BY <1>2, <1>4 DEF FilesInv

LEMMA SentFiles ==
    ASSUME AttachType, FilesInv, NEW s \in sending, Sent(s)
    PROVE  FilesInv'
<1>1. /\ sending' = sending \ {s} /\ urls' = <<>> /\ (composer' => composer)
      /\ urlsRef' = Mirrored(urlsRef, <<>>) /\ UNCHANGED <<picker, uploads, kept>>
  BY DEF Sent
<1>2. \A k \in 1..picker : urlsRef'[k] = IF composer /\ k = picker THEN <<>> ELSE urlsRef[k]
  <2>1. PICK L : L = Seq(1..picked)
    OBVIOUS
  <2>2. urlsRef \in Seq(L) /\ <<>> \in L /\ Len(urlsRef) = picker
    BY <2>1 DEF AttachType
  <2>3. \A k \in 1..Len(urlsRef) : Mirrored(urlsRef, <<>>)[k] =
                                      IF composer /\ k = picker THEN <<>> ELSE urlsRef[k]
    BY <2>2, MirrorOf
  <2> QED BY <1>1, <2>2, <2>3
<1>3. ASSUME NEW u \in uploads' PROVE NewFile(u.file)'
  <2>1. NewFile(u.file)
    BY <1>1, <1>3 DEF FilesInv
  <2> QED BY <1>1, <1>2, <2>1, NothingListed DEF NewFile
<1>4. composer' => picker > 0 /\ picker \in 1..picker
  BY <1>1 DEF FilesInv, AttachType
<1> QED BY <1>1, <1>2, <1>3, <1>4, NothingListed DEF FilesInv

LEMMA PickFilesFiles ==
    ASSUME AttachType, FilesInv, NEW n \in 1..MaxPicked, PickFiles(n)
    PROVE  FilesInv'
<1>1. /\ UNCHANGED <<composer, picker, urls, urlsRef, sending, kept>>
      /\ uploads' = uploads \cup [file : (picked + 1)..picked', of : {picker}, at : {"asked"}]
      /\ picked' \in Nat
  BY PickFilesFacts
<1>2. picked \in Nat /\ uploads \subseteq Upload /\ \A u \in uploads : u.file \in 1..picked
  BY DEF AttachType, Upload
<1>3. ASSUME NEW f \in (picked + 1)..picked' PROVE f \notin 1..picked
  BY <1>1, <1>2
<1>4. /\ ToSet(urls) \subseteq 1..picked
      /\ \A k \in 1..picker : ToSet(urlsRef[k]) \subseteq 1..picked
      /\ \A s \in sending : ToSet(s.files) \subseteq 1..picked
      /\ \A k \in 1..Len(kept) : kept[k].files \subseteq 1..picked
  <2>1. PICK S, L : S = 1..picked /\ L = Seq(S)
    OBVIOUS
  <2>2. ASSUME NEW s \in L PROVE ToSet(s) \subseteq S
    <3>1. s \in Seq(S)
      BY <2>1
    <3>2. \A i \in DOMAIN s : s[i] \in S
      BY <3>1
    <3> QED BY <3>2 DEF ToSet
  <2>3. urls \in L /\ \A k \in 1..picker : urlsRef[k] \in L
    BY <2>1 DEF AttachType
  <2>4. \A s \in sending : s.files \in L
    BY <2>1 DEF AttachType, Sending
  <2>5. \A k \in 1..Len(kept) : kept[k].files \subseteq S
    <3>1. PICK R : R = [text : 0..typed, files : SUBSET S]
      OBVIOUS
    <3>2. kept \in Seq(R)
      BY <2>1, <3>1 DEF AttachType
    <3>3. \A k \in 1..Len(kept) : kept[k] \in R
      BY <3>2
    <3> QED BY <3>1, <3>3
  <2> QED BY <2>1, <2>2, <2>3, <2>4, <2>5
<1>5. ASSUME NEW f \in (picked + 1)..picked' PROVE NewFile(f)
  BY <1>3, <1>4 DEF NewFile
<1>6. ASSUME NEW u \in uploads' PROVE NewFile(u.file)'
  <2>1. NewFile(u.file)
    BY <1>1, <1>5 DEF FilesInv
  <2> QED BY <1>1, <2>1 DEF NewFile
<1>7. ASSUME NEW u \in uploads', NEW v \in uploads', u.file = v.file PROVE u = v
  BY <1>1, <1>2, <1>3, <1>7 DEF FilesInv
<1> QED BY <1>1, <1>6, <1>7 DEF FilesInv

LEMMA UploadedFiles ==
    ASSUME AttachType, FilesInv, NEW u \in uploads, Uploaded(u)
    PROVE  FilesInv'
<1>1. PICK next : next = Append(urlsRef[u.of], u.file)
  OBVIOUS
<1>2. /\ u.of \in 1..picker /\ urls' = next /\ IsInjective(next)
      /\ ToSet(next) = ToSet(urlsRef[u.of]) \cup {u.file}
      /\ \A k \in 1..picker :
            urlsRef'[k] = IF k = u.of \/ (composer /\ k = picker) THEN next ELSE urlsRef[k]
  BY <1>1, UploadedFacts
<1>3. uploads' = uploads \ {u} /\ UNCHANGED <<composer, picker, sending, kept>>
  BY DEF Uploaded, composerState, composed
<1>4. ASSUME NEW v \in uploads' PROVE NewFile(v.file)'
  <2>1. v \in uploads /\ v.file # u.file
    BY <1>3 DEF FilesInv
  <2>2. NewFile(v.file)
    BY <2>1 DEF FilesInv
  <2>3. v.file \notin ToSet(next)
    BY <1>2, <2>1, <2>2 DEF NewFile
  <2> QED BY <1>2, <1>3, <2>2, <2>3 DEF NewFile
<1>5. composer => picker > 0 /\ picker \in 1..picker
  BY DEF FilesInv, AttachType
<1> QED BY <1>2, <1>3, <1>4, <1>5 DEF FilesInv

LEMMA RemoveFileFiles ==
    ASSUME AttachType, FilesInv, NEW k \in DOMAIN urls, RemoveFile(k)
    PROVE  FilesInv'
<1>1. /\ ToSet(urls') \subseteq ToSet(urls) /\ IsInjective(urls')
      /\ \A i \in 1..picker : urlsRef'[i] = IF i = picker THEN urls' ELSE urlsRef[i]
  BY RemoveFileFacts
<1>2. UNCHANGED <<composer, picker, uploads, sending, kept>> /\ composer
  BY DEF RemoveFile, composerState, composed
<1>3. ASSUME NEW u \in uploads' PROVE NewFile(u.file)'
  <2>1. NewFile(u.file)
    BY <1>2 DEF FilesInv
  <2> QED BY <1>1, <1>2, <2>1 DEF NewFile
<1>4. picker > 0 /\ picker \in 1..picker
  BY <1>2 DEF FilesInv, AttachType
<1> QED BY <1>1, <1>2, <1>3, <1>4 DEF FilesInv

\* The other steps touch no list, but for uploads that end or are signed and
\* requests that fail.
LEMMA OtherFiles ==
    ASSUME AttachType, FilesInv,
           \/ Type \/ UNCHANGED attachVars \/ \E s \in sending : NotSent(s)
           \/ \E u \in uploads : Signed(u) \/ UploadFails(u)
    PROVE  FilesInv'
<1>1. CASE Type \/ UNCHANGED attachVars \/ \E s \in sending : NotSent(s)
  <2>1. UNCHANGED <<composer, picker, urls, urlsRef, uploads, kept>> /\ sending' \subseteq sending
    BY <1>1 DEF Type, NotSent, attachVars, pickerState, composed, composerState
  <2> QED BY <2>1 DEF FilesInv, NewFile
<1>2. CASE \E u \in uploads : Signed(u) \/ UploadFails(u)
  <2>1. PICK u \in uploads : Signed(u) \/ UploadFails(u)
    BY <1>2
  <2>2. PICK v : v = [u EXCEPT !.at = "signed"]
    OBVIOUS
  <2>3. /\ UNCHANGED <<composer, picker, urls, urlsRef, sending, kept>>
        /\ uploads' \subseteq (uploads \ {u}) \cup {v}
    BY <2>1, <2>2 DEF Signed, UploadFails, composed, composerState
  <2>4. v.file = u.file
    BY <2>2 DEF AttachType, Upload
  <2>5. \A w \in uploads' : NewFile(w.file)
    BY <2>3, <2>4 DEF FilesInv
  <2> QED BY <2>3, <2>4, <2>5 DEF FilesInv, NewFile
<1> QED BY <1>1, <1>2

-----------------------------------------------------------------------------
(* With care, the limit is kept and no upload loses another's file. *)

\* What is said of a careful person, with the files under way all pending
Cared ==
    /\ uploads = Pending
    /\ sending # {} => uploads = {}
    /\ submitting <=> sending # {}
    /\ \A r, s \in sending : r = s
    /\ \A s \in sending : urls = s.files \/ urls = <<>>
    /\ due = ToSet(urls) \cup {u.file : u \in uploads}
    /\ Len(urls) + Cardinality(uploads) <= MaxFiles

LEMMA CaredIsCare ==
    /\ CareInv <=> (Careful => Cared)
    /\ CareInv' <=> (Careful' => Cared')
BY DEF CareInv, Cared

\* Care that is lost does not come back, nor is a text sent twice forgotten.
LEMMA Lasting ==
    ASSUME [AttachmentsNext]_attachVars
    PROVE  /\ host' = host /\ (orphaned => orphaned') /\ (hasty => hasty')
           /\ pressed \subseteq pressed'
<1> USE DEF composerState, attachAux
<1>1. ASSUME NEW s \in sending, Stored(s) \/ Sent(s) \/ NotSent(s)
      PROVE  /\ host' = host /\ (orphaned => orphaned') /\ (hasty => hasty')
             /\ pressed \subseteq pressed'
  <2>1. CASE Stored(s)
    BY <2>1 DEF Stored
  <2>2. CASE Sent(s)
    BY <2>2 DEF Sent
  <2>3. CASE NotSent(s)
    BY <2>3 DEF NotSent
  <2> QED BY <1>1, <2>1, <2>2, <2>3
<1>2. ASSUME NEW u \in uploads, Signed(u) \/ Uploaded(u) \/ UploadFails(u)
      PROVE  /\ host' = host /\ (orphaned => orphaned') /\ (hasty => hasty')
             /\ pressed \subseteq pressed'
  <2>1. CASE Signed(u)
    BY <2>1 DEF Signed
  <2>2. CASE Uploaded(u)
    BY <2>2 DEF Uploaded
  <2>3. CASE UploadFails(u)
    BY <2>3 DEF UploadFails
  <2> QED BY <1>2, <2>1, <2>2, <2>3
<1>3. CASE OpenComposer
  BY <1>3 DEF OpenComposer
<1>4. CASE CloseComposer
  BY <1>4 DEF CloseComposer
<1>5. CASE Type
  BY <1>5 DEF Type
<1>6. CASE Send
  BY <1>6 DEF Send
<1>7. CASE \E n \in 1..MaxPicked : PickFiles(n)
  BY <1>7 DEF PickFiles
<1>8. CASE \E k \in DOMAIN urls : RemoveFile(k)
  BY <1>8 DEF RemoveFile
<1>9. CASE UNCHANGED attachVars
  BY <1>9 DEF attachVars
<1> HIDE DEF composerState, attachAux
<1> QED BY <1>1, <1>2, <1>3, <1>4, <1>5, <1>6, <1>7, <1>8, <1>9 DEF AttachmentsNext

LEMMA CareLasts ==
    ASSUME [AttachmentsNext]_attachVars, Careful'
    PROVE  Careful
BY Lasting DEF Careful

LEMMA NoUploads ==
    /\ Cardinality({}) = 0
    /\ uploads = {} => {u.file : u \in uploads} = {}
BY FS_EmptySet

LEMMA OpenComposerCare ==
    ASSUME AttachType, Careful, Cared, OpenComposer
    PROVE  Cared'
<1>1. /\ ~composer /\ composer' = TRUE /\ picker' = picker + 1
      /\ UNCHANGED <<submitting, urls, uploads, sending, due>>
  BY DEF OpenComposer, composed, attachAux
<1>2. uploads = {}
  BY <1>1 DEF Cared, Pending
<1>3. Pending' = {}
  BY <1>1, <1>2 DEF Pending
<1> QED BY <1>1, <1>2, <1>3 DEF Cared

LEMMA CloseComposerCare ==
    ASSUME AttachType, Careful', Cared, CloseComposer
    PROVE  Cared'
<1>1. Pending = {}
  BY DEF CloseComposer, Careful
<1>2. /\ composer' = FALSE /\ UNCHANGED <<submitting, uploads, sending>>
      /\ (urls' = <<>> /\ due' = {}) \/ (urls' = urls /\ due' = due)
  BY DEF CloseComposer, composed
<1>3. uploads = {} /\ uploads' = {} /\ Pending' = {}
  BY <1>1, <1>2 DEF Cared, Pending
<1>4. Len(<<>>) = 0 /\ MaxFiles \in Nat
  BY AttachmentsAssumption
<1> QED BY <1>2, <1>3, <1>4, NoUploads, NothingListed DEF Cared

LEMMA SendCare ==
    ASSUME AttachType, Careful', Cared, Send
    PROVE  Cared'
<1>1. sending = {} /\ Pending = {}
  BY DEF Send, Careful, Cared
<1>2. PICK s : s = [nr |-> gestures, text |-> text, files |-> urls, at |-> "sent"]
  OBVIOUS
<1>3. /\ sending' = {s} /\ s.files = urls /\ submitting' = TRUE
      /\ UNCHANGED <<composer, picker, urls, uploads, due>>
  BY <1>1, <1>2 DEF Send, pickerState
<1>4. uploads = {} /\ Pending' = {}
  BY <1>1, <1>3 DEF Cared, Pending
<1> QED BY <1>3, <1>4 DEF Cared

LEMMA StoredCare ==
    ASSUME AttachType, Cared, NEW s \in sending, Stored(s)
    PROVE  Cared'
<1>1. PICK t : t = [s EXCEPT !.at = "stored"]
  OBVIOUS
<1>2. /\ sending' = (sending \ {s}) \cup {t} /\ t.files = s.files
      /\ UNCHANGED <<composer, picker, submitting, urls, uploads, due>>
  BY <1>1 DEF Stored, composerState, pickerState, attachAux, AttachType, Sending
<1>3. sending = {s} /\ sending' = {t} /\ Pending' = Pending
  BY <1>2 DEF Cared, Pending
<1> QED BY <1>2, <1>3 DEF Cared

LEMMA SentCare ==
    ASSUME AttachType, Cared, NEW s \in sending, Sent(s)
    PROVE  Cared'
<1>1. /\ sending' = sending \ {s} /\ urls' = <<>> /\ submitting' = FALSE
      /\ due' = due \ ToSet(s.files) /\ UNCHANGED <<picker, uploads>>
  BY DEF Sent
<1>2. sending' = {} /\ uploads = {} /\ uploads' = {} /\ Pending' = {}
  BY <1>1 DEF Cared, Pending
<1>3. due' = {}
  BY <1>1, <1>2, NoUploads, NothingListed DEF Cared
<1>4. Len(<<>>) = 0 /\ MaxFiles \in Nat
  BY AttachmentsAssumption
<1> QED BY <1>1, <1>2, <1>3, <1>4, NoUploads, NothingListed DEF Cared

LEMMA NotSentCare ==
    ASSUME AttachType, Cared, NEW s \in sending, NotSent(s)
    PROVE  Cared'
<1>1. /\ sending' = sending \ {s} /\ submitting' = FALSE
      /\ UNCHANGED <<composer, picker, urls, uploads, due>>
  BY DEF NotSent, pickerState
<1>2. sending' = {} /\ Pending' = Pending
  BY <1>1 DEF Cared, Pending
<1> QED BY <1>1, <1>2 DEF Cared

LEMMA PickFilesCare ==
    ASSUME AttachType, FilesInv, Cared, NEW n \in 1..MaxPicked, PickFiles(n)
    PROVE  Cared'
<1> DEFINE new == [file : (picked + 1)..picked', of : {picker}, at : {"asked"}]
<1>1. /\ picked' \in Nat /\ picked <= picked' /\ composer /\ ~submitting
      /\ picked' - picked <= MaxFiles - Len(urls) - Cardinality(Pending)
      /\ uploads' = uploads \cup new /\ due' = due \cup (picked + 1)..picked'
      /\ UNCHANGED <<composer, submitting, picker, urls, sending>>
  BY PickFilesFacts
<1>2. /\ picked \in Nat /\ Len(urls) \in Nat /\ MaxFiles \in Nat /\ IsFiniteSet(uploads)
      /\ Cardinality(uploads) \in Nat
  <2>1. IsFiniteSet(uploads) /\ picked \in Nat /\ urls \in Seq(1..picked)
    BY DEF AttachType
  <2> QED BY <2>1, AttachmentsAssumption, FS_CardinalityType
<1>3. IsFiniteSet(new) /\ Cardinality(new) = picked' - picked
  <2>1. PICK F, g : /\ F = (picked + 1)..picked'
                    /\ g = [f \in F |-> [file |-> f, of |-> picker, at |-> "asked"]]
    OBVIOUS
  <2>2. new = [file : F, of : {picker}, at : {"asked"}]
    BY <2>1
  <2>3. IsFiniteSet(F) /\ Cardinality(F) = picked' - picked
    <3>1. picked + 1 \in Int /\ picked' \in Int
      BY <1>1, <1>2
    <3>2. /\ IsFiniteSet((picked + 1)..picked')
          /\ Cardinality((picked + 1)..picked') =
                 IF picked + 1 > picked' THEN 0 ELSE picked' - (picked + 1) + 1
      BY <3>1, FS_Interval
    <3> QED BY <1>1, <1>2, <2>1, <3>2
  <2> HIDE DEF new
  <2>4. g \in Bijection(F, new)
    BY <2>1, <2>2 DEF Bijection, Injection, Surjection, IsInjective
  <2> QED BY <2>3, <2>4, FS_Bijection DEF ExistsBijection
<1>4. new \cap uploads = {}
  <2>1. \A u \in uploads : u.file \in 1..picked
    BY DEF AttachType, Upload
  <2>2. \A u \in new : u.file \notin 1..picked
    BY <1>1, <1>2
  <2> QED BY <2>1, <2>2
<1>5. {u.file : u \in uploads'} = {u.file : u \in uploads} \cup (picked + 1)..picked'
  <2>1. ASSUME NEW f \in (picked + 1)..picked' PROVE \E u \in new : u.file = f
    <3>1. PICK u : u = [file |-> f, of |-> picker, at |-> "asked"]
      OBVIOUS
    <3>2. u \in new /\ u.file = f
      BY <3>1
    <3> QED BY <3>2
  <2>2. \A u \in new : u.file \in (picked + 1)..picked'
    OBVIOUS
  <2> HIDE DEF new
  <2> QED BY <1>1, <2>1, <2>2
<1>6. \A u \in new : u.of = picker
  OBVIOUS
<1> HIDE DEF new
<1>7. Cardinality(uploads') = Cardinality(uploads) + (picked' - picked)
  <2>1. uploads \cap new = {}
    BY <1>4
  <2>2. Cardinality(uploads \cup new) =
            Cardinality(uploads) + Cardinality(new) - Cardinality(uploads \cap new)
    BY <1>2, <1>3, FS_Union
  <2>3. Cardinality(uploads \cup new) = Cardinality(uploads) + (picked' - picked) - 0
    BY <1>3, <2>1, <2>2, NoUploads
  <2>4. Cardinality(uploads \cup new) = Cardinality(uploads) + (picked' - picked)
    BY <1>1, <1>2, <2>3
  <2> QED BY <1>1, <2>4
<1>8. uploads' = Pending'
  BY <1>1, <1>6 DEF Cared, Pending
<1>9. sending = {} /\ Cardinality(Pending) = Cardinality(uploads)
  BY <1>1 DEF Cared
<1>10. Len(urls) + Cardinality(uploads') <= MaxFiles
  BY <1>1, <1>2, <1>7, <1>9
<1> QED BY <1>1, <1>5, <1>8, <1>9, <1>10 DEF Cared

LEMMA SignedCare ==
    ASSUME AttachType, FilesInv, Cared, NEW u \in uploads, Signed(u)
    PROVE  Cared'
<1>1. PICK v : v = [u EXCEPT !.at = "signed"]
  OBVIOUS
<1>2. /\ uploads' = (uploads \ {u}) \cup {v} /\ v.file = u.file /\ v.of = u.of
      /\ UNCHANGED <<composer, submitting, picker, urls, sending, due>>
  BY <1>1 DEF Signed, composerState, composed, attachAux, AttachType, Upload
<1>3. uploads' = Pending'
  BY <1>2 DEF Cared, Pending
<1>4. {w.file : w \in uploads'} = {w.file : w \in uploads}
  BY <1>2
<1>5. sending = {}
  BY DEF Cared
<1>6. Cardinality(uploads') = Cardinality(uploads)
  <2>1. PICK S : S = uploads \ {u}
    OBVIOUS
  <2>2. IsFiniteSet(uploads)
    BY DEF AttachType
  <2>3. IsFiniteSet(S) /\ uploads = S \cup {u} /\ uploads' = S \cup {v} /\ u \notin S
    BY <1>2, <2>1, <2>2, FS_Subset
  <2>4. v \notin S
    BY <1>2, <2>1 DEF FilesInv
  <2>5. Cardinality(S \cup {u}) = Cardinality(S) + 1 /\ Cardinality(S \cup {v}) = Cardinality(S) + 1
    BY <2>3, <2>4, FS_AddElement
  <2> QED BY <2>3, <2>5
<1> QED BY <1>2, <1>3, <1>4, <1>5, <1>6 DEF Cared

\* An upload that ends leaves one less.
LEMMA OneLess ==
    ASSUME AttachType, NEW u \in uploads, uploads' = uploads \ {u}
    PROVE  /\ Cardinality(uploads) \in Nat /\ Cardinality(uploads') = Cardinality(uploads) - 1
<1>1. IsFiniteSet(uploads)
  BY DEF AttachType
<1> QED BY <1>1, FS_RemoveElement, FS_CardinalityType

LEMMA UploadedCare ==
    ASSUME AttachType, FilesInv, Cared, NEW u \in uploads, Uploaded(u)
    PROVE  Cared'
<1>1. /\ uploads' = uploads \ {u}
      /\ UNCHANGED <<composer, submitting, picker, sending, due>>
  BY DEF Uploaded, composerState, composed, attachAux
<1>2. composer /\ u.of = picker /\ urlsRef[u.of] = urls /\ sending = {}
  BY DEF Cared, Pending, FilesInv
<1>3. Len(urls') = Len(urls) + 1 /\ ToSet(urls') = ToSet(urls) \cup {u.file}
  BY <1>2, UploadedFacts
<1>4. uploads' = Pending'
  BY <1>1 DEF Cared, Pending
<1>5. {w.file : w \in uploads} = {w.file : w \in uploads'} \cup {u.file}
  BY <1>1
<1>6. Len(urls') + Cardinality(uploads') <= MaxFiles
  <2>1. Len(urls) \in Nat /\ MaxFiles \in Nat
    BY AttachmentsAssumption DEF AttachType
  <2>2. /\ Cardinality(uploads) \in Nat /\ Cardinality(uploads') = Cardinality(uploads) - 1
    BY <1>1, OneLess
  <2>3. Len(urls) + Cardinality(uploads) <= MaxFiles
    BY DEF Cared
  <2> QED BY <1>3, <2>1, <2>2, <2>3
<1>7. due' = ToSet(urls') \cup {w.file : w \in uploads'}
  BY <1>1, <1>3, <1>5 DEF Cared
<1> QED BY <1>1, <1>2, <1>4, <1>6, <1>7 DEF Cared

LEMMA UploadFailsCare ==
    ASSUME AttachType, FilesInv, Cared, NEW u \in uploads, UploadFails(u)
    PROVE  Cared'
<1>1. /\ uploads' = uploads \ {u} /\ due' = due \ {u.file}
      /\ UNCHANGED <<composer, submitting, picker, urls, sending>>
  BY DEF UploadFails, composerState, composed
<1>2. uploads' = Pending' /\ sending = {}
  BY <1>1 DEF Cared, Pending
<1>3. {w.file : w \in uploads'} = {w.file : w \in uploads} \ {u.file}
  BY <1>1 DEF FilesInv
<1>4. u.file \notin ToSet(urls)
  BY DEF FilesInv, NewFile
<1>5. due' = ToSet(urls) \cup {w.file : w \in uploads'}
  BY <1>1, <1>3, <1>4 DEF Cared
<1>6. Len(urls) + Cardinality(uploads') <= MaxFiles
  <2>1. Len(urls) \in Nat /\ MaxFiles \in Nat
    BY AttachmentsAssumption DEF AttachType
  <2>2. /\ Cardinality(uploads) \in Nat /\ Cardinality(uploads') = Cardinality(uploads) - 1
    BY <1>1, OneLess
  <2> QED BY <2>1, <2>2 DEF Cared
<1> QED BY <1>1, <1>2, <1>5, <1>6 DEF Cared

LEMMA RemoveFileCare ==
    ASSUME AttachType, FilesInv, Cared, NEW k \in DOMAIN urls, RemoveFile(k)
    PROVE  Cared'
<1>1. /\ Len(urls') = Len(urls) - 1 /\ ToSet(urls') = ToSet(urls) \ {urls[k]}
  BY RemoveFileFacts
<1>2. /\ due' = due \ {urls[k]} /\ ~submitting
      /\ UNCHANGED <<composer, submitting, picker, uploads, sending>>
  BY DEF RemoveFile, composerState, composed
<1>3. sending = {} /\ Pending' = Pending
  BY <1>2 DEF Cared, Pending
<1>4. urls[k] \in ToSet(urls)
  BY DEF ToSet
<1>5. \A u \in uploads : u.file # urls[k]
  BY <1>4 DEF FilesInv, NewFile
<1>6. due' = ToSet(urls') \cup {u.file : u \in uploads}
  BY <1>1, <1>2, <1>5 DEF Cared
<1>7. Len(urls') + Cardinality(uploads) <= MaxFiles
  <2>1. Len(urls) \in Nat /\ MaxFiles \in Nat /\ IsFiniteSet(uploads)
    BY AttachmentsAssumption DEF AttachType
  <2>2. Cardinality(uploads) \in Nat
    BY <2>1, FS_CardinalityType
  <2> QED BY <1>1, <2>1, <2>2 DEF Cared
<1> QED BY <1>2, <1>3, <1>6, <1>7 DEF Cared

LEMMA CareStep ==
    ASSUME AttachType, FilesInv, CareInv, [AttachmentsNext]_attachVars
    PROVE  CareInv'
<1> SUFFICES ASSUME Careful' PROVE Cared'
  BY CaredIsCare
<1>1. Careful /\ Cared
  BY CareLasts, CaredIsCare
<1>2. CASE Type \/ UNCHANGED attachVars
  <2>1. UNCHANGED <<composer, submitting, picker, urls, uploads, sending, due>>
    BY <1>2 DEF Type, attachVars, composerState, pickerState, composed, attachAux
  <2> QED BY <1>1, <2>1 DEF Cared, Pending
<1>3. CASE OpenComposer \/ CloseComposer \/ Send
  BY <1>1, <1>3, OpenComposerCare, CloseComposerCare, SendCare
<1>4. CASE \E s \in sending : Stored(s) \/ Sent(s) \/ NotSent(s)
  BY <1>1, <1>4, StoredCare, SentCare, NotSentCare
<1>5. CASE \E n \in 1..MaxPicked : PickFiles(n)
  BY <1>1, <1>5, PickFilesCare
<1>6. CASE \E u \in uploads : Signed(u) \/ Uploaded(u) \/ UploadFails(u)
  BY <1>1, <1>6, SignedCare, UploadedCare, UploadFailsCare
<1>7. CASE \E k \in DOMAIN urls : RemoveFile(k)
  BY <1>1, <1>7, RemoveFileCare
<1> QED BY <1>2, <1>3, <1>4, <1>5, <1>6, <1>7 DEF AttachmentsNext

-----------------------------------------------------------------------------
(* Nothing is stored twice. *)

\* A step that neither sends nor stores, and after which what is written
\* repeats no more of what is stored than before
LEMMA NothingMoreSaid ==
    ASSUME Spoken, UNCHANGED <<sending, kept, pressed>>, uploads' = Pending',
           \A k \in 1..Len(kept) : Repeats(kept[k], Written') => Repeats(kept[k], Written)
    PROVE  Spoken'
<1>1. KeptOnce'
  BY DEF Spoken, KeptOnce
<1>2. ASSUME NEW k \in 1..Len(kept) PROVE NotAgain(kept[k])' /\ OnItsWay(kept[k])'
  <2>1. NotAgain(kept[k]) /\ OnItsWay(kept[k])
    BY DEF Spoken
  <2>2. NotAgain(kept[k])'
    BY <2>1 DEF NotAgain
  <2>3. OnItsWay(kept[k])'
    BY <2>1 DEF OnItsWay
  <2> QED BY <2>2, <2>3
<1> QED BY <1>1, <1>2 DEF Spoken

LEMMA StoredTypes ==
    ASSUME AttachType, NEW k \in 1..Len(kept)
    PROVE  kept[k].text \in 0..typed /\ kept[k].files \subseteq 1..picked
<1>1. PICK R : R = [text : 0..typed, files : SUBSET (1..picked)]
  OBVIOUS
<1>2. kept \in Seq(R)
  BY <1>1 DEF AttachType
<1>3. kept[k] \in R
  BY <1>2
<1> QED BY <1>1, <1>3

LEMMA OpenComposerSaid ==
    ASSUME Spoken, OpenComposer
    PROVE  Spoken'
<1>1. /\ ~composer /\ composer' = TRUE
      /\ UNCHANGED <<text, urls, uploads, sending, kept, pressed>>
  BY DEF OpenComposer, composed, attachAux
<1>2. uploads' = Pending' /\ Written' = Written
  BY <1>1 DEF Spoken, Pending, Written
<1> QED BY <1>1, <1>2, NothingMoreSaid

LEMMA CloseComposerSaid ==
    ASSUME Spoken, ~orphaned', CloseComposer
    PROVE  Spoken'
<1>1. /\ Pending = {} /\ UNCHANGED <<uploads, sending, kept, pressed>>
      /\ (text' = 0 /\ urls' = <<>>) \/ (text' = text /\ urls' = urls)
  BY DEF CloseComposer, composed
<1>2. uploads' = Pending'
  BY <1>1 DEF Spoken, Pending
<1>3. ASSUME NEW k \in 1..Len(kept), Repeats(kept[k], Written') PROVE Repeats(kept[k], Written)
  BY <1>1, <1>3, NothingListed DEF Repeats, Written
<1> QED BY <1>1, <1>2, <1>3, NothingMoreSaid

\* What is typed was never written before.
LEMMA TypeSaid ==
    ASSUME AttachType, Spoken, Type
    PROVE  Spoken'
<1>1. /\ text' = typed + 1 /\ UNCHANGED <<composer, picker, urls, uploads, sending, kept, pressed>>
  BY DEF Type, pickerState, composed, attachAux
<1>2. uploads' = Pending'
  BY <1>1 DEF Spoken, Pending
<1>3. ASSUME NEW k \in 1..Len(kept), Repeats(kept[k], Written') PROVE Repeats(kept[k], Written)
  <2>1. kept[k].text \in 0..typed /\ typed \in Nat
    BY StoredTypes DEF AttachType
  <2>2. kept[k].text # text'
    BY <1>1, <2>1
  <2> QED BY <1>1, <1>3, <2>2 DEF Repeats, Written
<1> QED BY <1>1, <1>2, <1>3, NothingMoreSaid

LEMMA SendSaid ==
    ASSUME Spoken, Send
    PROVE  Spoken'
<1>1. PICK n : n = [nr |-> gestures, text |-> text, files |-> urls, at |-> "sent"]
  OBVIOUS
<1>2. /\ sending' = sending \cup {n} /\ Said(n) = Written /\ n.at = "sent" /\ n.text = text
      /\ UNCHANGED <<composer, text, picker, urls, uploads, kept>>
      /\ pressed \subseteq pressed' /\ (sending # {} => text \in pressed')
  BY <1>1 DEF Send, pickerState, Said, Written
<1>3. uploads' = Pending' /\ KeptOnce'
  BY <1>2 DEF Spoken, Pending, KeptOnce
<1>4. ASSUME NEW k \in 1..Len(kept) PROVE NotAgain(kept[k])' /\ OnItsWay(kept[k])'
  <2>1. NotAgain(kept[k]) /\ OnItsWay(kept[k])
    BY DEF Spoken
  <2>2. NotAgain(kept[k])'
    BY <1>2, <2>1 DEF NotAgain, Written
  <2>3. Repeats(kept[k], Said(n)) => {kept[k].text, n.text} \cap pressed' # {}
    BY <1>2, <2>1 DEF NotAgain
  <2>4. OnItsWay(kept[k])'
    BY <1>2, <2>1, <2>3 DEF OnItsWay
  <2> QED BY <2>2, <2>4
<1>5. ASSUME NEW r \in sending', NEW s \in sending', r # s
      PROVE  {r.text, s.text} \cap pressed' # {}
  <2>1. CASE r = n \/ s = n
    BY <1>2, <1>5, <2>1
  <2>2. CASE r \in sending /\ s \in sending
    BY <1>2, <1>5, <2>2 DEF Spoken
  <2> QED BY <1>2, <2>1, <2>2
<1> QED BY <1>2, <1>3, <1>4, <1>5 DEF Spoken

\* What is stored was on its way, and stands for itself until its answer.
LEMMA StoredSaid ==
    ASSUME AttachType, Spoken, NEW s \in sending, Stored(s)
    PROVE  Spoken'
<1>1. PICK t, x : t = [s EXCEPT !.at = "stored"] /\ x = Said(s)
  OBVIOUS
<1>2. /\ s.at = "sent" /\ sending' = (sending \ {s}) \cup {t} /\ kept' = Append(kept, x)
      /\ UNCHANGED <<composer, text, picker, urls, uploads, pressed>>
  BY <1>1 DEF Stored, Said, composerState, pickerState, attachAux
<1>3. t.at = "stored" /\ t.text = s.text /\ Said(t) = x /\ x.text = s.text
  BY <1>1 DEF Said, AttachType, Sending
<1>4. PICK m \in Nat : m = Len(kept)
  BY DEF AttachType
<1>5. /\ Len(kept') = m + 1 /\ kept'[m + 1] = x /\ \A k \in 1..m : kept'[k] = kept[k]
  BY <1>2, <1>4 DEF AttachType
<1>6. uploads' = Pending'
  BY <1>2 DEF Spoken, Pending
<1>7. \A k \in 1..m : Repeats(kept[k], x) => {kept[k].text, x.text} \cap pressed # {}
  BY <1>1, <1>2, <1>3, <1>4 DEF Spoken, OnItsWay
<1>8. KeptOnce'
  <2> SUFFICES ASSUME NEW j \in 1..(m + 1), NEW k \in 1..(m + 1), j # k,
                      Repeats(kept'[j], kept'[k])
               PROVE  {kept'[j].text, kept'[k].text} \cap pressed # {}
    BY <1>2, <1>5 DEF KeptOnce
  <2>1. CASE j \in 1..m /\ k \in 1..m
    BY <1>4, <1>5, <2>1 DEF Spoken, KeptOnce
  <2>2. CASE k = m + 1 /\ j \in 1..m
    BY <1>5, <1>7, <2>2
  <2>3. CASE j = m + 1 /\ k \in 1..m
    BY <1>5, <1>7, <2>3 DEF Repeats
  <2> QED BY <1>4, <2>1, <2>2, <2>3
<1>9. ASSUME NEW k \in 1..m PROVE NotAgain(kept[k])' /\ OnItsWay(kept[k])'
  <2>1. PICK y : y = kept[k] /\ NotAgain(y) /\ OnItsWay(y) /\ kept'[k] = y
    BY <1>4, <1>5 DEF Spoken
  <2>2. NotAgain(y)'
    BY <1>2, <2>1 DEF NotAgain, Written
  <2>3. OnItsWay(y)'
    BY <1>2, <1>3, <2>1 DEF OnItsWay
  <2> QED BY <2>1, <2>2, <2>3 DEF NotAgain, OnItsWay
<1>10. NotAgain(x)' /\ OnItsWay(x)'
  <2>1. NotAgain(x)'
    BY <1>2, <1>3 DEF NotAgain
  <2>2. ASSUME NEW r \in sending', r.at = "sent" PROVE {x.text, r.text} \cap pressed' # {}
    <3>1. r \in sending /\ r # s
      BY <1>2, <1>3, <2>2
    <3> QED BY <1>2, <1>3, <3>1 DEF Spoken
  <2> QED BY <2>1, <2>2 DEF OnItsWay
<1>11. ASSUME NEW k \in 1..Len(kept') PROVE (NotAgain(kept[k]) /\ OnItsWay(kept[k]))'
  <2>1. CASE k \in 1..m
    BY <1>9, <2>1
  <2>2. CASE k = m + 1
    BY <1>5, <1>10, <2>2 DEF NotAgain, OnItsWay
  <2> QED BY <1>4, <1>5, <2>1, <2>2
<1>12. ASSUME NEW q \in sending', NEW r \in sending', q # r
       PROVE  {q.text, r.text} \cap pressed' # {}
  <2>1. CASE q \in sending /\ r \in sending
    BY <1>2, <1>12, <2>1 DEF Spoken
  <2>2. CASE q = t /\ r \in sending \ {s}
    BY <1>2, <1>3, <2>2 DEF Spoken
  <2>3. CASE r = t /\ q \in sending \ {s}
    BY <1>2, <1>3, <2>3 DEF Spoken
  <2> QED BY <1>2, <1>12, <2>1, <2>2, <2>3
<1> QED BY <1>6, <1>8, <1>11, <1>12 DEF Spoken

LEMMA SentSaid ==
    ASSUME Spoken, ~orphaned', NEW s \in sending, Sent(s)
    PROVE  Spoken'
<1>1. /\ sending' = sending \ {s} /\ text' = 0 /\ urls' = <<>>
      /\ (composer' <=> composer /\ host = "comment") /\ (Pending # {} => composer')
      /\ UNCHANGED <<picker, uploads, kept, pressed>>
  BY DEF Sent
<1>2. uploads' = Pending'
  BY <1>1 DEF Spoken, Pending
<1>3. \A x : ~Repeats(x, Written')
  BY <1>1, NothingListed DEF Repeats, Written
<1>4. KeptOnce'
  BY <1>1 DEF Spoken, KeptOnce
<1>5. ASSUME NEW k \in 1..Len(kept') PROVE (NotAgain(kept[k]) /\ OnItsWay(kept[k]))'
  BY <1>1, <1>3 DEF NotAgain, OnItsWay, Spoken
<1> QED BY <1>1, <1>2, <1>4, <1>5 DEF Spoken

LEMMA NotSentSaid ==
    ASSUME Spoken, NEW s \in sending, NotSent(s)
    PROVE  Spoken'
<1>1. /\ sending' = sending \ {s} /\ pressed' = pressed \cup {s.text}
      /\ UNCHANGED <<composer, text, picker, urls, uploads, kept>>
  BY DEF NotSent, pickerState
<1>2. uploads' = Pending' /\ KeptOnce'
  BY <1>1 DEF Spoken, Pending, KeptOnce
<1>3. ASSUME NEW k \in 1..Len(kept) PROVE NotAgain(kept[k])' /\ OnItsWay(kept[k])'
  <2>1. NotAgain(kept[k]) /\ OnItsWay(kept[k])
    BY DEF Spoken
  <2>2. Said(s) = kept[k] => kept[k].text = s.text
    BY DEF Said
  <2>3. NotAgain(kept[k])'
    BY <1>1, <2>1, <2>2 DEF NotAgain, Written
  <2>4. OnItsWay(kept[k])'
    BY <1>1, <2>1 DEF OnItsWay
  <2> QED BY <2>3, <2>4
<1> QED BY <1>1, <1>2, <1>3 DEF Spoken

LEMMA PickFilesSaid ==
    ASSUME AttachType, FilesInv, Spoken, NEW n \in 1..MaxPicked, PickFiles(n)
    PROVE  Spoken'
<1> DEFINE new == [file : (picked + 1)..picked', of : {picker}, at : {"asked"}]
<1>1. /\ uploads' = uploads \cup new /\ composer
      /\ UNCHANGED <<composer, text, picker, urls, sending, kept, pressed>>
  BY PickFilesFacts
<1>2. \A u \in new : u.of = picker
  OBVIOUS
<1> HIDE DEF new
<1>3. uploads' = Pending' /\ Written' = Written
  BY <1>1, <1>2 DEF Spoken, Pending, Written
<1> QED BY <1>1, <1>3, NothingMoreSaid

\* The file an upload brings is stored nowhere.
LEMMA UploadedSaid ==
    ASSUME AttachType, FilesInv, Spoken, NEW u \in uploads, Uploaded(u)
    PROVE  Spoken'
<1>1. uploads' = uploads \ {u} /\ UNCHANGED <<composer, text, picker, sending, kept, pressed>>
  BY DEF Uploaded, composerState, composed, attachAux
<1>2. composer /\ u.of = picker /\ urlsRef[u.of] = urls
  BY DEF Spoken, Pending, FilesInv
<1>3. ToSet(urls') = ToSet(urls) \cup {u.file}
  BY <1>2, UploadedFacts
<1>4. uploads' = Pending'
  BY <1>1 DEF Spoken, Pending
<1>5. \A k \in 1..Len(kept) : Repeats(kept[k], Written') => Repeats(kept[k], Written)
  BY <1>1, <1>3 DEF FilesInv, NewFile, Repeats, Written
<1> QED BY <1>1, <1>4, <1>5, NothingMoreSaid

LEMMA UploadEndsSaid ==
    ASSUME AttachType, Spoken, NEW u \in uploads, Signed(u) \/ UploadFails(u)
    PROVE  Spoken'
<1>1. PICK v : v = [u EXCEPT !.at = "signed"]
  OBVIOUS
<1>2. /\ uploads' = uploads \ {u} \/ uploads' = (uploads \ {u}) \cup {v}
      /\ UNCHANGED <<composer, text, picker, urls, sending, kept, pressed>>
  <2>1. CASE Signed(u)
    BY <1>1, <2>1 DEF Signed, composerState, composed, attachAux
  <2>2. CASE UploadFails(u)
    BY <2>2 DEF UploadFails, composerState, composed
  <2> QED BY <2>1, <2>2
<1>3. v.of = u.of
  BY <1>1 DEF AttachType, Upload
<1>4. uploads' = Pending' /\ Written' = Written
  BY <1>2, <1>3 DEF Spoken, Pending, Written
<1> QED BY <1>2, <1>4, NothingMoreSaid

LEMMA RemoveFileSaid ==
    ASSUME AttachType, FilesInv, Spoken, NEW k \in DOMAIN urls, RemoveFile(k)
    PROVE  Spoken'
<1>1. UNCHANGED <<composer, text, picker, uploads, sending, kept, pressed>>
  BY DEF RemoveFile, composerState, composed
<1>2. ToSet(urls') \subseteq ToSet(urls)
  BY RemoveFileFacts
<1>3. uploads' = Pending'
  BY <1>1 DEF Spoken, Pending
<1>4. \A i \in 1..Len(kept) : Repeats(kept[i], Written') => Repeats(kept[i], Written)
  BY <1>1, <1>2 DEF Repeats, Written
<1> QED BY <1>1, <1>3, <1>4, NothingMoreSaid

LEMMA SaidStep ==
    ASSUME AttachType, FilesInv, SaidInv, [AttachmentsNext]_attachVars
    PROVE  SaidInv'
<1> SUFFICES ASSUME ~orphaned' PROVE Spoken'
  BY DEF SaidInv
<1>1. Spoken
  BY Lasting DEF SaidInv
<1>2. CASE UNCHANGED attachVars
  <2>1. /\ UNCHANGED <<sending, kept, pressed>> /\ Written' = Written
        /\ UNCHANGED <<composer, picker, uploads>>
    BY <1>2 DEF attachVars, composerState, pickerState, composed, attachAux, Written
  <2>2. uploads' = Pending'
    BY <1>1, <2>1 DEF Spoken, Pending
  <2> QED BY <1>1, <2>1, <2>2, NothingMoreSaid
<1>3. CASE OpenComposer \/ CloseComposer \/ Type \/ Send
  BY <1>1, <1>3, OpenComposerSaid, CloseComposerSaid, TypeSaid, SendSaid
<1>4. CASE \E s \in sending : Stored(s) \/ Sent(s) \/ NotSent(s)
  BY <1>1, <1>4, StoredSaid, SentSaid, NotSentSaid
<1>5. CASE \E n \in 1..MaxPicked : PickFiles(n)
  BY <1>1, <1>5, PickFilesSaid
<1>6. CASE \E u \in uploads : Signed(u) \/ Uploaded(u) \/ UploadFails(u)
  BY <1>1, <1>6, UploadedSaid, UploadEndsSaid
<1>7. CASE \E k \in DOMAIN urls : RemoveFile(k)
  BY <1>1, <1>7, RemoveFileSaid
<1> QED BY <1>2, <1>3, <1>4, <1>5, <1>6, <1>7 DEF AttachmentsNext

-----------------------------------------------------------------------------

LEMMA AttachTypeStep ==
    ASSUME AttachType, FilesInv, [AttachmentsNext]_attachVars
    PROVE  AttachType'
<1>1. CASE UNCHANGED attachVars
  <2>1. UNCHANGED <<host, composer, text, submitting, picker, urls, urlsRef, uploads, sending, kept,
                    picked, typed, gestures, due>>
    BY <1>1 DEF attachVars, composerState, pickerState, composed, gestureBounds, attachAux
  <2> QED BY <2>1 DEF AttachType, Upload, Sending
<1>2. CASE OpenComposer \/ CloseComposer \/ Type \/ Send
  BY <1>2, OpenComposerType, CloseComposerType, TypeType, SendType
<1>3. CASE \E s \in sending : Stored(s) \/ Sent(s) \/ NotSent(s)
  BY <1>3, StoredType, SentType, NotSentType
<1>4. CASE \E n \in 1..MaxPicked : PickFiles(n)
  BY <1>4, PickFilesType
<1>5. CASE \E u \in uploads : Signed(u) \/ Uploaded(u) \/ UploadFails(u)
  BY <1>5, SignedType, UploadedType, UploadFailsType
<1>6. CASE \E k \in DOMAIN urls : RemoveFile(k)
  BY <1>6, RemoveFileType
<1> QED BY <1>1, <1>2, <1>3, <1>4, <1>5, <1>6 DEF AttachmentsNext

LEMMA FilesStep ==
    ASSUME AttachType, FilesInv, [AttachmentsNext]_attachVars
    PROVE  FilesInv'
<1>1. CASE OpenComposer \/ CloseComposer \/ Send
  BY <1>1, OpenComposerFiles, CloseComposerFiles, SendFiles
<1>2. CASE \E s \in sending : Stored(s) \/ Sent(s)
  BY <1>2, StoredFiles, SentFiles
<1>3. CASE \E n \in 1..MaxPicked : PickFiles(n)
  BY <1>3, PickFilesFiles
<1>4. CASE \E u \in uploads : Uploaded(u)
  BY <1>4, UploadedFiles
<1>5. CASE \E k \in DOMAIN urls : RemoveFile(k)
  BY <1>5, RemoveFileFiles
<1> QED BY <1>1, <1>2, <1>3, <1>4, <1>5, OtherFiles DEF AttachmentsNext

LEMMA AttachStart ==
    ASSUME NEW place \in {"post", "comment", "reply"}, AttachmentsStart(place)
    PROVE  AttachInv
<1> USE DEF AttachmentsStart
<1>1. Pending = {} /\ Len(kept) = 0 /\ 1..0 = {} /\ MaxFiles \in Nat
  BY AttachmentsAssumption DEF Pending
<1>2. AttachType
  <2>1. host \in {"post", "comment", "reply"} /\ composer \in BOOLEAN /\ submitting \in BOOLEAN
    OBVIOUS
  <2>2. /\ picker \in Nat /\ picked \in Nat /\ typed \in Nat /\ gestures \in Nat
        /\ text \in 0..typed
    OBVIOUS
  <2>3. uploads \subseteq Upload /\ sending \subseteq Sending /\ due \subseteq 1..picked
    OBVIOUS
  <2>4. IsFiniteSet(uploads)
    BY FS_EmptySet
  <2>5. urls \in Seq(1..picked) /\ kept \in Seq([text : 0..typed, files : SUBSET (1..picked)])
    OBVIOUS
  <2>6. urlsRef \in Seq(Seq(1..picked)) /\ Len(urlsRef) = picker
    OBVIOUS
  <2> QED BY <2>1, <2>2, <2>3, <2>4, <2>5, <2>6 DEF AttachType
<1>3. FilesInv
  BY NothingListed DEF FilesInv
<1>4. Cared
  BY <1>1, NoUploads, NothingListed DEF Cared
<1>5. Spoken
  BY <1>1 DEF Spoken, KeptOnce
<1> QED BY <1>2, <1>3, <1>4, <1>5, CaredIsCare DEF AttachInv, SaidInv

LEMMA AttachKeeps == AttachInv => AttachmentsKept
<1> SUFFICES ASSUME AttachInv PROVE AttachmentsKept
  OBVIOUS
<1>1. WithinRoom
  BY DEF AttachInv, CareInv, WithinRoom
<1>2. NoneLost
  BY NoUploads DEF AttachInv, FilesInv, CareInv, NoneLost
<1>3. SaidOnce
  BY DEF AttachInv, SaidInv, Spoken, KeptOnce, SaidOnce
<1> QED BY <1>1, <1>2, <1>3 DEF AttachmentsKept

\* In each of the three composers: with care the limit of files is kept and
\* no upload loses the file of another, no list has a file twice, and nothing
\* is stored twice but what Enter or a new try after a failure sends again.
THEOREM AttachmentKept ==
    ASSUME NEW place \in {"post", "comment", "reply"}
    PROVE  AttachmentsStart(place) /\ [][AttachmentsNext]_attachVars => []AttachmentsKept
<1>1. AttachmentsStart(place) => AttachInv
  BY AttachStart
<1>2. AttachInv /\ [AttachmentsNext]_attachVars => AttachInv'
  BY AttachTypeStep, FilesStep, CareStep, SaidStep DEF AttachInv
<1> QED BY <1>1, <1>2, AttachKeeps, PTL

-----------------------------------------------------------------------------
(* The directory: what is asked for, and whom the user follows *)

Following(es) == {e \in es : e.op \in FollowOps}
On(p) == {e \in errands : e.op \in FollowOps /\ e.who = p}
Loads == {"ids", "me", "profile", "name"}

Queries == DOMAIN Matches \cup {""}

ErrandSound(e) ==
    /\ e = [op |-> e.op, from |-> e.from, who |-> e.who, id |-> e.id, at |-> e.at,
            step |-> e.step, rows |-> e.rows, mixed |-> e.mixed]
    /\ e.step \in {"asked", "done", "failed"} /\ e.rows \subseteq Folk
    /\ \/ e.op \in FollowOps /\ e.from = "button" /\ e.who \in Folk
       \/ /\ e.op \in {"profile", "name"} /\ e.from = "page"
          /\ e.who \in Folk /\ e.rows \subseteq {e.who}
       \/ e.op \in {"ids", "me"} /\ e.from \in {"bar", "page"}
       \/ e.op = "edges" /\ e.from = "page" /\ e.who \in Folk \cup {Me}
       \/ e.op = "search" /\ e.from = "page" /\ e.who \in DOMAIN Matches
       \/ e.op = "suggest" /\ e.from = "page"

DirectoryType ==
    /\ follows \subseteq Folk
    /\ cache = [ids |-> cache.ids, counts |-> cache.counts] /\ cache.ids \subseteq Folk
    /\ cache.counts \in [Folk \cup {Me} -> Nat \cup {Uncached}]
    /\ blurred = [ids |-> blurred.ids, counts |-> blurred.counts]
    /\ view = [page |-> view.page, who |-> view.who, phase |-> view.phase, shown |-> view.shown,
               rows |-> view.rows, named |-> view.named]
    /\ finder = [query |-> finder.query, nr |-> finder.nr, timer |-> finder.timer,
                 loading |-> finder.loading, wrong |-> finder.wrong, hits |-> finder.hits,
                 of |-> finder.of]
    /\ finder.nr \in Nat /\ finder.query \in Queries
    /\ \A e \in errands : ErrandSound(e)

\* Whom a load tells of for sure: nobody asked to follow them since it began,
\* and what it read still holds.
Tells(e, p) == p \notin e.mixed /\ (e.op \in {"profile", "name"} => p = e.who)
LoadSound(e) ==
    e.op \in Loads => \A p \in Folk : Tells(e, p) =>
        On(p) = {} /\ (e.step = "done" => (p \in e.rows <=> p \in follows))
LoadsInv == \A e \in errands : LoadSound(e)

\* One request at a time, and what is on its way fits what is stored
Tracked(p) ==
    /\ \A e, f \in On(p) : e = f
    /\ \A e \in On(p) : /\ e.op = "follow" /\ e.step = "done" => p \in follows
                        /\ e.op = "unfollow" => (p \in follows <=> e.step # "done")
TrackedInv ==
    \A p \in Folk : ~(p \in blurred.ids \cap blurred.counts /\ Me \in blurred.counts) => Tracked(p)

IdsAt(p) ==
    /\ On(p) = {} => /\ p \in cache.ids => p \in follows
                     /\ hydrated /\ p \in follows => p \in cache.ids
    /\ \A e \in On(p) : /\ p \in cache.ids <=> e.op = "follow"
                        /\ hydrated /\ e.op = "follow" /\ e.step # "done" => p \notin follows
IdsInv == \A p \in Folk \ blurred.ids : IdsAt(p)

\* Whose marks are not yet stored, and the counts to expect with them
Flips(op) == {p \in Folk : \E e \in On(p) : e.op = op /\ e.step # "done"}
One(p, S) == IF p \in S THEN 1 ELSE 0
Expected(p) == One(p, follows) + One(p, Flips("follow")) - One(p, Flips("unfollow"))
ExpectedMine ==
    Cardinality(follows) + Cardinality(Flips("follow")) - Cardinality(Flips("unfollow"))

CountsInv ==
    \A p \in Folk \ blurred.counts :
        cache.counts[p] # Uncached => cache.counts[p] = Expected(p)
MineInv ==
    Me \notin blurred.counts /\ cache.counts[Me] # Uncached => cache.counts[Me] = ExpectedMine

\* Whatever a page waits for is its own.
PagesInv ==
    /\ view.page \in {"profile", "edges"} /\ view.phase = "ready" => view.shown = view.who
    /\ view.phase = "loading" =>
           \E e \in errands : e.from = "page" /\ e.op \in {"me", "profile", "edges"}
    /\ panelOf.loading => \E e \in errands : e.op = "suggest"
    /\ \A e \in errands : e.from = "page" =>
           /\ e.op = "profile" => <<view.page, view.who>> = <<"profile", e.who>>
           /\ e.op = "me" => <<view.page, view.who>> = <<"profile", Me>>
           /\ e.op = "edges" => <<view.page, view.who>> = <<"edges", e.who>>
           /\ e.op = "name" => view.page = "edges"

SearchInv ==
    /\ SearchAgrees
    /\ finder.timer => finder.query # "" /\ finder.loading
    /\ \A e \in errands : e.op = "search" =>
           /\ e.id \in 0..finder.nr
           /\ e.id = finder.nr /\ finder.query # "" => e.who = finder.query /\ ~finder.timer

Followed == LoadsInv /\ TrackedInv /\ IdsInv /\ CountsInv /\ MineInv
DirectoryInv == DirectoryType /\ Followed /\ PagesInv /\ SearchInv

-----------------------------------------------------------------------------
(* Requests that come and go *)

LEMMA OneMoreOrLess ==
    ASSUME NEW S, IsFiniteSet(S), NEW x
    PROVE  /\ Cardinality(S) \in Nat
           /\ x \notin S => Cardinality(S \cup {x}) = Cardinality(S) + 1
           /\ x \in S => Cardinality(S \ {x}) = Cardinality(S) - 1 /\ Cardinality(S) > 0
<1>1. Cardinality(S) \in Nat
  BY FS_CardinalityType
<1>2. ASSUME x \in S PROVE Cardinality(S) # 0
  BY <1>2, FS_EmptySet
<1>3. x \notin S => Cardinality(S \cup {x}) = Cardinality(S) + 1
  BY FS_AddElement
<1>4. x \in S => Cardinality(S \ {x}) = Cardinality(S) - 1
  BY FS_RemoveElement
<1> QED BY <1>1, <1>2, <1>3, <1>4

\* A request just sent, next to those in es
Fresh(e, es) ==
    /\ ErrandSound(e) /\ e.op \notin FollowOps /\ e.step = "asked"
    /\ e.op \in Loads => Asked(es) \subseteq e.mixed
Unasked(e) == ErrandSound(e) /\ e.op \notin FollowOps /\ e.step = "asked"
Alike(e, f) == e.op = f.op /\ e.from = f.from /\ e.who = f.who /\ e.id = f.id

LEMMA BegunFacts ==
    ASSUME NEW es, NEW new, \A f \in new : Unasked(f)
    PROVE  /\ Following(LoadsBegun(es, new)) = Following(es)
           /\ es \subseteq LoadsBegun(es, new)
           /\ \A e \in LoadsBegun(es, new) :
                 e \in es \/ (Fresh(e, es) /\ \E f \in new : Alike(e, f))
           /\ \A f \in new : \E e \in LoadsBegun(es, new) : Alike(e, f)
<1> DEFINE G(f) == [f EXCEPT !.mixed = Asked(es)]
<1>1. LoadsBegun(es, new) = es \cup {G(f) : f \in new}
  BY DEF LoadsBegun
<1>2. ASSUME NEW f \in new PROVE Fresh(G(f), es) /\ Alike(G(f), f)
  <2>1. /\ f = [op |-> f.op, from |-> f.from, who |-> f.who, id |-> f.id, at |-> f.at,
                step |-> f.step, rows |-> f.rows, mixed |-> f.mixed]
    BY DEF Unasked, ErrandSound
  <2>2. G(f) = [op |-> f.op, from |-> f.from, who |-> f.who, id |-> f.id, at |-> f.at,
                step |-> f.step, rows |-> f.rows, mixed |-> Asked(es)]
    BY <2>1
  <2> HIDE DEF G
  <2> QED BY <2>2 DEF Fresh, Unasked, ErrandSound, Alike
<1> HIDE DEF G
<1>3. ASSUME NEW e \in Following(LoadsBegun(es, new)) PROVE e \in Following(es)
  BY <1>1, <1>2 DEF Following, Fresh
<1>4. Following(es) \subseteq Following(LoadsBegun(es, new))
  BY <1>1 DEF Following
<1> QED BY <1>1, <1>2, <1>3, <1>4

LEMMA ErrandIsUnasked ==
    ASSUME NEW op, NEW from, NEW who, NEW id,
           \/ op \in {"profile", "name"} /\ from = "page" /\ who \in Folk
           \/ op \in {"ids", "me"} /\ from \in {"bar", "page"}
           \/ op = "edges" /\ from = "page" /\ who \in Folk \cup {Me}
           \/ op = "search" /\ from = "page" /\ who \in DOMAIN Matches
           \/ op = "suggest" /\ from = "page"
    PROVE  /\ Unasked(Errand(op, from, who, id))
           /\ LET e == Errand(op, from, who, id) IN
              e.op = op /\ e.from = from /\ e.who = who /\ e.id = id
BY DEF Errand, Unasked, ErrandSound, FollowOps

LEMMA EffectsFacts ==
    ASSUME NEW c, NEW es, \A e \in es : ErrandSound(e), NEW changed
    PROVE  /\ Following(Effects(c, es, changed)) = Following(es)
           /\ \A e \in Effects(c, es, changed) :
                  e \in es \/ (Fresh(e, es) /\ e.op = "ids")
           /\ \A e \in es : e.from = "bar" \/ e.op = "ids" \/ e \in Effects(c, es, changed)
<1>1. PICK dropped, begun :
        /\ Effects(c, es, changed) = LoadsBegun(es \ dropped, begun)
        /\ \A e \in dropped : e.from = "bar" \/ e.op = "ids"
        /\ begun \subseteq {Errand("ids", "bar", Nobody, 0), Errand("ids", "page", Nobody, 0)}
  <2> DEFINE sized == view.page = "discover" /\ Cardinality(c.ids) # Cardinality(cache.ids)
             dropped == {e \in es : \/ changed /\ e.from = "bar"
                                    \/ sized /\ e.from = "page" /\ e.op = "ids"}
             begun == (IF changed THEN {Errand("ids", "bar", Nobody, 0)} ELSE {})
                   \cup (IF sized /\ c.ids = {} THEN {Errand("ids", "page", Nobody, 0)} ELSE {})
  <2>1. Effects(c, es, changed) = LoadsBegun(es \ dropped, begun)
    BY DEF Effects
  <2>2. \A e \in dropped : e.from = "bar" \/ e.op = "ids"
    OBVIOUS
  <2>3. begun \subseteq {Errand("ids", "bar", Nobody, 0), Errand("ids", "page", Nobody, 0)}
    OBVIOUS
  <2> HIDE DEF dropped, begun
  <2> QED BY <2>1, <2>2, <2>3
<1>2. \A f \in begun : Unasked(f) /\ f.op = "ids"
  BY <1>1, ErrandIsUnasked
<1>3. Following(es \ dropped) = Following(es)
  BY <1>1 DEF Following, ErrandSound, FollowOps
<1>4. Asked(es \ dropped) = Asked(es)
  BY <1>3 DEF Following, Asked
<1>5. /\ Following(Effects(c, es, changed)) = Following(es \ dropped)
      /\ es \ dropped \subseteq Effects(c, es, changed)
      /\ \A e \in Effects(c, es, changed) :
            e \in es \ dropped \/ (Fresh(e, es \ dropped) /\ \E f \in begun : Alike(e, f))
  BY <1>1, <1>2, BegunFacts
<1>6. ASSUME NEW e \in Effects(c, es, changed) PROVE e \in es \/ (Fresh(e, es) /\ e.op = "ids")
  BY <1>2, <1>4, <1>5 DEF Fresh, Alike
<1> QED BY <1>1, <1>3, <1>5, <1>6

\* A load that begins next to what is asked tells of nobody asked for.
LEMMA FreshIsSound ==
    ASSUME NEW e, Fresh(e, errands)
    PROVE  LoadSound(e)
BY DEF Fresh, LoadSound, Tells, On, Asked

LEMMA SameRequests ==
    ASSUME Following(errands') = Following(errands)
    PROVE  /\ \A p : On(p)' = On(p)
           /\ \A op : Flips(op)' = Flips(op)
           /\ Asked(errands') = Asked(errands)
<1>1. \A p : On(p)' = On(p)
  BY DEF On, Following
<1>2. \A op : Flips(op)' = Flips(op)
  BY <1>1 DEF Flips
<1>3. Asked(errands') = Asked(errands)
  BY DEF Asked, Following
<1> QED BY <1>1, <1>2, <1>3

\* A step that touches neither the store, nor what is stored, nor a request
\* to follow
LEMMA CalmStep ==
    ASSUME Followed, UNCHANGED <<follows, cache, hydrated, blurred>>,
           Following(errands') = Following(errands),
           \A e \in errands' : e \in errands \/ LoadSound(e)
    PROVE  Followed'
<1>1. LoadsInv'
  BY SameRequests DEF Followed, LoadsInv, LoadSound
<1>2. TrackedInv'
  BY SameRequests DEF Followed, TrackedInv, Tracked
<1>3. IdsInv'
  BY SameRequests DEF Followed, IdsInv, IdsAt
<1>4. CountsInv'
  BY SameRequests DEF Followed, CountsInv, Expected
<1>5. MineInv'
  BY SameRequests DEF Followed, MineInv, ExpectedMine
<1> QED BY <1>1, <1>2, <1>3, <1>4, <1>5 DEF Followed

-----------------------------------------------------------------------------
(* Going from page to page *)

\* What is left of the requests when a page is left, and those of the next
LEMMA PageLeft ==
    ASSUME DirectoryInv, NEW new,
           \A f \in new : Unasked(f) /\ f.from = "page" /\ f.op # "search",
           errands' = LoadsBegun(Kept, new), finder' = NoFinder,
           UNCHANGED <<follows, cache, directoryAux>>
    PROVE  /\ Followed' /\ SearchInv' /\ finder'.nr \in Nat /\ finder'.query = ""
           /\ \A e \in errands' : ErrandSound(e)
           /\ \A e \in errands' : e.from = "page" => \E f \in new : Alike(e, f)
           /\ \A f \in new : \E e \in errands' : Alike(e, f)
<1>1. /\ Following(errands') = Following(Kept) /\ Kept \subseteq errands'
      /\ \A e \in errands' : e \in Kept \/ (Fresh(e, Kept) /\ \E f \in new : Alike(e, f))
      /\ \A f \in new : \E e \in errands' : Alike(e, f)
  BY BegunFacts
<1>2. \A e \in errands : ErrandSound(e)
  BY DEF DirectoryInv, DirectoryType
<1>3. Following(Kept) = Following(errands) /\ Asked(Kept) = Asked(errands)
  BY <1>2 DEF Following, Kept, ErrandSound, FollowOps, Asked
<1>4. \A e \in errands' : e \in errands \/ Fresh(e, errands)
  BY <1>1, <1>3 DEF Kept, Fresh
<1>5. Followed'
  BY <1>1, <1>3, <1>4, FreshIsSound, CalmStep DEF DirectoryInv, directoryAux
<1>6. \A e \in errands' : ErrandSound(e)
  BY <1>2, <1>4 DEF Fresh
<1>7. \A e \in errands' : e.from = "page" => \E f \in new : Alike(e, f)
  BY <1>1 DEF Kept
<1>8. \A e \in errands' : e.op # "search"
  BY <1>6, <1>7 DEF Alike, ErrandSound, FollowOps
<1>9. /\ finder'.query = "" /\ finder'.timer = FALSE /\ finder'.nr = 0
  BY DEF NoFinder
<1>10. SearchInv'
  <2>1. SearchAgrees' /\ ~finder'.timer
    BY <1>9 DEF SearchAgrees
  <2> QED BY <1>8, <2>1 DEF SearchInv
<1>11. finder'.nr \in Nat
  BY DEF NoFinder
<1> QED BY <1>1, <1>5, <1>6, <1>7, <1>9, <1>10, <1>11

LEMMA OpenHomeStep ==
    ASSUME DirectoryInv, OpenHome
    PROVE  DirectoryInv'
<1>1. /\ view'.page = "home" /\ view'.phase = "ready" /\ panelOf' = NoPanel
      /\ view' = [page |-> "home", who |-> Nobody, phase |-> "ready", shown |-> Nobody,
                  rows |-> {}, named |-> Nobody]
      /\ finder' = NoFinder /\ UNCHANGED <<follows, cache, directoryAux>>
  BY DEF OpenHome
<1>2. PICK new : new = {} /\ errands' = LoadsBegun(Kept, new)
  <2>1. LoadsBegun(Kept, {}) = Kept
    BY DEF LoadsBegun
  <2>2. errands' = Kept
    BY DEF OpenHome
  <2> QED BY <2>1, <2>2
<1>3. /\ Followed' /\ SearchInv' /\ finder'.nr \in Nat /\ finder'.query = ""
      /\ \A e \in errands' : ErrandSound(e) /\ e.from # "page"
  <2>1. \A f \in new : Unasked(f) /\ f.from = "page" /\ f.op # "search"
    BY <1>2
  <2>2. /\ Followed' /\ SearchInv' /\ finder'.nr \in Nat /\ finder'.query = ""
        /\ \A e \in errands' : ErrandSound(e)
        /\ \A e \in errands' : e.from = "page" => \E f \in new : Alike(e, f)
    <3>1. errands' = LoadsBegun(Kept, new)
      BY <1>2
    <3> QED BY <1>1, <2>1, <3>1, PageLeft
  <2> QED BY <1>2, <2>2
<1>4. DirectoryType'
  BY <1>1, <1>3 DEF DirectoryInv, DirectoryType, directoryAux, NoFinder, Queries
<1>5. PagesInv'
  BY <1>1, <1>3 DEF PagesInv, NoPanel
<1> QED BY <1>3, <1>4, <1>5 DEF DirectoryInv

LEMMA OpenDiscoverStep ==
    ASSUME DirectoryInv, OpenDiscover
    PROVE  DirectoryInv'
<1>1. /\ view' = [page |-> "discover", who |-> Nobody, phase |-> "ready", shown |-> Nobody,
                  rows |-> {}, named |-> Nobody]
      /\ finder' = NoFinder /\ UNCHANGED <<follows, cache, directoryAux>>
  BY DEF OpenDiscover
<1>2. PICK new : /\ errands' = LoadsBegun(Kept, new)
                 /\ Errand("suggest", "page", Nobody, mounting + 1) \in new
                 /\ new \subseteq {Errand("suggest", "page", Nobody, mounting + 1),
                                   Errand("ids", "page", Nobody, 0)}
  <2>1. errands' = LoadsBegun(Kept, {Errand("suggest", "page", Nobody, mounting + 1)}
                      \cup (IF cache.ids = {} THEN {Errand("ids", "page", Nobody, 0)} ELSE {}))
    BY DEF OpenDiscover
  <2> QED BY <2>1
<1>3. \A f \in new : Unasked(f) /\ f.from = "page" /\ f.op \in {"suggest", "ids"}
  BY <1>2, ErrandIsUnasked
<1>4. /\ Followed' /\ SearchInv' /\ finder'.nr \in Nat /\ finder'.query = ""
      /\ \A e \in errands' : ErrandSound(e)
      /\ \A e \in errands' : e.from = "page" => \E f \in new : Alike(e, f)
      /\ \A f \in new : \E e \in errands' : Alike(e, f)
  BY <1>1, <1>2, <1>3, PageLeft
<1>5. DirectoryType'
  BY <1>1, <1>4 DEF DirectoryInv, DirectoryType, directoryAux, NoFinder, Queries
<1>6. \E e \in errands' : e.op = "suggest"
  <2>1. \E f \in new : f.op = "suggest"
    BY <1>2, ErrandIsUnasked
  <2> QED BY <1>4, <2>1 DEF Alike
<1>7. \A e \in errands' : e.from = "page" => e.op \in {"suggest", "ids"}
  BY <1>3, <1>4 DEF Alike
<1>8. PagesInv'
  BY <1>1, <1>6, <1>7 DEF PagesInv
<1> QED BY <1>4, <1>5, <1>8 DEF DirectoryInv

\* Pages that ask for one thing
LEMMA PageOpened ==
    ASSUME DirectoryInv, NEW f, Unasked(f), f.from = "page", f.op \in {"me", "profile", "edges"},
           errands' = LoadsBegun(Kept, {f}), finder' = NoFinder, panelOf' = NoPanel,
           view' = [page |-> view'.page, who |-> view'.who, phase |-> view'.phase,
                    shown |-> view'.shown, rows |-> view'.rows, named |-> view'.named],
           view'.phase = "ready" => view'.shown = view'.who,
           \/ f.op = "profile" /\ <<view'.page, view'.who>> = <<"profile", f.who>>
           \/ f.op = "me" /\ <<view'.page, view'.who>> = <<"profile", Me>>
           \/ f.op = "edges" /\ <<view'.page, view'.who>> = <<"edges", f.who>>,
           UNCHANGED <<follows, cache, directoryAux>>
    PROVE  DirectoryInv'
<1>1. /\ Followed' /\ SearchInv' /\ finder'.nr \in Nat /\ finder'.query = ""
      /\ \A e \in errands' : ErrandSound(e)
      /\ \A e \in errands' : e.from = "page" => Alike(e, f)
      /\ \E e \in errands' : Alike(e, f)
  <2>1. PICK new : new = {f}
    OBVIOUS
  <2>2. \A g \in new : Unasked(g) /\ g.from = "page" /\ g.op # "search"
    BY <2>1
  <2>3. /\ Followed' /\ SearchInv' /\ finder'.nr \in Nat /\ finder'.query = ""
        /\ \A e \in errands' : ErrandSound(e)
        /\ \A e \in errands' : e.from = "page" => \E g \in new : Alike(e, g)
        /\ \A g \in new : \E e \in errands' : Alike(e, g)
    <3>1. errands' = LoadsBegun(Kept, new)
      BY <2>1
    <3> QED BY <2>2, <3>1, PageLeft
  <2> QED BY <2>1, <2>3
<1>2. DirectoryType'
  BY <1>1 DEF DirectoryInv, DirectoryType, directoryAux, NoFinder, Queries
<1>3. PagesInv'
  BY <1>1 DEF PagesInv, NoPanel, Alike
<1> QED BY <1>1, <1>2, <1>3 DEF DirectoryInv

LEMMA OpenProfileStep ==
    ASSUME DirectoryInv, NEW who \in Folk \cup {Me}, OpenProfile(who)
    PROVE  DirectoryInv'
<1>1. PICK f : f = Errand(IF who = Me THEN "me" ELSE "profile", "page", who, 0)
  OBVIOUS
<1>2. /\ Unasked(f) /\ f.from = "page" /\ f.who = who
      /\ f.op = IF who = Me THEN "me" ELSE "profile"
  BY <1>1, ErrandIsUnasked
<1>3. /\ view' = [page |-> "profile", who |-> who, phase |-> view'.phase, shown |-> view'.shown,
                  rows |-> {}, named |-> Nobody]
      /\ view'.phase = "ready" => view'.shown = who
      /\ finder' = NoFinder /\ panelOf' = NoPanel /\ errands' = LoadsBegun(Kept, {f})
      /\ UNCHANGED <<follows, cache, directoryAux>>
  BY <1>1 DEF OpenProfile
<1> QED BY <1>2, <1>3, PageOpened

LEMMA OpenEdgesStep ==
    ASSUME DirectoryInv, NEW who \in Folk \cup {Me}, OpenEdges(who)
    PROVE  DirectoryInv'
<1>1. PICK f : f = Errand("edges", "page", who, 0)
  OBVIOUS
<1>2. Unasked(f) /\ f.from = "page" /\ f.who = who /\ f.op = "edges"
  BY <1>1, ErrandIsUnasked
<1>3. /\ view' = [page |-> "edges", who |-> who, phase |-> "loading", shown |-> Nobody,
                  rows |-> {}, named |-> view'.named]
      /\ finder' = NoFinder /\ panelOf' = NoPanel /\ errands' = LoadsBegun(Kept, {f})
      /\ UNCHANGED <<follows, cache, directoryAux>>
  BY <1>1 DEF OpenEdges
<1> QED BY <1>2, <1>3, PageOpened

LEMMA TypeQueryStep ==
    ASSUME DirectoryInv, NEW q \in Queries, TypeQuery(q)
    PROVE  DirectoryInv'
<1>1. PICK n, s : n = mounting + 1 /\ s = Errand("suggest", "page", Nobody, n)
  OBVIOUS
<1>2. Unasked(s) /\ s.op = "suggest"
  <2>1. s = Errand("suggest", "page", Nobody, n)
    BY <1>1
  <2> QED BY <2>1, ErrandIsUnasked
<1>3. /\ view.page = "discover" /\ panelOf'.loading = (q = "")
      /\ \/ q = "" /\ errands' = {e \in errands : e.op # "suggest"} \cup {s}
         \/ q # "" /\ errands' = {e \in errands : e.op # "suggest"}
      /\ UNCHANGED <<follows, cache, view, directoryAux>>
  BY <1>1 DEF TypeQuery
<1>4. finder = [query |-> finder.query, nr |-> finder.nr, timer |-> finder.timer,
                loading |-> finder.loading, wrong |-> finder.wrong, hits |-> finder.hits,
                of |-> finder.of]
  BY DEF DirectoryInv, DirectoryType
<1>5. PICK old \in Nat : old = finder.nr
  BY DEF DirectoryInv, DirectoryType
<1>6. PICK nr, timer, wrong, hits, found :
        /\ nr \in Nat /\ timer \in BOOLEAN
        /\ finder' = [query |-> q, nr |-> nr, timer |-> timer, loading |-> timer,
                      wrong |-> wrong, hits |-> hits, of |-> found]
        /\ q = "" => nr = old /\ timer = FALSE
        /\ q # "" => nr = old + 1 /\ timer = TRUE
  <2>1. CASE q = ""
    <3>1. finder' = [finder EXCEPT !.query = q, !.timer = FALSE, !.loading = FALSE,
                                   !.wrong = FALSE, !.hits = {}, !.of = ""]
      BY <2>1 DEF TypeQuery
    <3>2. finder' = [query |-> q, nr |-> old, timer |-> FALSE, loading |-> FALSE,
                     wrong |-> FALSE, hits |-> {}, of |-> ""]
      BY <1>4, <1>5, <3>1
    <3> QED BY <2>1, <3>2
  <2>2. CASE q # ""
    <3>1. finder' = [finder EXCEPT !.query = q, !.timer = TRUE, !.loading = TRUE,
                                   !.wrong = FALSE, !.nr = @ + 1]
      BY <2>2 DEF TypeQuery
    <3>2. finder' = [query |-> q, nr |-> old + 1, timer |-> TRUE, loading |-> TRUE,
                     wrong |-> FALSE, hits |-> finder.hits, of |-> finder.of]
      BY <1>4, <1>5, <3>1
    <3>3. old + 1 \in Nat
      BY <1>5
    <3> QED BY <2>2, <3>2, <3>3
  <2> QED BY <2>1, <2>2
<1>7. \A e \in errands' : e \in errands \/ e = s
  BY <1>3
<1>8. Following(errands') = Following(errands)
  BY <1>2, <1>3 DEF Following, FollowOps
<1>9. Followed'
  <2>1. LoadSound(s)
    BY <1>2 DEF LoadSound, Loads
  <2> QED BY <1>3, <1>7, <1>8, <2>1, CalmStep DEF DirectoryInv, directoryAux
<1>10. DirectoryType'
  BY <1>2, <1>3, <1>6, <1>7 DEF DirectoryInv, DirectoryType, directoryAux, Unasked
<1>11. PagesInv'
  BY <1>2, <1>3, <1>7 DEF DirectoryInv, PagesInv
<1>12. SearchInv'
  <2>1. \A e \in errands' : e.op = "search" => e \in errands /\ e.id \in 0..old
    BY <1>2, <1>7, <1>5 DEF DirectoryInv, SearchInv
  <2>2. ASSUME NEW e \in errands', e.op = "search"
        PROVE  /\ e.id \in 0..nr
               /\ q # "" => e.id # nr
    <3>1. e.id \in 0..old
      BY <2>1, <2>2
    <3>2. nr = old \/ nr = old + 1
      BY <1>6
    <3>3. e.id \in 0..nr
      BY <1>5, <3>1, <3>2
    <3>4. ASSUME q # "" PROVE e.id # nr
      <4>1. nr = old + 1
        BY <1>6, <3>4
      <4> QED BY <1>5, <3>1, <4>1
    <3> QED BY <3>3, <3>4
  <2>3. SearchAgrees'
    BY <1>6 DEF SearchAgrees
  <2> QED BY <1>6, <2>2, <2>3 DEF SearchInv
<1> QED BY <1>9, <1>10, <1>11, <1>12 DEF DirectoryInv

LEMMA StartSearchStep ==
    ASSUME DirectoryInv, StartSearch
    PROVE  DirectoryInv'
<1>1. PICK s : s = Errand("search", "page", finder.query, finder.nr)
  OBVIOUS
<1>2. /\ Unasked(s) /\ s.op = "search" /\ s.who = finder.query /\ s.id = finder.nr
  <2>1. finder.query \in DOMAIN Matches
    BY DEF DirectoryInv, DirectoryType, SearchInv, StartSearch, Queries
  <2> QED BY <1>1, <2>1, ErrandIsUnasked
<1>3. /\ finder.timer /\ finder' = [finder EXCEPT !.timer = FALSE] /\ errands' = errands \cup {s}
      /\ UNCHANGED <<follows, cache, view, panelOf, directoryAux>>
  BY <1>1 DEF StartSearch
<1>4. /\ finder' = [query |-> finder.query, nr |-> finder.nr, timer |-> FALSE,
                    loading |-> finder.loading, wrong |-> finder.wrong, hits |-> finder.hits,
                    of |-> finder.of]
      /\ finder.nr \in Nat
  BY <1>3 DEF DirectoryInv, DirectoryType
<1>5. Followed'
  <2>1. LoadSound(s)
    BY <1>2 DEF LoadSound, Loads
  <2>2. Following(errands') = Following(errands)
    BY <1>2, <1>3 DEF Following, FollowOps
  <2> QED BY <1>3, <2>1, <2>2, CalmStep DEF DirectoryInv, directoryAux
<1>6. DirectoryType'
  BY <1>2, <1>3, <1>4 DEF DirectoryInv, DirectoryType, directoryAux, Unasked
<1>7. PagesInv'
  BY <1>2, <1>3 DEF DirectoryInv, PagesInv
<1>8. SearchInv'
  <2>1. /\ finder'.query = finder.query /\ finder'.nr = finder.nr /\ finder'.timer = FALSE
        /\ finder'.loading = finder.loading /\ finder'.of = finder.of
    BY <1>4
  <2>2. finder.query # "" /\ finder.loading
    BY <1>3 DEF DirectoryInv, SearchInv
  <2>3. SearchAgrees'
    BY <1>2, <1>3, <2>1, <2>2 DEF SearchAgrees
  <2>4. ASSUME NEW e \in errands', e.op = "search"
        PROVE  /\ e.id \in 0..finder'.nr
               /\ e.id = finder'.nr => e.who = finder.query
    <3>1. CASE e = s
      BY <1>2, <1>4, <2>1, <3>1
    <3>2. CASE e \in errands
      BY <2>1, <2>2, <2>4, <3>2 DEF DirectoryInv, SearchInv
    <3> QED BY <1>3, <3>1, <3>2
  <2> QED BY <2>1, <2>3, <2>4 DEF SearchInv
<1> QED BY <1>5, <1>6, <1>7, <1>8 DEF DirectoryInv

LEMMA ReloadSuggestionsStep ==
    ASSUME DirectoryInv, ReloadSuggestions
    PROVE  DirectoryInv'
<1>1. PICK s : s = Errand("suggest", "page", Nobody, mounting)
  OBVIOUS
<1>2. Unasked(s) /\ s.op = "suggest"
  BY <1>1, ErrandIsUnasked
<1>3. errands' = errands \cup {s} /\ UNCHANGED <<follows, cache, view, finder, directoryAux>>
  BY <1>1 DEF ReloadSuggestions
<1>4. Followed'
  <2>1. LoadSound(s)
    BY <1>2 DEF LoadSound, Loads
  <2>2. Following(errands') = Following(errands)
    BY <1>2, <1>3 DEF Following, FollowOps
  <2> QED BY <1>3, <2>1, <2>2, CalmStep DEF DirectoryInv, directoryAux
<1>5. DirectoryType'
  BY <1>2, <1>3 DEF DirectoryInv, DirectoryType, directoryAux, Unasked
<1>6. PagesInv'
  BY <1>2, <1>3 DEF DirectoryInv, PagesInv
<1>7. SearchInv'
  BY <1>2, <1>3 DEF DirectoryInv, SearchInv, SearchAgrees
<1> QED BY <1>4, <1>5, <1>6, <1>7 DEF DirectoryInv

-----------------------------------------------------------------------------
(* What the service reads, and answers that leave the store alone *)

\* A request goes on to its next step.
LEMMA MovedStep ==
    ASSUME DirectoryInv, NEW e \in errands, e.op \notin FollowOps,
           NEW f, Alike(f, e), ErrandSound(f), LoadSound(f),
           errands' = (errands \ {e}) \cup {f},
           UNCHANGED <<follows, cache, shownVars, directoryAux>>
    PROVE  DirectoryInv'
<1>1. Following(errands') = Following(errands)
  BY DEF Following, Alike
<1>2. Followed'
  BY <1>1, CalmStep DEF DirectoryInv, directoryAux
<1>3. DirectoryType'
  BY DEF DirectoryInv, DirectoryType, directoryAux, shownVars
<1>4. PagesInv'
  BY DEF DirectoryInv, PagesInv, shownVars, Alike
<1>5. SearchInv'
  BY DEF DirectoryInv, SearchInv, SearchAgrees, shownVars, Alike
<1> QED BY <1>2, <1>3, <1>4, <1>5 DEF DirectoryInv

LEMMA ReadsFacts ==
    ASSUME DirectoryInv, NEW e \in errands, NEW rows \in SUBSET Folk,
           NEW step \in {"done", "failed"}, e.op \notin FollowOps,
           e.op \in {"profile", "name"} => rows \subseteq {e.who}
    PROVE  LET f == [e EXCEPT !.step = step, !.rows = rows] IN
           /\ ErrandSound(f) /\ Alike(f, e) /\ f.step = step /\ f.rows = rows
           /\ f.mixed = e.mixed
<1>1. ErrandSound(e)
  BY DEF DirectoryInv, DirectoryType
<1>2. PICK f : f = [e EXCEPT !.step = step, !.rows = rows]
  OBVIOUS
<1>3. f = [op |-> e.op, from |-> e.from, who |-> e.who, id |-> e.id, at |-> e.at,
           step |-> step, rows |-> rows, mixed |-> e.mixed]
  BY <1>1, <1>2 DEF ErrandSound
<1>4. ErrandSound(f) /\ Alike(f, e) /\ f.step = step /\ f.rows = rows /\ f.mixed = e.mixed
  BY <1>1, <1>3 DEF ErrandSound, Alike
<1> QED BY <1>2, <1>4

LEMMA ReadsStep ==
    ASSUME DirectoryInv, NEW e \in errands, NEW rows \in SUBSET Folk, Reads(e, rows),
           e.op \notin FollowOps, e.op \in {"profile", "name"} => rows \subseteq {e.who},
           e.op \in Loads => \A p \in Folk : Tells(e, p) => (p \in rows <=> p \in follows)
    PROVE  DirectoryInv'
<1>1. PICK f : f = [e EXCEPT !.step = "done", !.rows = rows]
  OBVIOUS
<1>2. ErrandSound(f) /\ Alike(f, e) /\ f.rows = rows /\ f.mixed = e.mixed
  BY <1>1, ReadsFacts
<1>3. LoadSound(f)
  <2>1. LoadSound(e)
    BY DEF DirectoryInv, Followed, LoadsInv
  <2> QED BY <1>2, <2>1 DEF LoadSound, Alike, Tells
<1>4. /\ errands' = (errands \ {e}) \cup {f}
      /\ UNCHANGED <<follows, cache, shownVars, directoryAux>>
  BY <1>1 DEF Reads, Moved
<1> QED BY <1>2, <1>3, <1>4, MovedStep

LEMMA ReadStep ==
    ASSUME DirectoryInv, NEW e \in errands,
           \/ GetFollowing(e) \/ GetFollowers(e) \/ GetProfile(e)
           \/ SearchProfiles(e) \/ SuggestPeople(e)
    PROVE  DirectoryInv'
<1>1. follows \subseteq Folk /\ ErrandSound(e)
  BY DEF DirectoryInv, DirectoryType
<1>2. CASE GetFollowing(e)
  BY <1>1, <1>2, ReadsStep DEF GetFollowing, FollowOps, Tells, Loads
<1>3. CASE GetFollowers(e)
  <2>1. {p \in Folk : e.who \in Knows[p]} \subseteq Folk
    OBVIOUS
  <2> QED BY <1>3, <2>1, ReadsStep DEF GetFollowers, FollowOps, Loads
<1>4. CASE GetProfile(e)
  <2>1. PICK rows : rows = IF e.op = "me" THEN follows ELSE {e.who} \cap follows
    OBVIOUS
  <2>2. /\ rows \subseteq Folk /\ Reads(e, rows) /\ e.op \in {"me", "profile", "name"}
        /\ e.op \in {"profile", "name"} => rows \subseteq {e.who}
        /\ \A p \in Folk : Tells(e, p) => (p \in rows <=> p \in follows)
    BY <1>1, <1>4, <2>1 DEF GetProfile, Tells
  <2> QED BY <2>2, ReadsStep DEF FollowOps
<1>5. CASE SearchProfiles(e)
  <2>1. e.op = "search" /\ Reads(e, Matches[e.who])
    BY <1>5 DEF SearchProfiles
  <2>2. Matches[e.who] \subseteq Folk
    BY <1>1, <2>1, DirectoryAssumption DEF ErrandSound, FollowOps
  <2> QED BY <2>1, <2>2, ReadsStep DEF FollowOps, Loads
<1>6. CASE SuggestPeople(e)
  <2>1. Suggested \subseteq Folk
    BY DEF Suggested
  <2> QED BY <1>6, <2>1, ReadsStep DEF SuggestPeople, FollowOps, Loads
<1> QED BY <1>2, <1>3, <1>4, <1>5, <1>6

\* A request is over, and others begin.
LEMMA OverStep ==
    ASSUME DirectoryInv, NEW e \in errands, e.op \notin FollowOps,
           NEW new, \A f \in new : Unasked(f), errands' = LoadsBegun(errands \ {e}, new),
           UNCHANGED <<follows, cache, directoryAux>>
    PROVE  /\ Followed' /\ (\A g \in errands' : ErrandSound(g)) /\ errands \ {e} \subseteq errands'
           /\ \A g \in errands' : g \in errands \ {e} \/ \E f \in new : Alike(g, f)
<1>1. /\ Following(errands') = Following(errands \ {e}) /\ errands \ {e} \subseteq errands'
      /\ \A g \in errands' :
            g \in errands \ {e} \/ (Fresh(g, errands \ {e}) /\ \E f \in new : Alike(g, f))
  BY BegunFacts
<1>2. Following(errands \ {e}) = Following(errands) /\ Asked(errands \ {e}) = Asked(errands)
  BY DEF Following, Asked
<1>3. \A g \in errands' : g \in errands \/ Fresh(g, errands)
  BY <1>1, <1>2 DEF Fresh
<1>4. Followed'
  BY <1>1, <1>2, <1>3, FreshIsSound, CalmStep DEF DirectoryInv, directoryAux
<1>5. \A g \in errands' : ErrandSound(g)
  BY <1>3 DEF DirectoryInv, DirectoryType, Fresh
<1> QED BY <1>1, <1>4, <1>5

LEMMA NoneBegun ==
    ASSUME NEW es
    PROVE  LoadsBegun(es, {}) = es
BY DEF LoadsBegun

LEMMA BarSkipsProfileStep ==
    ASSUME DirectoryInv, NEW e \in errands, BarSkipsProfile(e)
    PROVE  DirectoryInv'
<1>1. PICK f : f = Errand("ids", "bar", Nobody, 0)
  OBVIOUS
<1>2. Unasked(f) /\ f.op = "ids" /\ f.from = "bar"
  BY <1>1, ErrandIsUnasked
<1>3. /\ e.op = "me" /\ e.from = "bar" /\ errands' = LoadsBegun(errands \ {e}, {f})
      /\ UNCHANGED <<follows, cache, shownVars, directoryAux>>
  BY <1>1 DEF BarSkipsProfile
<1>4. /\ Followed' /\ (\A g \in errands' : ErrandSound(g)) /\ errands \ {e} \subseteq errands'
      /\ \A g \in errands' : g \in errands \ {e} \/ Alike(g, f)
  <2>1. PICK new : new = {f}
    OBVIOUS
  <2>2. /\ e.op \notin FollowOps /\ \A g \in new : Unasked(g)
        /\ errands' = LoadsBegun(errands \ {e}, new)
    BY <1>2, <1>3, <2>1 DEF FollowOps
  <2> QED BY <1>3, <2>1, <2>2, OverStep DEF shownVars
<1>5. DirectoryType'
  BY <1>3, <1>4 DEF DirectoryInv, DirectoryType, directoryAux, shownVars
<1>6. PagesInv'
  BY <1>2, <1>3, <1>4 DEF DirectoryInv, PagesInv, shownVars, Alike
<1>7. SearchInv'
  BY <1>2, <1>3, <1>4 DEF DirectoryInv, SearchInv, SearchAgrees, shownVars, Alike
<1> QED BY <1>4, <1>5, <1>6, <1>7 DEF DirectoryInv

LEMMA EdgesAnsweredStep ==
    ASSUME DirectoryInv, NEW e \in errands, EdgesAnswered(e)
    PROVE  DirectoryInv'
<1>1. /\ e.op = "edges" /\ ErrandSound(e) /\ e.from = "page"
      /\ <<view.page, view.who>> = <<"edges", e.who>>
  BY DEF EdgesAnswered, Back, DirectoryInv, DirectoryType, PagesInv, ErrandSound, FollowOps
<1>2. PICK new : /\ errands' = LoadsBegun(errands \ {e}, new)
                 /\ \A f \in new : Unasked(f) /\ f.op = "name" /\ f.from = "page"
  <2>1. CASE e.who = Me
    BY <2>1, NoneBegun DEF EdgesAnswered
  <2>2. CASE e.who \in Folk
    <3>1. e.who # Me
      BY <2>2, DirectoryAssumption
    <3>2. PICK f : f = Errand("name", "page", e.who, 0)
      OBVIOUS
    <3>3. Unasked(f) /\ f.op = "name" /\ f.from = "page"
      BY <2>2, <3>2, ErrandIsUnasked
    <3>4. errands' = LoadsBegun(errands \ {e}, {f})
      BY <3>1, <3>2 DEF EdgesAnswered
    <3> QED BY <3>3, <3>4
  <2> QED BY <1>1, <2>1, <2>2 DEF ErrandSound
<1>3. /\ view' = [view EXCEPT !.phase = "ready", !.shown = e.who, !.rows = e.rows]
      /\ UNCHANGED <<follows, cache, finder, panelOf, mounting, directoryAux>>
  BY DEF EdgesAnswered
<1>4. view' = [page |-> view.page, who |-> view.who, phase |-> "ready", shown |-> e.who,
               rows |-> e.rows, named |-> view.named]
  BY <1>3 DEF DirectoryInv, DirectoryType
<1>5. /\ Followed' /\ (\A g \in errands' : ErrandSound(g)) /\ errands \ {e} \subseteq errands'
      /\ \A g \in errands' : g \in errands \ {e} \/ \E f \in new : Alike(g, f)
  BY <1>1, <1>2, <1>3, OverStep DEF FollowOps
<1>6. \A g \in errands' : g \in errands \/ g.op = "name"
  BY <1>2, <1>5 DEF Alike
<1>7. DirectoryType'
  BY <1>3, <1>4, <1>5 DEF DirectoryInv, DirectoryType, directoryAux
<1>8. PagesInv'
  BY <1>1, <1>3, <1>4, <1>5, <1>6 DEF DirectoryInv, PagesInv
<1>9. SearchInv'
  BY <1>1, <1>3, <1>5, <1>6 DEF DirectoryInv, SearchInv, SearchAgrees
<1> QED BY <1>5, <1>7, <1>8, <1>9 DEF DirectoryInv

\* Answers that only change what is shown
LEMMA AnsweredFacts ==
    ASSUME DirectoryInv, NEW e \in errands, e.op \notin FollowOps, errands' = errands \ {e},
           UNCHANGED <<follows, cache, directoryAux>>
    PROVE  Followed'
<1>1. PICK new : new = {}
  OBVIOUS
<1>2. errands' = LoadsBegun(errands \ {e}, new)
  BY <1>1, NoneBegun
<1> QED BY <1>1, <1>2, OverStep

LEMMA PageUnansweredStep ==
    ASSUME DirectoryInv, NEW e \in errands, PageUnanswered(e)
    PROVE  DirectoryInv'
<1>1. /\ e.op \in {"me", "profile", "edges"} /\ view' = [view EXCEPT !.phase = "error"]
      /\ errands' = errands \ {e} /\ UNCHANGED <<follows, cache, finder, panelOf, directoryAux>>
  BY DEF PageUnanswered, Over
<1>2. view' = [page |-> view.page, who |-> view.who, phase |-> "error", shown |-> view.shown,
               rows |-> view.rows, named |-> view.named]
  BY <1>1 DEF DirectoryInv, DirectoryType
<1>3. Followed'
  BY <1>1, AnsweredFacts DEF FollowOps
<1>4. DirectoryType'
  BY <1>1, <1>2 DEF DirectoryInv, DirectoryType, directoryAux
<1>5. PagesInv'
  BY <1>1, <1>2 DEF DirectoryInv, PagesInv
<1>6. SearchInv'
  BY <1>1 DEF DirectoryInv, SearchInv, SearchAgrees
<1> QED BY <1>3, <1>4, <1>5, <1>6 DEF DirectoryInv

LEMMA LoadUnansweredStep ==
    ASSUME DirectoryInv, NEW e \in errands, LoadUnanswered(e)
    PROVE  DirectoryInv'
<1>1. /\ e.op \in {"ids", "name"} /\ errands' = errands \ {e}
      /\ UNCHANGED <<follows, cache, shownVars, directoryAux>>
  BY DEF LoadUnanswered, Over
<1>2. Followed'
  BY <1>1, AnsweredFacts DEF FollowOps
<1>3. DirectoryType'
  BY <1>1 DEF DirectoryInv, DirectoryType, directoryAux, shownVars
<1>4. PagesInv'
  BY <1>1 DEF DirectoryInv, PagesInv, shownVars
<1>5. SearchInv'
  BY <1>1 DEF DirectoryInv, SearchInv, SearchAgrees, shownVars
<1> QED BY <1>2, <1>3, <1>4, <1>5 DEF DirectoryInv

LEMMA SuggestionsAnsweredStep ==
    ASSUME DirectoryInv, NEW e \in errands, SuggestionsAnswered(e)
    PROVE  DirectoryInv'
<1>1. /\ e.op = "suggest" /\ errands' = errands \ {e} /\ panelOf'.loading = FALSE
      /\ UNCHANGED <<follows, cache, view, finder, directoryAux>>
  BY DEF SuggestionsAnswered, Over
<1>2. Followed'
  BY <1>1, AnsweredFacts DEF FollowOps
<1>3. DirectoryType'
  BY <1>1 DEF DirectoryInv, DirectoryType, directoryAux
<1>4. PagesInv'
  BY <1>1 DEF DirectoryInv, PagesInv
<1>5. SearchInv'
  BY <1>1 DEF DirectoryInv, SearchInv, SearchAgrees
<1> QED BY <1>2, <1>3, <1>4, <1>5 DEF DirectoryInv

LEMMA SearchAnsweredStep ==
    ASSUME DirectoryInv, NEW e \in errands, SearchAnswered(e)
    PROVE  DirectoryInv'
<1>1. /\ e.op = "search" /\ errands' = errands \ {e}
      /\ UNCHANGED <<follows, cache, view, panelOf, directoryAux>>
  BY DEF SearchAnswered, Over
<1>2. \/ e.id # finder.nr /\ finder' = finder
      \/ /\ e.id = finder.nr
         /\ finder' = [query |-> finder.query, nr |-> finder.nr, timer |-> finder.timer,
                       loading |-> FALSE, wrong |-> finder'.wrong, hits |-> finder'.hits,
                       of |-> e.who]
  BY DEF SearchAnswered, DirectoryInv, DirectoryType
<1>3. Followed'
  BY <1>1, AnsweredFacts DEF FollowOps
<1>4. DirectoryType'
  <2>1. /\ finder' = [query |-> finder'.query, nr |-> finder'.nr, timer |-> finder'.timer,
                      loading |-> finder'.loading, wrong |-> finder'.wrong, hits |-> finder'.hits,
                      of |-> finder'.of]
        /\ finder'.nr = finder.nr /\ finder'.query = finder.query
    <3>1. CASE finder' = finder
      BY <3>1 DEF DirectoryInv, DirectoryType
    <3>2. CASE e.id = finder.nr /\ finder' # finder
      BY <1>2, <3>2
    <3> QED BY <1>2, <3>1, <3>2
  <2> QED BY <1>1, <2>1 DEF DirectoryInv, DirectoryType, directoryAux
<1>5. PagesInv'
  BY <1>1 DEF DirectoryInv, PagesInv
<1>6. SearchInv'
  <2>1. CASE e.id # finder.nr /\ finder' = finder
    BY <1>1, <2>1 DEF DirectoryInv, SearchInv, SearchAgrees
  <2>2. CASE /\ e.id = finder.nr
             /\ finder' = [query |-> finder.query, nr |-> finder.nr, timer |-> finder.timer,
                           loading |-> FALSE, wrong |-> finder'.wrong, hits |-> finder'.hits,
                           of |-> e.who]
    <3>1. /\ finder'.query = finder.query /\ finder'.nr = finder.nr /\ finder'.loading = FALSE
          /\ finder'.of = e.who /\ (finder'.timer <=> finder.timer)
      BY <2>2
    <3>2. finder.query # "" => e.who = finder.query /\ ~finder.timer
      BY <1>1, <2>2 DEF DirectoryInv, SearchInv
    <3>3. SearchAgrees'
      BY <3>1, <3>2 DEF SearchAgrees
    <3>4. ~finder.timer
      BY <3>2 DEF DirectoryInv, SearchInv
    <3> QED BY <1>1, <3>1, <3>3, <3>4 DEF DirectoryInv, SearchInv
  <2> QED BY <1>2, <2>1, <2>2
<1> QED BY <1>3, <1>4, <1>5, <1>6 DEF DirectoryInv

LEMMA ErrandFailsFacts ==
    ASSUME NEW e, ErrandSound(e)
    PROVE  LET f == [e EXCEPT !.step = "failed"] IN
           ErrandSound(f) /\ Alike(f, e) /\ f.step = "failed" /\ f.mixed = e.mixed
<1>1. PICK f : f = [e EXCEPT !.step = "failed"]
  OBVIOUS
<1>2. f = [op |-> e.op, from |-> e.from, who |-> e.who, id |-> e.id, at |-> e.at,
           step |-> "failed", rows |-> e.rows, mixed |-> e.mixed]
  BY <1>1 DEF ErrandSound
<1>3. ErrandSound(f) /\ Alike(f, e) /\ f.step = "failed" /\ f.mixed = e.mixed
  BY <1>2 DEF ErrandSound, Alike
<1> QED BY <1>1, <1>3

LEMMA LoadFailsStep ==
    ASSUME DirectoryInv, NEW e \in errands, e.op \notin FollowOps, ErrandFails(e)
    PROVE  DirectoryInv'
<1>1. PICK f : f = [e EXCEPT !.step = "failed"]
  OBVIOUS
<1>2. ErrandSound(f) /\ Alike(f, e) /\ f.step = "failed" /\ f.mixed = e.mixed
  BY <1>1, ErrandFailsFacts DEF DirectoryInv, DirectoryType
<1>3. LoadSound(f)
  BY <1>2 DEF DirectoryInv, Followed, LoadsInv, LoadSound, Alike, Tells
<1>4. /\ errands' = (errands \ {e}) \cup {f} /\ blurred' = blurred
      /\ UNCHANGED <<follows, cache, shownVars, hydrated>>
  BY <1>1 DEF ErrandFails, Moved
<1> QED BY <1>2, <1>3, <1>4, MovedStep DEF directoryAux

-----------------------------------------------------------------------------
(* Requests to follow *)

\* A step that leaves what is shown, and the requests of the pages
LEMMA ShownStep ==
    ASSUME DirectoryInv, UNCHANGED shownVars,
           \A g \in errands' : g.op \in FollowOps \cup {"ids"} \/ \E e \in errands : Alike(g, e),
           \A e \in errands : \/ e.op \in FollowOps \cup {"ids"} \/ e.from = "bar"
                              \/ \E g \in errands' : Alike(g, e)
    PROVE  PagesInv' /\ SearchInv'
<1>1. \A e \in errands : e.op = "search" => e.from = "page"
  BY DEF DirectoryInv, DirectoryType, ErrandSound, FollowOps
<1>2. PagesInv'
  <2>1. view.phase = "loading" =>
           \E g \in errands' : g.from = "page" /\ g.op \in {"me", "profile", "edges"}
    BY DEF DirectoryInv, PagesInv, Alike, FollowOps
  <2>2. panelOf.loading => \E g \in errands' : g.op = "suggest"
    BY DEF DirectoryInv, DirectoryType, ErrandSound, PagesInv, Alike, FollowOps
  <2>3. \A g \in errands' : g.from = "page" =>
           /\ g.op = "profile" => <<view.page, view.who>> = <<"profile", g.who>>
           /\ g.op = "me" => <<view.page, view.who>> = <<"profile", Me>>
           /\ g.op = "edges" => <<view.page, view.who>> = <<"edges", g.who>>
           /\ g.op = "name" => view.page = "edges"
    BY DEF DirectoryInv, PagesInv, Alike, FollowOps
  <2> QED BY <2>1, <2>2, <2>3 DEF DirectoryInv, PagesInv, shownVars
<1>3. SearchInv'
  <2>1. SearchAgrees'
    <3>1. ASSUME finder.query # "", finder.loading, ~finder.timer
          PROVE  \E g \in errands' : g.op = "search" /\ g.id = finder.nr
      <4>1. PICK e \in errands : e.op = "search" /\ e.id = finder.nr
        BY <3>1 DEF DirectoryInv, SearchInv, SearchAgrees
      <4>2. \E g \in errands' : Alike(g, e)
        BY <1>1, <4>1 DEF FollowOps
      <4> QED BY <4>1, <4>2 DEF Alike
    <3> QED BY <3>1 DEF DirectoryInv, SearchInv, SearchAgrees, shownVars
  <2>2. \A g \in errands' : g.op = "search" =>
           /\ g.id \in 0..finder.nr
           /\ g.id = finder.nr /\ finder.query # "" => g.who = finder.query /\ ~finder.timer
    BY DEF DirectoryInv, SearchInv, Alike, FollowOps
  <2> QED BY <2>1, <2>2 DEF DirectoryInv, SearchInv, shownVars
<1> QED BY <1>2, <1>3

\* What marks do to the counts
LEMMA BumpedFacts ==
    ASSUME NEW counts \in [Folk \cup {Me} -> Nat \cup {Uncached}], NEW p \in Folk,
           NEW by \in {1, -1}
    PROVE  /\ Bumped(counts, p, by) \in [Folk \cup {Me} -> Nat \cup {Uncached}]
           /\ \A w \in Folk \ {p} : Bumped(counts, p, by)[w] = counts[w]
           /\ \A w \in {p, Me} :
                 /\ counts[w] = Uncached => Bumped(counts, p, by)[w] = Uncached
                 /\ counts[w] # Uncached /\ counts[w] + by >= 0 =>
                        Bumped(counts, p, by)[w] = counts[w] + by
                 /\ Bumped(counts, p, by)[w] # Uncached => counts[w] # Uncached
<1>1. p # Me /\ Me \notin Folk
  BY DirectoryAssumption
<1>2. DOMAIN counts = Folk \cup {Me}
  OBVIOUS
<1>3. \A w \in Folk \cup {Me} : Bumped(counts, p, by)[w] =
          IF w \in {p, Me} /\ counts[w] # Uncached /\ counts[w] + by >= 0 THEN counts[w] + by
          ELSE counts[w]
  BY <1>2 DEF Bumped
<1>4. \A w \in Folk \cup {Me} : counts[w] \in Nat \cup {Uncached}
  OBVIOUS
<1>5. \A w \in Folk \cup {Me} : Bumped(counts, p, by)[w] \in Nat \cup {Uncached}
  BY <1>3, <1>4 DEF Uncached
<1>6. Bumped(counts, p, by) \in [Folk \cup {Me} -> Nat \cup {Uncached}]
  <2>1. Bumped(counts, p, by) = [w \in Folk \cup {Me} |-> Bumped(counts, p, by)[w]]
    BY <1>2 DEF Bumped
  <2> QED BY <1>5, <2>1
<1>7. \A w \in Folk \ {p} : Bumped(counts, p, by)[w] = counts[w]
  BY <1>1, <1>3
<1>8. ASSUME NEW w \in {p, Me}
      PROVE  /\ counts[w] = Uncached => Bumped(counts, p, by)[w] = Uncached
             /\ counts[w] # Uncached /\ counts[w] + by >= 0 =>
                    Bumped(counts, p, by)[w] = counts[w] + by
             /\ Bumped(counts, p, by)[w] # Uncached => counts[w] # Uncached
  BY <1>3
<1> QED BY <1>6, <1>7, <1>8

LEMMA FlipsFinite ==
    ASSUME DirectoryInv
    PROVE  /\ IsFiniteSet(follows)
           /\ \A op : IsFiniteSet(Flips(op))
BY DirectoryAssumption, FS_Subset DEF DirectoryInv, DirectoryType, Flips

\* A set changed at one place is counted anew there.
LEMMA ChangedAt ==
    ASSUME NEW S, IsFiniteSet(S), NEW T, NEW p, \A x : x # p => (x \in T <=> x \in S)
    PROVE  /\ Cardinality(S) \in Nat /\ Cardinality(T) \in Nat
           /\ Cardinality(T) = Cardinality(S) + One(p, T) - One(p, S)
<1>1. CASE p \in S <=> p \in T
  <2>1. T = S
    BY <1>1
  <2>2. One(p, T) = One(p, S) /\ One(p, S) \in {0, 1}
    BY <1>1 DEF One
  <2> QED BY <2>1, <2>2, FS_CardinalityType
<1>2. CASE p \in T /\ p \notin S
  <2>1. T = S \cup {p}
    BY <1>2
  <2>2. One(p, T) = 1 /\ One(p, S) = 0
    BY <1>2 DEF One
  <2>3. Cardinality(T) = Cardinality(S) + 1 /\ Cardinality(S) \in Nat
    BY <1>2, <2>1, OneMoreOrLess
  <2> QED BY <2>2, <2>3
<1>3. CASE p \notin T /\ p \in S
  <2>1. T = S \ {p}
    BY <1>3
  <2>2. One(p, T) = 0 /\ One(p, S) = 1
    BY <1>3 DEF One
  <2>3. Cardinality(T) = Cardinality(S) - 1 /\ Cardinality(S) \in Nat /\ Cardinality(S) > 0
    BY <1>3, <2>1, OneMoreOrLess
  <2> QED BY <2>2, <2>3
<1> QED BY <1>1, <1>2, <1>3

\* What is asked about x stays so.
SameOn(x) ==
    /\ \A e \in On(x) : \E f \in On(x)' : f.op = e.op /\ f.step = e.step
    /\ \A f \in On(x)' : \E e \in On(x) : f.op = e.op /\ f.step = e.step
    /\ (\A e, f \in On(x) : e = f) => (\A e, f \in On(x)' : e = f)

LEMMA SameOnFacts ==
    ASSUME NEW x, SameOn(x)
    PROVE  /\ On(x)' = {} <=> On(x) = {}
           /\ \A op : x \in Flips(op)' <=> x \in Flips(op)
<1>1. On(x)' = {} <=> On(x) = {}
  BY DEF SameOn
<1>2. ASSUME NEW op PROVE x \in Flips(op)' <=> x \in Flips(op)
  BY DEF SameOn, Flips
<1> QED BY <1>1, <1>2

\* What to expect when the requests and what is stored change for p only
LEMMA ExpectedAt ==
    ASSUME DirectoryInv, NEW p \in Folk, follows' \subseteq Folk,
           \A x \in Folk \ {p} : SameOn(x) /\ (x \in follows' <=> x \in follows)
    PROVE  /\ \A x \in Folk \ {p} : Expected(x)' = Expected(x)
           /\ Expected(p) \in Int /\ Expected(p)' \in Int /\ ExpectedMine \in Int
           /\ ExpectedMine' = ExpectedMine + Expected(p)' - Expected(p)
<1>1. ASSUME NEW x, x # p, NEW op
      PROVE  (x \in Flips(op)' <=> x \in Flips(op)) /\ (x \in follows' <=> x \in follows)
  <2>1. CASE x \in Folk
    BY <1>1, <2>1, SameOnFacts
  <2>2. CASE x \notin Folk
    BY <2>2 DEF Flips, DirectoryInv, DirectoryType
  <2> QED BY <2>1, <2>2
<1>2. ASSUME NEW x \in Folk \ {p} PROVE Expected(x)' = Expected(x)
  BY <1>1 DEF Expected, One
<1>3. PICK F, G, U, V : F = Flips("follow") /\ G = Flips("follow")' /\ U = Flips("unfollow")
                        /\ V = Flips("unfollow")'
  OBVIOUS
<1>4. PICK S, T : S = follows /\ T = follows'
  OBVIOUS
<1>5. IsFiniteSet(F) /\ IsFiniteSet(U) /\ IsFiniteSet(S)
  BY <1>3, <1>4, FlipsFinite
<1>6. /\ Cardinality(S) \in Nat /\ Cardinality(T) \in Nat
      /\ Cardinality(T) = Cardinality(S) + One(p, T) - One(p, S)
  <2>1. \A x : x # p => (x \in T <=> x \in S)
    BY <1>1, <1>4
  <2> QED BY <1>5, <2>1, ChangedAt
<1>7. /\ Cardinality(F) \in Nat /\ Cardinality(G) \in Nat
      /\ Cardinality(G) = Cardinality(F) + One(p, G) - One(p, F)
  <2>1. \A x : x # p => (x \in G <=> x \in F)
    BY <1>1, <1>3
  <2> QED BY <1>5, <2>1, ChangedAt
<1>8. /\ Cardinality(U) \in Nat /\ Cardinality(V) \in Nat
      /\ Cardinality(V) = Cardinality(U) + One(p, V) - One(p, U)
  <2>1. \A x : x # p => (x \in V <=> x \in U)
    BY <1>1, <1>3
  <2> QED BY <1>5, <2>1, ChangedAt
<1>9. /\ Expected(p) = One(p, S) + One(p, F) - One(p, U)
       /\ ExpectedMine = Cardinality(S) + Cardinality(F) - Cardinality(U)
  BY <1>3, <1>4 DEF Expected, ExpectedMine
<1>10. /\ Expected(p)' = One(p, T) + One(p, G) - One(p, V)
       /\ ExpectedMine' = Cardinality(T) + Cardinality(G) - Cardinality(V)
  BY <1>3, <1>4 DEF Expected, ExpectedMine, One
<1>11. /\ Expected(p) \in Int /\ Expected(p)' \in Int /\ ExpectedMine \in Int
       /\ ExpectedMine' = ExpectedMine + Expected(p)' - Expected(p)
  <2>1. /\ One(p, S) \in Int /\ One(p, T) \in Int /\ One(p, F) \in Int
        /\ One(p, G) \in Int /\ One(p, U) \in Int /\ One(p, V) \in Int
    BY DEF One
  <2>2. Expected(p) \in Int
    BY <1>9, <2>1
  <2>3. Expected(p)' \in Int
    BY <1>10, <2>1
  <2>4. ExpectedMine \in Int
    BY <1>6, <1>7, <1>8, <1>9
  <2>5. ExpectedMine' = ExpectedMine + Expected(p)' - Expected(p)
    BY <1>6, <1>7, <1>8, <1>9, <1>10, <2>1
  <2> QED BY <2>2, <2>3, <2>4, <2>5
<1> QED BY <1>2, <1>11

\* A step that concerns p only
LEMMA StepAt ==
    ASSUME DirectoryInv, NEW p \in Folk, follows' \subseteq Folk, hydrated' = hydrated,
           \A x \in Folk \ {p} :
              /\ SameOn(x) /\ (x \in follows' <=> x \in follows)
              /\ (x \in cache'.ids <=> x \in cache.ids) /\ cache'.counts[x] = cache.counts[x]
              /\ (x \in blurred'.ids <=> x \in blurred.ids)
              /\ (x \in blurred'.counts <=> x \in blurred.counts),
           Me \in blurred.counts => Me \in blurred'.counts,
           \/ p \in blurred'.ids /\ p \in blurred'.counts /\ Me \in blurred'.counts
           \/ Tracked(p)',
           p \in blurred'.ids \/ IdsAt(p)',
           \/ p \in blurred'.counts \/ cache'.counts[p] = Uncached
           \/ cache'.counts[p] = Expected(p)',
           \/ Me \in blurred'.counts \/ cache'.counts[Me] = Uncached
           \/ /\ cache.counts[Me] # Uncached
              /\ cache'.counts[Me] = cache.counts[Me] + Expected(p)' - Expected(p),
           LoadsInv'
    PROVE  Followed'
<1>1. TrackedInv'
  <2>1. SUFFICES ASSUME NEW x \in Folk,
                        ~(x \in blurred'.ids \cap blurred'.counts /\ Me \in blurred'.counts)
                 PROVE  Tracked(x)'
    BY DEF TrackedInv
  <2>2. CASE x = p
    BY <2>1, <2>2
  <2>3. CASE x # p
    <3>1. Tracked(x)
      BY <2>1, <2>3 DEF DirectoryInv, Followed, TrackedInv
    <3>2. SameOn(x) /\ (x \in follows' <=> x \in follows)
      BY <2>3
    <3> QED BY <3>1, <3>2 DEF Tracked, SameOn
  <2> QED BY <2>2, <2>3
<1>2. IdsInv'
  <2>1. SUFFICES ASSUME NEW x \in Folk, x \notin blurred'.ids
                 PROVE  IdsAt(x)'
    BY DEF IdsInv
  <2>2. CASE x = p
    BY <2>1, <2>2
  <2>3. CASE x # p
    <3>1. IdsAt(x)
      BY <2>1, <2>3 DEF DirectoryInv, Followed, IdsInv
    <3>2. SameOn(x) /\ (x \in follows' <=> x \in follows) /\ (x \in cache'.ids <=> x \in cache.ids)
      BY <2>3
    <3>3. On(x)' = {} => /\ x \in cache'.ids => x \in follows'
                         /\ hydrated' /\ x \in follows' => x \in cache'.ids
      BY <3>1, <3>2, SameOnFacts DEF IdsAt
    <3>4. ASSUME NEW f \in On(x)'
          PROVE  /\ x \in cache'.ids <=> f.op = "follow"
                 /\ hydrated' /\ f.op = "follow" /\ f.step # "done" => x \notin follows'
      <4>1. PICK e \in On(x) : f.op = e.op /\ f.step = e.step
        BY <3>2, <3>4 DEF SameOn
      <4> QED BY <3>1, <3>2, <4>1 DEF IdsAt
    <3> QED BY <3>3, <3>4 DEF IdsAt
  <2> QED BY <2>2, <2>3
<1>3. /\ \A x \in Folk \ {p} : Expected(x)' = Expected(x)
      /\ ExpectedMine' = ExpectedMine + Expected(p)' - Expected(p)
  BY ExpectedAt
<1>4. CountsInv'
  BY <1>3 DEF DirectoryInv, Followed, CountsInv
<1>5. MineInv'
  <2>1. SUFFICES ASSUME Me \notin blurred'.counts, cache'.counts[Me] # Uncached
                 PROVE  cache'.counts[Me] = ExpectedMine'
    BY DEF MineInv
  <2>2. cache.counts[Me] = ExpectedMine
    BY <2>1 DEF DirectoryInv, Followed, MineInv
  <2> QED BY <1>3, <2>1, <2>2
<1> QED BY <1>1, <1>2, <1>4, <1>5 DEF Followed

\* Of those whose marks count for sure, one request is on its way.
LEMMA TrackedThere ==
    ASSUME DirectoryInv, NEW p \in Folk,
           \/ p \notin blurred.ids \/ p \notin blurred.counts \/ Me \notin blurred.counts
    PROVE  Tracked(p)
BY DEF DirectoryInv, Followed, TrackedInv

\* What to expect where nothing or one request is on its way, before a step
\* and after it
LEMMA ExpectedOfNone ==
    ASSUME NEW p
    PROVE  /\ On(p) = {} => Expected(p) = One(p, follows)
           /\ On(p)' = {} => Expected(p)' = One(p, follows')
<1>1. One(p, follows) \in Int /\ One(p, follows') \in Int
  BY DEF One
<1>2. ASSUME On(p) = {} PROVE Expected(p) = One(p, follows)
  <2>1. One(p, Flips("follow")) = 0 /\ One(p, Flips("unfollow")) = 0
    BY <1>2 DEF One, Flips
  <2> QED BY <1>1, <2>1 DEF Expected
<1>3. ASSUME On(p)' = {} PROVE Expected(p)' = One(p, follows')
  <2>1. One(p, Flips("follow")') = 0 /\ One(p, Flips("unfollow")') = 0
    BY <1>3 DEF One, Flips
  <2>2. Expected(p)' = One(p, follows') + One(p, Flips("follow")') - One(p, Flips("unfollow")')
    BY DEF Expected, One
  <2> QED BY <1>1, <2>1, <2>2
<1> QED BY <1>2, <1>3

Owed(e, now) ==
    IF e.step = "done" THEN now ELSE IF e.op = "follow" THEN now + 1 ELSE now - 1

LEMMA ExpectedOfOne ==
    ASSUME NEW p \in Folk, NEW e, e.op \in FollowOps
    PROVE  /\ On(p) = {e} => Expected(p) = Owed(e, One(p, follows))
           /\ On(p)' = {e} => Expected(p)' = Owed(e, One(p, follows'))
<1>1. One(p, follows) \in Int /\ One(p, follows') \in Int
  BY DEF One
<1>2. ASSUME On(p) = {e} PROVE Expected(p) = Owed(e, One(p, follows))
  <2>1. \A op : p \in Flips(op) <=> e.op = op /\ e.step # "done"
    BY <1>2 DEF Flips
  <2>2. /\ One(p, Flips("follow")) = IF e.op = "follow" /\ e.step # "done" THEN 1 ELSE 0
        /\ One(p, Flips("unfollow")) = IF e.op = "unfollow" /\ e.step # "done" THEN 1 ELSE 0
    BY <2>1 DEF One
  <2> QED BY <1>1, <2>2 DEF Expected, Owed, FollowOps
<1>3. ASSUME On(p)' = {e} PROVE Expected(p)' = Owed(e, One(p, follows'))
  <2>1. \A op : p \in Flips(op)' <=> e.op = op /\ e.step # "done"
    BY <1>3 DEF Flips
  <2>2. /\ One(p, Flips("follow")') = IF e.op = "follow" /\ e.step # "done" THEN 1 ELSE 0
        /\ One(p, Flips("unfollow")') = IF e.op = "unfollow" /\ e.step # "done" THEN 1 ELSE 0
    BY <2>1 DEF One
  <2>3. Expected(p)' = One(p, follows') + One(p, Flips("follow")') - One(p, Flips("unfollow")')
    BY DEF Expected, One
  <2> QED BY <1>1, <2>2, <2>3 DEF Owed, FollowOps
<1> QED BY <1>2, <1>3

\* A request to follow goes on to its next step.
LEMMA FollowMoved ==
    ASSUME DirectoryInv, NEW e \in errands, e.op \in FollowOps,
           NEW f, Alike(f, e), ErrandSound(f), errands' = (errands \ {e}) \cup {f},
           UNCHANGED <<cache, shownVars, hydrated>>, follows' \subseteq Folk,
           \A x \in Folk \ {e.who} : x \in follows' <=> x \in follows,
           blurred' = [ids |-> blurred'.ids, counts |-> blurred'.counts]
    PROVE  /\ DirectoryType' /\ LoadsInv' /\ PagesInv' /\ SearchInv'
           /\ e.who \in Folk /\ e \in On(e.who) /\ On(e.who)' = (On(e.who) \ {e}) \cup {f}
           /\ \A x \in Folk \ {e.who} : SameOn(x)
<1>1. ErrandSound(e)
  BY DEF DirectoryInv, DirectoryType
<1>2. e.who \in Folk /\ e \in On(e.who)
  BY <1>1 DEF ErrandSound, FollowOps, On
<1>3. On(e.who)' = (On(e.who) \ {e}) \cup {f}
  BY DEF On, Alike
<1>4. \A x \in Folk \ {e.who} : On(x)' = On(x)
  BY DEF On, Alike
<1>5. \A x \in Folk \ {e.who} : SameOn(x)
  BY <1>4 DEF SameOn
<1>6. LoadsInv'
  <2>1. SUFFICES ASSUME NEW g \in errands', g.op \in Loads, NEW x \in Folk, Tells(g, x)
                 PROVE  On(x)' = {} /\ (g.step = "done" => (x \in g.rows <=> x \in follows'))
    BY DEF LoadsInv, LoadSound
  <2>2. g \in errands
    BY <2>1 DEF Alike, Loads, FollowOps
  <2>3. On(x) = {} /\ (g.step = "done" => (x \in g.rows <=> x \in follows))
    BY <2>1, <2>2 DEF DirectoryInv, Followed, LoadsInv, LoadSound
  <2>4. x # e.who
    BY <1>2, <2>3
  <2> QED BY <1>4, <2>3, <2>4
<1>7. DirectoryType'
  BY DEF DirectoryInv, DirectoryType, shownVars
<1>8. PagesInv' /\ SearchInv'
  <2>1. UNCHANGED shownVars
    OBVIOUS
  <2>2. \A g \in errands' : g.op \in FollowOps \cup {"ids"} \/ \E h \in errands : Alike(g, h)
    BY DEF Alike
  <2>3. \A h \in errands : \/ h.op \in FollowOps \cup {"ids"} \/ h.from = "bar"
                           \/ \E g \in errands' : Alike(g, h)
    BY DEF Alike
  <2> QED BY <2>1, <2>2, <2>3, ShownStep
<1> QED BY <1>2, <1>3, <1>5, <1>6, <1>7, <1>8

\* The service answers.
LEMMA StoredStep ==
    ASSUME DirectoryInv, NEW e \in errands, FollowStored(e) \/ UnfollowStored(e)
    PROVE  DirectoryInv'
<1>1. ErrandSound(e) /\ follows \subseteq Folk /\ e.op \in FollowOps /\ e.step = "asked"
  BY DEF DirectoryInv, DirectoryType, FollowStored, UnfollowStored, FollowOps
<1>2. PICK p : p = e.who
  OBVIOUS
<1>3. PICK step : /\ step \in {"done", "failed"}
                  /\ e.op = "follow" => (step = "done" <=> p \notin follows)
                  /\ e.op = "unfollow" => (step = "done" <=> p \in follows)
                  /\ Moved(e, [e EXCEPT !.step = step])
  <2>1. CASE FollowStored(e)
    BY <1>2, <2>1 DEF FollowStored
  <2>2. CASE UnfollowStored(e)
    BY <1>2, <2>2 DEF UnfollowStored
  <2> QED BY <2>1, <2>2
<1>4. PICK f : f = [e EXCEPT !.step = step]
  OBVIOUS
<1>5. ErrandSound(f) /\ Alike(f, e) /\ f.step = step
  <2>1. f = [op |-> e.op, from |-> e.from, who |-> e.who, id |-> e.id, at |-> e.at,
             step |-> step, rows |-> e.rows, mixed |-> e.mixed]
    BY <1>1, <1>4 DEF ErrandSound
  <2> QED BY <1>1, <1>3, <2>1 DEF ErrandSound, Alike
<1>6. errands' = (errands \ {e}) \cup {f}
  BY <1>3, <1>4 DEF Moved
<1>7. /\ UNCHANGED <<cache, shownVars, hydrated, blurred>>
      /\ e.op = "follow" => follows' = follows \cup {p}
      /\ e.op = "unfollow" => follows' = follows \ {p}
  BY <1>2 DEF FollowStored, UnfollowStored, directoryAux
<1>8. /\ p \in Folk
      /\ follows' \subseteq Folk /\ \A x \in Folk \ {p} : x \in follows' <=> x \in follows
  BY <1>1, <1>2, <1>7 DEF ErrandSound, FollowOps
<1>9. /\ DirectoryType' /\ LoadsInv' /\ PagesInv' /\ SearchInv'
      /\ e \in On(p) /\ On(p)' = (On(p) \ {e}) \cup {f}
      /\ \A x \in Folk \ {p} : SameOn(x)
  <2>1. blurred' = [ids |-> blurred'.ids, counts |-> blurred'.counts]
    BY <1>7 DEF DirectoryInv, DirectoryType
  <2> QED BY <1>1, <1>2, <1>5, <1>6, <1>7, <1>8, <2>1, FollowMoved
<1>10. ASSUME \/ p \notin blurred.ids \/ p \notin blurred.counts \/ Me \notin blurred.counts
       PROVE  Tracked(p) /\ On(p) = {e} /\ On(p)' = {f} /\ Tracked(p)'
  <2>1. Tracked(p)
    BY <1>8, <1>10, TrackedThere
  <2>2. On(p) = {e} /\ On(p)' = {f}
    BY <1>9, <2>1 DEF Tracked
  <2>3. /\ f.op = "follow" /\ f.step = "done" => p \in follows'
        /\ f.op = "unfollow" => (p \in follows' <=> f.step # "done")
    BY <1>1, <1>3, <1>5, <1>7, <2>1, <2>2 DEF Tracked, Alike
  <2> QED BY <2>1, <2>2, <2>3 DEF Tracked
<1>11. ASSUME p \notin blurred.ids PROVE IdsAt(p)'
  <2>1. IdsAt(p)
    BY <1>8, <1>11 DEF DirectoryInv, Followed, IdsInv
  <2>2. On(p) = {e} /\ On(p)' = {f}
    BY <1>10, <1>11
  <2>3. /\ p \in cache.ids <=> e.op = "follow"
        /\ hydrated /\ e.op = "follow" => p \notin follows
    BY <1>1, <2>1, <2>2 DEF IdsAt
  <2>4. /\ p \in cache'.ids <=> f.op = "follow"
        /\ hydrated' /\ f.op = "follow" /\ f.step # "done" => p \notin follows'
    BY <1>3, <1>5, <1>7, <2>3 DEF Alike
  <2> QED BY <2>2, <2>4 DEF IdsAt
<1>12. ASSUME Tracked(p), On(p) = {e}, On(p)' = {f}
       PROVE  Expected(p)' = Expected(p)
  <2>1. Expected(p) = Owed(e, One(p, follows)) /\ Expected(p)' = Owed(f, One(p, follows'))
    BY <1>1, <1>5, <1>8, <1>12, ExpectedOfOne DEF Alike
  <2>2. e.op = "unfollow" => p \in follows
    BY <1>1, <1>12 DEF Tracked
  <2>3. /\ e.op = "follow" /\ step = "done" => p \notin follows /\ p \in follows'
        /\ e.op = "follow" /\ step # "done" => p \in follows /\ p \in follows'
        /\ e.op = "unfollow" => p \in follows /\ p \notin follows' /\ step = "done"
    BY <1>3, <1>7, <2>2
  <2> QED BY <1>1, <1>5, <2>1, <2>3 DEF One, FollowOps, Owed, Alike
<1>13. Followed'
  <2>1. \/ p \in blurred'.counts \/ cache'.counts[p] = Uncached
        \/ cache'.counts[p] = Expected(p)'
    BY <1>7, <1>8, <1>10, <1>12 DEF DirectoryInv, Followed, CountsInv
  <2>2. \/ Me \in blurred'.counts \/ cache'.counts[Me] = Uncached
        \/ /\ cache.counts[Me] # Uncached
           /\ cache'.counts[Me] = cache.counts[Me] + Expected(p)' - Expected(p)
    <3>1. CASE Me \in blurred.counts
      BY <1>7, <3>1
    <3>2. CASE Me \notin blurred.counts
      <4>1. Expected(p)' = Expected(p)
        BY <1>10, <1>12, <3>2
      <4>2. Expected(p) \in Int
        BY <1>8, <1>9, ExpectedAt
      <4>3. cache.counts[Me] \in Int
        BY DEF DirectoryInv, DirectoryType, Uncached
      <4>4. cache.counts[Me] = cache.counts[Me] + Expected(p)' - Expected(p)
        BY <4>1, <4>2, <4>3
      <4> QED BY <1>7, <4>4
    <3> QED BY <3>1, <3>2
  <2> QED BY <1>7, <1>8, <1>9, <1>10, <1>11, <2>1, <2>2, StepAt
<1> QED BY <1>9, <1>13 DEF DirectoryInv

\* A request does not reach the service, or its answer is lost.
LEMMA FollowFailsStep ==
    ASSUME DirectoryInv, NEW e \in errands, e.op \in FollowOps, ErrandFails(e)
    PROVE  DirectoryInv'
<1>1. ErrandSound(e) /\ follows \subseteq Folk
  BY DEF DirectoryInv, DirectoryType
<1>2. PICK f : f = [e EXCEPT !.step = "failed"]
  OBVIOUS
<1>3. ErrandSound(f) /\ Alike(f, e) /\ f.step = "failed"
  BY <1>1, <1>2, ErrandFailsFacts
<1>4. PICK p : p = e.who
  OBVIOUS
<1>5. /\ errands' = (errands \ {e}) \cup {f} /\ UNCHANGED <<follows, cache, shownVars, hydrated>>
      /\ e.step \in {"asked", "done"}
      /\ blurred' = IF e.step = "done"
                    THEN [ids |-> blurred.ids \cup {p}, counts |-> blurred.counts \cup {p, Me}]
                    ELSE blurred
  BY <1>2, <1>4 DEF ErrandFails, Moved
<1>6. /\ e.step = "done" => /\ blurred'.ids = blurred.ids \cup {p}
                            /\ blurred'.counts = blurred.counts \cup {p, Me}
      /\ e.step # "done" => blurred' = blurred
      /\ blurred' = [ids |-> blurred'.ids, counts |-> blurred'.counts]
  <2>1. CASE e.step = "done"
    BY <1>5, <2>1
  <2>2. CASE e.step # "done"
    BY <1>5, <2>2 DEF DirectoryInv, DirectoryType
  <2> QED BY <2>1, <2>2
<1>7. /\ DirectoryType' /\ LoadsInv' /\ PagesInv' /\ SearchInv'
      /\ p \in Folk /\ e \in On(p) /\ On(p)' = (On(p) \ {e}) \cup {f}
      /\ \A x \in Folk \ {p} : SameOn(x)
  BY <1>1, <1>3, <1>4, <1>5, <1>6, FollowMoved
<1>8. ASSUME e.step = "asked",
             \/ p \notin blurred.ids \/ p \notin blurred.counts \/ Me \notin blurred.counts
      PROVE  /\ Tracked(p) /\ On(p) = {e} /\ On(p)' = {f} /\ Tracked(p)'
             /\ Expected(p)' = Expected(p)
  <2>1. Tracked(p)
    BY <1>7, <1>8, TrackedThere
  <2>2. On(p) = {e} /\ On(p)' = {f}
    BY <1>7, <2>1 DEF Tracked
  <2>3. /\ f.op = "follow" /\ f.step = "done" => p \in follows'
        /\ f.op = "unfollow" => (p \in follows' <=> f.step # "done")
    BY <1>3, <1>5, <1>8, <2>1, <2>2 DEF Tracked, Alike
  <2>4. Tracked(p)'
    BY <2>2, <2>3 DEF Tracked
  <2>5. Expected(p) = Owed(e, One(p, follows)) /\ Expected(p)' = Owed(f, One(p, follows'))
    BY <1>3, <1>7, <2>2, ExpectedOfOne DEF Alike
  <2> QED BY <1>3, <1>5, <1>8, <2>1, <2>2, <2>4, <2>5 DEF Owed, Alike
<1>9. ASSUME p \notin blurred'.ids PROVE IdsAt(p)'
  <2>1. p \notin blurred.ids /\ e.step = "asked"
    BY <1>5, <1>6, <1>9
  <2>2. IdsAt(p)
    BY <1>7, <2>1 DEF DirectoryInv, Followed, IdsInv
  <2>3. On(p) = {e} /\ On(p)' = {f}
    BY <1>8, <2>1
  <2>4. /\ p \in cache.ids <=> e.op = "follow"
        /\ hydrated /\ e.op = "follow" => p \notin follows
    BY <2>1, <2>2, <2>3 DEF IdsAt
  <2>5. /\ p \in cache'.ids <=> f.op = "follow"
        /\ hydrated' /\ f.op = "follow" /\ f.step # "done" => p \notin follows'
    BY <1>3, <1>5, <2>4 DEF Alike
  <2> QED BY <2>3, <2>5 DEF IdsAt
<1>10. \/ p \in blurred'.ids /\ p \in blurred'.counts /\ Me \in blurred'.counts
       \/ Tracked(p)'
  BY <1>5, <1>6, <1>8
<1>11. \/ p \in blurred'.counts \/ cache'.counts[p] = Uncached
       \/ cache'.counts[p] = Expected(p)'
  <2>1. SUFFICES ASSUME p \notin blurred'.counts, cache.counts[p] # Uncached
                 PROVE  cache'.counts[p] = Expected(p)'
    BY <1>5
  <2>2. p \notin blurred.counts /\ e.step = "asked"
    BY <1>5, <1>6, <2>1
  <2> QED BY <1>5, <1>7, <1>8, <2>1, <2>2 DEF DirectoryInv, Followed, CountsInv
<1>12. \/ Me \in blurred'.counts \/ cache'.counts[Me] = Uncached
       \/ /\ cache.counts[Me] # Uncached
          /\ cache'.counts[Me] = cache.counts[Me] + Expected(p)' - Expected(p)
  <2>1. SUFFICES ASSUME Me \notin blurred'.counts, cache.counts[Me] # Uncached
                 PROVE  cache'.counts[Me] = cache.counts[Me] + Expected(p)' - Expected(p)
    BY <1>5
  <2>2. Me \notin blurred.counts /\ e.step = "asked"
    BY <1>5, <1>6, <2>1
  <2>3. Expected(p)' = Expected(p) /\ Expected(p) \in Int
    BY <1>1, <1>5, <1>7, <1>8, <2>2, ExpectedAt
  <2>4. cache.counts[Me] \in Int
    BY DEF DirectoryInv, DirectoryType, Uncached
  <2>5. cache.counts[Me] = cache.counts[Me] + Expected(p)' - Expected(p)
    BY <2>3, <2>4
  <2> QED BY <1>5, <2>5
<1>13. Followed'
  <2>1. \A x \in Folk \ {p} : /\ (x \in blurred'.ids <=> x \in blurred.ids)
                              /\ (x \in blurred'.counts <=> x \in blurred.counts)
    <3>1. Me \notin Folk
      BY DirectoryAssumption
    <3> QED BY <1>6, <3>1
  <2>2. Me \in blurred.counts => Me \in blurred'.counts
    BY <1>6
  <2>3. \A x \in Folk \ {p} :
              /\ SameOn(x) /\ (x \in follows' <=> x \in follows)
              /\ (x \in cache'.ids <=> x \in cache.ids) /\ cache'.counts[x] = cache.counts[x]
              /\ (x \in blurred'.ids <=> x \in blurred.ids)
              /\ (x \in blurred'.counts <=> x \in blurred.counts)
    BY <1>5, <1>7, <2>1
  <2> QED BY <1>1, <1>5, <1>7, <1>9, <1>10, <1>11, <1>12, <2>2, <2>3, StepAt
<1> QED BY <1>7, <1>13 DEF DirectoryInv

\* A request that was granted is over.
LEMMA FollowAnsweredStep ==
    ASSUME DirectoryInv, NEW e \in errands, FollowAnswered(e)
    PROVE  DirectoryInv'
<1>1. /\ e.op \in FollowOps /\ e.step = "done" /\ errands' = errands \ {e}
      /\ UNCHANGED <<follows, cache, shownVars, hydrated, blurred>>
  BY DEF FollowAnswered, Over, directoryAux
<1>2. ErrandSound(e) /\ follows \subseteq Folk
  BY DEF DirectoryInv, DirectoryType
<1>3. PICK p : p = e.who
  OBVIOUS
<1>4. p \in Folk /\ e \in On(p) /\ On(p)' = On(p) \ {e}
  BY <1>1, <1>2, <1>3 DEF ErrandSound, FollowOps, On
<1>5. \A x \in Folk \ {p} : On(x)' = On(x)
  BY <1>1, <1>3 DEF On
<1>6. \A x \in Folk \ {p} : SameOn(x)
  BY <1>5 DEF SameOn
<1>7. LoadsInv'
  <2>1. SUFFICES ASSUME NEW g \in errands, g.op \in Loads, NEW x \in Folk, Tells(g, x)
                 PROVE  On(x)' = {} /\ (g.step = "done" => (x \in g.rows <=> x \in follows'))
    BY <1>1 DEF LoadsInv, LoadSound
  <2>2. On(x) = {} /\ (g.step = "done" => (x \in g.rows <=> x \in follows))
    BY <2>1 DEF DirectoryInv, Followed, LoadsInv, LoadSound
  <2>3. x # p
    BY <1>4, <2>2
  <2> QED BY <1>1, <1>5, <2>2, <2>3
<1>8. DirectoryType'
  BY <1>1 DEF DirectoryInv, DirectoryType, shownVars
<1>9. PagesInv' /\ SearchInv'
  <2>1. \A g \in errands' : g.op \in FollowOps \cup {"ids"} \/ \E h \in errands : Alike(g, h)
    BY <1>1 DEF Alike
  <2>2. \A h \in errands : \/ h.op \in FollowOps \cup {"ids"} \/ h.from = "bar"
                           \/ \E g \in errands' : Alike(g, h)
    BY <1>1 DEF Alike
  <2>3. UNCHANGED shownVars
    BY <1>1
  <2> QED BY <2>1, <2>2, <2>3, ShownStep
<1>10. ASSUME \/ p \notin blurred.ids \/ p \notin blurred.counts \/ Me \notin blurred.counts
       PROVE  /\ Tracked(p) /\ On(p) = {e} /\ On(p)' = {} /\ Tracked(p)'
              /\ Expected(p)' = Expected(p)
  <2>1. Tracked(p)
    BY <1>4, <1>10, TrackedThere
  <2>2. On(p) = {e} /\ On(p)' = {}
    BY <1>4, <2>1 DEF Tracked
  <2>3. Tracked(p)'
    BY <2>2 DEF Tracked
  <2>4. Expected(p) = Owed(e, One(p, follows)) /\ Expected(p)' = One(p, follows')
    BY <1>1, <1>4, <2>2, ExpectedOfOne, ExpectedOfNone
  <2> QED BY <1>1, <2>1, <2>2, <2>3, <2>4 DEF Owed
<1>11. ASSUME p \notin blurred.ids PROVE IdsAt(p)'
  <2>1. IdsAt(p)
    BY <1>4, <1>11 DEF DirectoryInv, Followed, IdsInv
  <2>2. On(p) = {e} /\ On(p)' = {} /\ Tracked(p)
    BY <1>10, <1>11
  <2>3. p \in cache.ids <=> p \in follows
    BY <1>1, <2>1, <2>2 DEF IdsAt, Tracked, FollowOps
  <2> QED BY <1>1, <2>2, <2>3 DEF IdsAt
<1>12. \/ p \in blurred'.counts \/ cache'.counts[p] = Uncached
       \/ cache'.counts[p] = Expected(p)'
  BY <1>1, <1>4, <1>10 DEF DirectoryInv, Followed, CountsInv
<1>13. \/ Me \in blurred'.counts \/ cache'.counts[Me] = Uncached
       \/ /\ cache.counts[Me] # Uncached
          /\ cache'.counts[Me] = cache.counts[Me] + Expected(p)' - Expected(p)
  <2>1. SUFFICES ASSUME Me \notin blurred.counts, cache.counts[Me] # Uncached
                 PROVE  cache'.counts[Me] = cache.counts[Me] + Expected(p)' - Expected(p)
    BY <1>1
  <2>2. Expected(p)' = Expected(p) /\ Expected(p) \in Int
    BY <1>1, <1>2, <1>4, <1>6, <1>10, <2>1, ExpectedAt
  <2>3. cache.counts[Me] \in Int
    BY DEF DirectoryInv, DirectoryType, Uncached
  <2>4. cache.counts[Me] = cache.counts[Me] + Expected(p)' - Expected(p)
    BY <2>2, <2>3
  <2> QED BY <1>1, <2>4
<1>14. Followed'
  <2>1. \A x \in Folk \ {p} :
              /\ SameOn(x) /\ (x \in follows' <=> x \in follows)
              /\ (x \in cache'.ids <=> x \in cache.ids) /\ cache'.counts[x] = cache.counts[x]
              /\ (x \in blurred'.ids <=> x \in blurred.ids)
              /\ (x \in blurred'.counts <=> x \in blurred.counts)
    BY <1>1, <1>6
  <2> QED BY <1>1, <1>2, <1>4, <1>7, <1>10, <1>11, <1>12, <1>13, <2>1, StepAt
<1> QED BY <1>8, <1>9, <1>14 DEF DirectoryInv

\* The effects of a change of the store leave what pages wait for.
LEMMA EffectsStep ==
    ASSUME DirectoryInv, NEW W, \A g \in W : ErrandSound(g), NEW c, NEW changed,
           errands' = Effects(c, W, changed), UNCHANGED shownVars,
           \A g \in W : g.op \in FollowOps \/ \E e \in errands : Alike(g, e),
           \A e \in errands : \/ e.op \in FollowOps \cup {"ids"} \/ e.from = "bar"
                              \/ \E g \in W : Alike(g, e)
    PROVE  /\ Following(errands') = Following(W)
           /\ \A g \in errands' : ErrandSound(g) /\ (g \in W \/ Fresh(g, errands'))
           /\ PagesInv' /\ SearchInv'
<1>1. /\ Following(errands') = Following(W)
      /\ \A g \in errands' : g \in W \/ (Fresh(g, W) /\ g.op = "ids")
      /\ \A g \in W : g.from = "bar" \/ g.op = "ids" \/ g \in errands'
  BY EffectsFacts
<1>2. Asked(errands') = Asked(W)
  BY <1>1 DEF Asked, Following
<1>3. \A g \in errands' : ErrandSound(g) /\ (g \in W \/ Fresh(g, errands'))
  BY <1>1, <1>2 DEF Fresh
<1>4. \A g \in errands' : g.op \in FollowOps \cup {"ids"} \/ \E e \in errands : Alike(g, e)
  BY <1>1
<1>5. \A e \in errands : \/ e.op \in FollowOps \cup {"ids"} \/ e.from = "bar"
                         \/ \E g \in errands' : Alike(g, e)
  BY <1>1 DEF Alike
<1> QED BY <1>1, <1>3, <1>4, <1>5, ShownStep

\* A load that has just begun knows of no request it could miss.
LEMMA FreshIsSoundNext ==
    ASSUME NEW g, Fresh(g, errands')
    PROVE  LoadSound(g)'
<1>1. ASSUME g.op \in Loads, NEW x \in Folk, Tells(g, x) PROVE On(x)' = {} /\ g.step = "asked"
  BY <1>1 DEF Fresh, Tells, On, Asked
<1> QED BY <1>1 DEF LoadSound

\* If nobody is asked to be unfollowed but those followed, the count of the
\* user's own profile is none below zero.
LEMMA ExpectedMineThere ==
    ASSUME follows' \subseteq Folk, \A x \in Folk : x \in Flips("unfollow")' => x \in follows'
    PROVE  ExpectedMine' >= 0
<1>1. PICK S, F, U : S = follows' /\ F = Flips("follow")' /\ U = Flips("unfollow")'
  OBVIOUS
<1>2. F \subseteq Folk /\ U \subseteq Folk
  BY <1>1 DEF Flips
<1>3. IsFiniteSet(S) /\ IsFiniteSet(F) /\ IsFiniteSet(U)
  BY <1>1, <1>2, FS_Subset, DirectoryAssumption
<1>4. Cardinality(U) <= Cardinality(S)
  BY <1>1, <1>2, <1>3, FS_Subset
<1>5. Cardinality(S) \in Nat /\ Cardinality(F) \in Nat /\ Cardinality(U) \in Nat
  BY <1>3, FS_CardinalityType
<1>6. ExpectedMine' = Cardinality(S) + Cardinality(F) - Cardinality(U)
  BY <1>1 DEF ExpectedMine
<1> QED BY <1>4, <1>5, <1>6

\* What a mark does to the counts is what is to be expected of it.
LEMMA MarkedCounts ==
    ASSUME DirectoryInv, NEW p \in Folk, NEW by \in {1, -1},
           cache'.counts = Bumped(cache.counts, p, by), UNCHANGED follows,
           \A x \in Folk \ {p} : SameOn(x), blurred.counts \subseteq blurred'.counts,
           p \notin blurred'.counts => Expected(p)' = Expected(p) + by /\ Expected(p)' >= 0,
           Me \notin blurred'.counts =>
              /\ Expected(p)' = Expected(p) + by
              /\ \A x \in Folk : x \in Flips("unfollow")' => x \in follows'
    PROVE  /\ cache'.counts \in [Folk \cup {Me} -> Nat \cup {Uncached}]
           /\ \A x \in Folk \ {p} : cache'.counts[x] = cache.counts[x]
           /\ \/ p \in blurred'.counts \/ cache'.counts[p] = Uncached
              \/ cache'.counts[p] = Expected(p)'
           /\ \/ Me \in blurred'.counts \/ cache'.counts[Me] = Uncached
              \/ /\ cache.counts[Me] # Uncached
                 /\ cache'.counts[Me] = cache.counts[Me] + Expected(p)' - Expected(p)
<1>1. PICK counts : counts = cache.counts
  OBVIOUS
<1>2. counts \in [Folk \cup {Me} -> Nat \cup {Uncached}] /\ follows' \subseteq Folk
  BY <1>1 DEF DirectoryInv, DirectoryType
<1>3. /\ cache'.counts \in [Folk \cup {Me} -> Nat \cup {Uncached}]
      /\ \A x \in Folk \ {p} : cache'.counts[x] = counts[x]
      /\ \A w \in {p, Me} :
            /\ counts[w] = Uncached => cache'.counts[w] = Uncached
            /\ counts[w] # Uncached /\ counts[w] + by >= 0 => cache'.counts[w] = counts[w] + by
            /\ cache'.counts[w] # Uncached => counts[w] # Uncached
  BY <1>1, <1>2, BumpedFacts
<1>4. Expected(p) \in Int /\ Expected(p)' \in Int /\ ExpectedMine \in Int
      /\ ExpectedMine' = ExpectedMine + Expected(p)' - Expected(p)
  BY <1>2, ExpectedAt
<1>5. ASSUME p \notin blurred'.counts, cache'.counts[p] # Uncached
      PROVE  cache'.counts[p] = Expected(p)'
  <2>1. counts[p] # Uncached
    BY <1>3, <1>5
  <2>2. counts[p] = Expected(p)
    BY <1>1, <1>5, <2>1 DEF DirectoryInv, Followed, CountsInv
  <2>3. counts[p] + by >= 0
    BY <1>5, <2>2
  <2> QED BY <1>3, <1>5, <2>1, <2>2, <2>3
<1>6. ASSUME Me \notin blurred'.counts, cache'.counts[Me] # Uncached
      PROVE  /\ counts[Me] # Uncached
             /\ cache'.counts[Me] = counts[Me] + Expected(p)' - Expected(p)
  <2>1. counts[Me] # Uncached
    BY <1>3, <1>6
  <2>2. counts[Me] = ExpectedMine
    BY <1>1, <1>6, <2>1 DEF DirectoryInv, Followed, MineInv
  <2>3. ExpectedMine' >= 0
    BY <1>2, <1>6, ExpectedMineThere
  <2>4. by \in Int
    OBVIOUS
  <2>5. counts[Me] + by >= 0 /\ counts[Me] + by = counts[Me] + Expected(p)' - Expected(p)
    BY <1>4, <1>6, <2>2, <2>3, <2>4
  <2>6. cache'.counts[Me] = counts[Me] + by
    BY <1>3, <2>1, <2>5
  <2> QED BY <2>1, <2>5, <2>6
<1> QED BY <1>1, <1>3, <1>5, <1>6

\* A mark is the opposite of the one there is, or none.
LEMMA MarkFacts ==
    ASSUME DirectoryInv, NEW p \in Folk
    PROVE  /\ p \notin cache.ids =>
                /\ MarkFollowed(p) = [ids |-> cache.ids \cup {p},
                                      counts |-> Bumped(cache.counts, p, 1)]
                /\ MarkUnfollowed(p) = cache /\ MarkFollowed(p) # cache
           /\ p \in cache.ids =>
                /\ MarkUnfollowed(p) = [ids |-> cache.ids \ {p},
                                        counts |-> Bumped(cache.counts, p, -1)]
                /\ MarkFollowed(p) = cache /\ MarkUnfollowed(p) # cache
<1>1. ASSUME p \notin cache.ids
      PROVE  /\ MarkFollowed(p) = [ids |-> cache.ids \cup {p},
                                   counts |-> Bumped(cache.counts, p, 1)]
             /\ MarkUnfollowed(p) = cache /\ MarkFollowed(p) # cache
  <2>1. MarkFollowed(p) = [ids |-> cache.ids \cup {p}, counts |-> Bumped(cache.counts, p, 1)]
    BY <1>1 DEF MarkFollowed
  <2>2. MarkFollowed(p).ids = cache.ids \cup {p}
    BY <2>1
  <2> QED BY <1>1, <2>1, <2>2 DEF MarkUnfollowed
<1>2. ASSUME p \in cache.ids
      PROVE  /\ MarkUnfollowed(p) = [ids |-> cache.ids \ {p},
                                     counts |-> Bumped(cache.counts, p, -1)]
             /\ MarkFollowed(p) = cache /\ MarkUnfollowed(p) # cache
  <2>1. MarkUnfollowed(p) = [ids |-> cache.ids \ {p}, counts |-> Bumped(cache.counts, p, -1)]
    BY <1>2 DEF MarkUnfollowed
  <2>2. MarkUnfollowed(p).ids = cache.ids \ {p}
    BY <2>1
  <2> QED BY <1>2, <2>1, <2>2 DEF MarkFollowed
<1> QED BY <1>1, <1>2

\* A request that was refused is over: the mark is taken back.
LEMMA FollowRefusedStep ==
    ASSUME DirectoryInv, NEW e \in errands, FollowRefused(e)
    PROVE  DirectoryInv'
<1>1. PICK p : p = e.who
  OBVIOUS
<1>2. PICK back : back = IF e.op = "follow" THEN MarkUnfollowed(p) ELSE MarkFollowed(p)
  OBVIOUS
<1>3. /\ e.op \in FollowOps /\ e.step = "failed" /\ cache' = back
      /\ UNCHANGED <<follows, shownVars, hydrated>>
      /\ blurred' = IF back = cache THEN [blurred EXCEPT !.counts = @ \cup {p, Me}] ELSE blurred
  BY <1>1, <1>2 DEF FollowRefused, Marked
<1>4. PICK W, changed : W = errands \ {e} /\ errands' = Effects(back, W, changed)
  BY <1>1, <1>2 DEF FollowRefused, Marked
<1>5. ErrandSound(e) /\ follows \subseteq Folk /\ \A g \in W : ErrandSound(g)
  BY <1>4 DEF DirectoryInv, DirectoryType
<1>6. /\ Following(errands') = Following(W)
      /\ \A g \in errands' : ErrandSound(g) /\ (g \in W \/ Fresh(g, errands'))
      /\ PagesInv' /\ SearchInv'
  <2>1. \A g \in W : g.op \in FollowOps \/ \E h \in errands : Alike(g, h)
    BY <1>4 DEF Alike
  <2>2. \A h \in errands : \/ h.op \in FollowOps \cup {"ids"} \/ h.from = "bar"
                           \/ \E g \in W : Alike(h, g) /\ Alike(g, h)
    BY <1>3, <1>4 DEF Alike
  <2>3. \A h \in errands : \/ h.op \in FollowOps \cup {"ids"} \/ h.from = "bar"
                           \/ \E g \in W : Alike(g, h)
    BY <2>2
  <2>4. UNCHANGED shownVars
    BY <1>3
  <2> QED BY <1>4, <1>5, <2>1, <2>3, <2>4, EffectsStep
<1>7. p \in Folk /\ e \in On(p) /\ On(p)' = On(p) \ {e}
  BY <1>1, <1>3, <1>4, <1>5, <1>6 DEF ErrandSound, FollowOps, On, Following
<1>8. \A x \in Folk \ {p} : On(x)' = On(x)
  BY <1>1, <1>4, <1>6 DEF On, Following
<1>9. \A x \in Folk \ {p} : SameOn(x)
  BY <1>8 DEF SameOn
<1>10. LoadsInv'
  <2>1. SUFFICES ASSUME NEW g \in errands', g \in W, g.op \in Loads, NEW x \in Folk, Tells(g, x)
                 PROVE  On(x)' = {} /\ (g.step = "done" => (x \in g.rows <=> x \in follows'))
    BY <1>6, FreshIsSoundNext DEF LoadsInv, LoadSound
  <2>2. On(x) = {} /\ (g.step = "done" => (x \in g.rows <=> x \in follows))
    BY <1>4, <2>1 DEF DirectoryInv, Followed, LoadsInv, LoadSound
  <2>3. x # p
    BY <1>7, <2>2
  <2> QED BY <1>3, <1>8, <2>2, <2>3
<1>11. ASSUME \/ p \notin blurred.ids \/ p \notin blurred.counts \/ Me \notin blurred.counts
       PROVE  /\ Tracked(p) /\ On(p) = {e} /\ On(p)' = {} /\ Tracked(p)'
              /\ Expected(p) = (IF e.op = "follow" THEN One(p, follows) + 1 ELSE 0)
              /\ Expected(p)' = One(p, follows) /\ (e.op = "unfollow" => p \in follows)
  <2>1. Tracked(p)
    BY <1>7, <1>11, TrackedThere
  <2>2. On(p) = {e} /\ On(p)' = {}
    BY <1>7, <2>1 DEF Tracked
  <2>3. Tracked(p)'
    BY <2>2 DEF Tracked
  <2>4. e.op = "unfollow" => p \in follows
    BY <1>3, <2>1, <2>2 DEF Tracked
  <2>5. Expected(p) = Owed(e, One(p, follows)) /\ Expected(p)' = One(p, follows')
    BY <1>3, <1>7, <2>2, ExpectedOfOne, ExpectedOfNone
  <2>6. Expected(p) = (IF e.op = "follow" THEN One(p, follows) + 1 ELSE 0)
    BY <1>3, <2>4, <2>5 DEF Owed, One, FollowOps
  <2> QED BY <1>3, <2>1, <2>2, <2>3, <2>4, <2>5, <2>6
\* Which marks there are when they are not blurred
<1>12. ASSUME p \notin blurred.ids
       PROVE  /\ p \in cache.ids <=> e.op = "follow"
              /\ hydrated /\ e.op = "follow" => p \notin follows
  <2>1. IdsAt(p)
    BY <1>7, <1>12 DEF DirectoryInv, Followed, IdsInv
  <2>2. On(p) = {e}
    BY <1>11, <1>12
  <2> QED BY <1>3, <2>1, <2>2 DEF IdsAt
<1>13. CASE back = cache
  <2>1. blurred' = [ids |-> blurred.ids, counts |-> blurred.counts \cup {p, Me}]
    BY <1>3, <1>13 DEF DirectoryInv, DirectoryType
  <2>2. p \in blurred.ids
    BY <1>2, <1>3, <1>7, <1>12, <1>13, MarkFacts DEF FollowOps
  <2>3. DirectoryType'
    BY <1>3, <1>6, <1>13, <2>1 DEF DirectoryInv, DirectoryType, shownVars
  <2>4. /\ blurred'.ids = blurred.ids /\ blurred'.counts = blurred.counts \cup {p, Me}
    BY <2>1
  <2>5. \A x \in Folk \ {p} :
              /\ SameOn(x) /\ (x \in follows' <=> x \in follows)
              /\ (x \in cache'.ids <=> x \in cache.ids) /\ cache'.counts[x] = cache.counts[x]
              /\ (x \in blurred'.ids <=> x \in blurred.ids)
              /\ (x \in blurred'.counts <=> x \in blurred.counts)
    <3>1. Me \notin Folk
      BY DirectoryAssumption
    <3> QED BY <1>3, <1>9, <1>13, <2>4, <3>1
  <2>6. p \in blurred'.ids /\ p \in blurred'.counts /\ Me \in blurred'.counts
    BY <2>2, <2>4
  <2>7. Followed'
    BY <1>3, <1>5, <1>7, <1>10, <2>5, <2>6, StepAt
  <2> QED BY <1>6, <2>3, <2>7 DEF DirectoryInv
<1>14. CASE back # cache
  <2>1. blurred' = blurred
    BY <1>3, <1>14
  <2>2. PICK by \in {1, -1} :
           /\ e.op = "follow" <=> by = -1
           /\ cache' = [ids |-> IF by = 1 THEN cache.ids \cup {p} ELSE cache.ids \ {p},
                        counts |-> Bumped(cache.counts, p, by)]
    <3>1. CASE e.op = "follow"
      <4>1. cache' = [ids |-> cache.ids \ {p}, counts |-> Bumped(cache.counts, p, -1)]
        BY <1>2, <1>3, <1>7, <1>14, <3>1, MarkFacts
      <4> QED BY <3>1, <4>1
    <3>2. CASE e.op = "unfollow"
      <4>1. cache' = [ids |-> cache.ids \cup {p}, counts |-> Bumped(cache.counts, p, 1)]
        BY <1>2, <1>3, <1>7, <1>14, <3>2, MarkFacts
      <4> QED BY <3>2, <4>1
    <3> QED BY <1>3, <3>1, <3>2 DEF FollowOps
  <2>3. /\ cache'.counts = Bumped(cache.counts, p, by)
        /\ cache'.ids = IF by = 1 THEN cache.ids \cup {p} ELSE cache.ids \ {p}
        /\ cache' = [ids |-> cache'.ids, counts |-> cache'.counts]
    BY <2>2
  <2>4. ASSUME \/ p \notin blurred.counts \/ Me \notin blurred.counts
        PROVE  Expected(p)' = Expected(p) + by /\ Expected(p)' >= 0
    <3>1. /\ Expected(p) = (IF e.op = "follow" THEN One(p, follows) + 1 ELSE 0)
          /\ Expected(p)' = One(p, follows) /\ (e.op = "unfollow" => p \in follows)
      BY <1>11, <2>4
    <3> QED BY <1>3, <2>2, <3>1 DEF One, FollowOps
  <2>5. ASSUME Me \notin blurred.counts, NEW x \in Folk, x \in Flips("unfollow")'
        PROVE  x \in follows'
    <3>1. PICK g \in On(x)' : g.op = "unfollow" /\ g.step # "done"
      BY <2>5 DEF Flips
    <3>2. g \in On(x)
      BY <1>7, <1>8, <3>1
    <3>3. Tracked(x)
      BY <2>5, TrackedThere
    <3> QED BY <1>3, <3>1, <3>2, <3>3 DEF Tracked
  <2>6. /\ cache'.counts \in [Folk \cup {Me} -> Nat \cup {Uncached}]
        /\ \A x \in Folk \ {p} : cache'.counts[x] = cache.counts[x]
        /\ \/ p \in blurred'.counts \/ cache'.counts[p] = Uncached
           \/ cache'.counts[p] = Expected(p)'
        /\ \/ Me \in blurred'.counts \/ cache'.counts[Me] = Uncached
           \/ /\ cache.counts[Me] # Uncached
              /\ cache'.counts[Me] = cache.counts[Me] + Expected(p)' - Expected(p)
    BY <1>3, <1>7, <1>9, <2>1, <2>3, <2>4, <2>5, MarkedCounts
  <2>7. DirectoryType'
    <3>1. cache'.ids \subseteq Folk
      BY <1>7, <2>3 DEF DirectoryInv, DirectoryType
    <3> QED BY <1>3, <1>6, <2>1, <2>3, <2>6, <3>1 DEF DirectoryInv, DirectoryType, shownVars
  <2>8. ASSUME p \notin blurred.ids PROVE IdsAt(p)'
    <3>1. On(p)' = {} /\ (e.op = "unfollow" => p \in follows)
      BY <1>11, <2>8
    <3>2. /\ p \in cache'.ids => p \in follows'
          /\ hydrated' /\ p \in follows' => p \in cache'.ids
      BY <1>3, <1>12, <2>2, <2>3, <2>8, <3>1 DEF FollowOps
    <3> QED BY <3>1, <3>2 DEF IdsAt
  <2>9. \A x \in Folk \ {p} :
              /\ SameOn(x) /\ (x \in follows' <=> x \in follows)
              /\ (x \in cache'.ids <=> x \in cache.ids) /\ cache'.counts[x] = cache.counts[x]
              /\ (x \in blurred'.ids <=> x \in blurred.ids)
              /\ (x \in blurred'.counts <=> x \in blurred.counts)
    BY <1>3, <1>9, <2>1, <2>3, <2>6
  <2>10. Followed'
    BY <1>3, <1>5, <1>7, <1>10, <1>11, <2>1, <2>6, <2>8, <2>9, StepAt
  <2> QED BY <1>6, <2>7, <2>10 DEF DirectoryInv
<1> QED BY <1>13, <1>14

\* A request under way learns of a click.
LEMMA CrossedFacts ==
    ASSUME NEW e, ErrandSound(e), NEW p
    PROVE  LET d == [e EXCEPT !.mixed = @ \cup {p}] IN
           /\ ErrandSound(d) /\ Alike(d, e) /\ Alike(e, d)
           /\ d.step = e.step /\ d.rows = e.rows /\ d.mixed = e.mixed \cup {p}
<1>1. PICK mixed : mixed = e.mixed \cup {p}
  OBVIOUS
<1>2. PICK d : d = [e EXCEPT !.mixed = mixed]
  OBVIOUS
<1>3. [e EXCEPT !.mixed = @ \cup {p}] = d
  BY <1>1, <1>2
<1>4. d = [op |-> e.op, from |-> e.from, who |-> e.who, id |-> e.id, at |-> e.at,
           step |-> e.step, rows |-> e.rows, mixed |-> mixed]
  BY <1>2 DEF ErrandSound
<1>5. /\ ErrandSound(d) /\ Alike(d, e) /\ Alike(e, d)
      /\ d.step = e.step /\ d.rows = e.rows /\ d.mixed = e.mixed \cup {p}
  BY <1>1, <1>4 DEF ErrandSound, Alike
<1> QED BY <1>3, <1>5

\* What stands in the following list, and requests to come, change under a
\* click. The requests under way learn of it.
LEMMA ClickRequests ==
    ASSUME DirectoryInv, NEW p \in Folk, NEW r, ErrandSound(r), r.op \in FollowOps, r.who = p,
           r.step = "asked", UNCHANGED <<follows, shownVars>>, NEW W,
           W = {[e EXCEPT !.mixed = @ \cup {p}] : e \in errands} \cup {r},
           NEW c, NEW changed, errands' = Effects(c, W, changed)
    PROVE  /\ \A g \in errands' : ErrandSound(g)
           /\ PagesInv' /\ SearchInv' /\ LoadsInv'
           /\ \A x \in Folk \ {p} : SameOn(x)
           /\ r \in On(p)' /\ (On(p) = {} => On(p)' = {r})
<1> DEFINE D(e) == [e EXCEPT !.mixed = @ \cup {p}]
<1>1. W = {D(e) : e \in errands} \cup {r}
  OBVIOUS
<1>2. ASSUME NEW e \in errands
      PROVE  /\ ErrandSound(D(e)) /\ Alike(D(e), e) /\ Alike(e, D(e))
             /\ D(e).step = e.step /\ D(e).rows = e.rows /\ D(e).mixed = e.mixed \cup {p}
  <2>1. ErrandSound(e)
    BY DEF DirectoryInv, DirectoryType
  <2> QED BY <2>1, CrossedFacts
<1> HIDE DEF D
<1>3. \A g \in W : ErrandSound(g)
  BY <1>1, <1>2
<1>4. /\ Following(errands') = Following(W)
      /\ \A g \in errands' : ErrandSound(g) /\ (g \in W \/ Fresh(g, errands'))
      /\ PagesInv' /\ SearchInv'
  <2>1. \A g \in W : g.op \in FollowOps \/ \E h \in errands : Alike(g, h)
    BY <1>1, <1>2
  <2>2. \A h \in errands : \/ h.op \in FollowOps \cup {"ids"} \/ h.from = "bar"
                           \/ \E g \in W : Alike(g, h)
    BY <1>1, <1>2
  <2>3. UNCHANGED shownVars
    OBVIOUS
  <2> QED BY <1>3, <2>1, <2>2, <2>3, EffectsStep
<1>5. ASSUME NEW x, x # p
      PROVE  On(x)' = {D(e) : e \in On(x)}
  BY <1>1, <1>2, <1>4, <1>5 DEF On, Following, Alike
<1>6. On(p)' = {D(e) : e \in On(p)} \cup {r}
  BY <1>1, <1>2, <1>4 DEF On, Following, Alike
<1>7. ASSUME NEW x \in Folk \ {p}
      PROVE  SameOn(x)
  <2>1. On(x)' = {D(e) : e \in On(x)}
    BY <1>5
  <2>2. \A e \in On(x) : D(e).op = e.op /\ D(e).step = e.step
    BY <1>2 DEF On, Alike
  <2>3. (\A e, f \in On(x) : e = f) => (\A e, f \in On(x)' : e = f)
    BY <2>1
  <2> QED BY <2>1, <2>2, <2>3 DEF SameOn
<1>8. LoadsInv'
  <2>1. SUFFICES ASSUME NEW g \in errands', g \in W, g.op \in Loads, NEW x \in Folk, Tells(g, x)
                 PROVE  On(x)' = {} /\ (g.step = "done" => (x \in g.rows <=> x \in follows'))
    BY <1>4, FreshIsSoundNext DEF LoadsInv, LoadSound
  <2>2. PICK e \in errands : g = D(e)
    BY <1>1, <2>1 DEF Loads, FollowOps
  <2>3. /\ g.step = e.step /\ g.rows = e.rows /\ g.mixed = e.mixed \cup {p}
        /\ g.op = e.op /\ g.who = e.who
    BY <1>2, <2>2 DEF Alike
  <2>4. x # p /\ Tells(e, x) /\ e.op \in Loads
    BY <2>1, <2>3 DEF Tells
  <2>5. On(x) = {} /\ (e.step = "done" => (x \in e.rows <=> x \in follows))
    BY <2>4 DEF DirectoryInv, Followed, LoadsInv, LoadSound
  <2> QED BY <1>5, <2>3, <2>4, <2>5
<1> QED BY <1>4, <1>6, <1>7, <1>8

LEMMA ClickFollowStep ==
    ASSUME DirectoryInv, NEW p \in Folk, ClickFollow(p)
    PROVE  DirectoryInv'
<1>1. PICK op : op = IF p \in cache.ids THEN "unfollow" ELSE "follow"
  OBVIOUS
<1>2. PICK r : r = [Errand(op, "button", p, mounting) EXCEPT !.at = turns]
  OBVIOUS
<1>3. ErrandSound(r) /\ r.op = op /\ r.who = p /\ r.step = "asked" /\ op \in FollowOps
  <2>1. r = [op |-> op, from |-> "button", who |-> p, id |-> mounting, at |-> turns,
             step |-> "asked", rows |-> {}, mixed |-> {}]
    BY <1>2 DEF Errand
  <2>2. op \in FollowOps
    BY <1>1 DEF FollowOps
  <2> QED BY <2>1, <2>2 DEF ErrandSound
<1>4. PICK W, c, changed :
        /\ W = {[e EXCEPT !.mixed = @ \cup {p}] : e \in errands} \cup {r}
        /\ c = (IF op = "follow" THEN MarkFollowed(p) ELSE MarkUnfollowed(p))
        /\ errands' = Effects(c, W, changed) /\ cache' = c
  BY <1>1, <1>2 DEF ClickFollow, Marked
<1>5. PICK crossed : crossed = {p} \cap (Asked(errands) \cup blurred.ids)
  OBVIOUS
<1>6. /\ blurred' = [ids |-> blurred.ids \cup crossed,
                     counts |-> IF crossed = {} THEN blurred.counts
                                ELSE blurred.counts \cup {p, Me}]
      /\ UNCHANGED <<follows, shownVars, hydrated>>
  BY <1>5 DEF ClickFollow
<1>7. /\ \A g \in errands' : ErrandSound(g)
      /\ PagesInv' /\ SearchInv' /\ LoadsInv'
      /\ \A x \in Folk \ {p} : SameOn(x)
      /\ r \in On(p)' /\ (On(p) = {} => On(p)' = {r})
  BY <1>3, <1>4, <1>6, ClickRequests
<1>8. PICK by \in {1, -1} :
         /\ op = "follow" <=> by = 1
         /\ cache' = [ids |-> IF by = 1 THEN cache.ids \cup {p} ELSE cache.ids \ {p},
                      counts |-> Bumped(cache.counts, p, by)]
  <2>1. CASE p \notin cache.ids
    <3>1. op = "follow" /\ cache' = [ids |-> cache.ids \cup {p},
                                     counts |-> Bumped(cache.counts, p, 1)]
      BY <1>1, <1>4, <2>1, MarkFacts
    <3> QED BY <3>1
  <2>2. CASE p \in cache.ids
    <3>1. op = "unfollow" /\ cache' = [ids |-> cache.ids \ {p},
                                       counts |-> Bumped(cache.counts, p, -1)]
      BY <1>1, <1>4, <2>2, MarkFacts
    <3> QED BY <3>1
  <2> QED BY <2>1, <2>2
<1>9. /\ cache'.counts = Bumped(cache.counts, p, by)
      /\ cache'.ids = IF by = 1 THEN cache.ids \cup {p} ELSE cache.ids \ {p}
      /\ cache' = [ids |-> cache'.ids, counts |-> cache'.counts]
  BY <1>8
<1>10. /\ crossed = {} => blurred'.ids = blurred.ids /\ blurred'.counts = blurred.counts
       /\ crossed # {} => /\ blurred'.ids = blurred.ids \cup {p}
                          /\ blurred'.counts = blurred.counts \cup {p, Me}
       /\ blurred' = [ids |-> blurred'.ids, counts |-> blurred'.counts]
  BY <1>5, <1>6
\* Nothing else concerns p unless the click crosses it.
<1>11. ASSUME crossed = {}
       PROVE  /\ On(p) = {} /\ On(p)' = {r} /\ IdsAt(p) /\ p \notin blurred.ids
              /\ p \in cache.ids => p \in follows
              /\ hydrated /\ p \in follows => p \in cache.ids
              /\ Expected(p) = One(p, follows) /\ Expected(p)' = One(p, follows) + by
  <2>1. On(p) = {} /\ p \notin blurred.ids
    BY <1>5, <1>11 DEF Asked, On
  <2>2. IdsAt(p)
    BY <2>1 DEF DirectoryInv, Followed, IdsInv
  <2>3. On(p)' = {r}
    BY <1>7, <2>1
  <2>4. Expected(p) = One(p, follows)
    BY <2>1, ExpectedOfNone
  <2>5. Expected(p)' = Owed(r, One(p, follows'))
    BY <1>3, <2>3, ExpectedOfOne
  <2>6. One(p, follows) \in Int
    BY DEF One
  <2>7. Expected(p)' = One(p, follows) + by
    BY <1>3, <1>6, <1>8, <2>5, <2>6 DEF Owed, FollowOps
  <2> QED BY <2>1, <2>2, <2>3, <2>4, <2>7 DEF IdsAt
<1>12. ASSUME p \notin blurred'.counts \/ Me \notin blurred'.counts
       PROVE  crossed = {} /\ Expected(p)' = Expected(p) + by /\ Expected(p)' >= 0
  <2>1. crossed = {}
    BY <1>10, <1>12
  <2>2. by = -1 => p \in follows
    BY <1>1, <1>8, <1>11, <2>1
  <2> QED BY <1>11, <2>1, <2>2 DEF One
<1>13. ASSUME Me \notin blurred'.counts, NEW x \in Folk, x \in Flips("unfollow")'
       PROVE  x \in follows'
  <2>1. Me \notin blurred.counts /\ crossed = {}
    BY <1>10, <1>13
  <2>2. PICK g \in On(x)' : g.op = "unfollow" /\ g.step # "done"
    BY <1>13 DEF Flips
  <2>3. CASE x = p
    BY <1>1, <1>3, <1>6, <1>11, <2>1, <2>2, <2>3
  <2>4. CASE x # p
    <3>1. PICK h \in On(x) : g.op = h.op /\ g.step = h.step
      BY <1>7, <2>2, <2>4 DEF SameOn
    <3>2. Tracked(x)
      BY <2>1, TrackedThere
    <3> QED BY <1>6, <2>2, <3>1, <3>2 DEF Tracked
  <2> QED BY <2>3, <2>4
<1>14. /\ cache'.counts \in [Folk \cup {Me} -> Nat \cup {Uncached}]
       /\ \A x \in Folk \ {p} : cache'.counts[x] = cache.counts[x]
       /\ \/ p \in blurred'.counts \/ cache'.counts[p] = Uncached
          \/ cache'.counts[p] = Expected(p)'
       /\ \/ Me \in blurred'.counts \/ cache'.counts[Me] = Uncached
          \/ /\ cache.counts[Me] # Uncached
             /\ cache'.counts[Me] = cache.counts[Me] + Expected(p)' - Expected(p)
  <2>1. blurred.counts \subseteq blurred'.counts
    BY <1>10
  <2> QED BY <1>6, <1>7, <1>9, <1>12, <1>13, <2>1, MarkedCounts
<1>15. DirectoryType'
  <2>1. cache'.ids \subseteq Folk
    BY <1>9 DEF DirectoryInv, DirectoryType
  <2> QED BY <1>6, <1>7, <1>9, <1>10, <1>14, <2>1 DEF DirectoryInv, DirectoryType, shownVars
<1>16. \/ p \in blurred'.ids /\ p \in blurred'.counts /\ Me \in blurred'.counts
       \/ Tracked(p)'
  <2>1. CASE crossed # {}
    BY <1>10, <2>1
  <2>2. CASE crossed = {}
    BY <1>1, <1>3, <1>6, <1>11, <2>2 DEF Tracked
  <2> QED BY <2>1, <2>2
<1>17. ASSUME p \notin blurred'.ids PROVE IdsAt(p)'
  <2>1. crossed = {}
    BY <1>10, <1>17
  <2>2. /\ p \in cache'.ids <=> r.op = "follow"
        /\ hydrated' /\ r.op = "follow" => p \notin follows'
    BY <1>1, <1>3, <1>6, <1>8, <1>9, <1>11, <2>1
  <2> QED BY <1>11, <2>1, <2>2 DEF IdsAt
<1>18. Followed'
  <2>1. \A x \in Folk \ {p} :
              /\ SameOn(x) /\ (x \in follows' <=> x \in follows)
              /\ (x \in cache'.ids <=> x \in cache.ids) /\ cache'.counts[x] = cache.counts[x]
              /\ (x \in blurred'.ids <=> x \in blurred.ids)
              /\ (x \in blurred'.counts <=> x \in blurred.counts)
    <3>1. Me \notin Folk
      BY DirectoryAssumption
    <3> QED BY <1>6, <1>7, <1>9, <1>10, <1>14, <3>1
  <2>2. follows' \subseteq Folk /\ (Me \in blurred.counts => Me \in blurred'.counts)
    BY <1>6, <1>10 DEF DirectoryInv, DirectoryType
  <2> QED BY <1>6, <1>7, <1>14, <1>16, <1>17, <2>1, <2>2, StepAt
<1> QED BY <1>7, <1>15, <1>18 DEF DirectoryInv

-----------------------------------------------------------------------------
(* What is loaded *)

\* Nobody asks anything, and nothing is stored.
LEMMA LoadedFacts ==
    ASSUME DirectoryInv, UNCHANGED follows, Following(errands') = Following(errands),
           \A g \in errands' : g \in errands \/ Fresh(g, errands')
    PROVE  /\ LoadsInv' /\ \A x : On(x)' = On(x)
           /\ \A x : Tracked(x)' <=> Tracked(x)
           /\ \A x : Expected(x)' = Expected(x)
           /\ ExpectedMine' = ExpectedMine
<1>1. (\A x : On(x)' = On(x)) /\ \A op : Flips(op)' = Flips(op)
  BY SameRequests
<1>2. LoadsInv'
  <2>1. SUFFICES ASSUME NEW g \in errands, NEW x \in Folk, g.op \in Loads, Tells(g, x)
                 PROVE  On(x)' = {} /\ (g.step = "done" => (x \in g.rows <=> x \in follows'))
    BY FreshIsSoundNext DEF LoadsInv, LoadSound
  <2> QED BY <1>1, <2>1 DEF DirectoryInv, Followed, LoadsInv, LoadSound
<1>3. \A x : Tracked(x)' <=> Tracked(x)
  BY <1>1 DEF Tracked
<1>4. \A x : Expected(x)' = Expected(x)
  BY <1>1 DEF Expected, One
<1>5. ExpectedMine' = ExpectedMine
  BY <1>1 DEF ExpectedMine
<1> QED BY <1>1, <1>2, <1>3, <1>4, <1>5

\* A profile's count is taken over.
LEMMA CountTaken ==
    ASSUME DirectoryInv, NEW p \in Folk \cup {Me}, NEW n \in Nat
    PROVE  LET c == [cache EXCEPT !.counts[p] = n] IN
           /\ c = [ids |-> c.ids, counts |-> c.counts] /\ c.ids = cache.ids
           /\ c.counts \in [Folk \cup {Me} -> Nat \cup {Uncached}]
           /\ \A x \in (Folk \cup {Me}) \ {p} : c.counts[x] = cache.counts[x]
           /\ c.counts[p] = n
<1>1. PICK counts : counts = [cache.counts EXCEPT ![p] = n]
  OBVIOUS
<1>2. PICK c : c = [cache EXCEPT !.counts[p] = n]
  OBVIOUS
<1>3. c = [ids |-> cache.ids, counts |-> counts]
  BY <1>1, <1>2 DEF DirectoryInv, DirectoryType
<1>4. /\ counts \in [Folk \cup {Me} -> Nat \cup {Uncached}] /\ counts[p] = n
      /\ \A x \in (Folk \cup {Me}) \ {p} : counts[x] = cache.counts[x]
  BY <1>1 DEF DirectoryInv, DirectoryType
<1>5. /\ c = [ids |-> c.ids, counts |-> c.counts] /\ c.ids = cache.ids /\ c.counts = counts
  BY <1>3
<1> QED BY <1>2, <1>4, <1>5

LEMMA IdsAnsweredStep ==
    ASSUME DirectoryInv, NEW e \in errands, IdsAnswered(e)
    PROVE  DirectoryInv'
<1>1. /\ e.op = "ids" /\ e.step = "done" /\ UNCHANGED <<follows, shownVars>> /\ hydrated' = TRUE
      /\ cache' = [cache EXCEPT !.ids = e.rows] /\ blurred' = [blurred EXCEPT !.ids = e.mixed]
  BY DEF IdsAnswered, Back
<1>2. /\ cache' = [ids |-> e.rows, counts |-> cache.counts]
      /\ blurred' = [ids |-> e.mixed, counts |-> blurred.counts]
  BY <1>1 DEF DirectoryInv, DirectoryType
<1>3. /\ cache'.ids = e.rows /\ cache'.counts = cache.counts
      /\ blurred'.ids = e.mixed /\ blurred'.counts = blurred.counts
  BY <1>2
<1>4. PICK W, c, changed : W = errands \ {e} /\ errands' = Effects(c, W, changed)
  BY DEF IdsAnswered
<1>5. ErrandSound(e) /\ \A g \in W : ErrandSound(g)
  BY <1>4 DEF DirectoryInv, DirectoryType
<1>6. /\ Following(errands') = Following(W)
      /\ \A g \in errands' : ErrandSound(g) /\ (g \in W \/ Fresh(g, errands'))
      /\ PagesInv' /\ SearchInv'
  <2>1. \A g \in W : g.op \in FollowOps \/ \E h \in errands : Alike(g, h)
    BY <1>4 DEF Alike
  <2>2. \A h \in errands : \/ h.op \in FollowOps \cup {"ids"} \/ h.from = "bar"
                           \/ \E g \in W : Alike(g, h)
    BY <1>1, <1>4 DEF Alike
  <2>3. UNCHANGED shownVars
    BY <1>1
  <2> QED BY <1>4, <1>5, <2>1, <2>2, <2>3, EffectsStep
<1>7. /\ LoadsInv' /\ \A x : On(x)' = On(x)
      /\ \A x : Tracked(x)' <=> Tracked(x)
      /\ \A x : Expected(x)' = Expected(x)
      /\ ExpectedMine' = ExpectedMine
  <2>1. Following(errands') = Following(errands)
    BY <1>1, <1>4, <1>6 DEF Following, FollowOps
  <2> QED BY <1>1, <1>4, <1>6, <2>1, LoadedFacts
<1>8. \A x \in Folk \ e.mixed : On(x) = {} /\ (x \in e.rows <=> x \in follows)
  BY <1>1 DEF DirectoryInv, Followed, LoadsInv, LoadSound, Tells, Loads
<1>9. TrackedInv'
  <2>1. SUFFICES ASSUME NEW x \in Folk,
                        ~(x \in blurred'.ids \cap blurred'.counts /\ Me \in blurred'.counts)
                 PROVE  Tracked(x)
    BY <1>7 DEF TrackedInv
  <2>2. CASE x \in e.mixed
    BY <1>3, <2>1, <2>2, TrackedThere
  <2>3. CASE x \notin e.mixed
    BY <1>8, <2>3 DEF Tracked
  <2> QED BY <2>2, <2>3
<1>10. IdsInv'
  <2>1. SUFFICES ASSUME NEW x \in Folk, x \notin e.mixed
                 PROVE  IdsAt(x)'
    BY <1>3 DEF IdsInv
  <2>2. On(x)' = {} /\ (x \in cache'.ids <=> x \in follows')
    BY <1>1, <1>3, <1>7, <1>8, <2>1
  <2> QED BY <2>2 DEF IdsAt
<1>11. CountsInv' /\ MineInv'
  BY <1>3, <1>7 DEF DirectoryInv, Followed, CountsInv, MineInv
<1>12. DirectoryType'
  BY <1>1, <1>2, <1>3, <1>5, <1>6 DEF DirectoryInv, DirectoryType, ErrandSound, shownVars
<1> QED BY <1>6, <1>7, <1>9, <1>10, <1>11, <1>12 DEF DirectoryInv, Followed

LEMMA MeAnsweredStep ==
    ASSUME DirectoryInv, NEW e \in errands, MeAnswered(e)
    PROVE  DirectoryInv'
<1>1. PICK mine, W, c, changed, es :
        /\ mine <=> (view.page = "profile" /\ e.from = "page")
        /\ W = errands \ {e} /\ es = Effects(c, W, changed)
        /\ mine => errands' = LoadsBegun(es, {Errand("ids", "page", Nobody, 0)})
        /\ ~mine => errands' = es
        /\ mine => view' = [view EXCEPT !.phase = "ready", !.shown = Me]
        /\ ~mine => view' = view
  <2>1. PICK mine : mine <=> (view.page = "profile" /\ e.from = "page")
    OBVIOUS
  <2>2. PICK W, changed : W = errands \ {e} /\ changed = TRUE
    OBVIOUS
  <2> QED BY <2>1, <2>2 DEF MeAnswered
<1>2. /\ e.op = "me" /\ e.step = "done"
      /\ UNCHANGED <<follows, finder, panelOf, mounting, hydrated>>
      /\ cache' = [cache EXCEPT !.counts[Me] = Cardinality(e.rows)]
      /\ blurred' = [blurred EXCEPT !.counts =
                        (@ \ {Me}) \cup (IF e.mixed = {} THEN {} ELSE {Me})]
  BY DEF MeAnswered, Back
<1>3. ErrandSound(e) /\ (\A g \in W : ErrandSound(g)) /\ e.rows \subseteq Folk
  BY <1>1 DEF DirectoryInv, DirectoryType, ErrandSound
<1>4. /\ blurred' = [ids |-> blurred'.ids, counts |-> blurred'.counts] /\ blurred'.ids = blurred.ids
      /\ \A x \in Folk : x \in blurred'.counts <=> x \in blurred.counts
      /\ Me \in blurred'.counts <=> e.mixed # {}
  <2>1. blurred' = [ids |-> blurred.ids,
                    counts |-> (blurred.counts \ {Me}) \cup (IF e.mixed = {} THEN {} ELSE {Me})]
    BY <1>2 DEF DirectoryInv, DirectoryType
  <2>2. Me \notin Folk
    BY DirectoryAssumption
  <2> QED BY <2>1, <2>2
<1>5. IsFiniteSet(e.rows) /\ Cardinality(e.rows) \in Nat
  BY <1>3, FS_Subset, FS_CardinalityType, DirectoryAssumption
<1>6. /\ cache' = [ids |-> cache'.ids, counts |-> cache'.counts] /\ cache'.ids = cache.ids
      /\ cache'.counts \in [Folk \cup {Me} -> Nat \cup {Uncached}]
      /\ \A x \in Folk : cache'.counts[x] = cache.counts[x]
      /\ cache'.counts[Me] = Cardinality(e.rows)
  <2>1. PICK n \in Nat : n = Cardinality(e.rows)
    BY <1>5
  <2>2. PICK d : d = [cache EXCEPT !.counts[Me] = n]
    OBVIOUS
  <2>3. /\ d = [ids |-> d.ids, counts |-> d.counts] /\ d.ids = cache.ids
        /\ d.counts \in [Folk \cup {Me} -> Nat \cup {Uncached}]
        /\ \A x \in (Folk \cup {Me}) \ {Me} : d.counts[x] = cache.counts[x]
        /\ d.counts[Me] = n
    BY <2>1, <2>2, CountTaken
  <2>4. cache' = d /\ Me \notin Folk
    BY <1>2, <2>1, <2>2, DirectoryAssumption
  <2> QED BY <2>1, <2>3, <2>4
<1>7. /\ Following(es) = Following(errands)
      /\ \A g \in es : ErrandSound(g) /\ (g \in W \/ (Fresh(g, W) /\ g.op = "ids"))
      /\ \A g \in W : g.from = "bar" \/ g.op = "ids" \/ g \in es
      /\ Asked(es) = Asked(errands) /\ Asked(W) = Asked(errands)
  <2>1. /\ Following(es) = Following(W)
        /\ \A g \in es : g \in W \/ (Fresh(g, W) /\ g.op = "ids")
        /\ \A g \in W : g.from = "bar" \/ g.op = "ids" \/ g \in es
    BY <1>1, <1>3, EffectsFacts
  <2>2. Following(W) = Following(errands)
    BY <1>1, <1>2 DEF Following, FollowOps
  <2>3. Asked(es) = Asked(errands) /\ Asked(W) = Asked(errands)
    BY <2>1, <2>2 DEF Asked, Following
  <2> QED BY <1>3, <2>1, <2>2, <2>3 DEF Fresh
<1>8. /\ Following(errands') = Following(errands)
      /\ \A g \in errands' : ErrandSound(g) /\ (g \in W \/ (Fresh(g, errands') /\ g.op = "ids"))
      /\ es \subseteq errands'
  <2>1. PICK new : /\ new \subseteq {Errand("ids", "page", Nobody, 0)}
                   /\ errands' = LoadsBegun(es, new)
    <3>1. CASE mine
      BY <1>1, <3>1
    <3>2. CASE ~mine
      <4>1. errands' = LoadsBegun(es, {})
        BY <1>1, <3>2, NoneBegun
      <4> QED BY <4>1
    <3> QED BY <3>1, <3>2
  <2>2. \A f \in new : Unasked(f) /\ f.op = "ids"
    BY <2>1, ErrandIsUnasked
  <2>3. /\ Following(errands') = Following(es) /\ es \subseteq errands'
        /\ \A g \in errands' : g \in es \/ (Fresh(g, es) /\ \E f \in new : Alike(g, f))
    BY <2>1, <2>2, BegunFacts
  <2>4. Asked(errands') = Asked(es)
    BY <2>3 DEF Asked, Following
  <2>5. ASSUME NEW g \in errands'
        PROVE  ErrandSound(g) /\ (g \in W \/ (Fresh(g, errands') /\ g.op = "ids"))
    <3>1. CASE g \in es
      BY <1>7, <2>4, <3>1 DEF Fresh
    <3>2. CASE Fresh(g, es) /\ \E f \in new : Alike(g, f)
      BY <2>2, <2>4, <3>2 DEF Fresh, Alike
    <3> QED BY <2>3, <3>1, <3>2
  <2> QED BY <1>7, <2>3, <2>5
<1>9. /\ LoadsInv' /\ \A x : On(x)' = On(x)
      /\ \A x : Tracked(x)' <=> Tracked(x)
      /\ \A x : Expected(x)' = Expected(x)
      /\ ExpectedMine' = ExpectedMine
  BY <1>1, <1>2, <1>8, LoadedFacts
<1>10. ASSUME e.mixed = {}
       PROVE  (\A x \in Folk : On(x) = {}) /\ e.rows = follows
  <2>1. \A x \in Folk : On(x) = {} /\ (x \in e.rows <=> x \in follows)
    BY <1>2, <1>10 DEF DirectoryInv, Followed, LoadsInv, LoadSound, Tells, Loads
  <2>2. follows \subseteq Folk
    BY DEF DirectoryInv, DirectoryType
  <2> QED BY <1>3, <2>1, <2>2
<1>11. TrackedInv'
  <2>1. SUFFICES ASSUME NEW x \in Folk,
                        ~(x \in blurred'.ids \cap blurred'.counts /\ Me \in blurred'.counts)
                 PROVE  Tracked(x)
    BY <1>9 DEF TrackedInv
  <2>2. CASE e.mixed = {}
    BY <1>10, <2>2 DEF Tracked
  <2>3. CASE e.mixed # {}
    BY <1>4, <2>1, <2>3, TrackedThere
  <2> QED BY <2>2, <2>3
<1>12. IdsInv'
  <2>1. SUFFICES ASSUME NEW x \in Folk, x \notin blurred'.ids
                 PROVE  IdsAt(x)'
    BY DEF IdsInv
  <2>2. IdsAt(x)
    BY <1>4, <2>1 DEF DirectoryInv, Followed, IdsInv
  <2> QED BY <1>2, <1>6, <1>9, <2>2 DEF IdsAt
<1>13. CountsInv'
  BY <1>4, <1>6, <1>9 DEF DirectoryInv, Followed, CountsInv
<1>14. MineInv'
  <2>1. SUFFICES ASSUME e.mixed = {}
                 PROVE  Cardinality(e.rows) = ExpectedMine
    BY <1>4, <1>6, <1>9 DEF MineInv
  <2>2. Flips("follow") = {} /\ Flips("unfollow") = {}
    BY <1>10, <2>1 DEF Flips
  <2>3. Cardinality(Flips("follow")) = 0 /\ Cardinality(Flips("unfollow")) = 0
    BY <2>2, FS_EmptySet
  <2>4. Cardinality(e.rows) = Cardinality(follows)
    BY <1>10, <2>1
  <2> QED BY <1>5, <2>3, <2>4 DEF ExpectedMine
<1>15. \A g \in errands' : g.op = "ids" \/ g \in errands
  BY <1>1, <1>8
<1>16. \A h \in errands : h.from = "page" /\ h.op # "ids" /\ h # e => h \in errands'
  BY <1>1, <1>7, <1>8
<1>17. \A h \in errands : h.op \in {"suggest", "search"} => h \in errands'
  <2>1. \A h \in errands : h.op \in {"suggest", "search"} => h.from = "page"
    BY DEF DirectoryInv, DirectoryType, ErrandSound, FollowOps
  <2> QED BY <1>2, <1>16, <2>1
<1>18. SearchInv'
  <2>1. SearchAgrees'
    <3>1. ASSUME finder.query # "", finder.loading, ~finder.timer
          PROVE  \E g \in errands' : g.op = "search" /\ g.id = finder.nr
      <4>1. PICK h \in errands : h.op = "search" /\ h.id = finder.nr
        BY <3>1 DEF DirectoryInv, SearchInv, SearchAgrees
      <4> QED BY <1>17, <4>1
    <3> QED BY <1>2, <3>1 DEF DirectoryInv, SearchInv, SearchAgrees
  <2> QED BY <1>2, <1>15, <2>1 DEF DirectoryInv, SearchInv
<1>19. PagesInv' /\ view' = [page |-> view'.page, who |-> view'.who, phase |-> view'.phase,
                             shown |-> view'.shown, rows |-> view'.rows, named |-> view'.named]
  <2>1. panelOf'.loading => \E g \in errands' : g.op = "suggest"
    BY <1>2, <1>17 DEF DirectoryInv, PagesInv
  <2>2. view = [page |-> view.page, who |-> view.who, phase |-> view.phase,
                shown |-> view.shown, rows |-> view.rows, named |-> view.named]
    BY DEF DirectoryInv, DirectoryType
  <2>3. ASSUME mine
        PROVE  view' = [page |-> view.page, who |-> view.who, phase |-> "ready", shown |-> Me,
                        rows |-> view.rows, named |-> view.named]
    BY <1>1, <2>2, <2>3
  <2>4. ASSUME ~mine PROVE view' = view
    BY <1>1, <2>4
  <2>5. view'.page = view.page /\ view'.who = view.who
    BY <2>3, <2>4
  <2>6. view' = [page |-> view'.page, who |-> view'.who, phase |-> view'.phase,
                  shown |-> view'.shown, rows |-> view'.rows, named |-> view'.named]
    BY <2>2, <2>3, <2>4
  <2>7. \A g \in errands' : g.from = "page" =>
           /\ g.op = "profile" => <<view'.page, view'.who>> = <<"profile", g.who>>
           /\ g.op = "me" => <<view'.page, view'.who>> = <<"profile", Me>>
           /\ g.op = "edges" => <<view'.page, view'.who>> = <<"edges", g.who>>
           /\ g.op = "name" => view'.page = "edges"
    <3>1. ASSUME NEW g \in errands', g.from = "page"
          PROVE  /\ g.op = "profile" => <<view.page, view.who>> = <<"profile", g.who>>
                 /\ g.op = "me" => <<view.page, view.who>> = <<"profile", Me>>
                 /\ g.op = "edges" => <<view.page, view.who>> = <<"edges", g.who>>
                 /\ g.op = "name" => view.page = "edges"
      <4>1. CASE g.op = "ids"
        BY <4>1
      <4>2. CASE g \in errands
        BY <3>1, <4>2 DEF DirectoryInv, PagesInv
      <4> QED BY <1>15, <3>1, <4>1, <4>2
    <3> QED BY <2>5, <3>1
  <2>8. e.from = "page" => <<view.page, view.who>> = <<"profile", Me>>
    BY <1>2 DEF DirectoryInv, PagesInv
  <2>9. CASE mine
    <3>1. view.who = Me
      BY <1>1, <2>8, <2>9
    <3>2. view'.phase = "ready" /\ view'.shown = Me /\ view'.who = view.who
      BY <2>9, <2>3
    <3>3. PagesInv'
      BY <2>1, <2>7, <3>1, <3>2 DEF PagesInv
    <3> QED BY <2>6, <3>3
  <2>10. CASE ~mine
    <3>1. e.from # "page"
      BY <1>1, <2>8, <2>10
    <3>2. view.phase = "loading" =>
             \E g \in errands' : g.from = "page" /\ g.op \in {"me", "profile", "edges"}
      BY <1>16, <3>1 DEF DirectoryInv, PagesInv
    <3>3. view' = view
      BY <2>10, <2>4
    <3>4. view.page \in {"profile", "edges"} /\ view.phase = "ready" => view.shown = view.who
      BY DEF DirectoryInv, PagesInv
    <3>5. PagesInv'
      BY <2>1, <2>7, <3>2, <3>3, <3>4 DEF PagesInv
    <3> QED BY <2>6, <3>5
  <2> QED BY <2>9, <2>10
<1>20. DirectoryType'
  BY <1>2, <1>4, <1>6, <1>8, <1>19 DEF DirectoryInv, DirectoryType
<1> QED BY <1>9, <1>11, <1>12, <1>13, <1>14, <1>18, <1>19, <1>20 DEF DirectoryInv, Followed

\* The profile of another tells whether the user follows them.
LEMMA ProfileRead ==
    ASSUME DirectoryInv, NEW e \in errands, e.op \in {"profile", "name"}, e.step = "done",
           errands' = errands \ {e}, UNCHANGED <<follows, hydrated, finder>>,
           cache' = [cache EXCEPT !.counts[e.who] = Cardinality(e.rows)],
           blurred' = [blurred EXCEPT !.counts = Unblurred(@, e)],
           view' = [page |-> view'.page, who |-> view'.who, phase |-> view'.phase,
                    shown |-> view'.shown, rows |-> view'.rows, named |-> view'.named]
    PROVE  DirectoryType' /\ Followed' /\ SearchInv'
<1>1. /\ ErrandSound(e) /\ e.who \in Folk /\ e.rows \subseteq {e.who} /\ e.op \notin FollowOps
      /\ e.op \in Loads
  BY DEF DirectoryInv, DirectoryType, ErrandSound, FollowOps, Loads
<1>2. PICK p : p = e.who
  OBVIOUS
<1>3. Cardinality(e.rows) = One(p, e.rows) /\ One(p, e.rows) \in Nat
  <2>1. CASE e.rows = {}
    BY <2>1, FS_EmptySet DEF One
  <2>2. CASE e.rows = {p}
    BY <2>2, FS_Singleton DEF One
  <2> QED BY <1>1, <1>2, <2>1, <2>2
<1>4. /\ cache' = [ids |-> cache'.ids, counts |-> cache'.counts] /\ cache'.ids = cache.ids
      /\ cache'.counts \in [Folk \cup {Me} -> Nat \cup {Uncached}]
      /\ \A x \in (Folk \cup {Me}) \ {p} : cache'.counts[x] = cache.counts[x]
      /\ cache'.counts[p] = One(p, e.rows)
  <2>1. PICK n \in Nat : n = Cardinality(e.rows) /\ n = One(p, e.rows)
    BY <1>3
  <2>2. PICK c : c = [cache EXCEPT !.counts[p] = n]
    OBVIOUS
  <2>3. /\ c = [ids |-> c.ids, counts |-> c.counts] /\ c.ids = cache.ids
        /\ c.counts \in [Folk \cup {Me} -> Nat \cup {Uncached}]
        /\ \A x \in (Folk \cup {Me}) \ {p} : c.counts[x] = cache.counts[x]
        /\ c.counts[p] = n
    BY <1>1, <1>2, <2>2, CountTaken
  <2>4. cache' = c
    BY <1>2, <2>1, <2>2
  <2> QED BY <2>1, <2>3, <2>4
<1>5. /\ blurred' = [ids |-> blurred'.ids, counts |-> blurred'.counts] /\ blurred'.ids = blurred.ids
      /\ \A x : x # p => (x \in blurred'.counts <=> x \in blurred.counts)
      /\ p \in blurred'.counts <=> p \in e.mixed
  <2>1. blurred' = [ids |-> blurred.ids, counts |-> Unblurred(blurred.counts, e)]
    BY DEF DirectoryInv, DirectoryType
  <2> QED BY <1>2, <2>1 DEF Unblurred
<1>6. p # Me /\ p \in Folk
  BY <1>1, <1>2, DirectoryAssumption
<1>7. /\ LoadsInv' /\ \A x : On(x)' = On(x)
      /\ \A x : Tracked(x)' <=> Tracked(x)
      /\ \A x : Expected(x)' = Expected(x)
      /\ ExpectedMine' = ExpectedMine
  <2>1. Following(errands') = Following(errands)
    BY <1>1 DEF Following
  <2> QED BY <2>1, LoadedFacts
<1>8. p \notin e.mixed => On(p) = {} /\ (p \in e.rows <=> p \in follows)
  BY <1>1, <1>2 DEF DirectoryInv, Followed, LoadsInv, LoadSound, Tells
<1>9. TrackedInv'
  <2>1. SUFFICES ASSUME NEW x \in Folk,
                        ~(x \in blurred'.ids \cap blurred'.counts /\ Me \in blurred'.counts)
                 PROVE  Tracked(x)
    BY <1>7 DEF TrackedInv
  <2>2. CASE x = p /\ p \notin e.mixed
    BY <1>8, <2>2 DEF Tracked
  <2>3. CASE ~(x = p /\ p \notin e.mixed)
    BY <1>5, <1>6, <2>1, <2>3, TrackedThere
  <2> QED BY <2>2, <2>3
<1>10. IdsInv'
  <2>1. SUFFICES ASSUME NEW x \in Folk, x \notin blurred'.ids
                 PROVE  IdsAt(x)'
    BY DEF IdsInv
  <2>2. IdsAt(x)
    BY <1>5, <2>1 DEF DirectoryInv, Followed, IdsInv
  <2> QED BY <1>4, <1>7, <2>2 DEF IdsAt
<1>11. CountsInv'
  <2>1. SUFFICES ASSUME NEW x \in Folk, x \notin blurred'.counts, cache'.counts[x] # Uncached
                 PROVE  cache'.counts[x] = Expected(x)'
    BY DEF CountsInv
  <2>2. CASE x = p
    <3>1. On(p) = {} /\ (p \in e.rows <=> p \in follows)
      BY <1>5, <1>8, <2>1, <2>2
    <3>2. Expected(p) = One(p, follows)
      BY <3>1, ExpectedOfNone
    <3>3. One(p, e.rows) = One(p, follows)
      BY <3>1 DEF One
    <3>4. Expected(p)' = Expected(p)
      BY <1>7
    <3> QED BY <1>4, <2>2, <3>2, <3>3, <3>4
  <2>3. CASE x # p
    BY <1>4, <1>5, <1>7, <2>1, <2>3 DEF DirectoryInv, Followed, CountsInv
  <2> QED BY <2>2, <2>3
<1>12. MineInv'
  BY <1>4, <1>5, <1>6, <1>7 DEF DirectoryInv, Followed, MineInv
<1>13. DirectoryType'
  BY <1>4, <1>5 DEF DirectoryInv, DirectoryType
<1>14. SearchInv'
  <2>1. SearchAgrees'
    <3>1. ASSUME finder.query # "", finder.loading, ~finder.timer
          PROVE  \E g \in errands' : g.op = "search" /\ g.id = finder.nr
      <4>1. PICK h \in errands : h.op = "search" /\ h.id = finder.nr
        BY <3>1 DEF DirectoryInv, SearchInv, SearchAgrees
      <4> QED BY <4>1
    <3> QED BY <3>1 DEF DirectoryInv, SearchInv, SearchAgrees
  <2> QED BY <2>1 DEF DirectoryInv, SearchInv
<1> QED BY <1>7, <1>9, <1>10, <1>11, <1>12, <1>13, <1>14 DEF Followed

LEMMA ProfileAnsweredStep ==
    ASSUME DirectoryInv, NEW e \in errands, ProfileAnswered(e)
    PROVE  DirectoryInv'
<1>1. /\ e.op = "profile" /\ e.step = "done" /\ errands' = errands \ {e}
      /\ UNCHANGED <<follows, finder, panelOf, hydrated>>
      /\ cache' = [cache EXCEPT !.counts[e.who] = Cardinality(e.rows)]
      /\ blurred' = [blurred EXCEPT !.counts = Unblurred(@, e)]
  BY DEF ProfileAnswered, Back, Over
<1>2. view' = [page |-> view.page, who |-> view.who, phase |-> "ready", shown |-> e.who,
               rows |-> view.rows, named |-> view.named]
  BY DEF ProfileAnswered, DirectoryInv, DirectoryType
<1>3. /\ view'.page = view.page /\ view'.who = view.who /\ view'.phase = "ready"
      /\ view'.shown = e.who
      /\ view' = [page |-> view'.page, who |-> view'.who, phase |-> view'.phase,
                  shown |-> view'.shown, rows |-> view'.rows, named |-> view'.named]
  BY <1>2
<1>4. DirectoryType' /\ Followed' /\ SearchInv'
  BY <1>1, <1>3, ProfileRead
<1>5. view.who = e.who
  <2>1. e.from = "page"
    BY <1>1 DEF DirectoryInv, DirectoryType, ErrandSound, FollowOps
  <2> QED BY <1>1, <2>1 DEF DirectoryInv, PagesInv
<1>6. PagesInv'
  BY <1>1, <1>3, <1>5 DEF DirectoryInv, PagesInv
<1> QED BY <1>4, <1>6 DEF DirectoryInv

LEMMA NameAnsweredStep ==
    ASSUME DirectoryInv, NEW e \in errands, NameAnswered(e)
    PROVE  DirectoryInv'
<1>1. /\ e.op = "name" /\ e.step = "done" /\ errands' = errands \ {e}
      /\ UNCHANGED <<follows, finder, panelOf, hydrated>>
      /\ cache' = [cache EXCEPT !.counts[e.who] = Cardinality(e.rows)]
      /\ blurred' = [blurred EXCEPT !.counts = Unblurred(@, e)]
  BY DEF NameAnswered, Back, Over
<1>2. view' = [page |-> view.page, who |-> view.who, phase |-> view.phase, shown |-> view.shown,
               rows |-> view.rows, named |-> e.who]
  BY DEF NameAnswered, DirectoryInv, DirectoryType
<1>3. /\ view'.page = view.page /\ view'.who = view.who /\ view'.phase = view.phase
      /\ view'.shown = view.shown
      /\ view' = [page |-> view'.page, who |-> view'.who, phase |-> view'.phase,
                  shown |-> view'.shown, rows |-> view'.rows, named |-> view'.named]
  BY <1>2
<1>4. DirectoryType' /\ Followed' /\ SearchInv'
  BY <1>1, <1>3, ProfileRead
<1>5. PagesInv'
  BY <1>1, <1>3 DEF DirectoryInv, PagesInv
<1> QED BY <1>4, <1>5 DEF DirectoryInv

-----------------------------------------------------------------------------
(* The directory *)

LEMMA DirectoryStarts ==
    ASSUME NEW followed \in SUBSET Folk, NEW taken \in Nat, DirectoryStart(followed, taken)
    PROVE  DirectoryInv
<1>1. PICK e : e = Errand("me", "bar", Nobody, 0)
  OBVIOUS
<1>2. ErrandSound(e) /\ e.op = "me" /\ e.step = "asked" /\ e.from = "bar"
  BY <1>1 DEF Errand, ErrandSound, FollowOps
<1>3. errands = {e}
  BY <1>1 DEF DirectoryStart
<1>4. \A x : On(x) = {}
  BY <1>2, <1>3 DEF On, FollowOps
<1>5. LoadsInv
  BY <1>2, <1>3, <1>4 DEF LoadsInv, LoadSound
<1>6. TrackedInv
  BY <1>4 DEF TrackedInv, Tracked
<1>7. IdsInv
  BY <1>4 DEF IdsInv, IdsAt, DirectoryStart
<1>8. CountsInv /\ MineInv
  BY DEF CountsInv, MineInv, DirectoryStart
<1>9. DirectoryType
  BY <1>2, <1>3 DEF DirectoryType, DirectoryStart, NoFinder, Queries
<1>10. PagesInv
  BY <1>2, <1>3 DEF PagesInv, DirectoryStart, NoPanel
<1>11. SearchInv
  BY <1>2, <1>3 DEF SearchInv, SearchAgrees, DirectoryStart, NoFinder
<1> QED BY <1>5, <1>6, <1>7, <1>8, <1>9, <1>10, <1>11 DEF DirectoryInv, Followed

LEMMA DirectoryStep ==
    ASSUME DirectoryInv, [DirectoryNext]_directoryVars
    PROVE  DirectoryInv'
<1>1. CASE OpenHome
  BY <1>1, OpenHomeStep
<1>2. CASE OpenDiscover
  BY <1>2, OpenDiscoverStep
<1>3. CASE StartSearch
  BY <1>3, StartSearchStep
<1>4. CASE ReloadSuggestions
  BY <1>4, ReloadSuggestionsStep
<1>5. CASE \E who \in Folk \cup {Me} : OpenProfile(who) \/ OpenEdges(who)
  BY <1>5, OpenProfileStep, OpenEdgesStep
<1>6. CASE \E q \in DOMAIN Matches \cup {""} : TypeQuery(q)
  BY <1>6, TypeQueryStep DEF Queries
<1>7. CASE \E p \in Folk : ClickFollow(p)
  BY <1>7, ClickFollowStep
<1>8. CASE \E e \in errands : FollowStored(e) \/ UnfollowStored(e)
  BY <1>8, StoredStep
<1>9. CASE \E e \in errands : ErrandFails(e)
  BY <1>9, LoadFailsStep, FollowFailsStep
<1>10. CASE \E e \in errands : \/ GetFollowing(e) \/ GetFollowers(e) \/ GetProfile(e)
                               \/ SearchProfiles(e) \/ SuggestPeople(e)
  BY <1>10, ReadStep
<1>11. CASE \E e \in errands : FollowAnswered(e) \/ FollowRefused(e)
  BY <1>11, FollowAnsweredStep, FollowRefusedStep
<1>12. CASE \E e \in errands : IdsAnswered(e) \/ MeAnswered(e) \/ BarSkipsProfile(e)
  BY <1>12, IdsAnsweredStep, MeAnsweredStep, BarSkipsProfileStep
<1>13. CASE \E e \in errands : ProfileAnswered(e) \/ NameAnswered(e) \/ EdgesAnswered(e)
  BY <1>13, ProfileAnsweredStep, NameAnsweredStep, EdgesAnsweredStep
<1>14. CASE \E e \in errands : \/ PageUnanswered(e) \/ LoadUnanswered(e)
                               \/ SuggestionsAnswered(e) \/ SearchAnswered(e)
  BY <1>14, PageUnansweredStep, LoadUnansweredStep, SuggestionsAnsweredStep, SearchAnsweredStep
<1>15. CASE UNCHANGED directoryVars
  <2>1. /\ UNCHANGED <<follows, cache, hydrated, blurred, view, finder, panelOf, errands>>
    BY <1>15 DEF directoryVars, directoryAux, shownVars
  <2>2. Followed'
    BY <2>1, CalmStep DEF DirectoryInv
  <2>3. DirectoryType'
    BY <2>1 DEF DirectoryInv, DirectoryType
  <2>4. PagesInv'
    BY <2>1 DEF DirectoryInv, PagesInv
  <2>5. SearchInv'
    BY <2>1 DEF DirectoryInv, SearchInv, SearchAgrees
  <2> QED BY <2>2, <2>3, <2>4, <2>5 DEF DirectoryInv
<1> QED BY <1>1, <1>2, <1>3, <1>4, <1>5, <1>6, <1>7, <1>8, <1>9, <1>10, <1>11, <1>12, <1>13,
           <1>14, <1>15 DEF DirectoryNext

LEMMA DirectoryInvHolds ==
    ASSUME DirectoryInv
    PROVE  DirectoryHolds
<1>1. FollowsAgree
  <2>1. SUFFICES ASSUME Quiet
                 PROVE  /\ hydrated => cache.ids \ blurred.ids = follows \ blurred.ids
                        /\ \A w \in (Folk \cup {Me}) \ blurred.counts :
                              cache.counts[w] \in {Uncached, Count(w)}
    BY DEF FollowsAgree
  <2>2. \A x : On(x) = {}
    BY <2>1 DEF Quiet, On
  <2>3. hydrated => cache.ids \ blurred.ids = follows \ blurred.ids
    <3>1. ASSUME hydrated, NEW x \in Folk \ blurred.ids PROVE x \in cache.ids <=> x \in follows
      <4>1. IdsAt(x)
        BY DEF DirectoryInv, Followed, IdsInv
      <4> QED BY <2>2, <3>1, <4>1 DEF IdsAt
    <3>2. cache.ids \subseteq Folk /\ follows \subseteq Folk
      BY DEF DirectoryInv, DirectoryType
    <3> QED BY <3>1, <3>2
  <2>4. ASSUME NEW w \in Folk \ blurred.counts PROVE cache.counts[w] \in {Uncached, Count(w)}
    <3>1. w # Me
      BY DirectoryAssumption
    <3>2. Expected(w) = One(w, follows)
      BY <2>2, ExpectedOfNone
    <3> QED BY <3>1, <3>2 DEF DirectoryInv, Followed, CountsInv, Count, One
  <2>5. ASSUME Me \notin blurred.counts PROVE cache.counts[Me] \in {Uncached, Count(Me)}
    <3>1. Flips("follow") = {} /\ Flips("unfollow") = {}
      BY <2>2 DEF Flips
    <3>2. Cardinality(Flips("follow")) = 0 /\ Cardinality(Flips("unfollow")) = 0
      BY <3>1, FS_EmptySet
    <3>3. Cardinality(follows) \in Nat
      BY FlipsFinite, FS_CardinalityType
    <3>4. ExpectedMine = Cardinality(follows)
      BY <3>2, <3>3 DEF ExpectedMine
    <3> QED BY <2>5, <3>4 DEF DirectoryInv, Followed, MineInv, Count
  <2> QED BY <2>3, <2>4, <2>5
<1>2. PagesAgree
  BY DEF DirectoryInv, PagesInv, PagesAgree
<1>3. SearchAgrees
  BY DEF DirectoryInv, SearchInv
<1> QED BY <1>1, <1>2, <1>3 DEF DirectoryHolds

\* However many people there are, whoever is followed, opened and searched
\* for, and whichever requests fail, overtake or cross each other: once
\* nothing is on its way, the store's followingIds and the counts of its
\* cached profiles are what the service has, but for those a failure or a
\* crossing touched; a page shows what its address names and does not wait
\* for nothing; and the results shown are those of the query typed
\* (profileCache.store.ts, FollowButton.tsx, AppNavBar.tsx, DiscoverPage.tsx).
THEOREM DirectoryKept ==
    ASSUME NEW followed \in SUBSET Folk, NEW taken \in Nat
    PROVE  DirectoryStart(followed, taken) /\ [][DirectoryNext]_directoryVars => []DirectoryHolds
<1>1. DirectoryStart(followed, taken) => DirectoryInv
  BY DirectoryStarts
<1>2. DirectoryInv /\ [DirectoryNext]_directoryVars => DirectoryInv'
  BY DirectoryStep
<1>3. DirectoryInv => DirectoryHolds
  BY DirectoryInvHolds
<1> QED BY <1>1, <1>2, <1>3, PTL
=============================================================================
