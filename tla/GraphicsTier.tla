------------------------------ MODULE GraphicsTier ------------------------------
(***************************************************************************)
(* The first-launch detection of the graphics level by UIoroomGameInstance *)
(* and its settings on disk, across launches, crashes in the middle of     *)
(* Init, changes of hardware and levels chosen by the user.                *)
(***************************************************************************)
EXTENDS Integers, FiniteSetsExt

CONSTANTS VRAM,     \* the amounts of graphics memory, in MB
          Unset     \* no value saved, or nothing chosen

ASSUME GraphicsAssumption == VRAM \subseteq Nat /\ Unset \notin Int

VARIABLES
    phase,      \* how far Init of the running process has come
    gpu,        \* the family CachedGPUName belongs to
    vram,       \* DetectedVRAMMB
    rayTracing, \* r.Lumen.HardwareRayTracing, which is not saved
    flag,       \* bHasAutoDetectedGraphics in GameUserSettings.ini
    overall,    \* ... the level of the quality groups, but for
    texture,    \* ... the level of the texture group
    chosen      \* history: the level the user chose last

processVars == <<phase, gpu, vram, rayTracing>>
savedVars == <<flag, overall, texture>>
vars == <<processVars, savedVars, chosen>>

Families == {"Apple", "RTX", "other"}
Level == 0 .. 4
Phases == {"off", "cold start", "detected", "running"}

TypeOK ==
    /\ phase \in Phases
    /\ gpu \in Families /\ vram \in VRAM
    /\ rayTracing \in BOOLEAN /\ flag \in BOOLEAN
    /\ overall \in Level \cup {Unset}
    /\ texture \in Level \cup {Unset}
    /\ chosen \in Level \cup {Unset}

Init ==
    /\ phase = "off"
    /\ gpu \in Families /\ vram \in VRAM
    /\ rayTracing = FALSE /\ flag = FALSE
    /\ overall = Unset /\ texture = Unset /\ chosen = Unset

-----------------------------------------------------------------------------
\* The memory from which each level but the lowest is reached.
Thresholds(family) ==
    IF family = "Apple" THEN <<6000, 10000, 24000, 48000>>
                        ELSE <<6000, 8000, 13000, 19000>>

DetermineTierScalabilityLevel(family, mb) ==
    Max({0} \cup {l \in 1 .. 4 : mb >= Thresholds(family)[l]})

\* Only the middle tiers are submitted to the benchmark, which answers with a
\* level: the clamp that follows changes nothing.
DetectedTier(tier, benchmark) == IF tier \in {1, 2} THEN Min({tier, benchmark}) ELSE tier

\* ApplySettings saves what SetOverallScalabilityLevel and SetTextureQuality
\* set.  Nothing ever switches hardware ray tracing off again.
SetScalabilityLevel(level) ==
    /\ overall' = level
    /\ texture' = IF level <= 1 THEN 2 ELSE level
    /\ rayTracing' = (rayTracing \/ (level >= 3 /\ gpu = "RTX"))

\* Mutant: other hardware than last time is a first launch again.
LaunchOnNewHardware(family, mb) ==
    /\ phase = "off"
    /\ phase' = IF flag /\ gpu = family THEN "running" ELSE "cold start"
    /\ gpu' = family /\ vram' = mb
    /\ rayTracing' = FALSE
    /\ UNCHANGED <<savedVars, chosen>>

\* Init begins, on the hardware the computer has today.
Launch(family, mb) ==
    /\ phase = "off"
    /\ phase' = IF flag THEN "running" ELSE "cold start"
    /\ gpu' = family /\ vram' = mb
    /\ rayTracing' = FALSE
    /\ UNCHANGED <<savedVars, chosen>>

\* Mutant: the flag is written first.
FlagBeforeDetection(benchmark) ==
    /\ phase = "cold start"
    /\ phase' = "detected"
    /\ flag' = TRUE
    /\ UNCHANGED <<gpu, vram, rayTracing, overall, texture, chosen>>

AutodetectGraphicsSettings(benchmark) ==
    /\ phase = "cold start"
    /\ phase' = "detected"
    /\ SetScalabilityLevel(DetectedTier(DetermineTierScalabilityLevel(gpu, vram), benchmark))
    /\ UNCHANGED <<gpu, vram, flag, chosen>>

\* Mutant: the flag is set and not flushed.
FlagStaysInMemory ==
    /\ phase = "detected"
    /\ phase' = "running"
    /\ UNCHANGED <<gpu, vram, rayTracing, savedVars, chosen>>

\* SetBool and Flush.
SaveFlag ==
    /\ phase = "detected"
    /\ phase' = "running"
    /\ flag' = TRUE
    /\ UNCHANGED <<gpu, vram, rayTracing, overall, texture, chosen>>

\* The user interface calls SetScalabilityLevel.
ChooseLevel(level) ==
    /\ phase = "running"
    /\ SetScalabilityLevel(level)
    /\ chosen' = level
    /\ UNCHANGED <<phase, gpu, vram, flag>>

\* The process ends: the user quits, or it is killed at any point of Init.
Exit ==
    /\ phase # "off"
    /\ phase' = "off"
    /\ rayTracing' = FALSE
    /\ UNCHANGED <<gpu, vram, savedVars, chosen>>

Next ==
    \/ \E family \in Families, mb \in VRAM : Launch(family, mb)
    \/ \E level \in Level : AutodetectGraphicsSettings(level) \/ ChooseLevel(level)
    \/ SaveFlag
    \/ Exit

Spec == Init /\ [][Next]_vars

-----------------------------------------------------------------------------
(* Properties                                                              *)

\* The level the user chose is never replaced by a detection, whatever crash
\* or new hardware comes in between (bHasAutoDetectedGraphics).
ChoiceSurvives == chosen # Unset => overall = chosen

\* No launch takes the settings for detected before they are: a crash in the
\* middle of the first Init does not leave the game without a level.
RunningMeansDetected == phase = "running" \/ flag => overall # Unset

\* Once the flag is on disk no launch detects again, on whatever hardware it
\* finds itself: the level that is saved changes only when the user chooses
\* one, also while none has been chosen yet.
SettledOnceDetected ==
    [][flag /\ overall' # overall => phase = "running" /\ chosen' = overall']_vars
=============================================================================
