--------------------------- MODULE GraphicsTierProofs ---------------------------
(***************************************************************************)
(* The level the user chose survives, for any hardware and any sequence of *)
(* launches and crashes.                                                   *)
(***************************************************************************)
EXTENDS GraphicsTier, TLAPS

\* A non-empty set of levels has a greatest one.
LEMMA MaxOfLevels ==
    ASSUME NEW S \in SUBSET Level, 0 \in S
    PROVE  Max(S) \in Level
<1>1. \E x \in S : \A y \in S : x >= y
  <2>1. CASE 4 \in S
    BY <2>1 DEF Level
  <2>2. CASE 4 \notin S /\ 3 \in S
    BY <2>2 DEF Level
  <2>3. CASE 4 \notin S /\ 3 \notin S /\ 2 \in S
    BY <2>3 DEF Level
  <2>4. CASE 4 \notin S /\ 3 \notin S /\ 2 \notin S
    BY <2>4 DEF Level
  <2>5. QED
    BY <2>1, <2>2, <2>3, <2>4
<1>2. QED
  BY <1>1 DEF Max

LEMMA TierIsLevel ==
    ASSUME NEW family, NEW mb
    PROVE  DetermineTierScalabilityLevel(family, mb) \in Level
<1>1. {0} \cup {l \in 1 .. 4 : mb >= Thresholds(family)[l]} \in SUBSET Level
  BY DEF Level
<1>2. QED
  BY <1>1, MaxOfLevels DEF DetermineTierScalabilityLevel

\* The detected level is a level.
LEMMA DetectedIsLevel ==
    ASSUME NEW tier \in Level, NEW benchmark \in Level
    PROVE  DetectedTier(tier, benchmark) \in Level
<1>1. Min({tier, benchmark}) \in Level
  <2>1. \E x \in {tier, benchmark} : \A y \in {tier, benchmark} : x <= y
    BY DEF Level
  <2>2. QED
    BY <2>1 DEF Min, Level
<1>2. QED
  BY <1>1 DEF DetectedTier, Level

LEMMA LevelIsSet == Unset \notin Level
  BY GraphicsAssumption DEF Level

-----------------------------------------------------------------------------
\* A level can be chosen only once the flag is on disk, and no process that
\* is still to detect a level runs once it is.
DetectionInv ==
    /\ phase = "running" => flag
    /\ phase \in {"cold start", "detected"} => ~flag
    /\ phase = "detected" \/ flag => overall # Unset
    /\ chosen # Unset => flag
    /\ ChoiceSurvives

LEMMA DetectionInit == Init => DetectionInv
  BY DEF Init, DetectionInv, ChoiceSurvives

LEMMA DetectionStep == DetectionInv /\ [Next]_vars => DetectionInv'
<1> SUFFICES ASSUME DetectionInv, [Next]_vars PROVE DetectionInv'
  OBVIOUS
<1> USE DEF DetectionInv, ChoiceSurvives
<1>1. ASSUME NEW family \in Families, NEW mb \in VRAM, Launch(family, mb)
      PROVE  DetectionInv'
  BY <1>1 DEF Launch, savedVars
<1>2. ASSUME NEW level \in Level, AutodetectGraphicsSettings(level)
      PROVE  DetectionInv'
  <2>1. overall' = DetectedTier(DetermineTierScalabilityLevel(gpu, vram), level)
    BY <1>2 DEF AutodetectGraphicsSettings, SetScalabilityLevel
  <2>2. overall' # Unset
    BY <2>1, TierIsLevel, DetectedIsLevel, LevelIsSet
  <2>3. phase = "cold start" /\ phase' = "detected" /\ UNCHANGED <<flag, chosen>>
    BY <1>2 DEF AutodetectGraphicsSettings
  <2>4. QED
    BY <2>2, <2>3
<1>3. CASE SaveFlag
  BY <1>3 DEF SaveFlag
<1>4. ASSUME NEW level \in Level, ChooseLevel(level)
      PROVE  DetectionInv'
  BY <1>4, LevelIsSet DEF ChooseLevel, SetScalabilityLevel
<1>5. CASE Exit
  BY <1>5 DEF Exit, savedVars
<1>6. CASE UNCHANGED vars
  BY <1>6 DEF vars, processVars, savedVars
<1>7. QED
  BY <1>1, <1>2, <1>3, <1>4, <1>5, <1>6 DEF Next

\* No detection overrides a level the user has chosen.
THEOREM ChoicesSurvive == Spec => []ChoiceSurvives
<1>1. DetectionInv => ChoiceSurvives
  BY DEF DetectionInv
<1>2. QED
  BY <1>1, DetectionInit, DetectionStep, PTL DEF Spec

\* The game never takes its level for detected before one is saved.
THEOREM DetectedOnceRunning == Spec => []RunningMeansDetected
<1>1. DetectionInv => RunningMeansDetected
  BY DEF DetectionInv, RunningMeansDetected
<1>2. QED
  BY <1>1, DetectionInit, DetectionStep, PTL DEF Spec

\* Once the flag is on disk only the user changes the level.
THEOREM LevelIsSettled == Spec => SettledOnceDetected
<1>1. ASSUME DetectionInv, Next, flag, overall' # overall
      PROVE  phase = "running" /\ chosen' = overall'
  <2>1. phase # "cold start"
    BY <1>1 DEF DetectionInv
  <2>2. PICK level \in Level : ChooseLevel(level)
    BY <1>1, <2>1 DEF Next, Launch, AutodetectGraphicsSettings, SaveFlag, Exit, savedVars
  <2>3. QED
    BY <2>2 DEF ChooseLevel, SetScalabilityLevel
<1>2. QED
  BY <1>1, DetectionInit, DetectionStep, PTL DEF Spec, SettledOnceDetected

-----------------------------------------------------------------------------
(* Types                                                                   *)

LEMMA LevelsAreIntegers == Level \subseteq Int /\ 2 \in Level
  BY DEF Level

\* Only levels of the engine are saved.
LEMMA SettingKeepsLevels ==
    ASSUME NEW level \in Level, SetScalabilityLevel(level), rayTracing \in BOOLEAN
    PROVE  /\ overall' \in Level /\ texture' \in Level /\ rayTracing' \in BOOLEAN
  BY LevelsAreIntegers DEF SetScalabilityLevel

LEMMA TypeInit == Init => TypeOK
  BY DEF Init, TypeOK, Phases

LEMMA TypeStep == TypeOK /\ [Next]_vars => TypeOK'
<1> SUFFICES ASSUME TypeOK, [Next]_vars PROVE TypeOK'
  OBVIOUS
<1>1. ASSUME NEW family \in Families, NEW mb \in VRAM, Launch(family, mb)
      PROVE  TypeOK'
  BY <1>1 DEF TypeOK, Launch, savedVars, Phases
<1>2. ASSUME NEW level \in Level, AutodetectGraphicsSettings(level) PROVE TypeOK'
  <2>1. DetectedTier(DetermineTierScalabilityLevel(gpu, vram), level) \in Level
    BY TierIsLevel, DetectedIsLevel
  <2>2. /\ overall' \in Level /\ texture' \in Level /\ rayTracing' \in BOOLEAN
    BY <1>2, <2>1, SettingKeepsLevels DEF AutodetectGraphicsSettings, TypeOK
  <2>3. QED
    BY <1>2, <2>2 DEF AutodetectGraphicsSettings, TypeOK, Phases
<1>3. CASE SaveFlag
  BY <1>3 DEF SaveFlag, TypeOK, Phases
<1>4. ASSUME NEW level \in Level, ChooseLevel(level) PROVE TypeOK'
  <2>1. /\ overall' \in Level /\ texture' \in Level /\ rayTracing' \in BOOLEAN
    BY <1>4, SettingKeepsLevels DEF ChooseLevel, TypeOK
  <2>2. QED
    BY <1>4, <2>1 DEF ChooseLevel, TypeOK, Phases
<1>5. CASE Exit
  BY <1>5 DEF Exit, TypeOK, savedVars, Phases
<1>6. CASE UNCHANGED vars
  BY <1>6 DEF vars, processVars, savedVars, TypeOK
<1>7. QED
  BY <1>1, <1>2, <1>3, <1>4, <1>5, <1>6 DEF Next

\* Type correctness: whatever hardware and benchmark answer, only levels of the
\* engine are saved.
THEOREM TypeCorrect == Spec => []TypeOK
  BY TypeInit, TypeStep, PTL DEF Spec

=============================================================================
