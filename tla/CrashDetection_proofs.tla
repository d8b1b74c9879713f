------------------------ MODULE CrashDetection_proofs ------------------------
(***************************************************************************)
(* Proofs about module CrashDetection: the type invariant, and what is     *)
(* true of every report.  The detector compares wall clock times; the      *)
(* invariant ties them to the true ones as long as nobody sets the clock.  *)
(***************************************************************************)
EXTENDS CrashDetection, TLAPS

\* The candidate is there while jumps are being counted, and the wall clock says
\* the truth unless it was set.
Measures == /\ candidate_active <=> jolts > 0
            /\ ~stepped => since = gap
            /\ ~stepped /\ candidate_active => age = span

\* Only between Judge and Sleep is there a report, and it is a proper one.
Reported == /\ pc = "sleep" /\ ~candidate_active /\ since = 0
            /\ CrashConfirmed /\ CrashOnce

CrashInv == /\ CrashTypeOK
            /\ IF report = "none" THEN Measures ELSE Reported

\* CrashTypeOK in three parts.
ControlTypeOK == /\ pc \in Waiting \cup {"off", "uart", "loop", "judge", "sleep"}
                 /\ g_stop \in BOOLEAN /\ candidate_active \in BOOLEAN /\ stepped \in BOOLEAN
                 /\ imu \in {"answers", "silent"} /\ uart \in {"live", "slain"}
SampleTypeOK == /\ prev \in Samples \cup {<<>>} /\ sample \in Samples \cup {<<>>}
                /\ report \in Sides \cup {"none"}
                /\ seen \in {"jolt", "calm", "nothing"}
ClockTypeOK == /\ age \in Int /\ age <= Confirm
               /\ since \in Int /\ since <= Cooldown
               /\ steps \in 0 .. MaxSteps /\ jolts \in 0 .. 2
               /\ span \in 0 .. Confirm /\ gap \in 0 .. Cooldown

LEMMA CrashTypeParts ==
  /\ CrashTypeOK <=> ControlTypeOK /\ SampleTypeOK /\ ClockTypeOK
  /\ CrashTypeOK' <=> ControlTypeOK' /\ SampleTypeOK' /\ ClockTypeOK'
BY DEF CrashTypeOK, ControlTypeOK, SampleTypeOK, ClockTypeOK

\* The history and the detector's own numbers.
clockVars == <<candidate_active, age, since, report, jolts, span, gap, stepped>>

LEMMA LaterBounds ==
  ASSUME NEW t \in Int, NEW d \in Int, NEW top \in Int
  PROVE  Later(t, d, top) \in Int /\ Later(t, d, top) <= top
BY DEF Later

LEMMA MovedBounds ==
  ASSUME NEW t \in Int, NEW s \in Int, NEW top \in Int, t <= top,
         NEW v \in Moved(t, s, top)
  PROVE  v \in Int /\ v <= top
BY LaterBounds DEF Moved

\* Steps that touch neither the clocks nor the reports.
LEMMA OthersKeepInv ==
  ASSUME CrashInv, CrashTypeOK', UNCHANGED clockVars, pc = "sleep" => pc' = "sleep"
  PROVE  CrashInv'
BY DEF CrashInv, clockVars, Measures, Reported, CrashConfirmed, CrashOnce

LEMMA EndsKeepsInv ==
  ASSUME CrashInv, Ends
  PROVE  CrashInv'
<1>0. CrashTypeOK
  BY DEF CrashInv
<1>1. ControlTypeOK'
  <2>1. g_stop' \in BOOLEAN /\ candidate_active' \in BOOLEAN /\ stepped' \in BOOLEAN
    BY Zenon DEF Ends
  <2> QED BY <1>0, <2>1, CrashTypeParts DEF Ends, ControlTypeOK
<1>2. SampleTypeOK'
  BY DEF Ends, SampleTypeOK
<1>3. ClockTypeOK'
  BY <1>0, CrashTypeParts, CrashAssumption DEF Ends, ClockTypeOK
<1>4. Measures' /\ report' = "none"
  BY DEF Ends, Measures
<1> QED BY <1>1, <1>2, <1>3, <1>4, CrashTypeParts DEF CrashInv

LEMMA SidesOfSamples == \A a : classify_impact_from(a) \in Sides
BY DEF classify_impact_from, Sides

LEMMA JudgeKeepsInv ==
  ASSUME CrashInv, Judge
  PROVE  CrashInv'
<1>0. CrashTypeOK /\ Measures
  BY DEF CrashInv, Reported, Judge
<1>a. jolts \in 0 .. 2 /\ span \in 0 .. Confirm /\ gap \in 0 .. Cooldown
      /\ age \in Int /\ since \in Int /\ age <= Confirm /\ since <= Cooldown
      /\ Confirm \in Nat \ {0} /\ Cooldown \in Nat \ {0}
  BY <1>0, CrashAssumption DEF CrashTypeOK
<1>b. Jolted <=> seen' = "jolt"
  BY DEF Judge, Jolted
<1>c. /\ jolts' = IF ~Jolted THEN 0 ELSE IF jolts = 0 THEN 1 ELSE 2
      /\ span' = IF jolts > 0 /\ Jolted THEN span ELSE 0
      /\ gap' = gap /\ stepped' = stepped /\ pc' = "sleep"
  BY <1>b, SMT DEF Judge
<1>1. CASE Jolted /\ CandidateAge >= Confirm /\ since >= Cooldown
  <2>1. candidate_active /\ age >= Confirm /\ since = Cooldown
    BY <1>a, <1>1 DEF CandidateAge
  <2>2. jolts > 0 /\ jolts' = 2 /\ span' = span
    BY <1>0, <1>1, <1>a, <1>c, <2>1 DEF Measures
  <2>3. ~stepped => span = Confirm /\ gap = Cooldown
    BY <1>0, <1>a, <2>1 DEF Measures
  <2>4. report' \in Sides /\ since' = 0 /\ candidate_active' = FALSE /\ age' = 0
    BY <1>1, SidesOfSamples DEF Judge, Logs
  <2>5. CrashTypeOK'
    <3>1. ControlTypeOK'
      <4>1. candidate_active' \in BOOLEAN
        BY <2>4, Zenon
      <4> QED BY <1>0, <1>c, <4>1, CrashTypeParts DEF Judge, deviceVars, ControlTypeOK
    <3>2. SampleTypeOK'
      BY <1>0, <2>4, CrashTypeParts DEF Judge, SampleTypeOK
    <3>3. ClockTypeOK'
      BY <1>0, <1>a, <1>c, <2>2, <2>4, CrashTypeParts DEF Judge, ClockTypeOK
    <3> QED BY <3>1, <3>2, <3>3, CrashTypeParts
  <2>6. report' # "none"
    BY <2>4 DEF Sides
  <2>7. Reported'
    BY <1>c, <2>2, <2>3, <2>4 DEF Reported, CrashConfirmed, CrashOnce
  <2> QED BY <2>5, <2>6, <2>7 DEF CrashInv
<1>2. CASE ~(Jolted /\ CandidateAge >= Confirm /\ since >= Cooldown)
  <2>1. /\ candidate_active' = Jolted
        /\ age' = IF Jolted THEN CandidateAge ELSE 0
        /\ report' = report /\ since' = since
    BY <1>2 DEF Judge
  <2>2. report = "none"
    BY DEF CrashInv, Reported, Judge
  <2>3. Jolted \in BOOLEAN
    BY DEF Jolted, Jolt
  <2>4. age' \in Int /\ age' <= Confirm /\ jolts' \in 0 .. 2 /\ span' \in 0 .. Confirm
    BY <1>a, <1>c, <2>1 DEF CandidateAge
  <2>5. candidate_active' \in BOOLEAN
    BY <2>1, <2>3, Zenon
  <2>6. CrashTypeOK'
    <3>1. ControlTypeOK'
      BY <1>0, <1>c, <2>5, CrashTypeParts DEF Judge, deviceVars, ControlTypeOK
    <3>2. SampleTypeOK'
      BY <1>0, <2>1, CrashTypeParts DEF Judge, SampleTypeOK
    <3>3. ClockTypeOK'
      BY <1>0, <1>a, <1>c, <2>1, <2>4, CrashTypeParts DEF Judge, ClockTypeOK
    <3> QED BY <3>1, <3>2, <3>3, CrashTypeParts
  <2>7. Measures'
    <3>1. (candidate_active <=> jolts > 0)'
      BY <1>a, <1>c, <2>1
    <3>2. (~stepped => since = gap)'
      BY <1>0, <1>c, <2>1 DEF Measures
    <3>3. (~stepped /\ candidate_active => age = span)'
      BY <1>0, <1>a, <1>c, <2>1 DEF Measures, CandidateAge
    <3> QED BY <3>1, <3>2, <3>3 DEF Measures
  <2> QED BY <2>1, <2>2, <2>6, <2>7 DEF CrashInv
<1> QED BY <1>1, <1>2

LEMMA SleepKeepsInv ==
  ASSUME CrashInv, Sleep
  PROVE  CrashInv'
<1>0. CrashTypeOK
  BY DEF CrashInv
<1>1. PICK d \in Periods :
        /\ age' = IF candidate_active THEN Later(age, d, Confirm) ELSE 0
        /\ since' = Later(since, d, Cooldown)
        /\ span' = IF jolts > 0 /\ report = "none" THEN Later(span, d, Confirm) ELSE 0
        /\ gap' = Later(IF report = "none" THEN gap ELSE 0, d, Cooldown)
  BY DEF Sleep
<1>2. /\ d \in Nat /\ Confirm \in Nat /\ Cooldown \in Nat
      /\ age \in Int /\ since \in Int /\ jolts \in 0 .. 2
      /\ span \in 0 .. Confirm /\ gap \in 0 .. Cooldown
  BY <1>0, CrashAssumption DEF CrashTypeOK
<1>3. /\ report' = "none" /\ jolts' = IF report = "none" THEN jolts ELSE 0
      /\ stepped' = (stepped /\ report = "none") /\ pc' = "loop"
      /\ candidate_active' = candidate_active
  BY DEF Sleep
<1>4. /\ age' \in Int /\ age' <= Confirm /\ since' \in Int /\ since' <= Cooldown
      /\ span' \in 0 .. Confirm /\ gap' \in 0 .. Cooldown /\ jolts' \in 0 .. 2
  BY <1>1, <1>2, <1>3 DEF Later
<1>5. stepped' \in BOOLEAN
  BY <1>3, Zenon
<1>6. CrashTypeOK'
  <2>1. ControlTypeOK'
    BY <1>0, <1>3, <1>5, CrashTypeParts DEF Sleep, deviceVars, ControlTypeOK
  <2>2. SampleTypeOK'
    BY <1>0, <1>3, CrashTypeParts DEF Sleep, SampleTypeOK
  <2>3. ClockTypeOK'
    BY <1>0, <1>4, CrashTypeParts DEF Sleep, ClockTypeOK
  <2> QED BY <2>1, <2>2, <2>3, CrashTypeParts
<1>7. CASE report = "none"
  <2>1. Measures
    BY <1>7 DEF CrashInv
  <2>2. Measures'
    BY <1>1, <1>2, <1>3, <1>7, <2>1 DEF Measures
  <2> QED BY <1>3, <1>6, <2>2 DEF CrashInv
<1>8. CASE report # "none"
  <2>1. Reported
    BY <1>8 DEF CrashInv
  <2>2. Measures'
    BY <1>1, <1>3, <1>8, <2>1 DEF Measures, Reported
  <2> QED BY <1>3, <1>6, <2>2 DEF CrashInv
<1> QED BY <1>7, <1>8

LEMMA ClockSetKeepsInv ==
  ASSUME CrashInv, ClockSet
  PROVE  CrashInv'
<1>0. CrashTypeOK /\ Measures
  BY DEF CrashInv, Reported, ClockSet
<1>1. PICK s \in Steps :
        /\ age' \in IF candidate_active THEN Moved(age, s, Confirm) ELSE {0}
        /\ since' \in Moved(since, s, Cooldown)
  BY DEF ClockSet
<1>2. s \in Int /\ Confirm \in Nat /\ Cooldown \in Nat
  BY CrashAssumption
<1>3. since' \in Int /\ since' <= Cooldown
  BY <1>0, <1>1, <1>2, MovedBounds DEF CrashTypeOK
<1>4. age' \in Int /\ age' <= Confirm
  BY <1>0, <1>1, <1>2, MovedBounds DEF CrashTypeOK
<1>5. CrashTypeOK'
  <2>1. ControlTypeOK'
    <3>1. stepped' \in BOOLEAN
      BY Zenon DEF ClockSet
    <3> QED BY <1>0, <3>1, CrashTypeParts DEF ClockSet, deviceVars, ControlTypeOK
  <2>2. SampleTypeOK'
    BY <1>0, CrashTypeParts DEF ClockSet, SampleTypeOK
  <2>3. ClockTypeOK'
    BY <1>0, <1>3, <1>4, CrashTypeParts, CrashAssumption DEF ClockSet, ClockTypeOK
  <2> QED BY <2>1, <2>2, <2>3, CrashTypeParts
<1>6. Measures' /\ report' = "none"
  BY <1>0 DEF ClockSet, Measures, CrashInv, Reported
<1> QED BY <1>5, <1>6 DEF CrashInv

LEMMA CrashInvInductive == CrashInv /\ [Next]_vars => CrashInv'
<1> SUFFICES ASSUME CrashInv, [Next]_vars
             PROVE  CrashInv'
  OBVIOUS
<1> USE DEF clockVars, historyVars, detectorVars, deviceVars
<1>0. CrashTypeOK
  BY DEF CrashInv
<1>1. CASE DetectorStarts \/ OpensUart
  BY <1>0, <1>1, OthersKeepInv DEF DetectorStarts, OpensUart, CrashTypeOK, Waiting
<1>2. CASE UartFails \/ DetectorDies \/ StartFails
  BY <1>2, EndsKeepsInv DEF UartFails, DetectorDies, StartFails
<1>3. CASE StartAnswered
  <2>1. pc' \in Waiting \cup {"loop"} /\ pc # "sleep"
    BY <1>3 DEF StartAnswered, Waiting
  <2>2. CrashTypeOK'
    BY <1>0, <1>3, <2>1 DEF StartAnswered, CrashTypeOK
  <2> QED BY <1>3, <2>1, <2>2, OthersKeepInv DEF StartAnswered
<1>4. CASE Loop
  <2>1. CASE Ends
    BY <2>1, EndsKeepsInv
  <2>2. CASE ~g_stop
    BY <1>0, <1>4, <2>2, OthersKeepInv DEF Loop, CrashTypeOK, Waiting
  <2> QED BY <1>4, <2>1, <2>2 DEF Loop
<1>5. CASE bno_read_block
  BY <1>0, <1>5, OthersKeepInv DEF bno_read_block, CrashTypeOK
<1>6. CASE ReadFails
  BY <1>0, <1>6, OthersKeepInv DEF ReadFails, CrashTypeOK
<1>7. CASE Signal \/ FallsSilent \/ UartSlain
  BY <1>0, <1>7, OthersKeepInv DEF Signal, FallsSilent, UartSlain, CrashTypeOK
<1>8. CASE UNCHANGED vars
  BY <1>0, <1>8, OthersKeepInv DEF vars, CrashTypeOK
<1> QED
  BY <1>1, <1>2, <1>3, <1>4, <1>5, <1>6, <1>7, <1>8, JudgeKeepsInv, SleepKeepsInv,
     ClockSetKeepsInv DEF Next, Reads, Fails

LEMMA CrashInvCorrect == Spec => []CrashInv
<1>1. ASSUME Init PROVE CrashInv
  <2>1. ControlTypeOK
    <3>1. g_stop \in BOOLEAN /\ candidate_active \in BOOLEAN /\ stepped \in BOOLEAN
      BY <1>1, Zenon DEF Init
    <3> QED BY <1>1, <3>1 DEF Init, ControlTypeOK
  <2>2. SampleTypeOK /\ ClockTypeOK /\ Measures
    BY <1>1, CrashAssumption DEF Init, SampleTypeOK, ClockTypeOK, Measures
  <2> QED BY <1>1, <2>1, <2>2, CrashTypeParts DEF Init, CrashInv
<1> QED BY <1>1, CrashInvInductive, PTL DEF Spec

\* Every variable keeps its type: the bounds of the clocks hold whoever sets them
\* (crash_detection.cpp:241-302).
THEOREM CrashTypeCorrect == Spec => []CrashTypeOK
<1>1. CrashInv => CrashTypeOK
  BY DEF CrashInv
<1> QED BY <1>1, CrashInvCorrect, PTL

\* A crash is never reported for a single jump, nor for jumps that lasted less
\* than CONFIRM_MS or had a calm sample between them (crash_detection.cpp:265-293).
THEOREM CrashConfirmedCorrect == Spec => []CrashConfirmed
<1>1. CrashInv => CrashConfirmed
  BY DEF CrashInv, Reported, CrashConfirmed
<1> QED BY <1>1, CrashInvCorrect, PTL

\* Reports lie CRASH_COOLDOWN_MS apart unless the clock was set
\* (crash_detection.cpp:272-287).
THEOREM CrashOnceCorrect == Spec => []CrashOnce
<1>1. CrashInv => CrashOnce
  BY DEF CrashInv, Reported, CrashOnce
<1> QED BY <1>1, CrashInvCorrect, PTL

=============================================================================
