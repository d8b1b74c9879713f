--------------------------- MODULE CrashDetection ---------------------------
(***************************************************************************)
(* The crash detector: src/src/crash_detection/src/crash_detection.cpp.    *)
(* One thread asks the IMU for an acceleration over a serial line about    *)
(* every 15 ms and compares it with the one before.  A jump is a crash     *)
(* when jumps go on for Confirm without a calm sample between and the last *)
(* report is Cooldown ago, both by the wall clock, which may be set while  *)
(* the program runs.  The only output is a line in a log file.             *)
(***************************************************************************)
EXTENDS Integers

CONSTANTS
  Samples,   \* accelerations <<x, y, z>> in cm/s^2
  Confirm,   \* CONFIRM_MS in units of time
  Cooldown,  \* CRASH_COOLDOWN_MS in units of time
  Periods,   \* what an iteration of the loop may take
  Steps,     \* by how much somebody may set the clock
  MaxSteps   \* bound: how often

ASSUME CrashAssumption ==
  /\ Samples \subseteq Int \X Int \X Int
  /\ Confirm \in Nat \ {0} /\ Cooldown \in Nat \ {0}
  /\ Periods \subseteq Nat \ {0} /\ Steps \subseteq Int /\ MaxSteps \in Nat

VARIABLES
  pc,       \* "off", "uart", "chip", "config", "ndof", "loop", "read", "judge"
            \* or "sleep"
  g_stop,
  imu,      \* "answers" or "silent"
  uart,     \* the driver behind the descriptor: "live" or "slain"
  prev,     \* prev_ax, prev_ay, prev_az, or <<>> while have_prev is false
  sample,   \* current_ax, current_ay, current_az
  candidate_active,
  age,      \* loop_now - candidate_start_time, by the wall clock
  since,    \* loop_now - last_logged_crash_time, by the wall clock
  report,   \* the side named in the log by this iteration, or "none"
  steps     \* how often the clock was set

detectorVars == <<prev, sample, candidate_active, age, since>>
deviceVars == <<imu, uart>>

\* What really happened, for the properties.
VARIABLES
  seen,     \* what the last iteration read: "jolt", "calm" or "nothing"
  jolts,    \* jumps since the last calm sample or report, at most 2
  span,     \* true time since the first of them, at most Confirm
  gap,      \* true time since the last report, at most Cooldown
  stepped   \* the clock was set since the last report

historyVars == <<seen, jolts, span, gap, stepped>>
vars == <<pc, g_stop, detectorVars, deviceVars, report, steps, historyVars>>

Sides == {"Left", "Right", "Back", "Front"}
Waiting == {"chip", "config", "ndof", "read"}

CrashTypeOK ==
  /\ pc \in Waiting \cup {"off", "uart", "loop", "judge", "sleep"}
  /\ g_stop \in BOOLEAN
  /\ imu \in {"answers", "silent"} /\ uart \in {"live", "slain"}
  /\ prev \in Samples \cup {<<>>} /\ sample \in Samples \cup {<<>>}
  /\ candidate_active \in BOOLEAN
  /\ age \in Int /\ age <= Confirm
  /\ since \in Int /\ since <= Cooldown
  /\ report \in Sides \cup {"none"} /\ steps \in 0 .. MaxSteps
  /\ seen \in {"jolt", "calm", "nothing"} /\ jolts \in 0 .. 2
  /\ span \in 0 .. Confirm /\ gap \in 0 .. Cooldown /\ stepped \in BOOLEAN

\* last_logged_crash_time starts so far back that the first crash counts.
Init == /\ pc = "off" /\ g_stop = FALSE
        /\ imu = "answers" /\ uart = "live"
        /\ prev = <<>> /\ sample = <<>>
        /\ candidate_active = FALSE /\ age = 0 /\ since = Cooldown
        /\ report = "none" /\ steps = 0
        /\ seen = "nothing" /\ jolts = 0 /\ span = 0 /\ gap = Cooldown /\ stepped = FALSE

-----------------------------------------------------------------------------
(* Start and end. *)

DetectorStarts == /\ pc = "off" /\ pc' = "uart"
                  /\ UNCHANGED <<g_stop, detectorVars, deviceVars, report, steps, historyVars>>

\* The serial driver is slain and started anew, and the device opened.
OpensUart == /\ pc = "uart" /\ pc' = "chip"
             /\ UNCHANGED <<g_stop, detectorVars, deviceVars, report, steps, historyVars>>

\* run_crash_detector() returns, or the process is killed.
Ends == /\ pc' = "off" /\ g_stop' = FALSE /\ uart' = "live"
        /\ prev' = <<>> /\ sample' = <<>>
        /\ candidate_active' = FALSE /\ age' = 0 /\ since' = Cooldown /\ report' = "none"
        /\ seen' = "nothing" /\ jolts' = 0 /\ span' = 0 /\ gap' = Cooldown /\ stepped' = FALSE
        /\ UNCHANGED <<imu, steps>>

UartFails == pc = "uart" /\ Ends
DetectorDies == pc # "off" /\ Ends

\* The chip's number is read, then two registers are written.
StartAnswered == /\ pc \in {"chip", "config", "ndof"} /\ imu = "answers" /\ uart = "live"
                 /\ pc' = [chip |-> "config", config |-> "ndof", ndof |-> "loop"][pc]
                 /\ UNCHANGED <<g_stop, detectorVars, deviceVars, report, steps, historyVars>>

StartFails == pc \in {"chip", "config", "ndof"} /\ Ends

\* Wrong variant: the flag is not looked at.
LoopForever == /\ pc = "loop" /\ pc' = "read"
               /\ UNCHANGED <<g_stop, detectorVars, deviceVars, report, steps, historyVars>>

Loop == /\ pc = "loop"
        /\ IF g_stop THEN Ends
                     ELSE /\ pc' = "read"
                          /\ UNCHANGED <<g_stop, detectorVars, deviceVars, report, steps,
                                         historyVars>>

-----------------------------------------------------------------------------
(* One iteration. *)

bno_read_block == /\ pc = "read" /\ imu = "answers" /\ uart = "live"
                  /\ sample' \in Samples
                  /\ pc' = "judge"
                  /\ UNCHANGED <<g_stop, prev, candidate_active, age, since, deviceVars,
                                 report, steps, historyVars>>

\* An error answer, a line nobody serves any more, a signal: nothing is changed.
ReadFails == /\ pc = "read" /\ pc' = "sleep"
             /\ seen' = "nothing"
             /\ UNCHANGED <<g_stop, detectorVars, deviceVars, report, steps,
                            jolts, span, gap, stepped>>

Square(a) == a * a
Jolt(p, q) == Square(p[1] - q[1]) + Square(p[2] - q[2]) + Square(p[3] - q[3]) > Square(1000)
Abs(a) == IF a < 0 THEN -a ELSE a

classify_impact_from(a) == IF Abs(a[1]) > Abs(a[2])
                             THEN IF a[1] > 0 THEN "Left" ELSE "Right"
                             ELSE IF a[2] > 0 THEN "Back" ELSE "Front"

\* Wrong variant: the first sample is compared with nothing.
JoltedAlways == prev = <<>> \/ Jolt(sample, prev)
Jolted == prev # <<>> /\ Jolt(sample, prev)

\* Wrong variant: every jump starts anew.
CandidateAgeRestarts == 0

\* The first jump starts the candidate.
CandidateAge == IF candidate_active THEN age ELSE 0

\* Wrong variant: the time of a report is forgotten.
LogsForgets == /\ report' = classify_impact_from(sample)
               /\ UNCHANGED since
Logs == /\ report' = classify_impact_from(sample)
        /\ since' = 0

Judge ==
  /\ pc = "judge" /\ pc' = "sleep"
  /\ prev' = sample
  /\ IF Jolted /\ CandidateAge >= Confirm /\ since >= Cooldown
       THEN Logs /\ candidate_active' = FALSE /\ age' = 0
       ELSE /\ candidate_active' = Jolted
            /\ age' = IF Jolted THEN CandidateAge ELSE 0
            /\ UNCHANGED <<report, since>>
  /\ seen' = IF prev # <<>> /\ Jolt(sample, prev) THEN "jolt" ELSE "calm"
  /\ jolts' = IF seen' # "jolt" THEN 0 ELSE IF jolts = 0 THEN 1 ELSE 2
  /\ span' = IF jolts > 0 /\ seen' = "jolt" THEN span ELSE 0
  /\ UNCHANGED <<g_stop, sample, deviceVars, steps, gap, stepped>>

Later(t, d, top) == IF t + d < top THEN t + d ELSE top

\* usleep(), and loop_now of the next iteration.
Sleep ==
  /\ pc = "sleep" /\ pc' = "loop"
  /\ \E d \in Periods :
       /\ age' = IF candidate_active THEN Later(age, d, Confirm) ELSE 0
       /\ since' = Later(since, d, Cooldown)
       /\ span' = IF jolts > 0 /\ report = "none" THEN Later(span, d, Confirm) ELSE 0
       /\ gap' = Later(IF report = "none" THEN gap ELSE 0, d, Cooldown)
  /\ report' = "none"
  /\ jolts' = IF report = "none" THEN jolts ELSE 0
  /\ stepped' = (stepped /\ report = "none")
  /\ sample' = <<>>
  /\ UNCHANGED <<g_stop, prev, candidate_active, deviceVars, steps, seen>>

-----------------------------------------------------------------------------
(* What happens to it. *)

\* A time that reached its bound may be anything beyond it.
Moved(t, s, top) == IF t = top /\ s < 0 THEN top + s .. top ELSE {Later(t, s, top)}

\* The time is set before loop_now is read.
ClockSet == /\ pc = "loop" /\ steps < MaxSteps
            /\ \E s \in Steps :
                 /\ age' \in IF candidate_active THEN Moved(age, s, Confirm) ELSE {0}
                 /\ since' \in Moved(since, s, Cooldown)
            /\ steps' = steps + 1
            /\ stepped' = TRUE
            /\ UNCHANGED <<pc, g_stop, prev, sample, candidate_active, deviceVars, report,
                           seen, jolts, span, gap>>

\* The handler only sets the flag.
Signal == /\ pc # "off" /\ g_stop' = TRUE
          /\ UNCHANGED <<pc, detectorVars, deviceVars, report, steps, historyVars>>

FallsSilent == /\ imu = "answers" /\ imu' = "silent"
               /\ UNCHANGED <<pc, g_stop, detectorVars, uart, report, steps, historyVars>>

\* Another detector or the launcher slays the serial driver.
UartSlain == /\ pc \notin {"off", "uart"} /\ uart' = "slain"
             /\ UNCHANGED <<pc, g_stop, detectorVars, imu, report, steps, historyVars>>

Reads == StartAnswered \/ bno_read_block
Fails == StartFails \/ ReadFails

\* A read comes back unless it waits for an IMU that is silent.
Returns == (Reads \/ Fails) /\ (imu = "answers" \/ uart = "slain")

Next == \/ DetectorStarts \/ OpensUart \/ UartFails \/ DetectorDies
        \/ Reads \/ Fails \/ Loop \/ Judge \/ Sleep
        \/ ClockSet \/ Signal \/ FallsSilent \/ UartSlain

Spec == Init /\ [][Next]_vars

Fairness == /\ WF_vars(OpensUart \/ UartFails)
            /\ WF_vars(Returns)
            /\ WF_vars(Loop \/ Judge \/ Sleep)

FairSpec == Spec /\ Fairness

-----------------------------------------------------------------------------
(* Properties. *)

\* A crash is never reported for a single jump, nor for jumps that lasted less
\* than CONFIRM_MS or had a calm sample between them, unless the clock was set
\* meanwhile; failed reads in between change nothing (the loop,
\* crash_detection.cpp:249-302).
CrashConfirmed == report # "none" => jolts = 2 /\ (stepped \/ span = Confirm)

\* "prevent repeated logs for one impact" (crash_detection.cpp:24): reports lie
\* CRASH_COOLDOWN_MS of true time apart, unless the clock was set between them
\* (crash_detection.cpp:272-287).
CrashOnce == report # "none" => stepped \/ gap = Cooldown

\* A car that goes on being shaken, with an IMU that goes on answering, is
\* reported again and again, also after the clock was set back
\* (crash_detection.cpp:265-293).
ShakingReported == <>[](seen = "jolt") /\ []<>(pc = "judge") => []<>(report # "none")

\* A signal ends the process, or it sits for ever in a read that nobody will
\* answer because the IMU fell silent (crash_detection.cpp:105-113, 249).
DetectorShutdown == \/ g_stop ~> pc = "off"
                    \/ <>[](pc \in Waiting /\ imu = "silent" /\ uart = "live")
=============================================================================
