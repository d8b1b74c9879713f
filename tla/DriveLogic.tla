----------------------------- MODULE DriveLogic -----------------------------
(***************************************************************************)
(* The decisions of the drive process: the state machine variables of      *)
(* class DriveController and what each message handler and the 50 ms pulse *)
(* do to them (src/src/drive/src/DriveController.cpp:272-374).  The motor  *)
(* calls and the IPC around the handlers are in module DriveController.    *)
(***************************************************************************)
EXTENDS Integers

CONSTANTS
  Sources,       \* the control sources clients use
  NoSource,      \* SOURCE_NONE, the owner before anyone takes control
  TimeoutPulses  \* DRIVE_TIMEOUT_PULSES (10 in the code)

ASSUME LogicAssumption ==
  /\ NoSource \notin Sources
  /\ TimeoutPulses \in Nat \ {0}

VARIABLES
  current_active_source_,  \* whose speed commands are obeyed
  is_e_stopped_,
  timeout_counter_,        \* pulses since the watchdog was last reset
  target_speed_left_,
  target_speed_right_

logicVars == <<current_active_source_, is_e_stopped_, timeout_counter_,
               target_speed_left_, target_speed_right_>>

LogicTypeOK ==
  /\ current_active_source_ \in Sources \cup {NoSource}
  /\ is_e_stopped_ \in BOOLEAN
  /\ timeout_counter_ \in 0..TimeoutPulses + 1
  /\ target_speed_left_ \in Int
  /\ target_speed_right_ \in Int

Moving == target_speed_left_ # 0 \/ target_speed_right_ # 0

LogicInit == /\ current_active_source_ = NoSource
             /\ is_e_stopped_ = FALSE
             /\ timeout_counter_ = 0
             /\ target_speed_left_ = 0
             /\ target_speed_right_ = 0

\* The constructor of a new process.
LogicReset == /\ current_active_source_' = NoSource
              /\ is_e_stopped_' = FALSE
              /\ timeout_counter_' = 0
              /\ target_speed_left_' = 0
              /\ target_speed_right_' = 0

ZeroTargets == target_speed_left_' = 0 /\ target_speed_right_' = 0

resetTimeout == timeout_counter_' = 0

\* Wrong variant: the e-stop test is missing.
handleSpeedCommandNoEStopTest(source, left, right) ==
  IF source = current_active_source_
    THEN /\ target_speed_left_' = left
         /\ target_speed_right_' = right
         /\ resetTimeout
         /\ UNCHANGED <<current_active_source_, is_e_stopped_>>
    ELSE UNCHANGED logicVars

handleSpeedCommand(source, left, right) ==
  IF source = current_active_source_ /\ ~is_e_stopped_
    THEN /\ target_speed_left_' = left
         /\ target_speed_right_' = right
         /\ resetTimeout
         /\ UNCHANGED <<current_active_source_, is_e_stopped_>>
    ELSE UNCHANGED logicVars

handleControlCommand(source) ==
  /\ current_active_source_' = source
  /\ ZeroTargets
  /\ resetTimeout
  /\ UNCHANGED is_e_stopped_

\* Engaging does not reset the watchdog; clearing does not touch the targets.
handleEStop(engage) ==
  /\ is_e_stopped_' = engage
  /\ IF engage
       THEN ZeroTargets /\ UNCHANGED timeout_counter_
       ELSE resetTimeout /\ UNCHANGED <<target_speed_left_, target_speed_right_>>
  /\ UNCHANGED current_active_source_

\* Wrong variant: the counter is not capped.
processHardwarePulseUncapped ==
  /\ timeout_counter_' = timeout_counter_ + 1
  /\ IF timeout_counter_' >= TimeoutPulses
       THEN ZeroTargets
       ELSE UNCHANGED <<target_speed_left_, target_speed_right_>>
  /\ UNCHANGED <<current_active_source_, is_e_stopped_>>

\* The counter is capped one above the timeout; from the timeout on the
\* targets are zeroed.
processHardwarePulse ==
  /\ timeout_counter_' = IF timeout_counter_ < TimeoutPulses + 1
                           THEN timeout_counter_ + 1 ELSE timeout_counter_
  /\ IF timeout_counter_' >= TimeoutPulses
       THEN ZeroTargets
       ELSE UNCHANGED <<target_speed_left_, target_speed_right_>>
  /\ UNCHANGED <<current_active_source_, is_e_stopped_>>
=============================================================================
