----------------------------- MODULE DriveServer -----------------------------
(***************************************************************************)
(* The drive process as its clients meet it: a message or a pulse is       *)
(* handled in one step and the motors obey at once.  CarSystem puts its    *)
(* clients around it, and DriveController, where the same takes many steps *)
(* of a thread, implements it.  The state is the decisions' (DriveLogic),  *)
(* whether the process is there and whether the motors have been told to   *)
(* turn.                                                                   *)
(***************************************************************************)
EXTENDS DriveLogic

VARIABLES
  drive,    \* the drive process is there
  turning   \* the motors turn

serverVars == <<current_active_source_, is_e_stopped_, timeout_counter_,
                target_speed_left_, target_speed_right_, drive, turning>>

ServerInit == LogicInit /\ drive = FALSE /\ turning = FALSE

\* A new process knows nothing of the motors it finds turning.
ServerStarts == /\ ~drive /\ drive' = TRUE
                /\ LogicReset
                /\ UNCHANGED turning

\* It is killed and leaves the motors as they are, or exits and stops them.
ServerEnds == /\ drive /\ drive' = FALSE
              /\ turning' \in {turning, FALSE}
              /\ UNCHANGED logicVars

HandlePulse == /\ drive
               /\ processHardwarePulse
               /\ turning' = (~is_e_stopped_ /\ Moving')
               /\ UNCHANGED drive

\* A speed reaches the motors with the next pulse.
HandleSpeed(source, left, right) == /\ drive
                                    /\ handleSpeedCommand(source, left, right)
                                    /\ UNCHANGED <<drive, turning>>

HandleControl(source) == /\ drive
                         /\ handleControlCommand(source)
                         /\ turning' = FALSE
                         /\ UNCHANGED drive

HandleEStop(engage) == /\ drive
                       /\ handleEStop(engage)
                       /\ turning' = IF engage THEN FALSE ELSE turning
                       /\ UNCHANGED drive

\* Any message of any client, with any speeds, at any time.
ServerNext ==
  \/ ServerStarts \/ ServerEnds \/ HandlePulse
  \/ \E source \in Sources :
       \/ HandleSpeed(source, target_speed_left_', target_speed_right_')
       \/ HandleControl(source)
  \/ \E engage \in BOOLEAN : HandleEStop(engage)

ServerSpec == ServerInit /\ [][ServerNext]_serverVars
=============================================================================
