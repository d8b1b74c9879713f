------------------------------ MODULE CarSystem ------------------------------
(***************************************************************************)
(* The car as its operator meets it: the joystick and the ultrasonic       *)
(* process, both clients of the drive process, with every process started, *)
(* killed and started again at any time.  The drive process is that of     *)
(* DriveServer: what happens inside one of its steps is in                 *)
(* DriveController.  A client is blocked until its message is answered, so *)
(* the handling and the client's return from MsgSend are one step too.     *)
(***************************************************************************)
EXTENDS DriveServer, UltrasonicNode, ButtonMappings

CONSTANT Joystick  \* SOURCE_USB_JOYSTICK

ASSUME CarAssumption == Joystick \in Sources

VARIABLES
  last_estop,  \* history: who sent the last emergency stop command that this
               \* drive process handled
  back_stop    \* history: the operator has ordered a stop with BACK and not lifted
               \* it with START, and no obstacle had a part in it: the ultrasonic
               \* process had not engaged one then and found nothing near since

vars == <<current_active_source_, is_e_stopped_, timeout_counter_,
          target_speed_left_, target_speed_right_, drive, turning, last_estop, back_stop,
          upc, reading, estop_engaged_, drive_coid_,
          jpc, j_shutdown, closing, m_driveCoid, m_latestState, m_prevState,
          currentState, outbox>>

driveVars == <<serverVars, last_estop>>

CarTypeOK == /\ LogicTypeOK
             /\ target_speed_left_ \in -128..128
             /\ target_speed_right_ \in -128..128
             /\ drive \in BOOLEAN
             /\ turning \in BOOLEAN
             /\ last_estop \in {"nobody", "joystick", "ultrasonic"}
             /\ back_stop \in BOOLEAN
             /\ UltrasonicTypeOK
             /\ JoystickTypeOK

Init == /\ ServerInit
        /\ last_estop = "nobody"
        /\ back_stop = FALSE
        /\ UltrasonicInit
        /\ JoystickInit

-----------------------------------------------------------------------------
(* The drive process. *)

DriveStarts == /\ ServerStarts
               /\ last_estop' = "nobody"
               /\ back_stop' = FALSE
               /\ UNCHANGED <<ultrasonicVars, joystickVars>>

\* Whoever is connected to it finds out with the next message.
DriveEnds == /\ ServerEnds
             /\ UltrasonicLosesDrive
             /\ JoystickLosesDrive
             /\ UNCHANGED <<last_estop, back_stop>>

Pulse == /\ HandlePulse
         /\ UNCHANGED <<last_estop, back_stop, ultrasonicVars, joystickVars>>

EStopFrom(sender, engage) == HandleEStop(engage) /\ last_estop' = sender

-----------------------------------------------------------------------------
(* Its clients. *)

JoystickClears == /\ Sends("clear")
                  /\ EStopFrom("joystick", FALSE)
                  /\ back_stop' = FALSE
                  /\ UNCHANGED ultrasonicVars

JoystickTakesControl == /\ Sends("control")
                        /\ HandleControl(Joystick)
                        /\ UNCHANGED <<last_estop, back_stop, ultrasonicVars>>

JoystickEngages == /\ Sends("engage")
                   /\ EStopFrom("joystick", TRUE)
                   /\ back_stop' = (~estop_engaged_ /\ ~should_engage)
                   /\ UNCHANGED ultrasonicVars

JoystickDrives == /\ Sends("speed")
                  /\ HandleSpeed(Joystick, leftSpeed(currentState),
                                           rightSpeed(currentState))
                  /\ UNCHANGED <<last_estop, back_stop, ultrasonicVars>>

UltrasonicSends == /\ EStopFrom("ultrasonic", should_engage)
                   /\ EStopSent
                   /\ UNCHANGED joystickVars

\* The steps of the joystick's main thread.
JoystickThread ==
  \/ JoystickClears \/ JoystickTakesControl \/ JoystickEngages \/ JoystickDrives
  \/ /\ \/ JoystickConnects(drive) \/ ConnectGivesUp \/ JoystickReady
        \/ Tick \/ SendFails \/ Centre \/ FinalTick \/ JoystickExit
     /\ UNCHANGED <<driveVars, back_stop, ultrasonicVars>>

JoystickEnvironment ==
  /\ JoystickStarts \/ JoystickDies \/ ReadyFails \/ Report \/ JoystickSignal
     \/ JoystickReceiveFails
  /\ UNCHANGED <<driveVars, back_stop, ultrasonicVars>>

UltrasonicThread ==
  /\ \/ UltrasonicSends
     \/ /\ \/ initSharedState \/ measureDistanceCm \/ NothingToSend
           \/ connectDriveIpc(drive) \/ EStopFails
        /\ UNCHANGED <<driveVars, joystickVars>>
  /\ back_stop' = (back_stop /\ ~should_engage')

UltrasonicEnvironment == /\ UltrasonicStarts \/ UltrasonicDies
                         /\ UNCHANGED <<driveVars, back_stop, joystickVars>>

Next == \/ DriveStarts \/ DriveEnds \/ Pulse
        \/ JoystickThread \/ JoystickEnvironment
        \/ UltrasonicThread \/ UltrasonicEnvironment

Spec == Init /\ [][Next]_vars

\* The timers fire, the threads run, and the drive process answers.
Fairness == /\ WF_vars(Pulse)
            /\ WF_vars(JoystickThread)
            /\ WF_vars(UltrasonicThread)

FairSpec == Spec /\ Fairness

-----------------------------------------------------------------------------
(* Properties. *)

\* An operator who presses BACK gets an emergency stop, whatever else was
\* pressed in the same 50 ms: when only the speed is left to send, the stop
\* holds, unless the ultrasonic process gave the last order, the drive process
\* is a new one or a signal broke the sends (publishTick, ButtonMappings.cpp:
\* 66-76).
BackWins ==
  /\ jpc = "publish" /\ outbox = <<"speed">> /\ "BACK" \in pressedButtons
  /\ last_estop = "joystick" /\ m_driveCoid = "open" /\ ~j_shutdown
  => is_e_stopped_

\* A stop ordered with BACK stands until START lifts it or the drive process is a
\* new one, through retries, new connections and new ultrasonic and joystick
\* processes, as long as nothing comes near: both clients set one flag, and an
\* obstacle that came and left, or one still to be reported when BACK was pressed,
\* does lift it (updateEmergencyStop, UltrasonicNode.cpp:181-207; handleEStop,
\* DriveController.cpp:292-322).
BackHolds == back_stop => is_e_stopped_

\* A near obstacle keeps the car stopped and one that has gone sets it free: as
\* long as its connection lives and the operator has not given the last order,
\* what the ultrasonic process found in one cycle is what the drive process
\* obeys during the next measurement, although estop_engaged_, which decides
\* whether a message is sent, is only its own memory and the drive process may
\* have been a new one several times since (updateEmergencyStop,
\* UltrasonicNode.cpp:181-207).
ObstacleStops ==
  upc = "measure" /\ drive_coid_ = "open" /\ last_estop # "joystick"
  => is_e_stopped_ = should_engage

\* How many pulses a car without a joystick can still be driven for: what is
\* left of the watchdog, and once more all of it if the ultrasonic process has
\* an emergency stop to clear.
Coast == IF Moving
           THEN (TimeoutPulses - timeout_counter_)
                + (IF estop_engaged_ THEN TimeoutPulses ELSE 0)
           ELSE 0

\* While there is no joystick process the car coasts to a standstill within
\* 2 * TimeoutPulses pulses, whatever the obstacle does and whoever starts or
\* dies: nothing makes the coast longer, every pulse makes it shorter, and
\* when it is over the next pulse leaves the motors standing and nothing starts
\* them.  It is why JoystickGoneHalts holds (processHardwarePulse,
\* DriveController.cpp:344-370; updateEmergencyStop, UltrasonicNode.cpp:185-187).
CoastsDown ==
  [][jpc = "off" /\ jpc' = "off" =>
       /\ Coast \in 0 .. 2 * TimeoutPulses /\ Coast' <= Coast
       /\ Pulse => IF Coast = 0 THEN ~turning' ELSE Coast' < Coast
       /\ turning' => turning \/ Coast' > 0]_vars

\* When the joystick process is gone for good the car comes to rest, whatever
\* the ultrasonic process goes on telling the drive process: its messages that
\* clear an emergency stop reset the watchdog too, but there is one only after
\* each that engaged it (updateEmergencyStop, UltrasonicNode.cpp:185-187;
\* handleEStop, DriveController.cpp:318-322).
JoystickGoneHalts == (<>[]drive /\ <>[](jpc = "off")) => <>[]~turning

\* What the ultrasonic process has seen and not yet reported reaches the drive
\* process, even when that was started anew and the connection is dead, unless
\* the obstacle moves or a process ends first (updateEmergencyStop's retry,
\* UltrasonicNode.cpp:189-202).
ObstacleReported ==
  \A engage \in BOOLEAN :
    upc = "estop" /\ should_engage = engage /\ estop_engaged_ # engage
      ~> \/ is_e_stopped_ = engage \/ should_engage # engage
         \/ upc = "off" \/ ~drive

\* A signal ends the joystick process, wherever its main thread was (signal
\* handler and main loop, joystick.cpp:24-28, 86-102).
JoystickShutdown == j_shutdown ~> jpc = "off"

\* When the joystick process has sent its last message, its speed command has
\* left the car with the order to stand (joystick.cpp:106, "Safety check: tell
\* the motors to stop before we disconnect").
ExitOrdersStop == jpc = "exit" /\ m_driveCoid = "open" => ~Moving
=============================================================================
