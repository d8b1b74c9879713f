----------------------- MODULE DriveController_proofs -----------------------
(***************************************************************************)
(* What the drive process guarantees for every number of motors, clients,  *)
(* sources and watchdog pulses, whatever the bus refuses and whenever the  *)
(* process or the display dies.                                            *)
(***************************************************************************)
EXTENDS DriveController, FourMotorI2CDriver_proofs

-----------------------------------------------------------------------------
(* The thread and the driver object move together. *)

\* Where the thread is when the driver object exists, and when a sequence of
\* register writes may be under way.
ServerInv ==
  /\ pc \in PCs
  /\ pc = "off" <=> device = "closed"
  /\ pc = "stopping" <=> device = "closing"
  /\ device \in {"closed", "open", "closing"}
  /\ pc \notin {"loop", "notify", "reply", "stopping"} => Idle
  /\ pc \in Attached => initialized_
  /\ pc \in {"created", "starting"} => ~initialized_

LEMMA ServerInvInductive ==
  ASSUME ServerInv, [Next]_vars
  PROVE  ServerInv'
<1> USE DEF ServerInv, PCs, Attached, Serving, Idle,
            chipVars, deviceVars, callVars, driverVars
<1>1. CASE Launch BY <1>1 DEF Launch
<1>2. CASE CheckBeforeStart BY <1>2 DEF CheckBeforeStart
<1>3. CASE StartServer BY <1>3 DEF StartServer
<1>4. CASE StartFails BY <1>4 DEF StartFails
<1>5. CASE connectIPC BY <1>5 DEF connectIPC
<1>6. CASE LoopCheck BY <1>6 DEF LoopCheck
<1>7. CASE WriteRegister BY <1>7 DEF WriteRegister, setMotorSpeed
<1>8. CASE Notify BY <1>8 DEF Notify
<1>9. CASE NotifyFails BY <1>9 DEF NotifyFails
<1>10. CASE MsgReply BY <1>10 DEF MsgReply
<1>11. CASE BeginDestroy BY <1>11 DEF BeginDestroy
<1>12. CASE Exit BY <1>12 DEF Exit
<1>13. CASE Crash BY <1>13, DriverAssumption DEF Crash, Kill
<1>14. CASE Signal BY <1>14 DEF Signal
<1>15. CASE ReceivePulse BY <1>15 DEF ReceivePulse
<1>16. CASE ReceiveFails BY <1>16 DEF ReceiveFails
<1>17. ASSUME NEW c \in Clients, Receive(c) PROVE ServerInv'
  BY <1>17 DEF Receive, ReceiveSpeed, ReceiveControl, ReceiveEngage,
     ReceiveClear, ReceiveOther, Accept
<1>18. CASE OledServes BY <1>18 DEF OledServes
<1>19. CASE TimerFires BY <1>19 DEF TimerFires
<1>20. CASE OledStarts \/ OledDies \/ OledReceives \/ OledDraws BY <1>20 DEF OledStarts, OledDies, OledReceives, OledDraws
<1>21. CASE BusChanges BY <1>21 DEF BusChanges, BusVaries
<1>22. ASSUME NEW c \in Clients, ClientSends(c) PROVE ServerInv'
  BY <1>22 DEF ClientSends
<1>23. CASE UNCHANGED vars BY <1>23 DEF vars
<1> QED BY <1>1, <1>2, <1>3, <1>4, <1>5, <1>6, <1>7, <1>8, <1>9, <1>10, <1>11,
           <1>12, <1>13, <1>14, <1>15, <1>16, <1>17, <1>18, <1>19, <1>20,
           <1>21, <1>22, <1>23
        DEF Next, Thread, Environment

THEOREM ServerInvCorrect == Spec => []ServerInv
<1>1. Init => ServerInv
  BY DriverAssumption DEF Init, DriverInit, ServerInv, PCs, Attached, Serving, Idle
<1>2. ServerInv /\ [Next]_vars => ServerInv'
  BY ServerInvInductive
<1> QED BY <1>1, <1>2, PTL DEF Spec

-----------------------------------------------------------------------------
(* The process and its environment treat the display as EStopSign allows. *)

LEMMA NextIsSignStep ==
  ASSUME [Next]_vars
  PROVE  [SignNext]_signVars
<1>1. CASE UNCHANGED signVars
  BY <1>1
<1>2. CASE Notify
  <2>1. Asks \/ UNCHANGED signVars
    BY <1>2 DEF Notify
  <2> QED BY <2>1 DEF SignNext
<1>3. CASE Crash \/ Signal
  <2>1. Withdraws \/ UNCHANGED signVars
    BY <1>3 DEF Crash, Signal, Abandon
  <2> QED BY <2>1 DEF SignNext
<1>4. CASE OledStarts \/ OledDies \/ OledReceives \/ OledDraws \/ OledServes
  BY <1>4 DEF OledStarts, OledDies, OledReceives, OledDraws, OledServes, SignNext
<1>5. CASE \/ Launch \/ CheckBeforeStart \/ StartServer \/ StartFails \/ connectIPC
          \/ LoopCheck \/ WriteRegister \/ NotifyFails \/ MsgReply \/ BeginDestroy
          \/ Exit \/ ReceivePulse \/ ReceiveFails \/ TimerFires \/ BusChanges
  BY <1>1, <1>5
  DEF Launch, CheckBeforeStart, StartServer, StartFails, connectIPC, LoopCheck,
      WriteRegister, NotifyFails, MsgReply, BeginDestroy, Exit, ReceivePulse,
      ReceiveFails, TimerFires, BusChanges
<1>6. ASSUME NEW c \in Clients, Receive(c) \/ ClientSends(c) PROVE UNCHANGED signVars
  BY <1>6 DEF Receive, ReceiveSpeed, ReceiveControl, ReceiveEngage, ReceiveClear,
     ReceiveOther, Accept, ClientSends
<1>7. CASE UNCHANGED vars
  BY <1>1, <1>7 DEF vars, signVars
<1> QED BY <1>1, <1>2, <1>3, <1>4, <1>5, <1>6, <1>7 DEF Next, Thread, Environment

\* What EStopSign promises, in one state: a display that is not there waits for
\* nothing and will begin with ON; one that has answered shows what it was told,
\* or nothing, unless a byte was lost.
SignInv ==
  /\ SignTypeOK
  /\ ~oled => told = "on" /\ asked = "nothing"
  /\ oled /\ asked = "nothing" => sign \in {told, "none", "unknown"}

LEMMA SignInvInductive ==
  ASSUME SignInv, [SignNext]_signVars
  PROVE  SignInv'
<1> USE DEF SignInv, SignTypeOK, Asking
<1>1. CASE Clears \/ Appears
  BY <1>1 DEF Clears, Appears
<1>2. CASE Asks \/ Withdraws
  BY <1>2 DEF Asks, Withdraws
<1>3. CASE Heeds
  BY <1>3 DEF Heeds, Ordered
<1>4. CASE Draws
  BY <1>4 DEF Draws
<1>5. CASE Vanishes
  BY <1>5 DEF Vanishes
<1>6. CASE UNCHANGED signVars
  BY <1>6 DEF signVars
<1> QED BY <1>1, <1>2, <1>3, <1>4, <1>5, <1>6 DEF SignNext

\* Whatever the drive process does, it uses the display as EStopSign describes it.
THEOREM UsesSignCorrect == Spec => SignSpec /\ []SignInv
<1>1. Init => SignInit
  BY DEF Init
<1>2. SignInit => SignInv
  BY DEF SignInit, SignInv, SignTypeOK
<1>3. [Next]_vars => [SignNext]_signVars
  BY NextIsSignStep
<1>4. SignInv /\ [SignNext]_signVars => SignInv'
  BY SignInvInductive
<1> QED BY <1>1, <1>2, <1>3, <1>4, PTL DEF Spec, SignSpec

-----------------------------------------------------------------------------
(* Types of the logic and of the server. *)

ServerTypeOK == LogicTypeOK /\ ControllerTypeOK

\* A pulse moves the counter up to its cap and keeps or zeroes the targets.
LEMMA PulseType ==
  ASSUME LogicTypeOK, processHardwarePulse,
         target_speed_left_ \in Speeds, target_speed_right_ \in Speeds
  PROVE  /\ LogicTypeOK'
         /\ target_speed_left_' \in Speeds /\ target_speed_right_' \in Speeds
BY DriverAssumption, LogicAssumption
   DEF LogicTypeOK, processHardwarePulse, ZeroTargets

\* A message handler keeps the types of the logic, and targets stay speeds that
\* clients ask for.
LEMMA HandlerType ==
  ASSUME ServerTypeOK, NEW c \in Clients, Receive(c)
  PROVE  /\ LogicTypeOK'
         /\ target_speed_left_' \in Speeds /\ target_speed_right_' \in Speeds
<1> USE DriverAssumption, LogicAssumption
    DEF ServerTypeOK, LogicTypeOK, ControllerTypeOK, ZeroTargets, resetTimeout,
        logicVars
<1>1. CASE ReceiveSpeed(c) BY <1>1 DEF ReceiveSpeed, handleSpeedCommand
<1>2. CASE ReceiveControl(c) BY <1>2 DEF ReceiveControl, handleControlCommand
<1>3. CASE ReceiveEngage(c) BY <1>3 DEF ReceiveEngage, handleEStop
<1>4. CASE ReceiveClear(c)
  <2>1. is_e_stopped_' \in BOOLEAN
    BY <1>4, Zenon DEF ReceiveClear, handleEStop
  <2> QED BY <1>4, <2>1 DEF ReceiveClear, handleEStop
<1>5. CASE ReceiveOther(c) BY <1>5 DEF ReceiveOther
<1> QED BY <1>1, <1>2, <1>3, <1>4, <1>5 DEF Receive

LEMMA ServerTypeInductive ==
  ASSUME ServerTypeOK, SignTypeOK', [Next]_vars
  PROVE  ServerTypeOK'
<1> USE DEF ServerTypeOK, LogicTypeOK, ControllerTypeOK, Kinds, PCs, Attached,
            Serving, logicVars, ipcVars, CloseChannel
<1>1. CASE Launch
  <2>1. is_e_stopped_' \in BOOLEAN /\ g_shutdown_requested' \in BOOLEAN
    BY <1>1, Zenon DEF Launch, LogicReset
  <2> QED BY <1>1, <2>1, DriverAssumption, LogicAssumption DEF Launch, LogicReset
<1>2. CASE CheckBeforeStart BY <1>2 DEF CheckBeforeStart
<1>3. CASE StartServer BY <1>3 DEF StartServer
<1>4. CASE StartFails BY <1>4, ControllerAssumption DEF StartFails
<1>5. CASE connectIPC BY <1>5 DEF connectIPC
<1>6. CASE LoopCheck BY <1>6 DEF LoopCheck
<1>7. CASE WriteRegister BY <1>7 DEF WriteRegister
<1>8. CASE Notify BY <1>8 DEF Notify
<1>9. CASE NotifyFails BY <1>9 DEF NotifyFails
<1>10. CASE MsgReply BY <1>10 DEF MsgReply
<1>11. CASE BeginDestroy BY <1>11, ControllerAssumption DEF BeginDestroy
<1>12. CASE Exit BY <1>12 DEF Exit
<1>13. CASE Crash
  <2>1. g_shutdown_requested' \in BOOLEAN
    BY <1>13, Zenon DEF Crash
  <2> QED BY <1>13, <2>1, ControllerAssumption DEF Crash
<1>14. CASE Signal BY <1>14 DEF Signal
<1>15. CASE ReceivePulse
  <2>1. LogicTypeOK' /\ target_speed_left_' \in Speeds /\ target_speed_right_' \in Speeds
    BY <1>15, PulseType DEF ReceivePulse
  <2> QED BY <1>15, <2>1, ControllerAssumption DEF ReceivePulse
<1>16. CASE ReceiveFails BY <1>16 DEF ReceiveFails
<1>17. ASSUME NEW c \in Clients, Receive(c) PROVE ServerTypeOK'
  <2>1. LogicTypeOK' /\ target_speed_left_' \in Speeds /\ target_speed_right_' \in Speeds
    BY <1>17, HandlerType
  <2>2. \E kind \in Kinds, next \in {"reply", "notify"} : Accept(c, kind, next)
    BY <1>17 DEF Receive, ReceiveSpeed, ReceiveControl, ReceiveEngage,
       ReceiveClear, ReceiveOther
  <2> QED BY <2>1, <2>2 DEF Accept
<1>18. CASE OledServes BY <1>18 DEF OledServes
<1>19. CASE TimerFires BY <1>19, ControllerAssumption DEF TimerFires
<1>20. CASE OledStarts \/ OledDies \/ OledReceives \/ OledDraws BY <1>20 DEF OledStarts, OledDies, OledReceives, OledDraws
<1>21. CASE BusChanges BY <1>21 DEF BusChanges
<1>22. ASSUME NEW c \in Clients, ClientSends(c) PROVE ServerTypeOK'
  BY <1>22 DEF ClientSends
<1>23. CASE UNCHANGED vars BY <1>23 DEF vars
<1> QED BY <1>1, <1>2, <1>3, <1>4, <1>5, <1>6, <1>7, <1>8, <1>9, <1>10, <1>11,
           <1>12, <1>13, <1>14, <1>15, <1>16, <1>17, <1>18, <1>19, <1>20,
           <1>21, <1>22, <1>23
        DEF Next, Thread, Environment

THEOREM ServerTypeCorrect == Spec => []ServerTypeOK
<1>1. ASSUME Init PROVE ServerTypeOK
  <2>1. /\ is_e_stopped_ \in BOOLEAN /\ g_shutdown_requested \in BOOLEAN
    BY <1>1, Zenon DEF Init, LogicInit
  <2>2. SignTypeOK
    BY <1>1 DEF Init, SignInit, SignTypeOK
  <2> QED BY <1>1, <2>1, <2>2, DriverAssumption, LogicAssumption, ControllerAssumption
          DEF Init, LogicInit, ServerTypeOK, LogicTypeOK, ControllerTypeOK, PCs
<1>2. ServerTypeOK /\ SignTypeOK' /\ [Next]_vars => ServerTypeOK'
  BY ServerTypeInductive
<1>3. SignInv => SignTypeOK
  BY DEF SignInv
<1> QED BY <1>1, <1>2, <1>3, UsesSignCorrect, PTL DEF Spec

-----------------------------------------------------------------------------
(* The server uses the driver as the driver is specified. *)

LEMMA UsesDriverStep ==
  ASSUME ServerInv, ServerTypeOK, ServerTypeOK', [Next]_vars
  PROVE  [DriverNext]_driverVars
<1> USE DEF chipVars, deviceVars, callVars, driverVars
<1>1. CASE Launch BY <1>1 DEF Launch, ServerInv, Construct, DriverNext
<1>2. CASE StartServer \/ StartFails
  <2>1. Idle /\ device = "open" /\ (pc = "starting" => ~initialized_)
    BY <1>2 DEF ServerInv, StartServer, StartFails
  <2>2. init \/ UNCHANGED driverVars
    BY <1>2, <2>1 DEF StartServer, StartFails, init
  <2> QED BY <2>2 DEF DriverNext
<1>3. CASE WriteRegister BY <1>3 DEF WriteRegister, DriverNext
<1>4. CASE BeginDestroy
  BY <1>4 DEF BeginDestroy, ServerInv, Destroy, DriverNext
<1>5. CASE Exit BY <1>5 DEF Exit, ServerInv, Release, DriverNext
<1>6. CASE Crash BY <1>6 DEF Crash, DriverNext
<1>7. CASE BusChanges BY <1>7 DEF BusChanges, DriverNext
<1>8. CASE ReceivePulse
  <2>1. Idle /\ device = "open"
    BY <1>8 DEF ReceivePulse, ServerInv, PCs, Attached, Serving
  <2>2. target_speed_left_' \in Speeds /\ target_speed_right_' \in Speeds
    BY DEF ServerTypeOK, ControllerTypeOK
  <2>3. CallStopAll \/ CallSetSpeeds
    BY <1>8, <2>1, <2>2 DEF ReceivePulse, CallStopAll, CallSetSpeeds
  <2> QED BY <2>3 DEF DriverNext
<1>9. ASSUME NEW c \in Clients, Receive(c) PROVE [DriverNext]_driverVars
  <2>1. Idle /\ device = "open"
    BY <1>9 DEF Receive, ReceiveSpeed, ReceiveControl, ReceiveEngage,
       ReceiveClear, ReceiveOther, Accept, ServerInv, PCs, Attached, Serving
  <2>2. UNCHANGED driverVars \/ CallStopAll
    BY <1>9, <2>1 DEF Receive, ReceiveSpeed, ReceiveControl, ReceiveEngage,
       ReceiveClear, ReceiveOther, Accept, CallStopAll
  <2> QED BY <2>2 DEF DriverNext
<1>10. CASE CheckBeforeStart \/ connectIPC \/ LoopCheck \/ Notify
            \/ NotifyFails \/ MsgReply \/ ReceiveFails
  BY <1>10 DEF CheckBeforeStart, connectIPC, LoopCheck, Notify, NotifyFails,
     MsgReply, ReceiveFails
<1>11. CASE Signal \/ TimerFires \/ OledStarts \/ OledDies \/ OledReceives \/ OledDraws \/ OledServes
            \/ \E c \in Clients : ClientSends(c)
  BY <1>11 DEF Signal, TimerFires, OledStarts, OledDies, OledReceives, OledDraws, OledServes, ClientSends
<1>12. CASE UNCHANGED vars BY <1>12 DEF vars
<1> QED BY <1>1, <1>2, <1>3, <1>4, <1>5, <1>6, <1>7, <1>8, <1>9, <1>10, <1>11,
           <1>12
        DEF Next, Thread, Environment

\* The drive process never calls its driver in the middle of another call or
\* after the destructor: everything proved of the driver holds of the process.
THEOREM UsesDriverCorrect == Spec => UsesDriver
<1>1. Init => DriverInit
  BY DEF Init
<1>2. ServerInv /\ ServerTypeOK /\ ServerTypeOK' /\ [Next]_vars
        => [DriverNext]_driverVars
  BY UsesDriverStep
<1> QED BY <1>1, <1>2, ServerInvCorrect, ServerTypeCorrect, PTL
        DEF Spec, UsesDriver, DriverSpec

\* Type correctness of the whole drive process.
THEOREM TypeCorrect == Spec => []TypeOK
<1>1. DriverTypeOK /\ ServerTypeOK => TypeOK
  BY DEF TypeOK, ServerTypeOK
<1> QED BY <1>1, UsesDriverCorrect, DriverTypeCorrect, ServerTypeCorrect, PTL
        DEF UsesDriver

-----------------------------------------------------------------------------
(* The last motor call agrees with what the logic has decided. *)

\* A target that is not zero needs a running watchdog and no emergency stop.
MovingInv == Moving => timeout_counter_ < TimeoutPulses /\ ~is_e_stopped_

\* The last call asks for motion only under the same conditions; a process that
\* dies or leaves its destructor gives this up, since a dead process keeps the
\* motors as they are.
ActiveInv == pc # "off" /\ cmd # Stop
               => timeout_counter_ < TimeoutPulses /\ ~is_e_stopped_

\* Registers are being written for motion only between a pulse and the next
\* event, while the targets that asked for it still stand.
WriteInv == ~Idle /\ cmd # Stop => pc = "loop" /\ Moving

\* From the receipt of an emergency stop or of a change of source to its answer
\* the last call is a stop.
AckInv == Served("engage") \/ Served("control")
            => cmd = Stop /\ pc \in {"notify", "display", "reply"}

CommandInv == MovingInv /\ ActiveInv /\ WriteInv /\ AckInv

\* Zero targets make a stop.
LEMMA ClampStop ==
  ASSUME NEW l \in Int, NEW r \in Int, Program(Clamp(l), Clamp(r)), cmd' # Stop
  PROVE  l # 0 \/ r # 0
BY DriverAssumption DEF Program, Clamp, Stop

\* The steps that leave logic, call and clients alone, apart from the thread's
\* own place.
LEMMA CommandInvKept ==
  ASSUME CommandInv, UNCHANGED <<logicVars, callVars, client>>,
         pc \notin {"loop", "off"} \/ Idle \/ pc' = pc,
         pc = "off" => pc' = "off",
         pc \in {"notify", "display", "reply"}
           => pc' \in {"notify", "display", "reply"}
  PROVE  CommandInv'
BY DEF CommandInv, MovingInv, ActiveInv, WriteInv, AckInv, Moving, Idle, Served,
       logicVars, callVars

LEMMA PulseCommandInv ==
  ASSUME ServerInv, ServerTypeOK, CommandInv, ReceivePulse
  PROVE  CommandInv'
<1> USE DEF callVars, logicVars
<1>1. /\ pc = "receive" /\ pc' = "loop" /\ client' = client
      /\ is_e_stopped_' = is_e_stopped_
      /\ processHardwarePulse
  BY DEF ReceivePulse, processHardwarePulse
<1>2. /\ timeout_counter_' \in Int /\ TimeoutPulses \in Int
      /\ target_speed_left_' \in Int /\ target_speed_right_' \in Int
      /\ timeout_counter_' < TimeoutPulses \/ ~Moving'
  BY <1>1, LogicAssumption
  DEF processHardwarePulse, ServerTypeOK, LogicTypeOK, ZeroTargets, Moving
<1>3. Moving' => Moving
  BY <1>1 DEF processHardwarePulse, ZeroTargets, Moving
<1>4. MovingInv'
  BY <1>1, <1>2, <1>3 DEF CommandInv, MovingInv
<1>5. initialized_
  BY <1>1 DEF ServerInv, Attached, Serving
<1>6. cmd' # Stop => Moving'
  <2>1. CASE is_e_stopped_
    BY <2>1 DEF ReceivePulse, stopAll, Program, Stop
  <2>2. CASE ~is_e_stopped_
    <3>1. Program(Clamp(target_speed_left_'), Clamp(target_speed_right_'))
      BY <1>5, <2>2 DEF ReceivePulse, setSpeeds
    <3> QED BY <1>2, <3>1, ClampStop DEF Moving
  <2> QED BY <2>1, <2>2
<1>7. ActiveInv' /\ WriteInv'
  BY <1>1, <1>4, <1>6 DEF ActiveInv, WriteInv, MovingInv
<1>8. AckInv'
  BY <1>1 DEF CommandInv, AckInv, Served
<1> QED BY <1>4, <1>7, <1>8 DEF CommandInv

LEMMA ReceiveCommandInv ==
  ASSUME ServerInv, ServerTypeOK, CommandInv, NEW c \in Clients, Receive(c)
  PROVE  CommandInv'
<1> USE DEF callVars, logicVars, Accept
<1>1. pc = "receive" /\ Idle /\ ~Served("engage") /\ ~Served("control")
  BY DEF Receive, ReceiveSpeed, ReceiveControl, ReceiveEngage, ReceiveClear,
         ReceiveOther, ServerInv, CommandInv, AckInv
<1>2. TimeoutPulses > 0
  BY LogicAssumption
<1>3. CASE ReceiveSpeed(c)
  <2>1. /\ pc' = "reply" /\ UNCHANGED callVars
        /\ \/ UNCHANGED logicVars
           \/ timeout_counter_' = 0 /\ ~is_e_stopped_'
    BY <1>3 DEF ReceiveSpeed, handleSpeedCommand, resetTimeout
  <2>2. ~Served("engage")' /\ ~Served("control")'
    BY <1>1, <1>3 DEF ReceiveSpeed, Served
  <2> QED BY <1>1, <1>2, <2>1, <2>2
          DEF CommandInv, MovingInv, ActiveInv, WriteInv, AckInv, Moving, Idle
<1>4. CASE ReceiveControl(c)
  BY <1>4 DEF ReceiveControl, handleControlCommand, ZeroTargets, stopAll,
     Program, Stop, CommandInv, MovingInv, ActiveInv, WriteInv, AckInv, Moving
<1>5. CASE ReceiveEngage(c)
  BY <1>5 DEF ReceiveEngage, handleEStop, ZeroTargets, stopAll, Program, Stop,
     CommandInv, MovingInv, ActiveInv, WriteInv, AckInv, Moving
<1>6. CASE ReceiveClear(c)
  <2>1. /\ pc' = "notify" /\ UNCHANGED callVars
        /\ timeout_counter_' = 0 /\ ~is_e_stopped_'
    BY <1>6 DEF ReceiveClear, handleEStop, resetTimeout
  <2>2. ~Served("engage")' /\ ~Served("control")'
    BY <1>1, <1>6 DEF ReceiveClear, Served
  <2> QED BY <1>1, <1>2, <2>1, <2>2
          DEF CommandInv, MovingInv, ActiveInv, WriteInv, AckInv, Idle
<1>7. CASE ReceiveOther(c)
  <2>1. pc' = "reply" /\ UNCHANGED callVars /\ UNCHANGED logicVars
    BY <1>7 DEF ReceiveOther
  <2>2. ~Served("engage")' /\ ~Served("control")'
    BY <1>1, <1>7 DEF ReceiveOther, Served
  <2> QED BY <1>1, <2>1, <2>2
          DEF CommandInv, MovingInv, ActiveInv, WriteInv, AckInv, Moving, Idle
<1> QED BY <1>3, <1>4, <1>5, <1>6, <1>7 DEF Receive

LEMMA CommandInvInductive ==
  ASSUME ServerInv, ServerTypeOK, CommandInv, [Next]_vars
  PROVE  CommandInv'
<1> USE DEF callVars, logicVars, ipcVars, driverVars, CloseChannel
<1>1. CASE Launch
  <2>1. Idle /\ pc = "off"
    BY <1>1 DEF Launch, ServerInv
  <2> QED BY <1>1, <2>1, LogicAssumption
          DEF Launch, LogicReset, CommandInv, MovingInv, ActiveInv, WriteInv,
              AckInv, Moving, Idle, Served
<1>2. CASE CheckBeforeStart \/ StartServer \/ connectIPC \/ ReceiveFails
  BY <1>2, CommandInvKept
  DEF CheckBeforeStart, StartServer, connectIPC, ReceiveFails
<1>3. CASE StartFails
  BY <1>3 DEF StartFails, ServerInv, CommandInv, MovingInv, ActiveInv, WriteInv,
     AckInv, Moving, Idle, Served
<1>4. CASE LoopCheck \/ Notify \/ NotifyFails \/ OledServes \/ Signal
  BY <1>4, CommandInvKept
  DEF LoopCheck, Notify, NotifyFails, OledServes, Signal, ServerInv
<1>5. CASE MsgReply
  BY <1>5 DEF MsgReply, Kinds, CommandInv, MovingInv, ActiveInv, WriteInv,
     AckInv, Moving, Idle, Served
<1>6. CASE WriteRegister
  BY <1>6 DEF WriteRegister, setMotorSpeed, CommandInv, MovingInv, ActiveInv,
     WriteInv, AckInv, Moving, Served
<1>7. CASE BeginDestroy
  BY <1>7 DEF BeginDestroy, stopAll, Program, Stop, CommandInv, MovingInv,
     ActiveInv, WriteInv, AckInv, Moving, Served
<1>8. CASE Exit
  BY <1>8 DEF Exit, CommandInv, MovingInv, ActiveInv, WriteInv, AckInv, Moving,
     Idle, Served
<1>9. CASE Crash
  <2>1. Idle' /\ pc' = "off"
    BY <1>9, DriverAssumption DEF Crash, Kill, Idle
  <2>2. ~Served("engage")' /\ ~Served("control")'
    BY <1>9 DEF Crash, Served
  <2> QED BY <1>9, <2>1, <2>2
          DEF Crash, CommandInv, MovingInv, ActiveInv, WriteInv, AckInv, Moving
<1>10. CASE ReceivePulse BY <1>10, PulseCommandInv
<1>11. ASSUME NEW c \in Clients, Receive(c) PROVE CommandInv'
  BY <1>11, ReceiveCommandInv
<1>12. CASE TimerFires \/ OledStarts \/ OledDies \/ OledReceives \/ OledDraws \/ BusChanges
  BY <1>12, CommandInvKept
  DEF TimerFires, OledStarts, OledDies, OledReceives, OledDraws, BusChanges, BusVaries
<1>13. ASSUME NEW c \in Clients, ClientSends(c) PROVE CommandInv'
  BY <1>13 DEF ClientSends, CommandInv, MovingInv, ActiveInv, WriteInv, AckInv,
     Moving, Idle, Served
<1>14. CASE UNCHANGED vars BY <1>14, CommandInvKept DEF vars
<1> QED BY <1>1, <1>2, <1>3, <1>4, <1>5, <1>6, <1>7, <1>8, <1>9, <1>10, <1>11,
           <1>12, <1>13, <1>14
        DEF Next, Thread, Environment

THEOREM CommandInvCorrect == Spec => []CommandInv
<1>1. Init => CommandInv
  BY DEF Init, DriverInit, LogicInit, CommandInv, MovingInv, ActiveInv, WriteInv,
         AckInv, Moving, Served
<1>2. ServerInv /\ ServerTypeOK /\ CommandInv /\ [Next]_vars => CommandInv'
  BY CommandInvInductive
<1> QED BY <1>1, <1>2, ServerInvCorrect, ServerTypeCorrect, PTL DEF Spec

-----------------------------------------------------------------------------
(* What the last call means for the motors once it is over. *)

\* A stop asks for speed 0 on both sides.
LEMMA StopSpeed == cmd = Stop => \A m : MotorSpeed(cmd, m) = 0
<1> SUFFICES ASSUME cmd = Stop, NEW m PROVE MotorSpeed(cmd, m) = 0
  OBVIOUS
<1>1. cmd.left \in Int /\ cmd.left >= 0 /\ cmd.left <= 0
      /\ cmd.right \in Int /\ cmd.right >= 0 /\ cmd.right <= 0
  BY DEF Stop
<1>2. \A z \in Int : z >= 0 /\ z <= 0 => -z = 0
  OBVIOUS
<1>3. -cmd.left = 0 /\ -cmd.right = 0
  BY <1>1, <1>2, Zenon
<1> QED BY <1>3, Zenon DEF MotorSpeed

\* A stop that lost no write has stopped every motor.
LEMMA StopApplied ==
  ASSUME LastCallApplied, Idle, ~lost, cmd = Stop
  PROVE  AllStopped
<1> SUFFICES ASSUME NEW m \in Motors PROVE Stopped(m)
  BY DEF AllStopped
<1> DEFINE s == MotorSpeed(cmd, m)
<1>1. s = 0
  BY StopSpeed
<1>2. pwm[m][OffPin(s)] = 0 /\ pwm[m][OnPin(s)] = pwm_val(s)
  BY DEF LastCallApplied, Obeys
<1> HIDE DEF s
<1>3. pwm[m][OffPin(0)] = 0 /\ pwm[m][OnPin(0)] = 0
  BY <1>1, <1>2, PwmValStop, Zenon
<1> QED BY <1>3 DEF Stopped, Pins, OffPin, OnPin

THEOREM ServerLastCallApplied == Spec => []LastCallApplied
BY UsesDriverCorrect, LastCallAppliedCorrect, PTL DEF UsesDriver

\* While the server runs under an emergency stop no motor turns, outside a
\* register sequence and unless the bus refused one of its writes.
THEOREM EStopHoldsCorrect == Spec => []EStopHolds
<1>1. CommandInv /\ LastCallApplied => EStopHolds
  <2> SUFFICES ASSUME CommandInv, LastCallApplied,
                      is_e_stopped_, pc \in Serving, Idle, ~lost
               PROVE  AllStopped
    BY DEF EStopHolds
  <2>1. cmd = Stop
    BY DEF CommandInv, ActiveInv, Serving
  <2> QED BY <2>1, StopApplied
<1> QED BY <1>1, CommandInvCorrect, ServerLastCallApplied, PTL

\* Without kills the last call before the end is the destructor's stop.
ExitInv == pc \in {"stopping", "off"} => cmd = Stop

LEMMA ExitInvInductive ==
  ASSUME ~MayCrash, ServerInv, ExitInv, [Next]_vars
  PROVE  ExitInv'
<1> USE DEF ExitInv, callVars, driverVars
<1>1. CASE BeginDestroy
  BY <1>1 DEF BeginDestroy, stopAll, Program, Stop
<1>2. CASE Crash
  BY <1>2 DEF Crash, Kill
<1>3. CASE WriteRegister
  BY <1>3 DEF WriteRegister, setMotorSpeed
<1>4. ASSUME NEW c \in Clients, Receive(c) PROVE ExitInv'
  BY <1>4 DEF Receive, ReceiveSpeed, ReceiveControl, ReceiveEngage,
     ReceiveClear, ReceiveOther, Accept
<1>5. CASE ReceivePulse \/ ReceiveFails
  BY <1>5 DEF ReceivePulse, ReceiveFails
<1>6. CASE Launch \/ CheckBeforeStart \/ StartServer \/ StartFails \/ connectIPC
           \/ LoopCheck \/ Notify \/ NotifyFails \/ MsgReply \/ Exit
  BY <1>6 DEF Launch, CheckBeforeStart, StartServer, StartFails, connectIPC,
     LoopCheck, Notify, NotifyFails, MsgReply, Exit
<1>7. CASE Signal \/ TimerFires \/ OledStarts \/ OledDies \/ OledReceives \/ OledDraws \/ OledServes
           \/ \E c \in Clients : ClientSends(c)
  BY <1>7 DEF Signal, TimerFires, OledStarts, OledDies, OledReceives, OledDraws, OledServes, ClientSends
<1>8. CASE BusChanges
  BY <1>8 DEF BusChanges, BusVaries
<1>9. CASE UNCHANGED vars BY <1>9 DEF vars
<1> QED BY <1>1, <1>2, <1>3, <1>4, <1>5, <1>6, <1>7, <1>8, <1>9
        DEF Next, Thread, Environment

\* A process that nobody killed is gone only when its motors stand, provided
\* that the chip took the last writes.
THEOREM OffMeansStoppedCorrect == ASSUME ~MayCrash PROVE Spec => []OffMeansStopped
<1>1. Init => ExitInv
  BY DEF Init, DriverInit, ExitInv
<1>2. ServerInv /\ ExitInv /\ [Next]_vars => ExitInv'
  BY ExitInvInductive
<1>3. ServerInv /\ ExitInv /\ LastCallApplied => OffMeansStopped
  BY StopApplied DEF ServerInv, ExitInv, OffMeansStopped
<1> QED BY <1>1, <1>2, <1>3, ServerInvCorrect, ServerLastCallApplied, PTL DEF Spec

\* The answer to an emergency stop or a change of source finds the motors
\* stopped already.
THEOREM AckMeansStoppedCorrect == Spec => []AckMeansStopped
<1>1. CommandInv /\ LastCallApplied => AckMeansStopped
  BY StopApplied DEF CommandInv, AckInv, AckMeansStopped
<1> QED BY <1>1, CommandInvCorrect, ServerLastCallApplied, PTL

\* In the main loop a motor turns only while the watchdog has pulses left, and
\* a target that is not zero means that it has and that no emergency stop is
\* engaged.
THEOREM WatchdogGuardsCorrect == Spec => []WatchdogGuards
<1>1. CommandInv /\ LastCallApplied => WatchdogGuards
  <2> SUFFICES ASSUME CommandInv, LastCallApplied, pc \in Serving
               PROVE  WatchdogGuards
    BY DEF WatchdogGuards
  <2>1. ASSUME Idle, ~lost, ~AllStopped PROVE timeout_counter_ < TimeoutPulses
    <3>1. cmd # Stop
      BY <2>1, StopApplied
    <3> QED BY <3>1 DEF CommandInv, ActiveInv, Serving
  <2> QED BY <2>1 DEF CommandInv, MovingInv, WatchdogGuards
<1> QED BY <1>1, CommandInvCorrect, ServerLastCallApplied, PTL

-----------------------------------------------------------------------------
(* The display. *)

\* The display waits for no order and will go on showing ON.
Lit == asked = "nothing" /\ told = "on"

\* Why the display fails safe: only a drive process with a live connection can
\* tell it anything, an order is under way only while the thread waits for it and
\* is what the process believes, and whenever the connection is lost, was never
\* made, or the answer to an emergency stop has come, the display stays lit.
DisplayInv ==
  /\ m_oledCoid = "open" => oled
  /\ pc \in {"created", "starting", "connect"} => ~is_e_stopped_ /\ m_oledCoid = "none"
  /\ pc \in {"notify", "display"} /\ is_e_stopped_ => Served("engage")
  /\ Asking => pc = "display" /\ m_oledCoid = "open"
  /\ Asking /\ is_e_stopped_ => asked = "engage"
  /\ m_oledCoid = "stale" => Lit
  /\ pc \in Serving /\ m_oledCoid = "none" /\ ~g_shutdown_requested => Lit
  /\ /\ pc \in {"loop", "receive", "reply"} /\ m_oledCoid = "open"
     /\ is_e_stopped_ /\ ~g_shutdown_requested
     => Lit

LEMMA DisplayInvInductive ==
  ASSUME ServerTypeOK, SignInv, DisplayInv, [Next]_vars
  PROVE  DisplayInv'
<1> USE DEF DisplayInv, Lit, Served, Serving, Asking, logicVars, ipcVars, signVars
<1>0. m_oledCoid \in {"none", "open", "stale"}
  BY DEF ServerTypeOK, ControllerTypeOK
<1>1. CASE Launch
  <2>1. is_e_stopped_' = FALSE
    BY <1>1 DEF Launch, LogicReset
  <2>2. ~Asking
    BY <1>1 DEF Launch
  <2> QED BY <1>1, <2>1, <2>2 DEF Launch
<1>2. CASE CheckBeforeStart BY <1>2 DEF CheckBeforeStart
<1>3. CASE StartServer BY <1>3 DEF StartServer
<1>4. CASE StartFails BY <1>4 DEF StartFails
<1>5. CASE connectIPC BY <1>5 DEF connectIPC, SignInv
<1>6. CASE LoopCheck BY <1>6 DEF LoopCheck
<1>7. CASE WriteRegister BY <1>7 DEF WriteRegister
<1>8. CASE Notify BY <1>8 DEF Notify, Asks
<1>9. CASE NotifyFails BY <1>9 DEF NotifyFails
<1>10. CASE MsgReply BY <1>10 DEF MsgReply
<1>11. CASE BeginDestroy BY <1>11 DEF BeginDestroy
<1>12. CASE Exit BY <1>12 DEF Exit
<1>13. CASE Crash BY <1>13 DEF Crash, Abandon, Withdraws
<1>14. CASE Signal BY <1>14 DEF Signal, Abandon, Withdraws
<1>15. CASE ReceivePulse
  BY <1>15 DEF ReceivePulse, processHardwarePulse
<1>16. CASE ReceiveFails BY <1>16 DEF ReceiveFails
<1>17. ASSUME NEW c \in Clients, ReceiveEngage(c) PROVE DisplayInv'
  <2>1. Served("engage")'
    BY <1>17 DEF ReceiveEngage, Accept, ServerTypeOK, ControllerTypeOK
  <2> QED BY <1>17, <2>1 DEF ReceiveEngage, Accept
<1>18. ASSUME NEW c \in Clients, Receive(c), ~ReceiveEngage(c) PROVE DisplayInv'
  BY <1>18 DEF Receive, ReceiveSpeed, ReceiveControl, ReceiveClear,
     ReceiveOther, Accept, handleSpeedCommand, handleControlCommand, handleEStop
<1>19. CASE OledServes
  <2>1. told' = Ordered /\ asked' = "nothing"
    BY <1>19 DEF OledServes, Heeds, Draws
  <2>2. is_e_stopped_ => told' = "on"
    BY <1>19, <2>1 DEF OledServes, Ordered
  <2>3. /\ pc' = "reply" /\ m_oledCoid = "open"
        /\ UNCHANGED <<oled, m_oledCoid, is_e_stopped_, client, g_shutdown_requested>>
    BY <1>19 DEF OledServes, Heeds, Draws
  <2> QED BY <2>1, <2>2, <2>3
<1>20. CASE OledReceives \/ OledDraws BY <1>20 DEF OledReceives, OledDraws, Heeds, Draws
<1>21. CASE OledStarts \/ OledDies
  BY <1>0, <1>21 DEF OledStarts, OledDies, Clears, Appears, Vanishes
<1>22. CASE TimerFires \/ BusChanges BY <1>22 DEF TimerFires, BusChanges
<1>23. ASSUME NEW c \in Clients, ClientSends(c) PROVE DisplayInv'
  BY <1>23 DEF ClientSends
<1>24. CASE UNCHANGED vars BY <1>24 DEF vars
<1> QED BY <1>1, <1>2, <1>3, <1>4, <1>5, <1>6, <1>7, <1>8, <1>9, <1>10, <1>11,
           <1>12, <1>13, <1>14, <1>15, <1>16, <1>17, <1>18, <1>19, <1>20,
           <1>21, <1>22, <1>23, <1>24
        DEF Next, Thread, Environment, Receive

\* The glass of a display that is up never shows a free car while the drive process
\* holds an emergency stop, whatever messages were lost and whoever was restarted.
THEOREM DisplayFailSafeCorrect == Spec => []DisplayFailSafe
<1>1. Init => DisplayInv
  BY DEF Init, LogicInit, SignInit, DisplayInv, Asking, Serving
<1>2. ServerTypeOK /\ SignInv /\ DisplayInv /\ [Next]_vars => DisplayInv'
  BY DisplayInvInductive
<1>3. ServerTypeOK /\ SignInv /\ DisplayInv => DisplayFailSafe
  BY DEF ServerTypeOK, ControllerTypeOK, SignInv, DisplayInv, Lit, Serving, DisplayFailSafe
<1> QED BY <1>1, <1>2, <1>3, ServerTypeCorrect, UsesSignCorrect, PTL DEF Spec

-----------------------------------------------------------------------------
(* The drive process implements SafeDrive. *)

\* One register write touches one motor, and starts it only if the call asks
\* for motion.
LEMMA TurningStep ==
  ASSUME DriverTypeOK, setMotorSpeed
  PROVE  /\ motor \in Motors
         /\ \A m \in Motors \ {motor} : m \in Turning' <=> m \in Turning
         /\ motor \in Turning' => motor \in Turning \/ cmd # Stop
<1> DEFINE s == MotorSpeed(cmd, motor)
<1>1. ~Idle /\ motor \in Motors /\ OffPin(s) \in Pins /\ OnPin(s) \in Pins
      /\ OffPin(s) # OnPin(s)
  BY AtMotor DEF setMotorSpeed
<1>2. pwm \in [Motors -> [Pins -> 0..Resolution - 1]]
  BY DEF DriverTypeOK
<1>3. CASE ~WriteLands
  BY <1>1, <1>3, LostWrite DEF Turning, Stopped
<1>4. CASE WriteLands /\ phase = "off"
  <2>1. pwm' = [pwm EXCEPT ![motor][OffPin(s)] = 0]
    BY <1>4, OffWrite
  <2>2. \A m \in Motors : m # motor => pwm'[m] = pwm[m]
    BY <1>1, <1>2, <2>1
  <2>3. \A p \in Pins : pwm'[motor][p] = 0 \/ pwm'[motor][p] = pwm[motor][p]
    <3> HIDE DEF s
    <3> QED BY <1>1, <1>2, <2>1
  <2> QED BY <1>1, <2>2, <2>3 DEF Turning, Stopped
<1>5. CASE WriteLands /\ phase = "on"
  <2>1. pwm' = [pwm EXCEPT ![motor][OnPin(s)] = pwm_val(s)]
    BY <1>5, OnWrite
  <2>2. \A m \in Motors : m # motor => pwm'[m] = pwm[m]
    BY <1>1, <1>2, <2>1
  <2>3. ASSUME cmd = Stop
        PROVE  \A p \in Pins : pwm'[motor][p] = 0 \/ pwm'[motor][p] = pwm[motor][p]
    <3>1. pwm_val(s) = 0
      BY <2>3, StopSpeed, PwmValStop, Zenon
    <3> HIDE DEF s
    <3> QED BY <1>1, <1>2, <2>1, <3>1
  <2> QED BY <1>1, <2>2, <2>3 DEF Turning, Stopped
<1> QED BY <1>1, <1>3, <1>4, <1>5 DEF DriverTypeOK

LEMMA SafeWrite ==
  ASSUME ServerInv, ServerTypeOK, DriverTypeOK, CommandInv, WriteRegister
  PROVE  [Safe!Next]_(Safe!safeVars)
<1>1. UNCHANGED <<SafeOwner, SafeStopped, SafeFuel>>
  BY DEF WriteRegister, logicVars, SafeOwner, SafeStopped, SafeFuel, Moving
<1>2. /\ motor \in Motors
      /\ \A m \in Motors \ {motor} : m \in Turning' <=> m \in Turning
      /\ motor \in Turning' => motor \in Turning \/ cmd # Stop
  BY TurningStep DEF WriteRegister
<1>3. Turning \subseteq Motors /\ Turning' \subseteq Motors
  BY DEF Turning, Motors
<1>4. CASE motor \notin Turning'
  <2>1. Turning' = Turning \ {motor}
    BY <1>2, <1>3, <1>4
  <2> QED BY <1>1, <1>2, <2>1 DEF Safe!Next, Safe!Halt
<1>5. CASE motor \in Turning' /\ motor \in Turning
  <2>1. Turning' = Turning
    BY <1>2, <1>3, <1>5
  <2> QED BY <1>1, <2>1 DEF Safe!safeVars
<1>6. CASE motor \in Turning' /\ motor \notin Turning
  <2>1. Turning' = Turning \cup {motor}
    BY <1>2, <1>3, <1>6
  <2>2. pc = "loop" /\ Moving
    BY <1>2, <1>6 DEF CommandInv, WriteInv, WriteRegister, setMotorSpeed
  <2>3. SafeFuel > 0 /\ ~SafeStopped
    BY <2>2, LogicAssumption
    DEF CommandInv, MovingInv, SafeFuel, SafeStopped, ServerTypeOK, LogicTypeOK
  <2> QED BY <1>1, <1>2, <2>1, <2>3 DEF Safe!Next, Safe!Start
<1> QED BY <1>4, <1>5, <1>6

\* A step that keeps the process alive or dead, the logic and the registers is
\* none of SafeDrive.
LEMMA SafeStutter ==
  ASSUME UNCHANGED <<logicVars, pwm>>, pc = "off" <=> pc' = "off"
  PROVE  UNCHANGED Safe!safeVars
BY DEF logicVars, SafeOwner, SafeStopped, SafeFuel, Turning, Stopped, Moving,
       Safe!safeVars

\* The handlers: the owner's speed command, the change of owner, the emergency
\* stop and its clearing.
LEMMA SafeReceive ==
  ASSUME ServerTypeOK, CommandInv, NEW c \in Clients, Receive(c)
  PROVE  [Safe!Next]_(Safe!safeVars)
<1> USE DEF Accept, logicVars, chipVars
<1>1. pc # "off" /\ pc' # "off" /\ pwm' = pwm
  BY DEF Receive, ReceiveSpeed, ReceiveControl, ReceiveEngage, ReceiveClear,
         ReceiveOther
<1>2. /\ SafeOwner = current_active_source_ /\ SafeOwner' = current_active_source_'
      /\ SafeFuel = IF Moving THEN TimeoutPulses - timeout_counter_ ELSE 0
      /\ SafeFuel' = IF Moving' THEN TimeoutPulses - timeout_counter_' ELSE 0
      /\ Turning' = Turning
  BY <1>1 DEF SafeOwner, SafeFuel, Turning, Stopped
<1>3. /\ SafeStopped <=> is_e_stopped_
      /\ SafeStopped' <=> is_e_stopped_'
      /\ SafeStopped \in BOOLEAN /\ SafeStopped' \in BOOLEAN
  BY <1>1, Zenon DEF SafeStopped
<1>4. TimeoutPulses \in Nat \ {0} /\ timeout_counter_ \in Int
  BY LogicAssumption DEF ServerTypeOK, LogicTypeOK
<1>5. CASE UNCHANGED logicVars
  BY <1>1, <1>5, SafeStutter
<1>6. CASE ReceiveSpeed(c)
  <2>1. PICK source \in Sources, left \in Speeds, right \in Speeds :
          handleSpeedCommand(source, left, right)
    BY <1>6 DEF ReceiveSpeed
  <2>2. CASE source = current_active_source_ /\ ~is_e_stopped_
    <3>1. timeout_counter_' = 0 /\ UNCHANGED <<current_active_source_, is_e_stopped_>>
      BY <2>1, <2>2 DEF handleSpeedCommand, resetTimeout
    <3>2. SafeFuel' \in {0, TimeoutPulses}
      BY <1>2, <1>4, <3>1
    <3>3. ~SafeStopped /\ SafeStopped' = SafeStopped
      BY <1>3, <2>2, <3>1, Zenon DEF SafeStopped
    <3>4. SafeOwner # NoSource /\ SafeOwner' = SafeOwner
      BY <1>2, <2>2, <3>1, LogicAssumption
    <3> QED BY <1>2, <3>2, <3>3, <3>4 DEF Safe!Next, Safe!Drive
  <2>3. CASE ~(source = current_active_source_ /\ ~is_e_stopped_)
    BY <1>5, <2>1, <2>3 DEF handleSpeedCommand
  <2> QED BY <2>2, <2>3
<1>7. CASE ReceiveControl(c)
  <2>1. /\ current_active_source_' \in Sources /\ ~Moving'
        /\ is_e_stopped_' = is_e_stopped_
    BY <1>7 DEF ReceiveControl, handleControlCommand, ZeroTargets, Moving
  <2>2. SafeStopped' = SafeStopped
    BY <1>1, <2>1, Zenon DEF SafeStopped
  <2> QED BY <1>2, <2>1, <2>2 DEF Safe!Next, Safe!Switch
<1>8. CASE ReceiveEngage(c)
  <2>1. /\ current_active_source_' = current_active_source_ /\ ~Moving'
        /\ is_e_stopped_'
    BY <1>8 DEF ReceiveEngage, handleEStop, ZeroTargets, Moving
  <2>2. SafeStopped' = TRUE
    BY <1>3, <2>1, Zenon
  <2> QED BY <1>2, <2>1, <2>2 DEF Safe!Next, Safe!Engage
<1>9. CASE ReceiveClear(c)
  <2>1. /\ current_active_source_' = current_active_source_
        /\ Moving' <=> Moving
        /\ timeout_counter_' = 0 /\ ~is_e_stopped_'
    BY <1>9 DEF ReceiveClear, handleEStop, resetTimeout, Moving
  <2>2. SafeStopped' = FALSE
    BY <1>3, <2>1, Zenon
  <2>3. SafeFuel' = IF SafeFuel = 0 THEN 0 ELSE TimeoutPulses
    BY <1>2, <1>4, <2>1 DEF CommandInv, MovingInv
  <2> QED BY <1>2, <2>1, <2>2, <2>3 DEF Safe!Next, Safe!Clear
<1>10. CASE ReceiveOther(c)
  BY <1>5, <1>10 DEF ReceiveOther
<1> QED BY <1>6, <1>7, <1>8, <1>9, <1>10 DEF Receive

\* The pulse burns fuel.
LEMMA SafePulse ==
  ASSUME ServerTypeOK, CommandInv, ReceivePulse
  PROVE  [Safe!Next]_(Safe!safeVars)
<1>1. /\ pc # "off" /\ pc' # "off" /\ pwm' = pwm
      /\ current_active_source_' = current_active_source_
      /\ is_e_stopped_' = is_e_stopped_
      /\ processHardwarePulse
  BY DEF ReceivePulse, processHardwarePulse, chipVars
<1>2. UNCHANGED <<SafeOwner, SafeStopped, Turning>>
  BY <1>1 DEF SafeOwner, SafeStopped, Turning, Stopped
<1>3. TimeoutPulses \in Nat \ {0} /\ timeout_counter_ \in 0..TimeoutPulses + 1
  BY LogicAssumption DEF ServerTypeOK, LogicTypeOK
<1>4. /\ SafeFuel = IF Moving THEN TimeoutPulses - timeout_counter_ ELSE 0
      /\ SafeFuel' = IF Moving' THEN TimeoutPulses - timeout_counter_' ELSE 0
  BY <1>1 DEF SafeFuel
<1>5. Moving' <=> Moving /\ timeout_counter_' < TimeoutPulses
  BY <1>1, <1>3 DEF processHardwarePulse, ZeroTargets, Moving
<1>6. Moving => timeout_counter_ < TimeoutPulses
                /\ timeout_counter_' = timeout_counter_ + 1
  BY <1>1, <1>3 DEF processHardwarePulse, CommandInv, MovingInv
<1>7. SafeFuel' = IF SafeFuel = 0 THEN 0 ELSE SafeFuel - 1
  BY <1>3, <1>4, <1>5, <1>6
<1> QED BY <1>2, <1>7 DEF Safe!Next, Safe!Tick

\* Every step of the drive process and its environment is a step of SafeDrive
\* or leaves it unchanged.
LEMMA SafeStep ==
  ASSUME ServerInv, ServerTypeOK, DriverTypeOK, CommandInv, [Next]_vars
  PROVE  [Safe!Next]_(Safe!safeVars)
<1> USE DEF driverVars, chipVars
<1>1. CASE Launch
  <2>1. UNCHANGED <<SafeOwner, SafeStopped, SafeFuel, Turning>>
    BY <1>1, Zenon DEF Launch, LogicReset, SafeOwner, SafeStopped, SafeFuel,
       Turning, Stopped, Moving
  <2> QED BY <2>1 DEF Safe!safeVars
<1>2. CASE Exit \/ Crash
  <2>1. pc' = "off" /\ pwm' = pwm
    BY <1>2 DEF Exit, Crash, Kill
  <2>2. SafeOwner' = NoSource /\ SafeFuel' = 0 /\ Turning' = Turning
    BY <2>1 DEF SafeOwner, SafeFuel, Turning, Stopped
  <2>3. SafeStopped' = FALSE
    BY <2>1, Zenon DEF SafeStopped
  <2> QED BY <2>2, <2>3 DEF Safe!Next, Safe!Restart
<1>3. CASE WriteRegister BY <1>3, SafeWrite
<1>4. CASE ReceivePulse BY <1>4, SafePulse
<1>5. ASSUME NEW c \in Clients, Receive(c) PROVE [Safe!Next]_(Safe!safeVars)
  BY <1>5, SafeReceive
<1>6. CASE CheckBeforeStart \/ StartServer \/ StartFails \/ connectIPC
           \/ LoopCheck \/ Notify \/ NotifyFails \/ MsgReply \/ BeginDestroy
           \/ ReceiveFails
  BY <1>6, SafeStutter
  DEF CheckBeforeStart, StartServer, StartFails, connectIPC, LoopCheck, Notify,
      NotifyFails, MsgReply, BeginDestroy, ReceiveFails
<1>7. CASE Signal \/ TimerFires \/ OledStarts \/ OledDies \/ OledReceives \/ OledDraws \/ OledServes
           \/ BusChanges \/ \E c \in Clients : ClientSends(c)
  BY <1>7, SafeStutter
  DEF Signal, TimerFires, OledStarts, OledDies, OledReceives, OledDraws, OledServes, BusChanges,
      BusVaries, ClientSends
<1>8. CASE UNCHANGED vars BY <1>8, SafeStutter DEF vars, logicVars
<1> QED BY <1>1, <1>2, <1>3, <1>4, <1>5, <1>6, <1>7, <1>8
        DEF Next, Thread, Environment

\* Nothing starts a standing motor but the owner's speed command while it is
\* at most TimeoutPulses pulses old and no emergency stop is engaged.
THEOREM ImplementsSafeDrive == Spec => SafeDriveSpec
<1>1. Init => Safe!Init
  <2> SUFFICES ASSUME Init PROVE Safe!Init
    OBVIOUS
  <2>1. pc = "off" /\ pwm = [m \in Motors |-> [p \in Pins |-> 0]]
    BY DEF Init, DriverInit
  <2>2. SafeOwner = NoSource /\ SafeFuel = 0
    BY <2>1 DEF SafeOwner, SafeFuel
  <2>3. SafeStopped = FALSE
    BY <2>1, Zenon DEF SafeStopped
  <2>4. Turning = {}
    BY <2>1 DEF Turning, Stopped, Pins
  <2> QED BY <2>2, <2>3, <2>4 DEF Safe!Init
<1>2. ServerInv /\ ServerTypeOK /\ DriverTypeOK /\ CommandInv /\ [Next]_vars
        => [Safe!Next]_(Safe!safeVars)
  BY SafeStep
<1>3. Spec => []DriverTypeOK
  BY UsesDriverCorrect, DriverTypeCorrect DEF UsesDriver
<1> QED BY <1>1, <1>2, <1>3, ServerInvCorrect, ServerTypeCorrect,
           CommandInvCorrect, PTL
        DEF Spec, SafeDriveSpec, Safe!Spec

-----------------------------------------------------------------------------
(* The drive process implements DriveServer. *)

\* There and ToldToTurn are conditions, so steps that preserve their truth
\* preserve their value.
LEMMA Conditions ==
  /\ There \in BOOLEAN /\ There' \in BOOLEAN
  /\ ToldToTurn \in BOOLEAN /\ ToldToTurn' \in BOOLEAN
  /\ (There' <=> There) => There' = There
  /\ (ToldToTurn' <=> ToldToTurn) => ToldToTurn' = ToldToTurn
  /\ There' => There' = TRUE
  /\ ~There' => There' = FALSE
  /\ ~ToldToTurn' => ToldToTurn' = FALSE
BY Zenon DEF There, ToldToTurn

LEMMA OneStepStutter ==
  ASSUME UNCHANGED <<logicVars, cmd>>, There' <=> There
  PROVE  UNCHANGED OneStep!serverVars
<1>1. ToldToTurn' <=> ToldToTurn
  BY DEF ToldToTurn
<1> QED BY <1>1, Conditions DEF logicVars, OneStep!serverVars

\* stopAll and a call of setSpeeds tell the motors what DriveServer's handlers
\* do.
LEMMA CallTells ==
  /\ stopAll => ToldToTurn' = FALSE
  /\ callVars' = callVars => ToldToTurn' = ToldToTurn
  /\ \A l, r \in Int : Program(Clamp(l), Clamp(r)) => (ToldToTurn' <=> l # 0 \/ r # 0)
<1>1. ASSUME stopAll PROVE ToldToTurn' = FALSE
  <2>1. ~ToldToTurn'
    BY <1>1 DEF stopAll, Program, Stop, ToldToTurn
  <2> QED BY <2>1, Conditions
<1>2. ASSUME callVars' = callVars PROVE ToldToTurn' = ToldToTurn
  <2>1. ToldToTurn' <=> ToldToTurn
    BY <1>2 DEF callVars, ToldToTurn
  <2> QED BY <2>1, Conditions
<1>3. ASSUME NEW l \in Int, NEW r \in Int, Program(Clamp(l), Clamp(r))
      PROVE  ToldToTurn' <=> l # 0 \/ r # 0
  <2>1. Clamp(l) = 0 <=> l = 0
    BY DriverAssumption DEF Clamp
  <2>2. Clamp(r) = 0 <=> r = 0
    BY DriverAssumption DEF Clamp
  <2>3. cmd' = [left |-> Clamp(l), right |-> Clamp(r)]
    BY <1>3 DEF Program
  <2> HIDE DEF Clamp
  <2> QED BY <2>1, <2>2, <2>3 DEF Stop, ToldToTurn
<1> QED BY <1>1, <1>2, <1>3

\* Each message is one step of DriveServer, at the moment it is received.
LEMMA OneStepReceive ==
  ASSUME NEW c \in Clients, Receive(c)
  PROVE  [OneStep!ServerNext]_(OneStep!serverVars)
<1>1. There /\ There' = There
  <2>1. There /\ There'
    BY DEF Receive, ReceiveSpeed, ReceiveControl, ReceiveEngage, ReceiveClear,
       ReceiveOther, Accept, There
  <2> QED BY <2>1, Conditions
<1>2. CASE ReceiveSpeed(c)
  <2>1. PICK source \in Sources, left \in Speeds, right \in Speeds :
          handleSpeedCommand(source, left, right)
    BY <1>2 DEF ReceiveSpeed
  <2>2. ToldToTurn' = ToldToTurn
    BY <1>2, CallTells DEF ReceiveSpeed, callVars
  <2>3. CASE UNCHANGED logicVars
    BY <1>1, <2>2, <2>3 DEF logicVars, OneStep!serverVars
  <2>4. CASE source = current_active_source_ /\ ~is_e_stopped_
    <3>1. OneStep!HandleSpeed(source, target_speed_left_', target_speed_right_')
      BY <1>1, <2>1, <2>2, <2>4
      DEF handleSpeedCommand, resetTimeout, OneStep!HandleSpeed,
          OneStep!handleSpeedCommand, OneStep!resetTimeout
    <3> QED BY <3>1 DEF OneStep!ServerNext
  <2> QED BY <2>1, <2>3, <2>4 DEF handleSpeedCommand
<1>3. CASE ReceiveControl(c)
  <2>1. PICK source \in Sources : handleControlCommand(source)
    BY <1>3 DEF ReceiveControl
  <2>2. ToldToTurn' = FALSE
    BY <1>3, CallTells DEF ReceiveControl
  <2>3. OneStep!HandleControl(source)
    BY <1>1, <2>1, <2>2
    DEF handleControlCommand, ZeroTargets, resetTimeout, OneStep!HandleControl,
        OneStep!handleControlCommand, OneStep!ZeroTargets, OneStep!resetTimeout
  <2> QED BY <2>3 DEF OneStep!ServerNext
<1>4. CASE ReceiveEngage(c)
  <2>1. handleEStop(TRUE) /\ ToldToTurn' = FALSE
    BY <1>4, CallTells DEF ReceiveEngage
  <2>2. OneStep!HandleEStop(TRUE)
    BY <1>1, <2>1 DEF handleEStop, ZeroTargets, OneStep!HandleEStop,
       OneStep!handleEStop, OneStep!ZeroTargets
  <2> QED BY <2>2 DEF OneStep!ServerNext
<1>5. CASE ReceiveClear(c)
  <2>1. handleEStop(FALSE) /\ ToldToTurn' = ToldToTurn
    BY <1>5, CallTells DEF ReceiveClear, callVars
  <2>2. OneStep!HandleEStop(FALSE)
    BY <1>1, <2>1 DEF handleEStop, resetTimeout, OneStep!HandleEStop,
       OneStep!handleEStop, OneStep!resetTimeout
  <2> QED BY <2>2 DEF OneStep!ServerNext
<1>6. CASE ReceiveOther(c)
  BY <1>1, <1>6, OneStepStutter DEF ReceiveOther, callVars
<1> QED BY <1>2, <1>3, <1>4, <1>5, <1>6 DEF Receive

\* A pulse tells the motors to turn exactly if a target is left and there is no
\* emergency stop.
LEMMA OneStepPulse ==
  ASSUME ServerInv, ServerTypeOK', ReceivePulse
  PROVE  OneStep!ServerNext
<1>1. There /\ There' = There
  <2>1. There /\ There'
    BY DEF ReceivePulse, There
  <2> QED BY <2>1, Conditions
<1>2. processHardwarePulse /\ is_e_stopped_' = is_e_stopped_ /\ initialized_
  BY DEF ReceivePulse, processHardwarePulse, ServerInv, Attached, Serving
<1>3. ToldToTurn' = (~is_e_stopped_ /\ Moving')
  <2>1. ToldToTurn' <=> ~is_e_stopped_ /\ Moving'
    <3>1. CASE is_e_stopped_
      <4>1. ToldToTurn' = FALSE
        BY <3>1, CallTells DEF ReceivePulse
      <4> QED BY <3>1, <4>1, Zenon
    <3>2. CASE ~is_e_stopped_
      <4>1. Program(Clamp(target_speed_left_'), Clamp(target_speed_right_'))
        BY <1>2, <3>2 DEF ReceivePulse, setSpeeds
      <4>2. target_speed_left_' \in Int /\ target_speed_right_' \in Int
        BY DEF ServerTypeOK, LogicTypeOK
      <4> QED BY <3>2, <4>1, <4>2, CallTells DEF Moving
    <3> QED BY <3>1, <3>2
  <2> QED BY <2>1, Conditions, Zenon
<1>4. OneStep!HandlePulse
  BY <1>1, <1>2, <1>3
  DEF processHardwarePulse, ZeroTargets, Moving, OneStep!HandlePulse,
      OneStep!processHardwarePulse, OneStep!ZeroTargets, OneStep!Moving
<1> QED BY <1>4 DEF OneStep!ServerNext

\* Every other step is the start or the end of the process, or none that its
\* clients could notice.
LEMMA OneStepStep ==
  ASSUME ServerInv, ServerTypeOK', [Next]_vars
  PROVE  [OneStep!ServerNext]_(OneStep!serverVars)
<1> USE DEF driverVars, callVars
<1>1. CASE Launch
  <2>1. ~There /\ There'
    BY <1>1 DEF Launch, There
  <2>2. ToldToTurn' = ToldToTurn
    BY <1>1, CallTells DEF Launch
  <2>3. OneStep!ServerStarts
    BY <1>1, <2>1, <2>2, Conditions
    DEF Launch, LogicReset, OneStep!ServerStarts, OneStep!LogicReset
  <2> QED BY <2>3 DEF OneStep!ServerNext
<1>2. CASE BeginDestroy
  <2>1. There /\ ~There' /\ ToldToTurn' = FALSE
    BY <1>2, CallTells DEF BeginDestroy, There
  <2>2. OneStep!ServerEnds
    BY <1>2, <2>1, Conditions
    DEF BeginDestroy, logicVars, OneStep!ServerEnds, OneStep!logicVars
  <2> QED BY <2>2 DEF OneStep!ServerNext
<1>3. CASE Crash
  <2>1. ~There' /\ cmd' = cmd /\ UNCHANGED logicVars
    BY <1>3 DEF Crash, Kill, There
  <2>2. CASE ~There
    BY <2>1, <2>2, OneStepStutter
  <2>3. CASE There
    <3>1. ToldToTurn' = ToldToTurn
      <4>1. ToldToTurn' <=> ToldToTurn
        BY <2>1 DEF ToldToTurn
      <4> QED BY <4>1, Conditions
    <3>2. OneStep!ServerEnds
      BY <2>1, <2>3, <3>1, Conditions
      DEF logicVars, OneStep!ServerEnds, OneStep!logicVars
    <3> QED BY <3>2 DEF OneStep!ServerNext
  <2> QED BY <2>2, <2>3
<1>4. CASE ReceivePulse
  BY <1>4, OneStepPulse
<1>5. ASSUME NEW c \in Clients, Receive(c)
      PROVE  [OneStep!ServerNext]_(OneStep!serverVars)
  BY <1>5, OneStepReceive
<1>6. CASE WriteRegister
  BY <1>6, OneStepStutter DEF WriteRegister, setMotorSpeed, There
<1>7. CASE CheckBeforeStart \/ StartServer \/ StartFails \/ connectIPC
           \/ LoopCheck \/ Notify \/ NotifyFails \/ MsgReply \/ Exit
           \/ ReceiveFails
  BY <1>7, OneStepStutter
  DEF CheckBeforeStart, StartServer, StartFails, connectIPC, LoopCheck, Notify,
      NotifyFails, MsgReply, Exit, ReceiveFails, There
<1>8. CASE Signal \/ TimerFires \/ OledStarts \/ OledDies \/ OledReceives \/ OledDraws \/ OledServes
           \/ BusChanges \/ \E c \in Clients : ClientSends(c)
  BY <1>8, OneStepStutter
  DEF Signal, TimerFires, OledStarts, OledDies, OledReceives, OledDraws, OledServes, BusChanges,
      BusVaries, ClientSends, There
<1>9. CASE UNCHANGED vars
  BY <1>9, OneStepStutter DEF vars, logicVars, There
<1> QED BY <1>1, <1>2, <1>3, <1>4, <1>5, <1>6, <1>7, <1>8, <1>9
        DEF Next, Thread, Environment

\* To its clients the detailed server is the drive process of DriveServer, with
\* which CarSystem is built.
THEOREM ImplementsDriveServer == Spec => DriveServerSpec
<1>1. Init => OneStep!ServerInit
  <2> SUFFICES ASSUME Init PROVE OneStep!ServerInit
    OBVIOUS
  <2>1. There = FALSE
    BY Zenon DEF Init, There
  <2>2. ToldToTurn = FALSE
    BY Zenon DEF Init, DriverInit, ToldToTurn
  <2> QED BY <2>1, <2>2 DEF Init, LogicInit, OneStep!ServerInit, OneStep!LogicInit
<1>2. ServerInv /\ ServerTypeOK' /\ [Next]_vars
        => [OneStep!ServerNext]_(OneStep!serverVars)
  BY OneStepStep
<1> QED BY <1>1, <1>2, ServerInvCorrect, ServerTypeCorrect, PTL
        DEF Spec, DriveServerSpec, OneStep!ServerSpec

-----------------------------------------------------------------------------
(* The way to the end. *)

\* No signal is pending for a process that is not there.
RequestInv == pc = "off" => ~g_shutdown_requested

LEMMA RequestInvInductive ==
  ASSUME ServerInv, RequestInv, [Next]_vars
  PROVE  RequestInv'
<1>1. CASE pc' # "off"
  BY <1>1 DEF RequestInv
<1>2. CASE Exit \/ Crash
  BY <1>2, Zenon DEF Exit, Crash, RequestInv
<1>3. CASE pc = "off" /\ pc' = "off" /\ ~Exit /\ ~Crash
  <2>1. g_shutdown_requested' = g_shutdown_requested
    BY <1>3
    DEF Next, Thread, Environment, vars, Launch, CheckBeforeStart, StartServer,
        StartFails, connectIPC, LoopCheck, WriteRegister, Notify, NotifyFails,
        MsgReply, BeginDestroy, Signal, ReceivePulse, ReceiveFails, Receive,
        ReceiveSpeed, ReceiveControl, ReceiveEngage, ReceiveClear, ReceiveOther,
        Accept, OledServes, TimerFires, OledStarts, OledDies, OledReceives, OledDraws, BusChanges, ClientSends
  <2> QED BY <1>3, <2>1, Zenon DEF RequestInv
<1>4. CASE pc # "off" /\ pc' = "off" /\ ~Exit /\ ~Crash
  BY <1>4
  DEF Next, Thread, Environment, vars, Launch, CheckBeforeStart, StartServer,
      StartFails, connectIPC, LoopCheck, WriteRegister, Notify, NotifyFails,
      MsgReply, BeginDestroy, Signal, ReceivePulse, ReceiveFails, Receive,
      ReceiveSpeed, ReceiveControl, ReceiveEngage, ReceiveClear, ReceiveOther,
      Accept, OledServes, TimerFires, OledStarts, OledDies, OledReceives, OledDraws, BusChanges, ClientSends
<1> QED BY <1>1, <1>2, <1>3, <1>4

LEMMA Lexicographic ==
  ASSUME NEW a \in 0 .. 10, NEW b \in 0 .. 10, b < a, NEW k \in Nat,
         NEW w \in 0 .. k, NEW v \in 0 .. k
  PROVE  /\ a * (k + 1) + w \in Nat /\ b * (k + 1) + v \in Nat
         /\ b * (k + 1) + v < a * (k + 1) + w
<1>1. PICK d \in 0 .. 10 : a = b + 1 + d
  <2>1. a - b - 1 \in 0 .. 10 /\ a = b + 1 + (a - b - 1)
    OBVIOUS
  <2> QED BY <2>1
<1>2. /\ a * (k + 1) = b * (k + 1) + (k + 1) + d * (k + 1)
      /\ b * (k + 1) \in Nat /\ d * (k + 1) \in Nat
  BY <1>1
<1> QED BY <1>2

WritesIn(m, p) == IF m > MotorCount THEN 0
                  ELSE 2 * (MotorCount - m) + (IF p = "off" THEN 2 ELSE 1)

LEMMA WritesRange ==
  ASSUME NEW m \in 1 .. MotorCount + 1, NEW p
  PROVE  WritesIn(m, p) \in 0 .. 2 * MotorCount
<1>1. MotorCount \in Nat
  BY DriverAssumption
<1>2. CASE m > MotorCount
  BY <1>1, <1>2 DEF WritesIn
<1>3. CASE m <= MotorCount
  <2>1. MotorCount - m \in Nat /\ MotorCount - m <= MotorCount - 1
    BY <1>1, <1>3
  <2> QED BY <1>1, <1>3, <2>1 DEF WritesIn
<1> QED BY <1>1, <1>2, <1>3

\* Either a stage is left behind or a register is written; a stage that is begun
\* brings no more writes than all motors have.
LEMMA Descends ==
  ASSUME DriverTypeOK, ServerInv, DriverTypeOK', ServerInv',
         \/ StagesLeft' < StagesLeft
         \/ StagesLeft' = StagesLeft /\ WritesLeft' < WritesLeft
  PROVE  StepsLeft \in Nat /\ StepsLeft' \in Nat /\ StepsLeft' < StepsLeft
<1> DEFINE k == 2 * MotorCount
<1>1. MotorCount \in Nat /\ k \in Nat
  BY DriverAssumption
<1>2. WritesLeft \in 0 .. k /\ WritesLeft' \in 0 .. k
  <2>1. motor \in 1 .. MotorCount + 1 /\ motor' \in 1 .. MotorCount + 1
    BY DEF DriverTypeOK
  <2>2. /\ WritesIn(motor, phase) \in 0 .. k
        /\ WritesIn(motor', phase') \in 0 .. k
    BY <2>1, WritesRange
  <2> QED BY <2>2, Zenon DEF WritesIn, WritesLeft, Idle
<1>3. StagesLeft \in 0 .. 10 /\ StagesLeft' \in 0 .. 10
  BY DEF StagesLeft, ServerInv, PCs, Attached, Serving
<1>4. /\ StepsLeft = StagesLeft * (k + 1) + WritesLeft
      /\ StepsLeft' = StagesLeft' * (k + 1) + WritesLeft'
  BY DEF StepsLeft
<1> HIDE DEF k
<1>5. CASE StagesLeft' < StagesLeft
  BY <1>1, <1>2, <1>3, <1>4, <1>5, Lexicographic
<1>6. CASE StagesLeft' = StagesLeft /\ WritesLeft' < WritesLeft
  <2>1. StagesLeft * (k + 1) \in Nat
    BY <1>1, <1>3
  <2> QED BY <1>2, <1>4, <1>6, <2>1
<1> QED BY <1>5, <1>6

LEMMA WriteDescends ==
  ASSUME DriverTypeOK, WriteRegister
  PROVE  StagesLeft' = StagesLeft /\ WritesLeft' < WritesLeft
<1>1. StagesLeft' = StagesLeft
  BY DEF WriteRegister, StagesLeft
<1>2. /\ ~Idle
      /\ IF phase = "off" THEN phase' = "on" /\ motor' = motor
                          ELSE phase' = "off" /\ motor' = motor + 1
  BY DEF WriteRegister, setMotorSpeed
<1>3. MotorCount \in Nat /\ motor \in 1 .. MotorCount + 1 /\ phase \in {"off", "on"}
  BY DriverAssumption DEF DriverTypeOK
<1> QED BY <1>1, <1>2, <1>3 DEF WritesLeft, Idle

LEMMA StageDescends ==
  ASSUME ServerInv, RequestInv, g_shutdown_requested, [Next]_vars, ~WriteRegister
  PROVE  StagesLeft' < StagesLeft \/ UNCHANGED <<pc, motor, phase>>
<1> USE DEF StagesLeft
<1>1. CASE Launch
  <2>1. FALSE
    BY <1>1, Zenon DEF Launch, RequestInv
  <2> QED BY <2>1
<1>2. CASE CheckBeforeStart
  <2>1. pc = "created" /\ pc' = "teardown"
    BY <1>2, Zenon DEF CheckBeforeStart
  <2> QED BY <2>1
<1>3. CASE LoopCheck
  <2>1. pc = "loop" /\ pc' = "teardown"
    BY <1>3, Zenon DEF LoopCheck
  <2> QED BY <2>1
<1>4. CASE StartServer BY <1>4 DEF StartServer
<1>5. CASE StartFails BY <1>5 DEF StartFails
<1>6. CASE connectIPC BY <1>6 DEF connectIPC
<1>7. CASE Notify BY <1>7 DEF Notify
<1>8. CASE NotifyFails BY <1>8 DEF NotifyFails
<1>9. CASE MsgReply BY <1>9 DEF MsgReply
<1>10. CASE BeginDestroy BY <1>10 DEF BeginDestroy
<1>11. CASE Exit BY <1>11 DEF Exit
<1>12. CASE Crash
  <2>1. pc \in PCs \ {"off"} /\ pc' = "off"
    BY <1>12 DEF Crash, ServerInv
  <2> QED BY <2>1 DEF PCs, Attached, Serving
<1>13. CASE Signal
  <2>1. FALSE
    BY <1>13, Zenon DEF Signal
  <2> QED BY <2>1
<1>14. CASE ReceivePulse BY <1>14 DEF ReceivePulse
<1>15. CASE ReceiveFails BY <1>15 DEF ReceiveFails
<1>16. ASSUME NEW c \in Clients, Receive(c) PROVE StagesLeft' < StagesLeft
  <2>1. pc = "receive" /\ pc' \in {"reply", "notify"}
    BY <1>16 DEF Receive, ReceiveSpeed, ReceiveControl, ReceiveEngage, ReceiveClear,
       ReceiveOther, Accept
  <2> QED BY <2>1
<1>17. CASE OledServes BY <1>17 DEF OledServes
<1>18. CASE TimerFires \/ OledStarts \/ OledDies \/ OledReceives \/ OledDraws \/ BusChanges
            \/ \E c \in Clients : ClientSends(c)
  BY <1>18 DEF TimerFires, OledStarts, OledDies, OledReceives, OledDraws, BusChanges, BusVaries,
     ClientSends, driverVars, callVars
<1>19. CASE UNCHANGED vars
  BY <1>19 DEF vars
<1> QED BY <1>1, <1>2, <1>3, <1>4, <1>5, <1>6, <1>7, <1>8, <1>9, <1>10, <1>11, <1>12,
           <1>13, <1>14, <1>15, <1>16, <1>17, <1>18, <1>19
        DEF Next, Thread, Environment

\* The safety half of a shutdown's end: from the signal on there is a number of
\* steps that every step of the thread lowers and nothing else raises, for every
\* number of motors and clients (DriveController.cpp:41-60, 141-158).
THEOREM ShutdownDescendsCorrect == Spec => ShutdownDescends
<1>1. Init => RequestInv
  BY Zenon DEF Init, RequestInv
<1>2. ServerInv /\ RequestInv /\ [Next]_vars => RequestInv'
  BY RequestInvInductive
<1>3. Spec => []TypeOK
  BY TypeCorrect
<1>4. TypeOK => DriverTypeOK
  BY DEF TypeOK
<1>5. DriverTypeOK /\ ServerInv /\ RequestInv /\ DriverTypeOK' /\ ServerInv' /\ [Next]_vars
        => [g_shutdown_requested =>
              \/ StepsLeft \in Nat /\ StepsLeft' \in Nat /\ StepsLeft' < StepsLeft
              \/ UNCHANGED <<pc, motor, phase>>]_vars
  <2> SUFFICES ASSUME DriverTypeOK, ServerInv, RequestInv, DriverTypeOK', ServerInv',
                      [Next]_vars, g_shutdown_requested, ~ UNCHANGED <<pc, motor, phase>>
               PROVE  StepsLeft \in Nat /\ StepsLeft' \in Nat /\ StepsLeft' < StepsLeft
    BY Zenon
  <2>1. CASE WriteRegister
    BY <2>1, WriteDescends, Descends
  <2>2. CASE ~WriteRegister
    BY <2>2, StageDescends, Descends
  <2> QED BY <2>1, <2>2
<1> QED BY <1>1, <1>2, <1>3, <1>4, <1>5, ServerInvCorrect, PTL DEF Spec, ShutdownDescends
=============================================================================
