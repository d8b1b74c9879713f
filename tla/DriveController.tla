--------------------------- MODULE DriveController ---------------------------
(***************************************************************************)
(* The drive process: main() of drive.cpp and class DriveController (src/  *)
(* src/drive/src/DriveController.cpp) with the motor driver it owns.  One  *)
(* thread receives the clients' messages and the timer's pulses, writes    *)
(* the motors register by register, passes emergency stops on to the       *)
(* display and answers the client, who stays blocked until then.           *)
(*                                                                         *)
(* Around it: the clients, the POSIX timer, the display process as         *)
(* EStopSign describes it, signals, bus faults and kills.                  *)
(***************************************************************************)
EXTENDS DriveLogic, FourMotorI2CDriver, EStopSign

CONSTANTS
  Clients,      \* the threads that send to the drive channel
  MaxPulses,    \* bound: timer pulses kept in the channel's queue
  OledMayHang   \* the display may stop answering without dying

ASSUME ControllerAssumption ==
  /\ MaxPulses \in Nat \ {0}
  /\ OledMayHang \in BOOLEAN

VARIABLES
  pc,           \* where the server's thread is
  client,       \* client[c]: "idle", "blocked" in MsgSend, or the kind of its
                \* message once the server has received it
  pulses,       \* timer pulses queued on the channel
  g_shutdown_requested,
  m_oledCoid    \* "none", "open", or "stale" when the server behind it died

ipcVars == <<client, pulses, m_oledCoid>>
vars == <<pwm, bus, autoinc, device, initialized_, cmd, motor, phase, lost,
          current_active_source_, is_e_stopped_, timeout_counter_,
          target_speed_left_, target_speed_right_,
          pc, client, pulses, g_shutdown_requested, m_oledCoid,
          oled, asked, told, sign>>

Kinds == {"speed", "control", "engage", "clear", "other"}
Serving == {"loop", "receive", "notify", "display", "reply"}  \* the main loop
Attached == Serving \cup {"connect"}     \* the channel can be sent to
PCs == Attached \cup {"off", "created", "starting", "teardown", "stopping"}

Served(kind) == \E c \in Clients : client[c] = kind

ControllerTypeOK ==
  /\ pc \in PCs
  /\ target_speed_left_ \in Speeds /\ target_speed_right_ \in Speeds
  /\ client \in [Clients -> {"idle", "blocked"} \cup Kinds]
  /\ pulses \in 0..MaxPulses
  /\ g_shutdown_requested \in BOOLEAN
  /\ m_oledCoid \in {"none", "open", "stale"}
  /\ SignTypeOK

Init == /\ DriverInit
        /\ LogicInit
        /\ pc = "off"
        /\ client = [c \in Clients |-> "idle"]
        /\ pulses = 0
        /\ g_shutdown_requested = FALSE
        /\ m_oledCoid = "none"
        /\ SignInit

\* The channel goes away: every MsgSend on it fails and returns.
CloseChannel == /\ client' = [c \in Clients |-> "idle"]
                /\ pulses' = 0

-----------------------------------------------------------------------------
(* main() and start(). *)

\* The process starts and constructs DriveController, with it the driver that
\* takes the hardware lock and opens the bus.
Launch == /\ pc = "off"
          /\ pc' = "created"
          /\ LogicReset
          /\ device' = "open" /\ initialized_' = FALSE
          /\ g_shutdown_requested' = FALSE
          /\ m_oledCoid' = "none"
          /\ UNCHANGED <<chipVars, callVars, client, pulses, signVars>>

\* main() looks at the flag once before start().
CheckBeforeStart == /\ pc = "created"
                    /\ pc' = IF g_shutdown_requested THEN "teardown" ELSE "starting"
                    /\ UNCHANGED <<driverVars, logicVars, ipcVars,
                                   g_shutdown_requested, signVars>>

\* init() of the driver succeeds and the channel is attached.
StartServer == /\ pc = "starting"
               /\ bus
               /\ initialized_' = TRUE /\ autoinc' = TRUE
               /\ pc' = "connect"
               /\ UNCHANGED <<pwm, bus, device, callVars, logicVars, ipcVars,
                              g_shutdown_requested, signVars>>

\* init() fails, or one of name_attach, ConnectAttach, timer_create and
\* timer_settime does; whatever was attached is detached again.
StartFails == /\ pc \in {"starting", "connect"}
              /\ pc' = "teardown"
              /\ \/ UNCHANGED <<initialized_, autoinc>>
                 \/ pc = "starting" /\ bus
                    /\ initialized_' = TRUE /\ autoinc' = TRUE
                 \/ pc = "starting" /\ FaultyBus
                    /\ autoinc' = FALSE /\ UNCHANGED initialized_
              /\ CloseChannel
              /\ UNCHANGED <<pwm, bus, device, callVars, logicVars, m_oledCoid,
                             g_shutdown_requested, signVars>>

\* connectIPC(): open the display's channel if it is there; go on without it
\* after ten seconds, or at once when a shutdown is requested.
connectIPC == /\ pc = "connect"
              /\ \/ /\ oled /\ ~g_shutdown_requested
                    /\ m_oledCoid' = "open"
                 \/ /\ ~oled \/ g_shutdown_requested
                    /\ UNCHANGED m_oledCoid
              /\ pc' = "loop"
              /\ UNCHANGED <<driverVars, logicVars, client, pulses,
                             g_shutdown_requested, signVars>>

-----------------------------------------------------------------------------
(* The main loop. *)

\* Wrong variant: the loop looks at running_ only, which no signal clears.
LoopCheckRunning == /\ pc = "loop" /\ Idle
                    /\ pc' = "receive"
                    /\ UNCHANGED <<driverVars, logicVars, ipcVars,
                                   g_shutdown_requested, signVars>>

LoopCheck == /\ pc = "loop" /\ Idle
             /\ pc' = IF g_shutdown_requested THEN "teardown" ELSE "receive"
             /\ UNCHANGED <<driverVars, logicVars, ipcVars,
                            g_shutdown_requested, signVars>>

\* MsgReceive returns client c's message, of the given kind.
Accept(c, kind, next) ==
  /\ pc = "receive" /\ client[c] = "blocked"
  /\ client' = [client EXCEPT ![c] = kind]
  /\ pc' = next
  /\ UNCHANGED <<chipVars, deviceVars, pulses, g_shutdown_requested,
                 m_oledCoid, signVars>>

ReceiveSpeed(c) ==
  /\ Accept(c, "speed", "reply")
  /\ \E source \in Sources, left, right \in Speeds :
       handleSpeedCommand(source, left, right)
  /\ UNCHANGED callVars

\* Wrong variant: the new source takes over without the motors being stopped.
ReceiveControlNoStop(c) ==
  /\ Accept(c, "control", "reply")
  /\ \E source \in Sources : handleControlCommand(source)
  /\ UNCHANGED callVars

ReceiveControl(c) ==
  /\ Accept(c, "control", "reply")
  /\ \E source \in Sources : handleControlCommand(source)
  /\ stopAll

\* Wrong variant: the stop is left to the next pulse.
ReceiveEngageNoStop(c) ==
  /\ Accept(c, "engage", "notify")
  /\ handleEStop(TRUE)
  /\ UNCHANGED callVars

ReceiveEngage(c) ==
  /\ Accept(c, "engage", "notify")
  /\ handleEStop(TRUE)
  /\ stopAll

ReceiveClear(c) ==
  /\ Accept(c, "clear", "notify")
  /\ handleEStop(FALSE)
  /\ UNCHANGED callVars

\* Wrong variant: a message of no known type is dropped without an answer.
ReceiveOtherDropped(c) ==
  /\ Accept(c, "other", "loop")
  /\ UNCHANGED <<callVars, logicVars>>

\* _IO_CONNECT, answered EOK; a message too small, of the wrong size or of an
\* unknown type, answered with an error.
ReceiveOther(c) ==
  /\ Accept(c, "other", "reply")
  /\ UNCHANGED <<callVars, logicVars>>

\* Wrong variant: an expired watchdog zeroes the targets and skips the motors.
ReceivePulseSkipsMotors ==
  /\ pc = "receive" /\ pulses > 0
  /\ pulses' = pulses - 1
  /\ pc' = "loop"
  /\ processHardwarePulse
  /\ IF timeout_counter_' >= TimeoutPulses THEN UNCHANGED callVars
     ELSE IF is_e_stopped_ THEN stopAll
     ELSE setSpeeds(target_speed_left_', target_speed_right_')
  /\ UNCHANGED <<chipVars, deviceVars, client, g_shutdown_requested,
                 m_oledCoid, signVars>>

ReceivePulse ==
  /\ pc = "receive" /\ pulses > 0
  /\ pulses' = pulses - 1
  /\ pc' = "loop"
  /\ processHardwarePulse
  /\ IF is_e_stopped_ THEN stopAll
     ELSE setSpeeds(target_speed_left_', target_speed_right_')
  /\ UNCHANGED <<chipVars, deviceVars, client, g_shutdown_requested,
                 m_oledCoid, signVars>>

\* MsgReceive fails with something else than EINTR.
ReceiveFails == /\ pc = "receive"
                /\ pc' = "teardown"
                /\ UNCHANGED <<driverVars, logicVars, ipcVars,
                               g_shutdown_requested, signVars>>

\* One register write of the call the thread is in.
WriteRegister == /\ setMotorSpeed
                 /\ UNCHANGED <<logicVars, pc, ipcVars, g_shutdown_requested,
                                signVars>>

\* handleEStop's MsgSend: the thread blocks on a display that is there.
Notify == /\ pc = "notify" /\ Idle
          /\ IF m_oledCoid = "open"
               THEN /\ pc' = "display"
                    /\ Asks
                    /\ asked' = IF Served("engage") THEN "engage" ELSE "clear"
               ELSE pc' = "reply" /\ UNCHANGED signVars
          /\ UNCHANGED <<driverVars, logicVars, ipcVars, g_shutdown_requested>>

\* The MsgSend in progress fails: the display died.
NotifyFails == /\ pc = "display" /\ m_oledCoid = "stale"
               /\ pc' = "reply"
               /\ UNCHANGED <<driverVars, logicVars, ipcVars,
                              g_shutdown_requested, signVars>>

MsgReply == /\ pc = "reply" /\ Idle
            /\ client' = [c \in Clients |->
                            IF client[c] \in Kinds THEN "idle" ELSE client[c]]
            /\ pc' = "loop"
            /\ UNCHANGED <<driverVars, logicVars, pulses, m_oledCoid,
                           g_shutdown_requested, signVars>>

-----------------------------------------------------------------------------
(* The end of the process. *)

\* Wrong variant: the driver's destructor only releases the device.
BeginDestroyNoStop == /\ pc = "teardown"
                      /\ pc' = "stopping"
                      /\ device' = "closing"
                      /\ CloseChannel
                      /\ UNCHANGED <<chipVars, initialized_, callVars, logicVars,
                                     m_oledCoid, g_shutdown_requested, signVars>>

\* start() has returned and main() resets g_controller: the timer and the
\* channel go first, then the driver's destructor stops the motors.
BeginDestroy == /\ pc = "teardown"
                /\ pc' = "stopping"
                /\ device' = "closing"
                /\ stopAll
                /\ CloseChannel
                /\ UNCHANGED <<chipVars, initialized_, logicVars, m_oledCoid,
                               g_shutdown_requested, signVars>>

Exit == /\ pc = "stopping" /\ Idle
        /\ pc' = "off"
        /\ device' = "closed" /\ initialized_' = FALSE
        /\ m_oledCoid' = "none"
        /\ g_shutdown_requested' = FALSE
        /\ UNCHANGED <<chipVars, callVars, logicVars, client, pulses, signVars>>

\* Whoever waits for the display waits no more.
Abandon == IF Asking THEN Withdraws ELSE UNCHANGED signVars

\* The process dies without its destructors.
Crash == /\ pc # "off"
         /\ Kill
         /\ pc' = "off"
         /\ CloseChannel
         /\ m_oledCoid' = "none"
         /\ g_shutdown_requested' = FALSE
         /\ Abandon
         /\ UNCHANGED logicVars

-----------------------------------------------------------------------------
(* The environment. *)

\* SIGINT or SIGTERM.  A MsgReceive in progress returns EINTR, unless the
\* thread has not entered it yet; a MsgSend to the display may return EINTR too.
Signal == /\ pc # "off"
          /\ ~g_shutdown_requested
          /\ g_shutdown_requested' = TRUE
          /\ \/ UNCHANGED <<pc, signVars>>
             \/ pc = "receive" /\ pc' = "loop" /\ UNCHANGED signVars
             \/ pc = "display" /\ pc' = "reply" /\ Abandon
          /\ UNCHANGED <<driverVars, logicVars, ipcVars>>

\* The timer runs from the end of start()'s set-up to the destructor; a pulse
\* after the main loop is never received.
TimerFires == /\ pc \in Serving
              /\ pulses < MaxPulses
              /\ pulses' = pulses + 1
              /\ UNCHANGED <<driverVars, logicVars, pc, client, m_oledCoid,
                             g_shutdown_requested, signVars>>

\* A client's MsgSend; what it sends is decided when it is received.
ClientSends(c) == /\ pc \in Attached
                  /\ client[c] = "idle"
                  /\ client' = [client EXCEPT ![c] = "blocked"]
                  /\ UNCHANGED <<driverVars, logicVars, pc, pulses, m_oledCoid,
                                 g_shutdown_requested, signVars>>

\* Wrong variant: a display that starts shows a free car.
OledStartsClear == /\ \/ Clears
                      \/ /\ ~oled /\ sign \in {"none", "unknown"}
                         /\ oled' = TRUE /\ told' = "off"
                         /\ UNCHANGED <<asked, sign>>
                   /\ UNCHANGED <<driverVars, logicVars, pc, ipcVars,
                                  g_shutdown_requested>>

\* A display that starts makes the glass blank and shows an emergency stop until it
\* is told otherwise.
OledStarts == /\ Clears \/ Appears
              /\ UNCHANGED <<driverVars, logicVars, pc, ipcVars,
                             g_shutdown_requested>>

OledDies == /\ oled
            /\ Vanishes
            /\ m_oledCoid' = IF m_oledCoid = "open" THEN "stale" ELSE m_oledCoid
            /\ UNCHANGED <<driverVars, logicVars, pc, client, pulses,
                           g_shutdown_requested>>

\* The display takes an order over.
OledReceives == /\ Heeds /\ asked' = asked
                /\ UNCHANGED <<driverVars, logicVars, pc, ipcVars,
                               g_shutdown_requested>>

\* It draws, for a pulse, or as much as it manages to.
OledDraws == /\ Draws /\ asked' = asked
             /\ UNCHANGED <<driverVars, logicVars, pc, ipcVars,
                            g_shutdown_requested>>

\* It answers: MsgSend returns.
OledServes == /\ pc = "display" /\ m_oledCoid = "open"
              /\ Heeds \/ Draws
              /\ Asking /\ asked' = "nothing"
              /\ pc' = "reply"
              /\ UNCHANGED <<driverVars, logicVars, ipcVars, g_shutdown_requested>>

BusChanges == /\ BusVaries
              /\ UNCHANGED <<logicVars, pc, ipcVars, g_shutdown_requested,
                             signVars>>

Receive(c) == \/ ReceiveSpeed(c) \/ ReceiveControl(c) \/ ReceiveEngage(c)
              \/ ReceiveClear(c) \/ ReceiveOther(c)

\* The steps the thread takes by itself, one enabled at a time.
Thread == \/ CheckBeforeStart \/ StartServer \/ StartFails \/ connectIPC
          \/ LoopCheck \/ WriteRegister \/ Notify \/ NotifyFails \/ MsgReply
          \/ BeginDestroy \/ Exit

Environment == \/ Launch \/ Crash \/ Signal \/ TimerFires
               \/ OledStarts \/ OledDies \/ OledReceives \/ OledDraws \/ BusChanges
               \/ \E c \in Clients : ClientSends(c)

Next == \/ Thread \/ ReceivePulse \/ ReceiveFails \/ OledServes
        \/ \E c \in Clients : Receive(c)
        \/ Environment

Spec == Init /\ [][Next]_vars

\* The scheduler runs the thread, the kernel delivers each queued message and
\* pulse in the end (the channel is served in priority order and the senders
\* are paced at 20 Hz and below), the timer keeps firing, and a display that
\* does not hang answers.
Fairness == /\ WF_vars(Thread)
            /\ WF_vars(TimerFires)
            /\ SF_vars(ReceivePulse)
            /\ \A c \in Clients : SF_vars(Receive(c))
            /\ OledMayHang \/ (WF_vars(OledReceives) /\ WF_vars(OledServes))

FairSpec == Spec /\ Fairness

-----------------------------------------------------------------------------
(* Safety. *)

\* Every variable keeps its type, in the driver, the logic and the server.
TypeOK == DriverTypeOK /\ LogicTypeOK /\ ControllerTypeOK

\* The server uses the driver as its class allows: no call before the previous
\* one is over, none after the destructor, one destructor at the end; so every
\* guarantee of the driver is one of the whole process.
UsesDriver == DriverSpec

\* While the server runs under an emergency stop and is not in the middle of a
\* register sequence, no motor turns, unless the bus refused a write of the
\* last sequence: between the pulses, messages and reconnections that may
\* follow, nothing starts a motor again (README of drive, "Emergency stop takes
\* absolute priority over all other commands", line 138).
EStopHolds == is_e_stopped_ /\ pc \in Serving /\ Idle /\ ~lost => AllStopped

\* A client that is answered for an emergency stop or for a change of source
\* knows that the motors have already stopped, not that they will at the next
\* pulse (handleEStop and handleControlCommand, DriveController.cpp:295-338).
AckMeansStopped ==
  /\ pc = "reply" /\ Idle /\ ~lost
  /\ Served("engage") \/ Served("control")
  => AllStopped

\* In the main loop a motor turns only while the watchdog has pulses left; a
\* target that is not zero means that the watchdog is running and that no
\* emergency stop is engaged (processHardwarePulse, DriveController.cpp:344-370).
WatchdogGuards ==
  /\ pc \in Serving /\ Idle /\ ~lost /\ ~AllStopped
       => timeout_counter_ < TimeoutPulses
  /\ pc \in Serving /\ Moving
       => timeout_counter_ < TimeoutPulses /\ ~is_e_stopped_

\* The glass of a display that is up never shows a free car while the drive
\* process is stopped for an emergency, in spite of lost notifications, orders
\* still being drawn for a drive process that was killed, of either process
\* starting anew and of a connection that is never reopened.  The gaps are the
\* notification in progress, a shutdown that interrupts it, and a glass that is
\* "unknown": a byte was lost, and the old line may have stayed although the order
\* was answered (handleEStop's MsgSend, DriveController.cpp:324-337;
\* OLedDisplay.cpp:79, 129).
DisplayFailSafe ==
  /\ oled /\ pc \in Serving \ {"notify", "display"} /\ is_e_stopped_
  /\ ~g_shutdown_requested
  => sign # "off"

\* The state of SafeDrive: fuel is what the watchdog has left.  A process that
\* is gone has no owner, no emergency stop and no fuel, but its motors.
SafeOwner == IF pc = "off" THEN NoSource ELSE current_active_source_
SafeStopped == pc # "off" /\ is_e_stopped_
SafeFuel == IF pc # "off" /\ Moving THEN TimeoutPulses - timeout_counter_ ELSE 0
Turning == {m \in Motors : ~Stopped(m)}

Safe == INSTANCE SafeDrive WITH
          Owners <- Sources, Nobody <- NoSource, Tank <- TimeoutPulses,
          owner <- SafeOwner, stopped <- SafeStopped, fuel <- SafeFuel,
          turning <- Turning

\* No sequence of messages, pulses, faults, kills and restarts starts a motor
\* that was standing unless the owner's speed command is at most TimeoutPulses
\* pulses old and no emergency stop is engaged; clearing an emergency stop or
\* changing the source sets nothing in motion (README of drive, lines 107-138).
SafeDriveSpec == Safe!Spec

\* The state of DriveServer: the process counts as there from its constructor to
\* its destructor, and what the motors have been told is the last call's order,
\* which the registers obey when its writes are done and none was lost
\* (LastCallApplied).
There == pc \notin {"off", "stopping"}
ToldToTurn == cmd # Stop

OneStep == INSTANCE DriveServer WITH drive <- There, turning <- ToldToTurn

\* Register by register, with faults, kills, a failing start, queued pulses, a
\* display that blocks the thread and signals at any point, the process is to
\* its clients the drive process of CarSystem: each message and pulse is handled
\* as if in one step, and only a pulse without an emergency stop sets the motors
\* going (main loop, DriveController.cpp:127-243, and main, drive.cpp).
DriveServerSpec == OneStep!ServerSpec

\* A drive process that is gone has left the motors standing, wherever the
\* signal or the error met it, if the chip took the destructor's last writes
\* (README of drive, line 329: "FourMotorI2CDriver destructor always stops
\* motors"; ~FourMotorI2CDriver, FourMotorI2CDriver.cpp:37-63).
OffMeansStopped == pc = "off" /\ ~lost => AllStopped

\* The stages the thread goes through, the last first: once a shutdown is
\* requested it never goes back to an earlier one.
StagesLeft == CASE pc = "off" -> 0 [] pc = "stopping" -> 1 [] pc = "teardown" -> 2
                [] pc = "loop" -> 3 [] pc = "reply" -> 4 [] pc = "display" -> 5
                [] pc = "notify" -> 6 [] pc = "receive" -> 7 [] pc = "connect" -> 8
                [] pc = "starting" -> 9 [] pc = "created" -> 10

\* The register writes left in the call the thread is in.
WritesLeft == IF Idle THEN 0
              ELSE 2 * (MotorCount - motor) + (IF phase = "off" THEN 2 ELSE 1)

\* An upper bound on the steps of the thread before the process is gone.
StepsLeft == StagesLeft * (2 * MotorCount + 1) + WritesLeft

\* From the signal on, wherever it met the thread, every step the thread takes
\* brings the end of the process nearer: the message or pulse it may still
\* receive, because it looked at the flag just before, is the last one, and
\* nothing the clients, the timer, the display or the bus do sends it back.  It
\* is why ShutdownCompletes holds, and bounds what that leaves open (main loop,
\* DriveController.cpp:141-158; ~DriveController, 41-60).
ShutdownDescends ==
  [][g_shutdown_requested =>
       \/ StepsLeft \in Nat /\ StepsLeft' \in Nat /\ StepsLeft' < StepsLeft
       \/ UNCHANGED <<pc, motor, phase>>]_vars

-----------------------------------------------------------------------------
(* Liveness. *)

\* The client messages that reset the watchdog.
Fed == \E c \in Clients : ReceiveSpeed(c) \/ ReceiveControl(c) \/ ReceiveClear(c)

\* When the clients fall silent, the process goes on running and the bus works
\* in the end, the watchdog stops the car for good, although any number of
\* writes were lost before and emergency stops may still come in (README of
\* drive, line 309; setPWM's retry comment, FourMotorI2CDriver.cpp:195).
WatchdogHalts ==
  (<>[][~Fed]_vars /\ <>[](pc # "off") /\ <>[]bus) => <>[]AllStopped

\* A signal ends the process, wherever the thread was when it came (signal
\* handler and main loop, drive.cpp:29-33, DriveController.cpp:141-145).
ShutdownCompletes == g_shutdown_requested ~> pc = "off"

\* A client is never left blocked in MsgSend: its message is answered, refused,
\* or the channel goes away (switch, DriveController.cpp:175-222).
ClientAnswered == \A c \in Clients : client[c] = "blocked" ~> client[c] = "idle"
=============================================================================
