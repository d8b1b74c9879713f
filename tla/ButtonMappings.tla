--------------------------- MODULE ButtonMappings ---------------------------
(***************************************************************************)
(* The joystick process: main() of joystick.cpp, class ButtonMappings and  *)
(* the HID driver that feeds it (src/src/joystick/src).  The HID thread    *)
(* overwrites m_latestState with each report; every 50 ms the main thread  *)
(* takes a snapshot, sends the commands of the buttons newly pressed and   *)
(* then the speeds of the stick.  It ignores whether a MsgSend succeeds    *)
(* and never reopens its connection.  What the messages do to the drive    *)
(* process is in module CarSystem.                                         *)
(***************************************************************************)
EXTENDS Integers, Sequences

CONSTANT Pads  \* the controller's reports: buttons held, position of the stick

Buttons == {"START", "BACK"}
Centred == [buttons |-> {}, lx |-> 128, ly |-> 128]

ASSUME PadAssumption ==
  /\ Pads \subseteq [buttons : SUBSET Buttons, lx : 0..255, ly : 0..255]
  /\ Centred \in Pads

VARIABLES
  jpc,            \* "off", "connect", "hid", "wait" for the timer, "publish",
                  \* "centre", "final" or "exit"
  j_shutdown,     \* its g_shutdown_requested
  closing,        \* the main loop is over
  m_driveCoid,    \* "none", "open", or "stale" when the server behind it died
  m_latestState,  \* written by the HID thread
  m_prevState,    \* what the previous tick acted on
  currentState,   \* the snapshot this tick acts on
  outbox          \* the commands publishTick has still to send

padVars == <<m_latestState, m_prevState, currentState>>
joystickVars == <<jpc, j_shutdown, closing, m_driveCoid, m_latestState,
                  m_prevState, currentState, outbox>>

Commands == {"clear", "control", "engage", "speed"}

JoystickTypeOK ==
  /\ jpc \in {"off", "connect", "hid", "wait", "publish", "centre", "final", "exit"}
  /\ j_shutdown \in BOOLEAN
  /\ closing \in BOOLEAN
  /\ m_driveCoid \in {"none", "open", "stale"}
  /\ m_latestState \in Pads /\ m_prevState \in Pads /\ currentState \in Pads
  /\ outbox \in Seq(Commands)

-----------------------------------------------------------------------------
(* From a report to commands. *)

\* Wrong variant: the sum of throttle and steering is not limited.
LimitMissing(x) == x

\* std::max(-1, std::min(1, x)), in units of 1/128.
Limit(x) == IF x > 128 THEN 128 ELSE IF x < -128 THEN -128 ELSE x

\* abs(x) < 0.05 counts as zero.
DeadZone(x) == IF x \in -6..6 THEN 0 ELSE x

throttle(s) == DeadZone(128 - s.ly)
steering(s) == DeadZone(s.lx - 128)
leftSpeed(s) == Limit(throttle(s) + steering(s))
rightSpeed(s) == Limit(throttle(s) - steering(s))

pressedButtons == currentState.buttons \ m_prevState.buttons

\* Wrong variant: BACK before START.
publishBackFirst(pressed) ==
  (IF "BACK" \in pressed THEN <<"engage">> ELSE <<>>)
  \o (IF "START" \in pressed THEN <<"clear", "control">> ELSE <<>>)
  \o <<"speed">>

\* What publishTick sends, in this order.
publish(pressed) ==
  (IF "START" \in pressed THEN <<"clear", "control">> ELSE <<>>)
  \o (IF "BACK" \in pressed THEN <<"engage">> ELSE <<>>)
  \o <<"speed">>

-----------------------------------------------------------------------------
(* The process. *)

JoystickInit == /\ jpc = "off"
                /\ j_shutdown = FALSE
                /\ closing = FALSE
                /\ m_driveCoid = "none"
                /\ m_latestState = Centred
                /\ m_prevState = Centred
                /\ currentState = Centred
                /\ outbox = <<>>

JoystickStarts == /\ jpc = "off"
                  /\ jpc' = "connect"
                  /\ UNCHANGED <<j_shutdown, closing, m_driveCoid, padVars, outbox>>

\* The process is gone, in order or not.
JoystickEnds == /\ jpc' = "off"
                /\ j_shutdown' = FALSE
                /\ closing' = FALSE
                /\ m_driveCoid' = "none"
                /\ m_latestState' = Centred
                /\ m_prevState' = Centred
                /\ currentState' = Centred
                /\ outbox' = <<>>

JoystickDies == jpc # "off" /\ JoystickEnds

\* ButtonMappings::connectIPC() tries every half second until the drive channel
\* is there or a shutdown is requested.
JoystickConnects(there) ==
  /\ jpc = "connect"
  /\ ~j_shutdown /\ there
  /\ jpc' = "hid"
  /\ m_driveCoid' = "open"
  /\ UNCHANGED <<j_shutdown, closing, padVars, outbox>>

ConnectGivesUp == /\ jpc = "connect" /\ j_shutdown
                  /\ JoystickEnds

\* Wrong variant: the loop does not look at the flag.
LoopCheckIgnoresFlag(shutdown) == IF closing THEN "exit" ELSE "wait"

\* Where the thread goes before the next tick: to MsgReceive, out of the main
\* loop, or, when publishTick() was called for the last time, on to the end.
AfterTick(shutdown) == IF closing THEN "exit"
                       ELSE IF shutdown THEN "centre" ELSE "wait"

\* The HID driver, the channel and the timer.
JoystickReady == /\ jpc = "hid"
                 /\ jpc' = AfterTick(j_shutdown)
                 /\ UNCHANGED <<j_shutdown, closing, m_driveCoid, padVars, outbox>>

ReadyFails == jpc = "hid" /\ JoystickEnds

\* handleReport() and updateState() in the HID thread.  An unplugged
\* controller is one that sends no more reports: its last state stays.
Report == /\ jpc \in {"wait", "publish", "centre", "final", "exit"}
          /\ m_latestState' \in Pads
          /\ UNCHANGED <<jpc, j_shutdown, closing, m_driveCoid, m_prevState,
                         currentState, outbox>>

\* The first half of publishTick(): the snapshot and what is to be sent.
Snapshot == /\ currentState' = m_latestState
            /\ outbox' = publish(m_latestState.buttons \ m_prevState.buttons)
            /\ jpc' = "publish"
            /\ UNCHANGED <<j_shutdown, m_driveCoid, m_latestState, m_prevState>>

\* A pulse of the timer; the flag may have been set since the loop looked.
Tick == /\ jpc = "wait"
        /\ Snapshot
        /\ UNCHANGED closing

\* One MsgSend is over, whatever its result; the last one ends publishTick().
Sent(shutdown) ==
  /\ jpc = "publish"
  /\ j_shutdown' = shutdown
  /\ outbox' = Tail(outbox)
  /\ IF Len(outbox) > 1
       THEN UNCHANGED <<jpc, m_prevState>>
       ELSE m_prevState' = currentState /\ jpc' = AfterTick(shutdown)
  /\ UNCHANGED <<closing, m_driveCoid, m_latestState, currentState>>

\* The drive process has handled and answered a command.
Sends(command) == /\ jpc = "publish" /\ m_driveCoid = "open"
                  /\ Head(outbox) = command
                  /\ Sent(j_shutdown)

SendFails == m_driveCoid = "stale" /\ Sent(j_shutdown)

\* SIGINT or SIGTERM sets the flag.  It ends a MsgReceive in progress, unless
\* the thread has not entered it yet, and a MsgSend in progress, unless the
\* drive process has received the message.
JoystickSignal ==
  \/ /\ jpc # "off"
     /\ jpc' \in IF jpc = "wait" THEN {"wait", "centre"} ELSE {jpc}
     /\ j_shutdown' = TRUE
     /\ UNCHANGED <<closing, m_driveCoid, padVars, outbox>>
  \/ Sent(TRUE)

\* MsgReceive fails with something else than EINTR.
JoystickReceiveFails ==
  /\ jpc = "wait" /\ jpc' = "centre"
  /\ UNCHANGED <<j_shutdown, closing, m_driveCoid, padVars, outbox>>

\* updateState(stopState).
Centre == /\ jpc = "centre"
          /\ m_latestState' = Centred
          /\ closing' = TRUE
          /\ jpc' = "final"
          /\ UNCHANGED <<j_shutdown, m_driveCoid, m_prevState,
                         currentState, outbox>>

\* The last publishTick().
FinalTick == /\ jpc = "final"
             /\ Snapshot
             /\ UNCHANGED closing

\* driver.stop() and disconnectIPC().
JoystickExit == jpc = "exit" /\ JoystickEnds

\* The server of the connection dies.
JoystickLosesDrive ==
  /\ m_driveCoid' = IF m_driveCoid = "open" THEN "stale" ELSE m_driveCoid
  /\ UNCHANGED <<jpc, j_shutdown, closing, padVars, outbox>>
=============================================================================
