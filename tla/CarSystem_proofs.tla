--------------------------- MODULE CarSystem_proofs ---------------------------
(***************************************************************************)
(* Theorems about CarSystem, proved for every timeout, every set of        *)
(* control sources and every set of controller reports.                    *)
(***************************************************************************)
EXTENDS CarSystem, SequenceTheorems, TLAPS

USE LogicAssumption, PadAssumption, CarAssumption

-----------------------------------------------------------------------------
(* From a stick position to speeds. *)

\* Both sides' speeds stay within full speed for every position of the stick
\* (publishTick's limits, ButtonMappings.cpp:97-101).
THEOREM SpeedsInRange ==
  ASSUME NEW s, s.lx \in 0..255, s.ly \in 0..255
  PROVE  leftSpeed(s) \in -128..128 /\ rightSpeed(s) \in -128..128
<1>1. throttle(s) \in Int /\ steering(s) \in Int
  BY DEF throttle, steering, DeadZone
<1>2. ASSUME NEW x \in Int PROVE Limit(x) \in -128..128
  BY DEF Limit
<1> QED
  BY <1>1, <1>2 DEF leftSpeed, rightSpeed

\* A stick held straight ahead or back drives straight, and one within the
\* dead zone in both directions stands.
THEOREM StraightStick ==
  ASSUME NEW s, s.lx \in 122..134, s.ly \in 0..255
  PROVE  /\ leftSpeed(s) = rightSpeed(s)
         /\ s.ly \in 122..134 => leftSpeed(s) = 0
<1>1. steering(s) = 0
  BY DEF steering, DeadZone
<1>2. throttle(s) \in Int
  BY DEF throttle, DeadZone
<1>3. s.ly \in 122..134 => throttle(s) = 0
  BY DEF throttle, DeadZone
<1> QED
  BY <1>1, <1>2, <1>3 DEF leftSpeed, rightSpeed, Limit

\* Mirroring the stick to the other side swaps the sides of the car, except at
\* the stop lx = 0, which has no mirror image within 0..255.
THEOREM MirroredStick ==
  ASSUME NEW s, NEW t, s.lx \in 1..255, s.ly \in 0..255,
         t.lx = 256 - s.lx, t.ly = s.ly
  PROVE  leftSpeed(t) = rightSpeed(s) /\ rightSpeed(t) = leftSpeed(s)
<1>1. /\ throttle(s) \in Int /\ steering(s) \in Int
      /\ throttle(t) = throttle(s)
      /\ steering(t) = 0 - steering(s)
  BY DEF throttle, steering, DeadZone
<1>2. /\ throttle(t) + steering(t) = throttle(s) - steering(s)
      /\ throttle(t) - steering(t) = throttle(s) + steering(s)
  BY <1>1
<1> QED
  BY <1>2 DEF leftSpeed, rightSpeed

-----------------------------------------------------------------------------
(* The commands of a tick. *)

\* What is left to send while a tick is being published: a suffix of the
\* commands in their order.
Suffixes == {<<"clear", "control", "engage", "speed">>,
             <<"clear", "control", "speed">>,
             <<"control", "engage", "speed">>,
             <<"control", "speed">>,
             <<"engage", "speed">>,
             <<"speed">>}

\* The suffixes when BACK was not sent yet.
BackToSend == {<<"clear", "control", "engage", "speed">>,
               <<"control", "engage", "speed">>,
               <<"engage", "speed">>}

\* A sequence that extends s by one element is s \o <<b>>.
LEMMA Appended ==
  ASSUME NEW S, NEW s \in Seq(S), NEW b \in S, NEW u \in Seq(S),
         Len(u) = Len(s) + 1, u[Len(u)] = b,
         \A i \in 1..Len(s) : u[i] = s[i]
  PROVE  s \o <<b>> = u
<1>1. <<b>> \in Seq(S) /\ Len(<<b>>) = 1 /\ <<b>>[1] = b
  OBVIOUS
<1>2. /\ s \o <<b>> \in Seq(S)
      /\ Len(s \o <<b>>) = Len(s) + 1
      /\ \A i \in 1 .. Len(s) + 1 : (s \o <<b>>)[i] =
            IF i <= Len(s) THEN s[i] ELSE <<b>>[i - Len(s)]
  BY <1>1, ConcatProperties
<1>3. Len(s) \in Nat
  OBVIOUS
<1> DEFINE t == s \o <<b>>
<1>4. ASSUME NEW i \in 1..Len(t) PROVE t[i] = u[i]
  <2>1. CASE i <= Len(s)
    BY <1>2, <1>3, <2>1
  <2>2. CASE i = Len(s) + 1
    <3>1. i - Len(s) = 1 /\ ~(i <= Len(s)) BY <1>3, <2>2
    <3> QED BY <1>1, <1>2, <1>3, <2>2, <3>1
  <2> QED BY <1>2, <1>3, <2>1, <2>2
<1> HIDE DEF t
<1>5. t \in Seq(S) /\ Len(t) = Len(u)
  BY <1>2 DEF t
<1>6. t = u
  BY <1>4, <1>5, SeqEqual
<1> QED BY <1>6 DEF t

LEMMA Pair ==
  ASSUME NEW a \in Commands, NEW b \in Commands
  PROVE  <<a>> \o <<b>> = <<a, b>>
<1> DEFINE s == <<a>>
           u == <<a, b>>
<1>1. /\ s \in Seq(Commands) /\ u \in Seq(Commands)
      /\ Len(u) = Len(s) + 1 /\ u[Len(u)] = b
  OBVIOUS
<1>2. ASSUME NEW i \in 1..Len(s) PROVE u[i] = s[i]
  OBVIOUS
<1> HIDE DEF s, u
<1>3. s \o <<b>> = u
  BY <1>1, <1>2, Appended
<1> QED
  BY <1>3 DEF s, u

LEMMA Triple ==
  ASSUME NEW a \in Commands, NEW b \in Commands, NEW c \in Commands
  PROVE  <<a, b>> \o <<c>> = <<a, b, c>>
<1> DEFINE s == <<a, b>>
           u == <<a, b, c>>
<1>1. /\ s \in Seq(Commands) /\ u \in Seq(Commands)
      /\ Len(u) = Len(s) + 1 /\ u[Len(u)] = c
  OBVIOUS
<1>2. ASSUME NEW i \in 1..Len(s) PROVE u[i] = s[i]
  OBVIOUS
<1> HIDE DEF s, u
<1>3. s \o <<c>> = u
  BY <1>1, <1>2, Appended
<1> QED
  BY <1>3 DEF s, u

LEMMA Quadruple ==
  ASSUME NEW a \in Commands, NEW b \in Commands, NEW c \in Commands,
         NEW d \in Commands
  PROVE  <<a, b, c>> \o <<d>> = <<a, b, c, d>>
<1> DEFINE s == <<a, b, c>>
           u == <<a, b, c, d>>
<1>1. /\ s \in Seq(Commands) /\ u \in Seq(Commands)
      /\ Len(u) = Len(s) + 1 /\ u[Len(u)] = d
  OBVIOUS
<1>2. ASSUME NEW i \in 1..Len(s) PROVE u[i] = s[i]
  OBVIOUS
<1> HIDE DEF s, u
<1>3. s \o <<d>> = u
  BY <1>1, <1>2, Appended
<1> QED
  BY <1>3 DEF s, u

LEMMA PublishedCommands ==
  ASSUME NEW pressed
  PROVE  /\ publish(pressed) \in Suffixes
         /\ "BACK" \in pressed => publish(pressed) \in BackToSend
<1>1. /\ "clear" \in Commands /\ "control" \in Commands
      /\ "engage" \in Commands /\ "speed" \in Commands
  BY DEF Commands
<1>2. CASE "START" \in pressed /\ "BACK" \in pressed
  <2>1. publish(pressed) = (<<"clear", "control">> \o <<"engage">>) \o <<"speed">>
    BY <1>2 DEF publish
  <2>2. <<"clear", "control">> \o <<"engage">> = <<"clear", "control", "engage">>
    BY <1>1, Triple
  <2>3. <<"clear", "control", "engage">> \o <<"speed">>
          = <<"clear", "control", "engage", "speed">>
    BY <1>1, Quadruple
  <2>4. publish(pressed) = <<"clear", "control", "engage", "speed">>
    BY <2>1, <2>2, <2>3
  <2> QED BY <2>4 DEF Suffixes, BackToSend
<1>3. CASE "START" \in pressed /\ "BACK" \notin pressed
  <2>1. publish(pressed) = (<<"clear", "control">> \o <<>>) \o <<"speed">>
    BY <1>3 DEF publish
  <2>2. <<"clear", "control">> \o <<>> = <<"clear", "control">>
    OBVIOUS
  <2>3. publish(pressed) = <<"clear", "control", "speed">>
    BY <1>1, <2>1, <2>2, Triple
  <2> QED BY <1>3, <2>3 DEF Suffixes
<1>4. CASE "START" \notin pressed /\ "BACK" \in pressed
  <2>1. publish(pressed) = (<<>> \o <<"engage">>) \o <<"speed">>
    BY <1>4 DEF publish
  <2>2. <<>> \o <<"engage">> = <<"engage">>
    OBVIOUS
  <2>3. publish(pressed) = <<"engage", "speed">>
    BY <1>1, <2>1, <2>2, Pair
  <2> QED BY <2>3 DEF Suffixes, BackToSend
<1>5. CASE "START" \notin pressed /\ "BACK" \notin pressed
  <2>1. publish(pressed) = <<"speed">>
    BY <1>5 DEF publish
  <2> QED BY <1>5, <2>1 DEF Suffixes
<1> QED BY <1>2, <1>3, <1>4, <1>5

\* Each suffix is followed by the next shorter one.
LEMMA TailsOfSuffixes ==
  /\ Tail(<<"clear", "control", "engage", "speed">>) = <<"control", "engage", "speed">>
  /\ Tail(<<"clear", "control", "speed">>) = <<"control", "speed">>
  /\ Tail(<<"control", "engage", "speed">>) = <<"engage", "speed">>
  /\ Tail(<<"control", "speed">>) = <<"speed">>
  /\ Tail(<<"engage", "speed">>) = <<"speed">>
  /\ Tail(<<"speed">>) = <<>>
OBVIOUS

\* What one MsgSend leaves to be sent.
LEMMA NextCommands ==
  ASSUME outbox \in Suffixes, outbox' = Tail(outbox)
  PROVE  /\ outbox \in Seq(Commands) /\ outbox' \in Seq(Commands)
         /\ Len(outbox) > 1 => outbox' \in Suffixes
         /\ Len(outbox) > 1 <=> outbox # <<"speed">>
         /\ outbox \in BackToSend =>
              \/ outbox' \in BackToSend
              \/ outbox = <<"engage", "speed">> /\ outbox' = <<"speed">>
<1> USE TailsOfSuffixes
<1>1. outbox' \in Seq(Commands) /\ outbox \in Seq(Commands)
  BY DEF Suffixes, Commands
<1>2. Len(outbox) > 1 <=> outbox # <<"speed">>
  BY DEF Suffixes
<1>3. outbox # <<"speed">> => outbox' \in Suffixes
  BY DEF Suffixes
<1>4. outbox \in BackToSend =>
        \/ outbox' \in BackToSend
        \/ outbox = <<"engage", "speed">> /\ outbox' = <<"speed">>
  BY DEF BackToSend
<1> QED BY <1>1, <1>2, <1>3, <1>4

-----------------------------------------------------------------------------
(* Types. *)

\* While a tick is published there is something left to send.
OutboxInv == jpc = "publish" => outbox \in Suffixes

JoystickInv == JoystickTypeOK /\ OutboxInv

LEMMA SentKeepsType ==
  ASSUME JoystickInv, NEW shutdown \in BOOLEAN, Sent(shutdown)
  PROVE  JoystickInv'
<1> USE DEF JoystickInv, JoystickTypeOK, OutboxInv
<1>1. outbox \in Suffixes /\ outbox' = Tail(outbox)
  BY DEF Sent
<1>2. /\ outbox' \in Seq(Commands)
      /\ Len(outbox) > 1 => outbox' \in Suffixes
  BY <1>1, NextCommands
<1>3. CASE Len(outbox) > 1
  BY <1>1, <1>2, <1>3 DEF Sent
<1>4. CASE ~(Len(outbox) > 1)
  BY <1>1, <1>2, <1>4 DEF Sent, AfterTick
<1> QED BY <1>3, <1>4

LEMMA SnapshotKeepsType ==
  ASSUME JoystickInv, Snapshot, UNCHANGED closing
  PROVE  JoystickInv'
<1>1. publish(m_latestState.buttons \ m_prevState.buttons) \in Suffixes
  BY PublishedCommands
<1>2. /\ <<"clear", "control", "engage", "speed">> \in Seq(Commands)
      /\ <<"clear", "control", "speed">> \in Seq(Commands)
      /\ <<"control", "engage", "speed">> \in Seq(Commands)
      /\ <<"control", "speed">> \in Seq(Commands)
      /\ <<"engage", "speed">> \in Seq(Commands)
      /\ <<"speed">> \in Seq(Commands)
  BY DEF Commands
<1>3. publish(m_latestState.buttons \ m_prevState.buttons) \in Seq(Commands)
  BY <1>1, <1>2 DEF Suffixes
<1> QED
  BY <1>1, <1>3 DEF Snapshot, JoystickInv, JoystickTypeOK, OutboxInv

JoystickStep == \/ \E command \in Commands : Sends(command)
                \/ \E there \in BOOLEAN : JoystickConnects(there)
                \/ ConnectGivesUp \/ JoystickReady \/ Tick \/ SendFails
                \/ Centre \/ FinalTick \/ JoystickExit \/ JoystickStarts
                \/ JoystickDies \/ ReadyFails \/ Report \/ JoystickSignal
                \/ JoystickReceiveFails \/ JoystickLosesDrive
                \/ UNCHANGED joystickVars

LEMMA JoystickKeepsType ==
  ASSUME JoystickInv, JoystickStep
  PROVE  JoystickInv'
<1> USE DEF JoystickInv, JoystickTypeOK, OutboxInv, padVars
<1>0. JoystickEnds => JoystickInv'
  <2>1. JoystickEnds => j_shutdown' \in BOOLEAN /\ closing' \in BOOLEAN
    BY Zenon DEF JoystickEnds
  <2>2. JoystickEnds => /\ jpc' = "off" /\ m_driveCoid' = "none"
                        /\ outbox' \in Seq(Commands)
                        /\ m_latestState' \in Pads /\ m_prevState' \in Pads
                        /\ currentState' \in Pads
    BY DEF JoystickEnds
  <2> QED BY <2>1, <2>2
<1>1. ASSUME NEW command \in Commands, Sends(command) PROVE JoystickInv'
  BY <1>1, SentKeepsType DEF Sends
<1>2. CASE SendFails
  BY <1>2, SentKeepsType DEF SendFails
<1>3. CASE Tick \/ FinalTick
  BY <1>3, SnapshotKeepsType DEF Tick, FinalTick
<1>4. ASSUME NEW there \in BOOLEAN, JoystickConnects(there) PROVE JoystickInv'
  BY <1>4 DEF JoystickConnects
<1>5. CASE ConnectGivesUp \/ JoystickExit \/ JoystickDies \/ ReadyFails
  BY <1>0, <1>5 DEF ConnectGivesUp, JoystickExit, JoystickDies, ReadyFails
<1>6. CASE JoystickReady
  BY <1>6 DEF JoystickReady, AfterTick
<1>7. CASE Centre
  BY <1>7 DEF Centre
<1>8. CASE JoystickStarts
  BY <1>8 DEF JoystickStarts
<1>9. CASE Report
  BY <1>9 DEF Report
<1>10. CASE JoystickSignal
  <2>1. CASE Sent(TRUE)
    BY <2>1, SentKeepsType
  <2>2. CASE ~Sent(TRUE)
    <3>1. j_shutdown' \in BOOLEAN
      BY <1>10, <2>2, Zenon DEF JoystickSignal
    <3>2. /\ jpc' \in {jpc, "centre"}
          /\ UNCHANGED <<closing, m_driveCoid, padVars, outbox>>
      BY <1>10, <2>2 DEF JoystickSignal
    <3> QED BY <3>1, <3>2
  <2> QED BY <2>1, <2>2
<1>11. CASE JoystickReceiveFails
  BY <1>11 DEF JoystickReceiveFails
<1>12. CASE JoystickLosesDrive
  BY <1>12 DEF JoystickLosesDrive
<1>13. CASE UNCHANGED joystickVars
  BY <1>13 DEF joystickVars
<1> QED
  BY <1>1, <1>2, <1>3, <1>4, <1>5, <1>6, <1>7, <1>8, <1>9, <1>10, <1>11, <1>12,
     <1>13 DEF JoystickStep

UltrasonicStep == \/ EStopSent \/ initSharedState \/ measureDistanceCm
                  \/ NothingToSend \/ EStopFails
                  \/ \E there \in BOOLEAN : connectDriveIpc(there)
                  \/ UltrasonicStarts \/ UltrasonicDies
                  \/ UltrasonicLosesDrive \/ UNCHANGED ultrasonicVars

LEMMA UltrasonicKeepsType ==
  ASSUME UltrasonicTypeOK, UltrasonicStep
  PROVE  UltrasonicTypeOK'
<1> USE DEF UltrasonicTypeOK
<1>1. CASE EStopSent
  <2>1. should_engage \in BOOLEAN
    BY Zenon DEF should_engage
  <2> QED BY <1>1, <2>1 DEF EStopSent
<1>2. CASE UltrasonicDies
  <2>1. estop_engaged_' \in BOOLEAN
    BY <1>2, Zenon DEF UltrasonicDies
  <2> QED BY <1>2, <2>1 DEF UltrasonicDies
<1>3. CASE UltrasonicLosesDrive
  BY <1>3 DEF UltrasonicLosesDrive
<1>4. ASSUME NEW there \in BOOLEAN, connectDriveIpc(there)
      PROVE  UltrasonicTypeOK'
  BY <1>4 DEF connectDriveIpc
<1>5. CASE NothingToSend \/ EStopFails
  BY <1>5 DEF NothingToSend, EStopFails
<1>6. CASE UltrasonicStarts \/ initSharedState \/ measureDistanceCm
  BY <1>6 DEF UltrasonicStarts, initSharedState, measureDistanceCm
<1>7. CASE UNCHANGED ultrasonicVars
  BY <1>7 DEF ultrasonicVars
<1> QED
  BY <1>1, <1>2, <1>3, <1>4, <1>5, <1>6, <1>7 DEF UltrasonicStep

LogicRange == /\ LogicTypeOK
              /\ target_speed_left_ \in -128..128
              /\ target_speed_right_ \in -128..128

LEMMA HandlersKeepRange ==
  ASSUME LogicRange
  PROVE  /\ \A l, r \in -128..128 : handleSpeedCommand(Joystick, l, r) => LogicRange'
         /\ handleControlCommand(Joystick) => LogicRange'
         /\ \A engage \in BOOLEAN : handleEStop(engage) => LogicRange'
         /\ processHardwarePulse => LogicRange'
         /\ LogicReset => LogicRange'
         /\ UNCHANGED logicVars => LogicRange'
<1> USE DEF LogicRange, LogicTypeOK
<1>1. ASSUME NEW l \in -128..128, NEW r \in -128..128, handleSpeedCommand(Joystick, l, r)
      PROVE  LogicRange'
  BY <1>1 DEF handleSpeedCommand, resetTimeout, logicVars
<1>2. ASSUME handleControlCommand(Joystick) PROVE LogicRange'
  BY <1>2 DEF handleControlCommand, ZeroTargets, resetTimeout
<1>3. ASSUME NEW engage \in BOOLEAN, handleEStop(engage) PROVE LogicRange'
  BY <1>3 DEF handleEStop, ZeroTargets, resetTimeout
<1>4. ASSUME processHardwarePulse PROVE LogicRange'
  BY <1>4 DEF processHardwarePulse, ZeroTargets
<1>5. ASSUME LogicReset PROVE LogicRange'
  <2>1. is_e_stopped_' \in BOOLEAN
    BY <1>5, Zenon DEF LogicReset
  <2> QED BY <1>5, <2>1 DEF LogicReset
<1>6. ASSUME UNCHANGED logicVars PROVE LogicRange'
  BY <1>6 DEF logicVars
<1> QED BY <1>1, <1>2, <1>3, <1>4, <1>5, <1>6

CarInv == CarTypeOK /\ OutboxInv

\* The rest of CarTypeOK.
DriveTypeOK == /\ drive \in BOOLEAN
               /\ turning \in BOOLEAN
               /\ last_estop \in {"nobody", "joystick", "ultrasonic"}
BackTypeOK == back_stop \in BOOLEAN

LEMMA CarInvParts ==
  /\ CarInv <=> LogicRange /\ DriveTypeOK /\ BackTypeOK /\ UltrasonicTypeOK /\ JoystickInv
  /\ CarInv' <=> /\ LogicRange' /\ DriveTypeOK' /\ BackTypeOK'
                /\ UltrasonicTypeOK' /\ JoystickInv'
BY DEF CarInv, CarTypeOK, LogicRange, DriveTypeOK, BackTypeOK, JoystickInv

LEMMA BackTypeInductive ==
  ASSUME BackTypeOK, [Next]_vars
  PROVE  BackTypeOK'
<1>1. \/ back_stop' = back_stop
      \/ back_stop' = FALSE
      \/ back_stop' = (~estop_engaged_ /\ ~should_engage)
      \/ back_stop' = (back_stop /\ ~should_engage')
  BY DEF Next, DriveStarts, DriveEnds, Pulse, JoystickThread, JoystickClears,
     JoystickTakesControl, JoystickEngages, JoystickDrives, JoystickEnvironment,
     UltrasonicThread, UltrasonicEnvironment, vars
<1> QED BY <1>1, Zenon DEF BackTypeOK

LEMMA SendersOfCommands ==
  ASSUME NEW command \in Commands, Sends(command)
  PROVE  JoystickStep
BY DEF JoystickStep

LEMMA EStopFromKeepsType ==
  ASSUME LogicRange, DriveTypeOK, NEW engage \in BOOLEAN,
         NEW sender \in {"joystick", "ultrasonic"}, EStopFrom(sender, engage)
  PROVE  LogicRange' /\ DriveTypeOK'
<1>1. LogicRange'
  BY HandlersKeepRange DEF EStopFrom, HandleEStop
<1>2. turning' \in BOOLEAN
  BY Zenon DEF EStopFrom, HandleEStop, DriveTypeOK
<1>3. drive' = drive /\ last_estop' = sender
  BY DEF EStopFrom, HandleEStop
<1> QED BY <1>1, <1>2, <1>3 DEF DriveTypeOK

LEMMA CarInvInductive ==
  ASSUME CarInv, [Next]_vars
  PROVE  CarInv'
<1> SUFFICES LogicRange' /\ DriveTypeOK' /\ UltrasonicTypeOK' /\ JoystickInv'
  BY CarInvParts, BackTypeInductive
<1>0. LogicRange /\ DriveTypeOK /\ UltrasonicTypeOK /\ JoystickInv
  BY CarInvParts
<1>a. /\ UNCHANGED driveVars => LogicRange' /\ DriveTypeOK'
      /\ UNCHANGED ultrasonicVars => UltrasonicTypeOK'
      /\ UNCHANGED joystickVars => JoystickInv'
      /\ UltrasonicStep => UltrasonicTypeOK'
      /\ JoystickStep => JoystickInv'
  <2>1. UNCHANGED driveVars => LogicRange' /\ DriveTypeOK'
    BY <1>0 DEF driveVars, serverVars, LogicRange, LogicTypeOK, DriveTypeOK
  <2>2. UltrasonicStep => UltrasonicTypeOK'
    BY <1>0, UltrasonicKeepsType
  <2>3. JoystickStep => JoystickInv'
    BY <1>0, JoystickKeepsType
  <2> QED BY <2>1, <2>2, <2>3 DEF UltrasonicStep, JoystickStep
<1>1. CASE DriveStarts
  <2>1. DriveTypeOK'
    <3>1. drive' \in BOOLEAN
      BY <1>1, Zenon DEF DriveStarts, ServerStarts
    <3> QED BY <1>0, <1>1, <3>1 DEF DriveStarts, ServerStarts, DriveTypeOK
  <2> QED BY <1>0, <1>1, <1>a, <2>1, HandlersKeepRange DEF DriveStarts, ServerStarts
<1>2. CASE DriveEnds
  <2>1. DriveTypeOK'
    <3>1. drive' \in BOOLEAN
      BY <1>2, Zenon DEF DriveEnds, ServerEnds
    <3>2. turning' \in BOOLEAN
      BY <1>0, <1>2, Zenon DEF DriveEnds, ServerEnds, DriveTypeOK
    <3> QED BY <1>0, <1>2, <3>1, <3>2 DEF DriveEnds, ServerEnds, DriveTypeOK
  <2>2. UltrasonicTypeOK' /\ JoystickInv'
    BY <1>2, <1>a DEF DriveEnds, ServerEnds, UltrasonicStep, JoystickStep
  <2> QED BY <1>0, <1>2, <2>1, <2>2, HandlersKeepRange DEF DriveEnds, ServerEnds
<1>3. CASE Pulse
  <2>1. turning' \in BOOLEAN
    BY <1>3, Zenon DEF Pulse, HandlePulse
  <2>2. DriveTypeOK'
    BY <1>0, <1>3, <2>1 DEF Pulse, HandlePulse, DriveTypeOK
  <2> QED BY <1>0, <1>3, <1>a, <2>2, HandlersKeepRange DEF Pulse, HandlePulse
<1>4. CASE JoystickThread
  <2>0. /\ "clear" \in Commands /\ "control" \in Commands
        /\ "engage" \in Commands /\ "speed" \in Commands
    BY DEF Commands
  <2>1. CASE JoystickClears
    <3>1. JoystickInv' /\ UltrasonicTypeOK'
      BY <1>a, <2>0, <2>1, SendersOfCommands DEF JoystickClears
    <3> QED BY <1>0, <2>1, <3>1, EStopFromKeepsType DEF JoystickClears
  <2>2. CASE JoystickTakesControl
    <3>1. JoystickInv' /\ UltrasonicTypeOK'
      BY <1>a, <2>0, <2>2, SendersOfCommands DEF JoystickTakesControl
    <3>2. turning' \in BOOLEAN
      BY <2>2, Zenon DEF JoystickTakesControl, HandleControl
    <3>3. DriveTypeOK'
      BY <1>0, <2>2, <3>2 DEF JoystickTakesControl, HandleControl, DriveTypeOK
    <3> QED BY <1>0, <2>2, <3>1, <3>3, HandlersKeepRange
            DEF JoystickTakesControl, HandleControl
  <2>3. CASE JoystickEngages
    <3>1. JoystickInv' /\ UltrasonicTypeOK'
      BY <1>a, <2>0, <2>3, SendersOfCommands DEF JoystickEngages
    <3> QED BY <1>0, <2>3, <3>1, EStopFromKeepsType DEF JoystickEngages
  <2>4. CASE JoystickDrives
    <3>1. JoystickInv' /\ UltrasonicTypeOK'
      BY <1>a, <2>0, <2>4, SendersOfCommands DEF JoystickDrives
    <3>2. currentState.lx \in 0..255 /\ currentState.ly \in 0..255
      BY <1>0 DEF JoystickInv, JoystickTypeOK
    <3>3. /\ leftSpeed(currentState) \in -128..128
          /\ rightSpeed(currentState) \in -128..128
      BY <3>2, SpeedsInRange
    <3>4. LogicRange'
      BY <1>0, <2>4, <3>3, HandlersKeepRange DEF JoystickDrives, HandleSpeed
    <3> QED BY <1>0, <2>4, <3>1, <3>4 DEF JoystickDrives, HandleSpeed, DriveTypeOK
  <2>5. CASE /\ \/ JoystickConnects(drive) \/ ConnectGivesUp \/ JoystickReady
                \/ Tick \/ SendFails \/ Centre \/ FinalTick \/ JoystickExit
             /\ UNCHANGED <<driveVars, ultrasonicVars>>
    <3>1. drive \in BOOLEAN
      BY <1>0 DEF DriveTypeOK
    <3>2. JoystickStep
      BY <2>5, <3>1 DEF JoystickStep
    <3> QED BY <1>a, <2>5, <3>2
  <2> QED BY <1>4, <2>1, <2>2, <2>3, <2>4, <2>5 DEF JoystickThread
<1>5. CASE JoystickEnvironment
  <2>1. JoystickStep
    BY <1>5 DEF JoystickEnvironment, JoystickStep
  <2> QED BY <1>5, <1>a, <2>1 DEF JoystickEnvironment
<1>6. CASE UltrasonicThread
  <2>1. CASE UltrasonicSends
    <3>1. should_engage \in BOOLEAN
      BY Zenon DEF should_engage
    <3>2. UltrasonicTypeOK' /\ JoystickInv'
      BY <1>a, <2>1 DEF UltrasonicSends, UltrasonicStep
    <3> QED BY <1>0, <2>1, <3>1, <3>2, EStopFromKeepsType DEF UltrasonicSends
  <2>2. CASE /\ \/ initSharedState \/ measureDistanceCm \/ NothingToSend
                \/ connectDriveIpc(drive) \/ EStopFails
             /\ UNCHANGED <<driveVars, joystickVars>>
    <3>1. drive \in BOOLEAN
      BY <1>0 DEF DriveTypeOK
    <3>2. UltrasonicStep
      BY <2>2, <3>1 DEF UltrasonicStep
    <3> QED BY <1>a, <2>2, <3>2
  <2> QED BY <1>6, <2>1, <2>2 DEF UltrasonicThread
<1>7. CASE UltrasonicEnvironment
  <2>1. UltrasonicStep
    BY <1>7 DEF UltrasonicEnvironment, UltrasonicStep
  <2> QED BY <1>7, <1>a, <2>1 DEF UltrasonicEnvironment
<1>8. CASE UNCHANGED vars
  <2>1. UNCHANGED driveVars /\ UNCHANGED ultrasonicVars /\ UNCHANGED joystickVars
    BY <1>8 DEF vars, driveVars, serverVars, ultrasonicVars, joystickVars
  <2> QED BY <1>a, <2>1
<1> QED
  BY <1>1, <1>2, <1>3, <1>4, <1>5, <1>6, <1>7, <1>8 DEF Next

LEMMA CarInvInit == Init => CarInv
<1> SUFFICES ASSUME Init PROVE CarInv
  OBVIOUS
<1>1. is_e_stopped_ \in BOOLEAN /\ drive \in BOOLEAN /\ turning \in BOOLEAN
      /\ estop_engaged_ \in BOOLEAN /\ j_shutdown \in BOOLEAN /\ closing \in BOOLEAN
  BY Zenon DEF Init, ServerInit, LogicInit, UltrasonicInit, JoystickInit
<1>2. LogicRange
  BY <1>1 DEF Init, ServerInit, LogicInit, LogicRange, LogicTypeOK
<1>3. DriveTypeOK /\ BackTypeOK /\ UltrasonicTypeOK
  BY <1>1 DEF Init, ServerInit, DriveTypeOK, BackTypeOK, UltrasonicInit, UltrasonicTypeOK
<1>4. JoystickInv
  BY <1>1 DEF Init, JoystickInit, JoystickInv, JoystickTypeOK, OutboxInv
<1> QED BY <1>2, <1>3, <1>4, CarInvParts

LEMMA CarInvCorrect == Spec => []CarInv
<1>1. Init => CarInv
  BY CarInvInit
<1>2. CarInv /\ [Next]_vars => CarInv'
  BY CarInvInductive
<1> QED BY <1>1, <1>2, PTL DEF Spec

\* Every variable of the car keeps its type in every behaviour, and the speeds
\* the drive process is asked for stay in range (publishTick's limits,
\* ButtonMappings.cpp:100-101).
THEOREM CarTypeCorrect == Spec => []CarTypeOK
<1>1. CarInv => CarTypeOK
  BY DEF CarInv
<1> QED BY <1>1, CarInvCorrect, PTL

-----------------------------------------------------------------------------
(* BACK beats START. *)

\* Nothing came between the joystick process and the drive process since the
\* joystick's last emergency stop command.
Undisturbed == last_estop = "joystick" /\ m_driveCoid = "open" /\ ~j_shutdown

\* A tick that found BACK newly pressed has still to send it, or has sent it,
\* and with it the last emergency stop command, as the last but one command.
BackInv ==
  jpc = "publish" /\ "BACK" \in pressedButtons =>
    \/ outbox \in BackToSend
    \/ outbox = <<"speed">> /\ (Undisturbed => is_e_stopped_)

LEMMA SentKeepsBackInv ==
  ASSUME CarInv, BackInv, NEW shutdown \in BOOLEAN, Sent(shutdown),
         outbox # <<"engage", "speed">> \/ (Undisturbed' => is_e_stopped_')
  PROVE  BackInv'
<1> SUFFICES ASSUME jpc' = "publish", "BACK" \in pressedButtons'
             PROVE  \/ outbox' \in BackToSend
                    \/ outbox' = <<"speed">> /\ (Undisturbed' => is_e_stopped_')
  BY DEF BackInv
<1>1. jpc = "publish" /\ outbox \in Suffixes /\ outbox' = Tail(outbox)
  BY DEF Sent, CarInv, OutboxInv
<1>2. Len(outbox) > 1
  BY DEF Sent, AfterTick
<1>3. "BACK" \in pressedButtons /\ outbox # <<"speed">>
  BY <1>1, <1>2, NextCommands DEF Sent, pressedButtons
<1>4. outbox \in BackToSend
  BY <1>1, <1>3 DEF BackInv
<1> QED BY <1>1, <1>4, NextCommands

LEMMA SnapshotKeepsBackInv ==
  ASSUME Snapshot PROVE BackInv'
<1> DEFINE pressed == m_latestState.buttons \ m_prevState.buttons
<1>1. pressedButtons' = pressed /\ outbox' = publish(pressed)
  BY DEF Snapshot, pressedButtons
<1>2. "BACK" \in pressed => publish(pressed) \in BackToSend
  BY PublishedCommands
<1> QED BY <1>1, <1>2 DEF BackInv

\* A step that neither takes a snapshot nor sends.
LEMMA OthersKeepBackInv ==
  ASSUME BackInv, UNCHANGED <<currentState, m_prevState, outbox>>,
         jpc' = "publish" => jpc = "publish",
         Undisturbed' => Undisturbed /\ is_e_stopped_' = is_e_stopped_
  PROVE  BackInv'
BY DEF BackInv, pressedButtons

\* Of the commands only the engagement can be the one before the last.
LEMMA NotBack ==
  ASSUME NEW command \in {"clear", "control", "speed"}, Head(outbox) = command
  PROVE  outbox # <<"engage", "speed">>
OBVIOUS

LEMMA BackInvInductive ==
  ASSUME CarInv, BackInv, [Next]_vars
  PROVE  BackInv'
<1>0. j_shutdown \in BOOLEAN
  BY DEF CarInv, CarTypeOK, JoystickTypeOK
<1>1. CASE DriveStarts
  BY <1>1, OthersKeepBackInv DEF DriveStarts, ServerStarts, joystickVars, Undisturbed
<1>2. CASE DriveEnds
  BY <1>2, OthersKeepBackInv
     DEF DriveEnds, ServerEnds, JoystickLosesDrive, padVars, Undisturbed, logicVars
<1>3. CASE Pulse
  BY <1>3, OthersKeepBackInv
     DEF Pulse, HandlePulse, processHardwarePulse, joystickVars, Undisturbed
<1>4. ASSUME NEW command \in {"clear", "control", "speed"}, Sends(command)
      PROVE  BackInv'
  <2>1. outbox # <<"engage", "speed">>
    BY <1>4, NotBack DEF Sends
  <2> QED BY <1>0, <1>4, <2>1, SentKeepsBackInv DEF Sends
<1>5. CASE JoystickEngages
  <2>1. is_e_stopped_' = TRUE
    BY <1>5 DEF JoystickEngages, EStopFrom, HandleEStop, handleEStop
  <2> QED BY <1>0, <1>5, <2>1, SentKeepsBackInv DEF JoystickEngages, Sends
<1>6. CASE SendFails
  <2>1. ~Undisturbed'
    BY <1>6 DEF SendFails, Sent, Undisturbed
  <2> QED BY <1>0, <1>6, <2>1, SentKeepsBackInv DEF SendFails
<1>7. CASE Tick \/ FinalTick
  BY <1>7, SnapshotKeepsBackInv DEF Tick, FinalTick
<1>8. CASE JoystickSignal
  <2>1. CASE Sent(TRUE)
    <3>1. ~Undisturbed'
      BY <2>1 DEF Sent, Undisturbed
    <3> QED BY <2>1, <3>1, SentKeepsBackInv
  <2>2. CASE ~Sent(TRUE)
    <3>1. ~Undisturbed'
      BY <1>8, <2>2 DEF JoystickSignal, Undisturbed
    <3> QED BY <1>8, <2>2, <3>1, OthersKeepBackInv DEF JoystickSignal, padVars
  <2> QED BY <2>1, <2>2
<1>9. CASE JoystickEnds
  BY <1>9 DEF JoystickEnds, BackInv
<1>10. CASE Report /\ UNCHANGED driveVars
  BY <1>10, OthersKeepBackInv DEF Report, driveVars, serverVars, Undisturbed
<1>11. CASE /\ \/ JoystickConnects(drive) \/ JoystickReady \/ Centre
               \/ JoystickStarts \/ JoystickReceiveFails
  <2>1. jpc' # "publish"
    BY <1>11 DEF JoystickConnects, JoystickReady, AfterTick, Centre,
       JoystickStarts, JoystickReceiveFails
  <2> QED BY <2>1 DEF BackInv
<1>12. CASE UltrasonicSends
  <2>1. ~Undisturbed'
    BY <1>12 DEF UltrasonicSends, EStopFrom, HandleEStop, Undisturbed
  <2> QED BY <1>12, <2>1, OthersKeepBackInv DEF UltrasonicSends, joystickVars
<1>13. CASE UNCHANGED driveVars /\ UNCHANGED joystickVars
  BY <1>13, OthersKeepBackInv DEF driveVars, serverVars, joystickVars, Undisturbed
<1>14. CASE JoystickThread
  BY <1>4, <1>5, <1>6, <1>7, <1>9, <1>11, <1>14
     DEF JoystickThread, JoystickClears, JoystickTakesControl, JoystickDrives,
         ConnectGivesUp, JoystickExit
<1>15. CASE JoystickEnvironment
  BY <1>8, <1>9, <1>10, <1>11, <1>15
     DEF JoystickEnvironment, JoystickDies, ReadyFails
<1>16. CASE UltrasonicThread \/ UltrasonicEnvironment
  BY <1>12, <1>13, <1>16 DEF UltrasonicThread, UltrasonicEnvironment
<1>17. CASE UNCHANGED vars
  BY <1>13, <1>17 DEF vars, driveVars, serverVars, joystickVars
<1> QED
  BY <1>1, <1>2, <1>3, <1>14, <1>15, <1>16, <1>17 DEF Next

\* An operator who presses BACK gets an emergency stop, whatever else was
\* pressed in the same tick (publishTick, ButtonMappings.cpp:66-76).
THEOREM BackWinsCorrect == Spec => []BackWins
<1>1. Init => BackInv
  BY DEF Init, JoystickInit, BackInv
<1>2. CarInv /\ BackInv /\ [Next]_vars => BackInv'
  BY BackInvInductive
<1>3. BackInv => BackWins
  <2>1. <<"speed">> \notin BackToSend
    BY DEF BackToSend
  <2> QED BY <2>1 DEF BackInv, BackWins, Undisturbed
<1> QED BY <1>1, <1>2, <1>3, CarInvCorrect, PTL DEF Spec

-----------------------------------------------------------------------------
(* The stop of the operator. *)

\* While the stop is the operator's alone the ultrasonic process has engaged none,
\* and what it last found gives it nothing to send.
BackStopInv == back_stop => is_e_stopped_ /\ ~estop_engaged_ /\ ~should_engage

LEMMA BackStopInvInductive ==
  ASSUME CarInv, BackStopInv, [Next]_vars
  PROVE  BackStopInv'
<1> USE DEF BackStopInv, should_engage
<1>1. CASE DriveStarts \/ JoystickClears
  BY <1>1 DEF DriveStarts, JoystickClears
<1>2. CASE DriveEnds
  BY <1>2 DEF DriveEnds, ServerEnds, logicVars, UltrasonicLosesDrive
<1>3. CASE Pulse
  BY <1>3 DEF Pulse, HandlePulse, processHardwarePulse, ultrasonicVars
<1>4. CASE JoystickEngages
  BY <1>4 DEF JoystickEngages, EStopFrom, HandleEStop, handleEStop, ultrasonicVars
<1>5. CASE JoystickTakesControl \/ JoystickDrives
  BY <1>5 DEF JoystickTakesControl, HandleControl, JoystickDrives, HandleSpeed,
     handleControlCommand, handleSpeedCommand, logicVars, ultrasonicVars
<1>6. CASE UNCHANGED <<driveVars, back_stop, ultrasonicVars>>
  BY <1>6 DEF driveVars, serverVars, ultrasonicVars
<1>7. CASE UltrasonicSends /\ back_stop' = (back_stop /\ ~should_engage')
  <2>1. should_engage # estop_engaged_
    BY <1>7 DEF UltrasonicSends, EStopSent, WantsToSend
  <2>2. estop_engaged_ \in BOOLEAN
    BY DEF CarInv, CarTypeOK, UltrasonicTypeOK
  <2>3. ~back_stop
    BY <2>1, <2>2, Zenon
  <2> QED BY <1>7, <2>3
<1>8. CASE /\ \/ initSharedState \/ measureDistanceCm \/ NothingToSend
              \/ connectDriveIpc(drive) \/ EStopFails
           /\ UNCHANGED driveVars /\ back_stop' = (back_stop /\ ~should_engage')
  <2>1. UNCHANGED <<is_e_stopped_, estop_engaged_>>
    BY <1>8 DEF driveVars, serverVars, initSharedState, measureDistanceCm, NothingToSend,
       connectDriveIpc, EStopFails
  <2> QED BY <1>8, <2>1
<1>9. CASE UltrasonicEnvironment
  BY <1>9 DEF UltrasonicEnvironment, UltrasonicStarts, UltrasonicDies, driveVars, serverVars
<1>10. CASE UNCHANGED vars
  BY <1>6, <1>10 DEF vars, driveVars, serverVars, ultrasonicVars
<1>11. CASE JoystickThread \/ JoystickEnvironment
  BY <1>1, <1>4, <1>5, <1>6, <1>11 DEF JoystickThread, JoystickEnvironment
<1>12. CASE UltrasonicThread
  BY <1>7, <1>8, <1>12 DEF UltrasonicThread
<1> QED BY <1>1, <1>2, <1>3, <1>9, <1>10, <1>11, <1>12 DEF Next

\* A stop ordered with BACK stands until START lifts it, as long as nothing comes
\* near (updateEmergencyStop, UltrasonicNode.cpp:181-207; handleEStop,
\* DriveController.cpp:292-322).
THEOREM BackHoldsCorrect == Spec => []BackHolds
<1>1. Init => BackStopInv
  BY DEF Init, BackStopInv
<1>2. CarInv /\ BackStopInv /\ [Next]_vars => BackStopInv'
  BY BackStopInvInductive
<1>3. BackStopInv => BackHolds
  BY DEF BackStopInv, BackHolds
<1> QED BY <1>1, <1>2, <1>3, CarInvCorrect, PTL DEF Spec

-----------------------------------------------------------------------------
(* The obstacle and the drive process. *)

\* A connection that is open leads to the drive process that is there; when
\* the ultrasonic process has nothing to send over it, its memory of the last
\* order agrees with the drive process, and between two cycles it agrees with
\* the last measurement too.
ObstacleInv ==
  /\ drive_coid_ = "open" => drive
  /\ upc \in {"off", "init"} => drive_coid_ = "none"
  /\ drive_coid_ = "open" /\ upc = "measure" => should_engage = estop_engaged_
  /\ drive_coid_ = "open" /\ ~WantsToSend /\ last_estop # "joystick"
       => is_e_stopped_ = estop_engaged_

LEMMA OthersKeepObstacleInv ==
  ASSUME ObstacleInv, UNCHANGED <<ultrasonicVars, is_e_stopped_, last_estop, drive>>
  PROVE  ObstacleInv'
BY DEF ObstacleInv, ultrasonicVars, should_engage, WantsToSend

LEMMA UltrasonicKeepsObstacleInv ==
  ASSUME ObstacleInv, UltrasonicThread
  PROVE  ObstacleInv'
<1> USE DEF ObstacleInv, should_engage, WantsToSend, driveVars, serverVars
<1>1. CASE UltrasonicSends
  <2>1. /\ upc' = "measure" /\ reading' = reading /\ drive' = drive /\ drive
        /\ estop_engaged_' = should_engage /\ is_e_stopped_' = should_engage
    BY <1>1 DEF UltrasonicSends, EStopFrom, HandleEStop, handleEStop, EStopSent
  <2> QED BY <2>1, Zenon
<1>2. CASE initSharedState /\ UNCHANGED driveVars
  BY <1>2 DEF initSharedState
<1>3. CASE measureDistanceCm /\ UNCHANGED driveVars
  BY <1>3 DEF measureDistanceCm
<1>4. CASE NothingToSend /\ UNCHANGED driveVars
  BY <1>4 DEF NothingToSend
<1>5. CASE connectDriveIpc(drive) /\ UNCHANGED driveVars
  BY <1>5 DEF connectDriveIpc
<1>6. CASE EStopFails /\ UNCHANGED driveVars
  BY <1>6 DEF EStopFails
<1> QED BY <1>1, <1>2, <1>3, <1>4, <1>5, <1>6 DEF UltrasonicThread

LEMMA ObstacleInvInductive ==
  ASSUME ObstacleInv, [Next]_vars
  PROVE  ObstacleInv'
<1>1. CASE DriveStarts
  BY <1>1 DEF DriveStarts, ServerStarts, ObstacleInv, ultrasonicVars
<1>2. CASE DriveEnds
  BY <1>2 DEF DriveEnds, UltrasonicLosesDrive, ObstacleInv
<1>3. CASE Pulse
  BY <1>3, OthersKeepObstacleInv DEF Pulse, HandlePulse, processHardwarePulse
<1>4. CASE JoystickClears \/ JoystickEngages
  BY <1>4 DEF JoystickClears, JoystickEngages, EStopFrom, HandleEStop,
     ObstacleInv, ultrasonicVars, should_engage
<1>5. CASE JoystickTakesControl \/ JoystickDrives
  <2>1. UNCHANGED <<ultrasonicVars, is_e_stopped_, last_estop, drive>>
    BY <1>5 DEF JoystickTakesControl, HandleControl, JoystickDrives,
       HandleSpeed, handleControlCommand, handleSpeedCommand, logicVars
  <2> QED BY <2>1, OthersKeepObstacleInv
<1>6. CASE UNCHANGED <<driveVars, ultrasonicVars>>
  BY <1>6, OthersKeepObstacleInv DEF driveVars, serverVars
<1>7. CASE UltrasonicThread
  BY <1>7, UltrasonicKeepsObstacleInv
<1>8. CASE UltrasonicEnvironment
  BY <1>8 DEF UltrasonicEnvironment, UltrasonicStarts, UltrasonicDies,
     ObstacleInv, driveVars, serverVars, WantsToSend
<1>9. CASE UNCHANGED vars
  BY <1>6, <1>9 DEF vars, driveVars, serverVars, ultrasonicVars
<1>10. CASE JoystickThread \/ JoystickEnvironment
  BY <1>4, <1>5, <1>6, <1>10 DEF JoystickThread, JoystickEnvironment
<1> QED BY <1>1, <1>2, <1>3, <1>7, <1>8, <1>9, <1>10 DEF Next

\* With a live connection, and unless the operator gave the last order, the
\* drive process obeys what the ultrasonic process found in its last cycle
\* (updateEmergencyStop, UltrasonicNode.cpp:181-207).
THEOREM ObstacleStopsCorrect == Spec => []ObstacleStops
<1>1. Init => ObstacleInv
  BY DEF Init, UltrasonicInit, ObstacleInv
<1>2. ObstacleInv /\ [Next]_vars => ObstacleInv'
  BY ObstacleInvInductive
<1>3. ObstacleInv => ObstacleStops
  BY DEF ObstacleInv, ObstacleStops, WantsToSend
<1> QED BY <1>1, <1>2, <1>3, PTL DEF Spec

-----------------------------------------------------------------------------
(* A car without a joystick. *)

\* A target that is not zero needs a running watchdog and no emergency stop.
MovingInv == Moving => timeout_counter_ < TimeoutPulses /\ ~is_e_stopped_

LEMMA HandlersKeepMovingInv ==
  ASSUME LogicTypeOK, MovingInv
  PROVE  /\ \A l, r : handleSpeedCommand(Joystick, l, r) => MovingInv'
         /\ handleControlCommand(Joystick) => MovingInv'
         /\ \A engage \in BOOLEAN : handleEStop(engage) => MovingInv'
         /\ processHardwarePulse => MovingInv'
         /\ LogicReset => MovingInv'
         /\ UNCHANGED logicVars => MovingInv'
<1> USE DEF MovingInv, Moving, LogicTypeOK, ZeroTargets, resetTimeout, logicVars
<1>1. ASSUME NEW l, NEW r, handleSpeedCommand(Joystick, l, r) PROVE MovingInv'
  BY <1>1 DEF handleSpeedCommand
<1>2. ASSUME handleControlCommand(Joystick) PROVE MovingInv'
  BY <1>2 DEF handleControlCommand
<1>3. ASSUME NEW engage \in BOOLEAN, handleEStop(engage) PROVE MovingInv'
  BY <1>3 DEF handleEStop
<1>4. ASSUME processHardwarePulse PROVE MovingInv'
  BY <1>4 DEF processHardwarePulse
<1>5. ASSUME LogicReset PROVE MovingInv'
  BY <1>5 DEF LogicReset
<1>6. ASSUME UNCHANGED logicVars PROVE MovingInv'
  BY <1>6
<1> QED BY <1>1, <1>2, <1>3, <1>4, <1>5, <1>6

LEMMA MovingInvInductive ==
  ASSUME CarInv, MovingInv, [Next]_vars
  PROVE  MovingInv'
<1> USE HandlersKeepMovingInv
<1>0. LogicTypeOK
  BY DEF CarInv, CarTypeOK
<1>1. CASE DriveStarts \/ DriveEnds \/ Pulse
  BY <1>0, <1>1 DEF DriveStarts, ServerStarts, DriveEnds, ServerEnds, Pulse, HandlePulse
<1>2. CASE JoystickClears \/ JoystickEngages
  BY <1>0, <1>2 DEF JoystickClears, JoystickEngages, EStopFrom, HandleEStop
<1>3. CASE JoystickTakesControl \/ JoystickDrives
  BY <1>0, <1>3 DEF JoystickTakesControl, HandleControl, JoystickDrives, HandleSpeed
<1>4. CASE UltrasonicSends
  <2>1. should_engage \in BOOLEAN
    BY Zenon DEF should_engage
  <2> QED BY <1>0, <1>4, <2>1 DEF UltrasonicSends, EStopFrom, HandleEStop
<1>5. CASE UNCHANGED driveVars
  BY <1>0, <1>5 DEF driveVars, serverVars, logicVars
<1>6. CASE UNCHANGED vars
  BY <1>5, <1>6 DEF vars, driveVars, serverVars
<1>7. CASE JoystickThread \/ JoystickEnvironment
  BY <1>2, <1>3, <1>5, <1>7 DEF JoystickThread, JoystickEnvironment
<1>8. CASE UltrasonicThread \/ UltrasonicEnvironment
  BY <1>4, <1>5, <1>8 DEF UltrasonicThread, UltrasonicEnvironment
<1> QED BY <1>1, <1>6, <1>7, <1>8 DEF Next

LEMMA CoastBounded ==
  ASSUME CarInv, MovingInv
  PROVE  /\ Coast \in 0 .. 2 * TimeoutPulses
         /\ Moving <=> Coast > 0
BY DEF CarInv, CarTypeOK, LogicTypeOK, MovingInv, Coast

\* A pulse takes one from the coast, or all of it.
LEMMA PulseShortens ==
  ASSUME CarInv, MovingInv, MovingInv', Pulse
  PROVE  /\ Coast' <= Coast
         /\ IF Coast = 0 THEN ~turning' ELSE Coast' < Coast
         /\ turning' => Coast' > 0
<1>1. /\ processHardwarePulse /\ estop_engaged_' = estop_engaged_
      /\ turning' => Moving'
  BY DEF Pulse, HandlePulse, ultrasonicVars
<1>2. timeout_counter_ \in 0..TimeoutPulses + 1 /\ estop_engaged_ \in BOOLEAN
  BY DEF CarInv, CarTypeOK, LogicTypeOK, UltrasonicTypeOK
<1>3. ~Moving => ~Moving'
  BY <1>1 DEF processHardwarePulse, Moving, ZeroTargets
<1>4. CASE ~Moving'
  BY <1>1, <1>2, <1>4, CoastBounded DEF Coast
<1>5. CASE Moving'
  <2>1. Moving /\ timeout_counter_' = timeout_counter_ + 1
    BY <1>1, <1>2, <1>3, <1>5 DEF processHardwarePulse, MovingInv
  <2>2. timeout_counter_' < TimeoutPulses
    BY <1>5 DEF MovingInv
  <2> QED BY <1>1, <1>2, <1>5, <2>1, <2>2 DEF Coast
<1> QED BY <1>4, <1>5

\* Whatever the ultrasonic process reports, the coast gets no longer: what its
\* clearing message gives the watchdog back was counted already.
LEMMA ReportShortens ==
  ASSUME CarInv, MovingInv, UltrasonicSends
  PROVE  Coast' <= Coast /\ (turning' => turning)
<1>1. /\ handleEStop(should_engage) /\ should_engage # estop_engaged_
      /\ estop_engaged_' = should_engage
      /\ turning' = IF should_engage THEN FALSE ELSE turning
  BY DEF UltrasonicSends, EStopFrom, HandleEStop, EStopSent, WantsToSend
<1>2. timeout_counter_ \in 0..TimeoutPulses + 1 /\ estop_engaged_ \in BOOLEAN
  BY DEF CarInv, CarTypeOK, LogicTypeOK, UltrasonicTypeOK
<1>3. Coast \in 0 .. 2 * TimeoutPulses
  BY CoastBounded
<1>4. CASE should_engage
  <2>1. Coast' = 0
    BY <1>1, <1>4 DEF handleEStop, ZeroTargets, Moving, Coast
  <2> QED BY <1>1, <1>3, <1>4, <2>1
<1>5. CASE ~should_engage
  <2>1. estop_engaged_ /\ ~estop_engaged_'
    BY <1>1, <1>2, <1>5, Zenon DEF should_engage
  <2>2. timeout_counter_' = 0 /\ (Moving' <=> Moving)
    BY <1>1, <1>5 DEF handleEStop, resetTimeout, Moving
  <2>3. Coast' = IF Moving THEN TimeoutPulses ELSE 0
    BY <2>1, <2>2 DEF Coast
  <2>4. Moving => Coast >= TimeoutPulses
    BY <1>2, <2>1 DEF Coast, MovingInv
  <2> QED BY <1>1, <1>3, <1>5, <2>3, <2>4
<1> QED BY <1>4, <1>5

\* A step that gives the drive process nothing to do and no stop to clear.
LEMMA OthersKeepCoast ==
  ASSUME CarInv, MovingInv,
         UNCHANGED logicVars, estop_engaged_' \in {estop_engaged_, FALSE}
  PROVE  Coast' <= Coast
<1>1. estop_engaged_' => estop_engaged_
  BY Zenon
<1>2. timeout_counter_ \in 0..TimeoutPulses + 1
  BY DEF CarInv, CarTypeOK, LogicTypeOK
<1>3. timeout_counter_' = timeout_counter_ /\ (Moving' <=> Moving)
  BY DEF logicVars, Moving
<1> QED BY <1>1, <1>2, <1>3 DEF Coast

\* Without a joystick process the car comes to a standstill within
\* 2 * TimeoutPulses pulses, whatever the ultrasonic process sends, and nothing
\* starts it again (processHardwarePulse, DriveController.cpp:344-370;
\* updateEmergencyStop, UltrasonicNode.cpp:185-187).
THEOREM CoastsDownCorrect == Spec => CoastsDown
<1> DEFINE Shorter ==
      /\ Coast \in 0 .. 2 * TimeoutPulses /\ Coast' <= Coast
      /\ Pulse => IF Coast = 0 THEN ~turning' ELSE Coast' < Coast
      /\ turning' => turning \/ Coast' > 0
<1>1. ASSUME CarInv, MovingInv, MovingInv', [Next]_vars, jpc = "off", jpc' = "off"
      PROVE  Shorter
  <2>0. Coast \in 0 .. 2 * TimeoutPulses
    BY <1>1, CoastBounded
  <2>1. CASE Pulse
    BY <1>1, <2>0, <2>1, PulseShortens
  <2>2. ASSUME Coast' <= Coast, turning' => turning, ~Pulse PROVE Shorter
    BY <2>0, <2>2
  <2>3. CASE DriveStarts /\ ~Pulse
    <3>1. Coast' = 0 /\ turning' = turning
      BY <2>3 DEF DriveStarts, ServerStarts, LogicReset, Coast, Moving
    <3> QED BY <2>0, <2>2, <2>3, <3>1
  <2>4. CASE DriveEnds /\ ~Pulse
    <3>1. UNCHANGED <<logicVars, estop_engaged_>>
      BY <2>4 DEF DriveEnds, ServerEnds, UltrasonicLosesDrive
    <3>2. turning' => turning
      BY <2>4, Zenon DEF DriveEnds, ServerEnds
    <3> QED BY <1>1, <2>2, <2>4, <3>1, <3>2, OthersKeepCoast
  <2>5. CASE UltrasonicSends /\ ~Pulse
    BY <1>1, <2>2, <2>5, ReportShortens
  <2>6. CASE /\ UNCHANGED driveVars /\ estop_engaged_' \in {estop_engaged_, FALSE}
             /\ ~Pulse
    <3>1. UNCHANGED logicVars /\ turning' = turning
      BY <2>6 DEF driveVars, serverVars, logicVars
    <3> QED BY <1>1, <2>2, <2>6, <3>1, OthersKeepCoast
  <2>7. CASE UltrasonicThread
    BY <2>1, <2>5, <2>6, <2>7 DEF UltrasonicThread, initSharedState,
       measureDistanceCm, NothingToSend, connectDriveIpc, EStopFails
  <2>8. CASE UltrasonicEnvironment
    BY <2>1, <2>6, <2>8 DEF UltrasonicEnvironment, UltrasonicStarts, UltrasonicDies
  <2>9. ~JoystickThread
    BY <1>1 DEF JoystickThread, JoystickClears, JoystickTakesControl,
       JoystickEngages, JoystickDrives, Sends, JoystickConnects, ConnectGivesUp,
       JoystickReady, Tick, SendFails, Sent, Centre, FinalTick, JoystickExit
  <2>10. ~JoystickEnvironment
    BY <1>1 DEF JoystickEnvironment, JoystickStarts, JoystickDies, ReadyFails,
       Report, JoystickSignal, Sent, JoystickReceiveFails
  <2>11. CASE UNCHANGED vars
    BY <2>1, <2>6, <2>11 DEF vars, driveVars, serverVars
  <2> QED BY <1>1, <2>1, <2>3, <2>4, <2>7, <2>8, <2>9, <2>10, <2>11 DEF Next
<1>2. CarInv /\ MovingInv /\ MovingInv' /\ [Next]_vars
        => [jpc = "off" /\ jpc' = "off" => Shorter]_vars
  BY <1>1
<1>3. Init => MovingInv
  BY DEF Init, ServerInit, LogicInit, MovingInv, Moving
<1>4. CarInv /\ MovingInv /\ [Next]_vars => MovingInv'
  BY MovingInvInductive
<1> QED BY <1>2, <1>3, <1>4, CarInvCorrect, PTL DEF Spec, CoastsDown
=============================================================================
