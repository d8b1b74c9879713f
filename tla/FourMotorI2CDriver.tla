------------------------- MODULE FourMotorI2CDriver -------------------------
(***************************************************************************)
(* The hardware layer of the drive process: class FourMotorI2CDriver and   *)
(* the PCA9685 PWM chip it programs over I2C (src/src/drive/src/           *)
(* FourMotorI2CDriver.cpp).  A motor is driven by two PWM channels, IN1    *)
(* (forward) and IN2 (reverse).  setSpeeds and stopAll are sequences of    *)
(* single channel writes; each write is a step, because a write may be     *)
(* lost (setPWM only logs a failure) and the process may be killed between *)
(* two of them.  The registers of the chip outlive the process.            *)
(***************************************************************************)
EXTENDS Integers

CONSTANTS
  MotorCount,   \* motors on the car (4 in the code)
  LeftCount,    \* motors 1..LeftCount take the left speed (2 in the code)
  FullSpeed,    \* the integer that stands for MOTOR_SPEED_MAX = 1.0f
  Resolution,   \* PCA9685_PWM_RESOLUTION (4096 in the code)
  Speeds,       \* the speeds callers ask for: a stop, and others that may be
                \* out of range
  FaultyBus,    \* the I2C bus may refuse writes for a while
  MayCrash      \* the process may be killed at any step

ASSUME DriverAssumption ==
  /\ MotorCount \in Nat \ {0}
  /\ LeftCount \in 0..MotorCount
  /\ FullSpeed \in Nat \ {0}
  /\ Resolution \in Nat \ {0}
  /\ Speeds \subseteq Int /\ 0 \in Speeds
  /\ FaultyBus \in BOOLEAN
  /\ MayCrash \in BOOLEAN

Motors == 1..MotorCount
Pins == {"IN1", "IN2"}

VARIABLES
  pwm,           \* the chip's channels: pwm[m][pin] is the off count, 0 = off
  bus,           \* TRUE while the I2C bus accepts writes
  autoinc,       \* the chip's auto-increment bit: without it a setPWM, five
                 \* bytes in one message, does not reach the off count
  device,        \* the driver object: "closed", "open" or in its destructor
  initialized_,  \* init() has succeeded
  cmd,           \* the clamped speeds of the last setSpeeds or stopAll call
  motor,         \* the motor that call is writing, MotorCount + 1 when done
  phase,         \* which of the motor's two writes comes next
  lost           \* history: a write of that call did not reach its channel

chipVars == <<pwm, bus, autoinc>>
deviceVars == <<device, initialized_>>
callVars == <<cmd, motor, phase, lost>>
driverVars == <<pwm, bus, autoinc, device, initialized_, cmd, motor, phase, lost>>

Stop == [left |-> 0, right |-> 0]
Idle == motor > MotorCount

-----------------------------------------------------------------------------
(* Speeds to register values. *)

\* Definitions commented "wrong variant" are not the code: each is a plausible
\* bug that some property below must notice when it replaces the definition
\* that follows.  Wrong variant: only the upper limit is enforced.
ClampUpperOnly(s) == IF s > FullSpeed THEN FullSpeed ELSE s

Clamp(s) == IF s > FullSpeed THEN FullSpeed
            ELSE IF s < -FullSpeed THEN -FullSpeed ELSE s

\* The float speed * (resolution - 1), truncated by the cast to uint16_t.
pwm_val(s) == ((IF s < 0 THEN -s ELSE s) * (Resolution - 1)) \div FullSpeed

\* The speed setSpeeds(l, r) hands to setMotorSpeed for motor m.
MotorSpeed(c, m) == IF m <= LeftCount THEN -c.left ELSE -c.right

\* Wrong variant: the forward channel is always the one switched off.
OffPinForward(s) == "IN1"

\* The channel switched off first, and the one then given the duty cycle.
OffPin(s) == IF s > 0 THEN "IN2" ELSE "IN1"
OnPin(s) == IF s > 0 THEN "IN1" ELSE "IN2"

\* The registers of motor m hold exactly what the call c asks of it.
Obeys(c, m) ==
  /\ pwm[m][OffPin(MotorSpeed(c, m))] = 0
  /\ pwm[m][OnPin(MotorSpeed(c, m))] = pwm_val(MotorSpeed(c, m))

-----------------------------------------------------------------------------
(* The calls. *)

\* Wrong variant: the first motor is left out.
ProgramFromSecond(l, r) == /\ cmd' = [left |-> l, right |-> r]
                           /\ motor' = 2
                           /\ phase' = "off"
                           /\ lost' = FALSE

Program(l, r) == /\ cmd' = [left |-> l, right |-> r]
                 /\ motor' = 1
                 /\ phase' = "off"
                 /\ lost' = FALSE

setSpeeds(l, r) == IF initialized_ THEN Program(Clamp(l), Clamp(r))
                                   ELSE UNCHANGED callVars

stopAll == Program(0, 0)

\* Whether a setPWM changes its channel.
WriteLands == bus /\ autoinc

\* Wrong variant: the write that engages a direction comes before the one
\* that releases the other.
setMotorSpeedOnFirst ==
  /\ ~Idle
  /\ LET s == MotorSpeed(cmd, motor)
         pin == IF phase = "on" THEN OffPin(s) ELSE OnPin(s)
         val == IF phase = "on" THEN 0 ELSE pwm_val(s)
     IN  IF WriteLands
           THEN /\ pwm' = [pwm EXCEPT ![motor][pin] = val]
                /\ lost' = lost
           ELSE /\ pwm' = pwm
                /\ lost' = TRUE
  /\ IF phase = "off" THEN phase' = "on" /\ motor' = motor
                      ELSE phase' = "off" /\ motor' = motor + 1
  /\ UNCHANGED <<bus, autoinc, deviceVars, cmd>>

\* One setPWM of the setMotorSpeed in progress: a refused write is logged, not
\* reported, one without auto-increment not even noticed, and the call goes on
\* with the next one.
setMotorSpeed ==
  /\ ~Idle
  /\ LET s == MotorSpeed(cmd, motor)
         pin == IF phase = "off" THEN OffPin(s) ELSE OnPin(s)
         val == IF phase = "off" THEN 0 ELSE pwm_val(s)
     IN  IF WriteLands
           THEN /\ pwm' = [pwm EXCEPT ![motor][pin] = val]
                /\ lost' = lost
           ELSE /\ pwm' = pwm
                /\ lost' = TRUE
  /\ IF phase = "off" THEN phase' = "on" /\ motor' = motor
                      ELSE phase' = "off" /\ motor' = motor + 1
  /\ UNCHANGED <<bus, autoinc, deviceVars, cmd>>

-----------------------------------------------------------------------------
(* The life of the driver object, its caller and its environment. *)

DriverInit == /\ pwm = [m \in Motors |-> [p \in Pins |-> 0]]
              /\ bus = TRUE
              /\ autoinc = FALSE
              /\ device = "closed"
              /\ initialized_ = FALSE
              /\ cmd = Stop
              /\ motor = MotorCount + 1
              /\ phase = "off"
              /\ lost = FALSE

Construct == /\ device = "closed"
             /\ device' = "open"
             /\ initialized_' = FALSE
             /\ UNCHANGED <<chipVars, callVars>>

\* init() never touches a motor channel.  Its first write switches the
\* auto-increment off, its last one on; a refused write throws, and
\* initialized_ stays FALSE.  Its callers call it once.
init == /\ device = "open" /\ Idle /\ ~initialized_
        /\ \/ bus /\ autoinc' = TRUE /\ initialized_' = TRUE
           \/ ~bus /\ UNCHANGED <<autoinc, initialized_>>
           \/ FaultyBus /\ autoinc' = FALSE /\ UNCHANGED initialized_
        /\ UNCHANGED <<pwm, bus, device, callVars>>

CallSetSpeeds == /\ device = "open" /\ Idle
                 /\ \E l, r \in Speeds : setSpeeds(l, r)
                 /\ UNCHANGED <<chipVars, deviceVars>>

CallStopAll == /\ device = "open" /\ Idle
               /\ stopAll
               /\ UNCHANGED <<chipVars, deviceVars>>

\* ~FourMotorI2CDriver(): stopAll, then the device and the lock are released.
Destroy == /\ device = "open" /\ Idle
           /\ device' = "closing"
           /\ stopAll
           /\ UNCHANGED <<chipVars, initialized_>>

Release == /\ device = "closing" /\ Idle
           /\ device' = "closed"
           /\ initialized_' = FALSE
           /\ UNCHANGED <<chipVars, callVars>>

\* The process is killed: no destructor runs and the writes still to come are
\* never made, nor are those of an init() in progress.
Kill == /\ MayCrash
        /\ device # "closed"
        /\ device' = "closed"
        /\ initialized_' = FALSE
        /\ motor' = MotorCount + 1
        /\ phase' = "off"
        /\ lost' = (lost \/ ~Idle)
        /\ autoinc' \in IF initialized_ THEN {autoinc} ELSE {autoinc, FALSE}
        /\ UNCHANGED <<pwm, bus, cmd>>

\* From now on the bus accepts what it is given, or refuses it.
BusVaries == /\ bus' \in {TRUE, ~FaultyBus}
             /\ UNCHANGED <<pwm, autoinc, deviceVars, callVars>>

DriverNext == \/ Construct \/ init \/ CallSetSpeeds \/ CallStopAll
              \/ setMotorSpeed \/ Destroy \/ Release
              \/ Kill \/ BusVaries

DriverSpec == DriverInit /\ [][DriverNext]_driverVars

-----------------------------------------------------------------------------
(* Properties. *)

Stopped(m) == \A p \in Pins : pwm[m][p] = 0
AllStopped == \A m \in Motors : Stopped(m)

\* Every variable of the driver and every channel of the chip keeps its type;
\* a channel never leaves the 12 bits of its register, whatever speed the
\* caller asked for.
DriverTypeOK ==
  /\ pwm \in [Motors -> [Pins -> 0..Resolution - 1]]
  /\ bus \in BOOLEAN
  /\ autoinc \in BOOLEAN
  /\ device \in {"closed", "open", "closing"}
  /\ initialized_ \in BOOLEAN
  /\ cmd \in [left : -FullSpeed..FullSpeed, right : -FullSpeed..FullSpeed]
  /\ motor \in 1..MotorCount + 1
  /\ phase \in {"off", "on"}
  /\ lost \in BOOLEAN

\* The two channels of one motor are never on together, not even between the
\* two writes of setMotorSpeed (comments at FourMotorI2CDriver.cpp:220, 226).
NoShootThrough == \A m \in Motors : \E p \in Pins : pwm[m][p] = 0

\* When a call has finished and none of its writes was lost, every motor's
\* channels hold exactly what the call asked for, whatever faults and kills
\* came before: setPWM's "Periodic timer will retry on next cycle"
\* (FourMotorI2CDriver.cpp:195) is enough to heal the registers.
LastCallApplied == Idle /\ ~lost => \A m \in Motors : Obeys(cmd, m)

\* The signed duty cycle of each motor, forward minus reverse: what the last
\* call asks for and what the chip's channels give.
DutyGoal == [m \in Motors |-> LET s == MotorSpeed(cmd, m)
                              IN  IF s > 0 THEN pwm_val(s) ELSE -pwm_val(s)]
DutyOut == [m \in Motors |-> pwm[m]["IN1"] - pwm[m]["IN2"]]

Bank == INSTANCE MotorBank WITH
          goal <- DutyGoal, out <- DutyOut, settled <- Idle /\ ~lost

\* On a sound bus the driver keeps the promise of MotorBank: no motor is
\* reversed without passing through a stop, and a settled call has moved every
\* motor to its goal (setMotorSpeed, FourMotorI2CDriver.cpp:215-230).
BankSpec == Bank!Spec
=============================================================================
