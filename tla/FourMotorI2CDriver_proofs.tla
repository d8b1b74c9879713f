---------------------- MODULE FourMotorI2CDriver_proofs ----------------------
(***************************************************************************)
(* What FourMotorI2CDriver guarantees for every number of motors, every    *)
(* resolution and every set of requested speeds.                           *)
(***************************************************************************)
EXTENDS FourMotorI2CDriver, TLAPS

-----------------------------------------------------------------------------
(* Speeds and duty cycles. *)

\* setSpeeds hands on speeds within the limits only
\* (FourMotorI2CDriver.cpp:106-109).
LEMMA ClampRange ==
  ASSUME NEW s \in Int
  PROVE  Clamp(s) \in -FullSpeed..FullSpeed
BY DriverAssumption DEF Clamp

\* A quotient of natural numbers is bounded as the dividend is.
LEMMA DivBound ==
  ASSUME NEW a \in Nat, NEW b \in Nat, NEW n \in Nat \ {0}, a <= n
  PROVE  (a * b) \div n \in 0..b
<1>1. a * b \in Nat /\ a * b <= n * b
  BY Z3
<1>2. PICK q \in Int : q = (a * b) \div n
  BY <1>1
<1>3. q * n <= a * b /\ a * b < (q + 1) * n
  BY <1>1, <1>2, Z3
<1>4. q >= 0
  BY <1>1, <1>2, Z3
<1>5. q <= b
  BY <1>1, <1>3, <1>4, Z3
<1> QED BY <1>2, <1>4, <1>5

\* The duty cycle of a speed within the limits fits the 12 bits of a channel,
\* and a stop has the duty cycle 0 (FourMotorI2CDriver.cpp:222, 228).
LEMMA PwmValRange ==
  ASSUME NEW s \in -FullSpeed..FullSpeed
  PROVE  pwm_val(s) \in 0..Resolution - 1
<1> DEFINE a == IF s < 0 THEN -s ELSE s
<1>1. a \in Nat /\ a <= FullSpeed
  BY DriverAssumption
<1>2. Resolution - 1 \in Nat /\ FullSpeed \in Nat \ {0}
  BY DriverAssumption
<1> HIDE DEF a
<1>3. (a * (Resolution - 1)) \div FullSpeed \in 0..Resolution - 1
  BY <1>1, <1>2, DivBound
<1> QED BY <1>3 DEF pwm_val, a

LEMMA PwmValStop == pwm_val(0) = 0
BY DriverAssumption, Z3 DEF pwm_val

-----------------------------------------------------------------------------
(* Type correctness. *)

\* A call of setSpeeds or stopAll starts with clamped speeds at motor 1.
LEMMA ProgramType ==
  ASSUME NEW l \in -FullSpeed..FullSpeed, NEW r \in -FullSpeed..FullSpeed,
         Program(l, r)
  PROVE  /\ cmd' \in [left : -FullSpeed..FullSpeed, right : -FullSpeed..FullSpeed]
         /\ motor' \in 1..MotorCount + 1
         /\ phase' \in {"off", "on"}
         /\ lost' \in BOOLEAN
<1>1. cmd' \in [left : -FullSpeed..FullSpeed, right : -FullSpeed..FullSpeed]
  BY DEF Program
<1>2. motor' \in 1..MotorCount + 1
  BY DriverAssumption DEF Program
<1>3. phase' \in {"off", "on"} /\ lost' \in BOOLEAN
  BY DEF Program
<1> QED BY <1>1, <1>2, <1>3

LEMMA MotorSpeedRange ==
  ASSUME NEW c \in [left : -FullSpeed..FullSpeed, right : -FullSpeed..FullSpeed],
         NEW m \in Motors
  PROVE  MotorSpeed(c, m) \in -FullSpeed..FullSpeed
BY DriverAssumption DEF MotorSpeed

\* One register write keeps the types.
LEMMA WriteType ==
  ASSUME DriverTypeOK, setMotorSpeed
  PROVE  DriverTypeOK'
<1> USE DriverAssumption DEF DriverTypeOK
<1> DEFINE s == MotorSpeed(cmd, motor)
           pin == IF phase = "off" THEN OffPin(s) ELSE OnPin(s)
           val == IF phase = "off" THEN 0 ELSE pwm_val(s)
<1>1. motor \in Motors
  BY DEF setMotorSpeed, Idle, Motors
<1>2. s \in -FullSpeed..FullSpeed
  BY <1>1, MotorSpeedRange
<1>3. pin \in Pins
  BY DEF OffPin, OnPin, Pins
<1>4. val \in 0..Resolution - 1
  BY <1>2, PwmValRange
<1>5. pwm' = pwm \/ pwm' = [pwm EXCEPT ![motor][pin] = val]
  BY DEF setMotorSpeed
<1>6. pwm' \in [Motors -> [Pins -> 0..Resolution - 1]]
  <2> HIDE DEF s, pin, val
  <2> QED BY <1>1, <1>3, <1>4, <1>5
<1>7. motor' \in 1..MotorCount + 1 /\ phase' \in {"off", "on"}
  BY <1>1 DEF setMotorSpeed, Motors
<1>8. lost' \in BOOLEAN
  BY DEF setMotorSpeed
<1> QED BY <1>6, <1>7, <1>8 DEF setMotorSpeed, deviceVars

\* Type correctness of the driver and the chip, whatever the caller asks for,
\* whatever writes are lost and whenever the process is killed.
THEOREM DriverTypeCorrect == DriverSpec => []DriverTypeOK
<1>1. DriverInit => DriverTypeOK
  <2> SUFFICES ASSUME DriverInit PROVE DriverTypeOK
    OBVIOUS
  <2> USE DriverAssumption DEF DriverInit
  <2>1. pwm \in [Motors -> [Pins -> 0..Resolution - 1]]
    <3>1. 0 \in 0..Resolution - 1
      OBVIOUS
    <3> QED BY <3>1
  <2>2. cmd \in [left : -FullSpeed..FullSpeed, right : -FullSpeed..FullSpeed]
    <3>1. 0 \in -FullSpeed..FullSpeed
      OBVIOUS
    <3> QED BY <3>1 DEF Stop
  <2>3. motor \in 1..MotorCount + 1
    OBVIOUS
  <2> QED BY <2>1, <2>2, <2>3 DEF DriverTypeOK
<1>2. DriverTypeOK /\ [DriverNext]_driverVars => DriverTypeOK'
  <2> SUFFICES ASSUME DriverTypeOK, [DriverNext]_driverVars PROVE DriverTypeOK'
    OBVIOUS
  <2> USE DriverAssumption DEF chipVars, deviceVars, callVars
  <2>1. CASE Construct BY <2>1 DEF Construct, DriverTypeOK
  <2>2. CASE init BY <2>2 DEF init, DriverTypeOK
  <2>3. CASE CallSetSpeeds
    <3>1. PICK l \in Speeds, r \in Speeds : setSpeeds(l, r)
      BY <2>3 DEF CallSetSpeeds
    <3>2. UNCHANGED callVars \/ Program(Clamp(l), Clamp(r))
      BY <3>1 DEF setSpeeds
    <3>3. Clamp(l) \in -FullSpeed..FullSpeed /\ Clamp(r) \in -FullSpeed..FullSpeed
      BY ClampRange
    <3> QED BY <2>3, <3>2, <3>3, ProgramType DEF CallSetSpeeds, DriverTypeOK
  <2>4. CASE CallStopAll
    BY <2>4, ProgramType DEF CallStopAll, stopAll, DriverTypeOK
  <2>5. CASE setMotorSpeed BY <2>5, WriteType
  <2>6. CASE Destroy
    BY <2>6, ProgramType DEF Destroy, stopAll, DriverTypeOK
  <2>7. CASE Release BY <2>7 DEF Release, DriverTypeOK
  <2>8. CASE Kill
    <3>1. lost' \in BOOLEAN
      BY <2>8, Zenon DEF Kill
    <3>2. /\ device' = "closed" /\ initialized_' = FALSE
          /\ motor' = MotorCount + 1 /\ phase' = "off"
          /\ UNCHANGED <<pwm, bus, cmd>>
      BY <2>8, Zenon DEF Kill
    <3>4. autoinc' \in BOOLEAN
      BY <2>8 DEF Kill, DriverTypeOK
    <3>3. MotorCount + 1 \in 1..MotorCount + 1
      OBVIOUS
    <3> QED BY <3>1, <3>2, <3>3, <3>4, Zenon DEF DriverTypeOK
  <2>9. CASE BusVaries
    BY <2>9 DEF BusVaries, DriverTypeOK
  <2>10. CASE UNCHANGED driverVars BY <2>10 DEF driverVars, DriverTypeOK
  <2> QED BY <2>1, <2>2, <2>3, <2>4, <2>5, <2>6, <2>7, <2>8, <2>9, <2>10
          DEF DriverNext
<1> QED BY <1>1, <1>2, PTL DEF DriverSpec

-----------------------------------------------------------------------------
(* The effect of one register write, stated once for the three invariants. *)

\* While a call is under way it is at a motor, whose two channels differ.
LEMMA AtMotor ==
  ASSUME DriverTypeOK, ~Idle
  PROVE  /\ motor \in Motors
         /\ MotorSpeed(cmd, motor) \in -FullSpeed..FullSpeed
         /\ OffPin(MotorSpeed(cmd, motor)) \in Pins
         /\ OnPin(MotorSpeed(cmd, motor)) \in Pins
         /\ OffPin(MotorSpeed(cmd, motor)) # OnPin(MotorSpeed(cmd, motor))
<1>1. motor \in Motors
  BY DriverAssumption DEF DriverTypeOK, Idle, Motors
<1>2. MotorSpeed(cmd, motor) \in -FullSpeed..FullSpeed
  BY <1>1, MotorSpeedRange DEF DriverTypeOK
<1> QED BY <1>1, <1>2 DEF OffPin, OnPin, Pins

\* A write that lands in the first phase switches the off channel off
\* and touches nothing else.
LEMMA OffWrite ==
  ASSUME DriverTypeOK, setMotorSpeed, WriteLands, phase = "off"
  PROVE  /\ pwm' = [pwm EXCEPT ![motor][OffPin(MotorSpeed(cmd, motor))] = 0]
         /\ lost' = lost /\ phase' = "on" /\ motor' = motor /\ cmd' = cmd
BY Zenon DEF setMotorSpeed

\* In the second phase it gives the on channel its duty cycle, and the call
\* moves on to the next motor.
LEMMA OnWrite ==
  ASSUME DriverTypeOK, setMotorSpeed, WriteLands, phase = "on"
  PROVE  /\ pwm' = [pwm EXCEPT ![motor][OnPin(MotorSpeed(cmd, motor))]
                                 = pwm_val(MotorSpeed(cmd, motor))]
         /\ lost' = lost /\ phase' = "off" /\ motor' = motor + 1 /\ cmd' = cmd
<1>1. phase # "off"
  OBVIOUS
<1> QED BY <1>1, Zenon DEF setMotorSpeed

\* A write that does not land changes no channel and is remembered as lost.
LEMMA LostWrite ==
  ASSUME DriverTypeOK, setMotorSpeed, ~WriteLands
  PROVE  /\ pwm' = pwm /\ lost' = TRUE /\ cmd' = cmd
         /\ \/ phase = "off" /\ phase' = "on" /\ motor' = motor
            \/ phase = "on" /\ phase' = "off" /\ motor' = motor + 1
BY Zenon DEF setMotorSpeed, DriverTypeOK

-----------------------------------------------------------------------------
(* A finished call has been applied. *)

\* A call that has lost no write has brought every motor before the current
\* one to obedience, and between the two writes of the current motor its off
\* channel is off.
CallInv ==
  ~lost =>
    /\ \A m \in Motors : m < motor => Obeys(cmd, m)
    /\ ~Idle /\ phase = "on" => pwm[motor][OffPin(MotorSpeed(cmd, motor))] = 0

LEMMA WriteKeepsCallInv ==
  ASSUME DriverTypeOK, CallInv, setMotorSpeed
  PROVE  CallInv'
<1> SUFFICES ASSUME ~lost' PROVE CallInv'
  BY DEF CallInv
<1> DEFINE s == MotorSpeed(cmd, motor)
<1>1. WriteLands /\ cmd' = cmd
  BY LostWrite, OffWrite, OnWrite DEF setMotorSpeed
<1>2. ~Idle /\ motor \in Motors /\ OffPin(s) \in Pins /\ OnPin(s) \in Pins
      /\ OffPin(s) # OnPin(s)
  BY AtMotor DEF setMotorSpeed
<1>3. pwm \in [Motors -> [Pins -> 0..Resolution - 1]]
  BY DEF DriverTypeOK
<1>4. CASE phase = "off"
  <2>1. pwm' = [pwm EXCEPT ![motor][OffPin(s)] = 0] /\ ~lost /\ motor' = motor
    BY <1>1, <1>4, OffWrite
  <2>2. \A m \in Motors : m < motor => pwm'[m] = pwm[m] /\ Obeys(cmd, m)
    BY <1>2, <1>3, <2>1 DEF CallInv, Motors
  <2>3. pwm'[motor][OffPin(s)] = 0
    <3> HIDE DEF s
    <3> QED BY <1>2, <1>3, <2>1
  <2> QED BY <1>1, <2>1, <2>2, <2>3 DEF CallInv, Obeys
<1>5. CASE phase = "on"
  <2>1. /\ pwm' = [pwm EXCEPT ![motor][OnPin(s)] = pwm_val(s)]
        /\ ~lost /\ motor' = motor + 1 /\ phase' = "off"
    BY <1>1, <1>5, OnWrite
  <2>2. \A m \in Motors : m < motor => pwm'[m] = pwm[m] /\ Obeys(cmd, m)
    BY <1>2, <1>3, <2>1 DEF CallInv, Motors
  <2>3. pwm[motor][OffPin(s)] = 0
    BY <1>2, <1>5, <2>1 DEF CallInv
  <2>4. pwm'[motor][OffPin(s)] = 0 /\ pwm'[motor][OnPin(s)] = pwm_val(s)
    <3> HIDE DEF s
    <3> QED BY <1>2, <1>3, <2>1, <2>3
  <2>5. \A m \in Motors : m < motor' => m < motor \/ m = motor
    BY <1>2, <2>1 DEF Motors
  <2> QED BY <1>1, <2>1, <2>2, <2>4, <2>5 DEF CallInv, Obeys
<1> QED BY <1>4, <1>5 DEF DriverTypeOK

\* A new call has brought no motor to obedience yet.
LEMMA ProgramStartsCallInv ==
  ASSUME NEW l, NEW r, Program(l, r)
  PROVE  CallInv'
BY DEF Program, CallInv, Motors

LEMMA CallInvInductive ==
  ASSUME DriverTypeOK, CallInv, [DriverNext]_driverVars
  PROVE  CallInv'
<1> USE DEF chipVars, deviceVars, callVars
<1>1. CASE UNCHANGED <<pwm, cmd, motor, phase, lost>>
  BY <1>1 DEF CallInv, Idle, Obeys
<1>2. CASE setMotorSpeed
  BY <1>2, WriteKeepsCallInv
<1>3. CASE CallSetSpeeds
  BY <1>1, <1>3, ProgramStartsCallInv DEF CallSetSpeeds, setSpeeds
<1>4. CASE CallStopAll \/ Destroy
  BY <1>4, ProgramStartsCallInv DEF CallStopAll, Destroy, stopAll
<1>5. CASE Kill
  <2>1. CASE Idle
    <3>1. \A m \in Motors : m < motor
      BY <2>1, DriverAssumption DEF Idle, Motors, DriverTypeOK
    <3>2. pwm' = pwm /\ cmd' = cmd /\ lost' = lost
          /\ motor' = MotorCount + 1 /\ phase' = "off"
      BY <1>5, <2>1 DEF Kill, DriverTypeOK
    <3> QED BY <3>1, <3>2 DEF CallInv, Obeys
  <2>2. CASE ~Idle
    BY <1>5, <2>2, Zenon DEF Kill, CallInv
  <2> QED BY <2>1, <2>2
<1>6. CASE Construct \/ init \/ Release \/ BusVaries
           \/ UNCHANGED driverVars
  BY <1>1, <1>6 DEF Construct, init, Release, BusVaries, driverVars
<1> QED BY <1>2, <1>3, <1>4, <1>5, <1>6 DEF DriverNext

THEOREM CallInvCorrect == DriverSpec => []CallInv
<1>1. DriverInit => CallInv
  BY DriverAssumption, PwmValStop DEF DriverInit, CallInv, Idle, Obeys, Stop,
     Motors, Pins, MotorSpeed, OffPin, OnPin
<1>2. DriverTypeOK /\ CallInv /\ [DriverNext]_driverVars => CallInv'
  BY CallInvInductive
<1> QED BY <1>1, <1>2, DriverTypeCorrect, PTL DEF DriverSpec

\* A call that is over and lost no write has left every motor's channels at
\* exactly what it asked for, whatever faults and kills came before.
THEOREM LastCallAppliedCorrect == DriverSpec => []LastCallApplied
<1>1. DriverTypeOK /\ CallInv => LastCallApplied
  <2> SUFFICES ASSUME DriverTypeOK, CallInv, Idle, ~lost
               PROVE  \A m \in Motors : Obeys(cmd, m)
    BY DEF LastCallApplied
  <2>1. \A m \in Motors : m < motor
    BY DriverAssumption DEF Idle, Motors, DriverTypeOK
  <2> QED BY <2>1 DEF CallInv
<1> QED BY <1>1, DriverTypeCorrect, CallInvCorrect, PTL

-----------------------------------------------------------------------------
(* On a sound bus the two channels of a motor exclude each other. *)

\* Between the two writes of a motor its off channel is off, unless none of the
\* two lands: this is what makes NoShootThrough inductive.
ShootInv ==
  /\ bus
  /\ NoShootThrough
  /\ ~Idle /\ phase = "on" /\ autoinc => pwm[motor][OffPin(MotorSpeed(cmd, motor))] = 0

LEMMA WriteKeepsShootInv ==
  ASSUME DriverTypeOK, ShootInv, setMotorSpeed
  PROVE  ShootInv'
<1> DEFINE s == MotorSpeed(cmd, motor)
<1>1. bus' /\ bus /\ autoinc' = autoinc
  BY DEF setMotorSpeed, ShootInv
<1>6. CASE ~autoinc
  BY <1>1, <1>6, LostWrite DEF ShootInv, NoShootThrough, WriteLands
<1>7. ASSUME autoinc PROVE WriteLands
  BY <1>1, <1>7 DEF WriteLands
<1>2. ~Idle /\ motor \in Motors /\ OffPin(s) \in Pins /\ OnPin(s) \in Pins
      /\ OffPin(s) # OnPin(s)
  BY AtMotor DEF setMotorSpeed
<1>3. pwm \in [Motors -> [Pins -> 0..Resolution - 1]]
  BY DEF DriverTypeOK
<1>4. CASE autoinc /\ phase = "off"
  <2>1. /\ pwm' = [pwm EXCEPT ![motor][OffPin(s)] = 0]
        /\ motor' = motor /\ cmd' = cmd
    BY <1>4, <1>7, OffWrite
  <2>2. pwm'[motor][OffPin(s)] = 0
    <3> HIDE DEF s
    <3> QED BY <1>2, <1>3, <2>1
  <2>3. \A m \in Motors : m # motor => pwm'[m] = pwm[m]
    BY <1>2, <1>3, <2>1
  <2> QED BY <1>1, <1>2, <2>1, <2>2, <2>3 DEF ShootInv, NoShootThrough
<1>5. CASE autoinc /\ phase = "on"
  <2>1. /\ pwm' = [pwm EXCEPT ![motor][OnPin(s)] = pwm_val(s)]
        /\ phase' = "off" /\ cmd' = cmd
    BY <1>5, <1>7, OnWrite
  <2>2. pwm'[motor][OffPin(s)] = 0
    <3>1. pwm[motor][OffPin(s)] = 0
      BY <1>2, <1>5 DEF ShootInv
    <3> HIDE DEF s
    <3> QED BY <1>2, <1>3, <2>1, <3>1
  <2>3. \A m \in Motors : m # motor => pwm'[m] = pwm[m]
    BY <1>2, <1>3, <2>1
  <2> QED BY <1>1, <1>2, <2>1, <2>2, <2>3 DEF ShootInv, NoShootThrough
<1> QED BY <1>4, <1>5, <1>6 DEF DriverTypeOK

LEMMA ShootInvInductive ==
  ASSUME ~FaultyBus, DriverTypeOK, ShootInv, [DriverNext]_driverVars
  PROVE  ShootInv'
<1> USE DEF chipVars, deviceVars, callVars
<1>1. CASE UNCHANGED <<pwm, bus, autoinc, cmd, motor, phase>>
  BY <1>1 DEF ShootInv, NoShootThrough, Idle
<1>2. CASE setMotorSpeed
  BY <1>2, WriteKeepsShootInv
<1>3. CASE UNCHANGED <<pwm, bus>> /\ phase' = "off"
  BY <1>3 DEF ShootInv, NoShootThrough
<1>6. CASE init
  BY <1>6 DEF init, ShootInv, NoShootThrough, Idle
<1>4. CASE CallSetSpeeds \/ CallStopAll \/ Destroy \/ Kill
  BY <1>1, <1>3, <1>4 DEF CallSetSpeeds, CallStopAll, Destroy, Kill,
     setSpeeds, stopAll, Program
<1>5. CASE Construct \/ Release \/ BusVaries
           \/ UNCHANGED driverVars
  BY <1>1, <1>5 DEF Construct, Release, BusVaries,
     ShootInv, driverVars
<1> QED BY <1>2, <1>4, <1>5, <1>6 DEF DriverNext

THEOREM ShootInvCorrect == ASSUME ~FaultyBus PROVE DriverSpec => []ShootInv
<1>1. DriverInit => ShootInv
  BY DEF DriverInit, ShootInv, NoShootThrough, Pins
<1>2. DriverTypeOK /\ ShootInv /\ [DriverNext]_driverVars => ShootInv'
  BY ShootInvInductive
<1> QED BY <1>1, <1>2, DriverTypeCorrect, PTL DEF DriverSpec

\* On a bus that accepts every write the forward and the reverse channel of a
\* motor are never on together, between the writes of a call and across kills.
THEOREM NoShootThroughCorrect ==
  ASSUME ~FaultyBus PROVE DriverSpec => []NoShootThrough
<1>1. ShootInv => NoShootThrough
  BY DEF ShootInv
<1> QED BY <1>1, ShootInvCorrect, PTL

-----------------------------------------------------------------------------
(* On a sound bus the driver implements MotorBank. *)

LEMMA DutyType ==
  ASSUME DriverTypeOK
  PROVE  /\ DutyGoal \in [Motors -> Int]
         /\ DutyOut \in [Motors -> Int]
<1>1. \A m \in Motors : pwm_val(MotorSpeed(cmd, m)) \in Int
  BY DriverAssumption, MotorSpeedRange, PwmValRange DEF DriverTypeOK
<1>2. \A m \in Motors : pwm[m]["IN1"] \in Int /\ pwm[m]["IN2"] \in Int
  BY DriverAssumption DEF DriverTypeOK, Pins
<1> QED BY <1>1, <1>2 DEF DutyGoal, DutyOut

\* A motor that obeys the call turns with the duty cycle asked for.
LEMMA ObeysReachesGoal ==
  ASSUME DriverTypeOK, NEW m \in Motors, Obeys(cmd, m)
  PROVE  DutyOut[m] = DutyGoal[m]
<1> DEFINE s == MotorSpeed(cmd, m)
<1>1. s \in Int /\ pwm_val(s) \in Int
  BY DriverAssumption, MotorSpeedRange, PwmValRange DEF DriverTypeOK
<1>2. pwm[m][OffPin(s)] = 0 /\ pwm[m][OnPin(s)] = pwm_val(s)
  BY DEF Obeys
<1>3. DutyGoal[m] = IF s > 0 THEN pwm_val(s) ELSE -pwm_val(s)
  BY DEF DutyGoal
<1>4. DutyOut[m] = pwm[m]["IN1"] - pwm[m]["IN2"]
  BY DEF DutyOut
<1> HIDE DEF s
<1> QED BY <1>1, <1>2, <1>3, <1>4 DEF OffPin, OnPin

\* Switching one channel of a motor off, when not both are on, stops the motor
\* or changes nothing.
LEMMA OffStepDuty ==
  ASSUME DriverTypeOK, ShootInv, setMotorSpeed, WriteLands, phase = "off"
  PROVE  /\ DutyGoal' = DutyGoal
         /\ DutyOut' = DutyOut \/ DutyOut' = [DutyOut EXCEPT ![motor] = 0]
         /\ ~(Idle /\ ~lost) /\ ~(Idle /\ ~lost)'
<1> DEFINE s == MotorSpeed(cmd, motor)
<1>1. ~Idle /\ motor \in Motors /\ OffPin(s) \in Pins
  BY AtMotor DEF setMotorSpeed
<1>2. /\ pwm' = [pwm EXCEPT ![motor][OffPin(s)] = 0]
      /\ motor' = motor /\ cmd' = cmd
  BY OffWrite DEF ShootInv
<1>3. pwm \in [Motors -> [Pins -> 0..Resolution - 1]]
  BY DEF DriverTypeOK
<1>4. pwm[motor]["IN1"] = 0 \/ pwm[motor]["IN2"] = 0
  BY <1>1 DEF ShootInv, NoShootThrough, Pins
<1>5. DutyGoal' = DutyGoal
  BY <1>2 DEF DutyGoal
<1>6. DutyOut' = DutyOut \/ DutyOut' = [DutyOut EXCEPT ![motor] = 0]
  <2>1. \A m \in Motors : m # motor => pwm'[m] = pwm[m]
    BY <1>1, <1>2, <1>3
  <2>2. \/ pwm'[motor]["IN1"] = 0 /\ pwm'[motor]["IN2"] = 0
        \/ pwm'[motor]["IN1"] = pwm[motor]["IN1"]
           /\ pwm'[motor]["IN2"] = pwm[motor]["IN2"]
    <3> HIDE DEF s
    <3> QED BY <1>1, <1>2, <1>3, <1>4 DEF Pins
  <2>3. CASE pwm'[motor]["IN1"] = 0 /\ pwm'[motor]["IN2"] = 0
    <3>1. DutyOut'[motor] = 0
      BY <1>1, <2>3 DEF DutyOut
    <3>2. \A m \in Motors : m # motor => DutyOut'[m] = DutyOut[m]
      BY <2>1 DEF DutyOut
    <3> QED BY <3>1, <3>2 DEF DutyOut
  <2>4. CASE pwm'[motor]["IN1"] = pwm[motor]["IN1"]
             /\ pwm'[motor]["IN2"] = pwm[motor]["IN2"]
    <3>1. \A m \in Motors : DutyOut'[m] = DutyOut[m]
      BY <1>1, <2>1, <2>4 DEF DutyOut
    <3> QED BY <3>1, Zenon DEF DutyOut
  <2> QED BY <2>2, <2>3, <2>4
<1> QED BY <1>1, <1>2, <1>5, <1>6 DEF Idle

\* The second write brings the motor to its goal, from a stop or from the same
\* direction.
LEMMA OnStepDuty ==
  ASSUME DriverTypeOK, ShootInv, setMotorSpeed, WriteLands, phase = "on"
  PROVE  /\ DutyGoal' = DutyGoal
         /\ DutyOut' = [DutyOut EXCEPT ![motor] = DutyGoal[motor]]
         /\ Bank!SameWay(DutyOut[motor], DutyGoal[motor])
<1> DEFINE s == MotorSpeed(cmd, motor)
<1>1. ~Idle /\ motor \in Motors /\ OffPin(s) \in Pins /\ OnPin(s) \in Pins
      /\ OffPin(s) # OnPin(s)
  BY AtMotor DEF setMotorSpeed
<1>2. /\ pwm' = [pwm EXCEPT ![motor][OnPin(s)] = pwm_val(s)]
      /\ cmd' = cmd
  BY OnWrite DEF ShootInv
<1>3. pwm \in [Motors -> [Pins -> 0..Resolution - 1]]
  BY DEF DriverTypeOK
<1>4. s \in Int /\ pwm_val(s) \in Nat
  BY <1>1, DriverAssumption, MotorSpeedRange, PwmValRange DEF DriverTypeOK
<1>5. pwm[motor][OffPin(s)] = 0
  BY <1>1 DEF ShootInv, WriteLands
<1>6. pwm[motor]["IN1"] \in Nat /\ pwm[motor]["IN2"] \in Nat
  BY <1>1, <1>3, DriverAssumption DEF Pins
<1>7. DutyGoal' = DutyGoal
  BY <1>2 DEF DutyGoal
<1>8. DutyGoal[motor] = IF s > 0 THEN pwm_val(s) ELSE -pwm_val(s)
  BY <1>1 DEF DutyGoal
<1>9. \A m \in Motors : m # motor => pwm'[m] = pwm[m]
  BY <1>1, <1>2, <1>3
<1>10. pwm'[motor][OffPin(s)] = 0 /\ pwm'[motor][OnPin(s)] = pwm_val(s)
  <2> HIDE DEF s
  <2> QED BY <1>1, <1>2, <1>3, <1>5
<1>11. pwm'[motor]["IN1"] - pwm'[motor]["IN2"] = DutyGoal[motor]
  <2> HIDE DEF s
  <2> QED BY <1>4, <1>8, <1>10 DEF OffPin, OnPin
<1>12. DutyOut' = [DutyOut EXCEPT ![motor] = DutyGoal[motor]]
  BY <1>1, <1>9, <1>11 DEF DutyOut
<1>13. DutyOut[motor] = pwm[motor]["IN1"] - pwm[motor]["IN2"]
  BY <1>1 DEF DutyOut
<1>14. Bank!SameWay(DutyOut[motor], DutyGoal[motor])
  <2> HIDE DEF s
  <2> QED BY <1>4, <1>5, <1>6, <1>8, <1>13 DEF Bank!SameWay, OffPin, OnPin
<1> QED BY <1>7, <1>12, <1>14

\* The goal is well typed, and reached once the call is settled.
DutyInv == /\ DutyGoal \in [Motors -> Int]
           /\ Idle /\ ~lost => DutyOut = DutyGoal

LEMMA DutyInvCorrect == DriverSpec => []DutyInv
<1>1. ASSUME DriverTypeOK, CallInv, Idle, ~lost
      PROVE  DutyOut = DutyGoal
  <2>1. \A m \in Motors : m < motor
    BY <1>1, DriverAssumption DEF Idle, Motors, DriverTypeOK
  <2>2. \A m \in Motors : DutyOut[m] = DutyGoal[m]
    BY <1>1, <2>1, ObeysReachesGoal DEF CallInv
  <2> QED BY <2>2 DEF DutyOut, DutyGoal
<1>2. DriverTypeOK /\ CallInv => DutyInv
  BY <1>1, DutyType DEF DutyInv
<1> QED BY <1>2, DriverTypeCorrect, CallInvCorrect, PTL

\* Every step of the driver is a step of MotorBank or leaves it unchanged.
LEMMA BankStep ==
  ASSUME ~FaultyBus, DriverTypeOK, ShootInv, DutyInv', [DriverNext]_driverVars
  PROVE  [Bank!Next]_(Bank!bankVars)
<1> USE DEF chipVars, deviceVars, callVars
<1>1. CASE UNCHANGED <<pwm, cmd, motor, lost>>
  BY <1>1 DEF DutyGoal, DutyOut, Idle, Bank!bankVars
<1>2. CASE setMotorSpeed
  <2>1. motor \in Motors /\ ~Idle
    BY <1>2, AtMotor DEF setMotorSpeed
  <2>4. CASE ~WriteLands
    <3>1. pwm' = pwm /\ cmd' = cmd /\ lost' = TRUE
      BY <1>2, <2>4, LostWrite
    <3>2. (Idle /\ ~lost)' = (Idle /\ ~lost)
      BY <2>1, <3>1
    <3> QED BY <3>1, <3>2 DEF DutyGoal, DutyOut, Bank!bankVars
  <2>2. CASE WriteLands /\ phase = "off"
    <3>1. CASE DutyOut' = DutyOut
      BY <1>2, <2>2, <3>1, OffStepDuty DEF Bank!bankVars
    <3>2. CASE DutyOut' = [DutyOut EXCEPT ![motor] = 0]
      <4>1. Bank!Move(motor)
        BY <1>2, <2>2, <3>2, OffStepDuty, Zenon DEF Bank!Move
      <4> QED BY <2>1, <4>1 DEF Bank!Next
    <3> QED BY <1>2, <2>2, <3>1, <3>2, OffStepDuty
  <2>3. CASE WriteLands /\ phase = "on"
    <3>1. (Idle /\ ~lost)' => DutyOut' = DutyGoal'
      BY DEF DutyInv
    <3>2. (Idle /\ ~lost)' \in BOOLEAN
      BY Zenon
    <3>3. Bank!Move(motor)
      BY <1>2, <2>1, <2>3, <3>1, <3>2, OnStepDuty, Zenon DEF Bank!Move
    <3> QED BY <2>1, <3>3 DEF Bank!Next
  <2> QED BY <2>2, <2>3, <2>4 DEF DriverTypeOK
<1>3. ASSUME NEW l, NEW r, Program(l, r), UNCHANGED pwm
      PROVE  Bank!Next
  <2>1. ~(Idle /\ ~lost)'
    BY <1>3, DriverAssumption DEF Program, Idle
  <2>2. DutyGoal' \in [Motors -> Int]
    BY DEF DutyInv
  <2>3. DutyOut' = DutyOut
    BY <1>3 DEF DutyOut
  <2>4. Bank!Command
    BY <2>1, <2>2, <2>3, Zenon DEF Bank!Command
  <2> QED BY <2>4 DEF Bank!Next
<1>4. CASE CallSetSpeeds
  BY <1>1, <1>3, <1>4 DEF CallSetSpeeds, setSpeeds
<1>5. CASE CallStopAll \/ Destroy
  BY <1>3, <1>5 DEF CallStopAll, Destroy, stopAll
<1>6. CASE Kill
  <2>1. (Idle /\ ~lost)' = (Idle /\ ~lost)
    <3>1. Idle'
      BY <1>6, DriverAssumption DEF Kill, Idle
    <3>2. lost' <=> lost \/ ~Idle
      BY <1>6, Zenon DEF Kill
    <3> QED BY <3>1, <3>2, Zenon
  <2>2. UNCHANGED <<DutyGoal, DutyOut>>
    BY <1>6 DEF Kill, DutyGoal, DutyOut
  <2> QED BY <2>1, <2>2 DEF Bank!bankVars
<1>7. CASE Construct \/ init \/ Release \/ BusVaries
           \/ UNCHANGED driverVars
  BY <1>1, <1>7 DEF Construct, init, Release, BusVaries, driverVars
<1> QED BY <1>2, <1>4, <1>5, <1>6, <1>7 DEF DriverNext

\* On a bus that accepts every write, whatever the number of motors, the speeds
\* asked for and the kills, the driver never reverses a motor without a stop in
\* between, and a settled call has brought every motor to its goal.
THEOREM DriverImplementsBank ==
  ASSUME ~FaultyBus PROVE DriverSpec => BankSpec
<1>1. DriverInit => Bank!Init
  <2> SUFFICES ASSUME DriverInit PROVE Bank!Init
    OBVIOUS
  <2>1. \A m \in Motors : MotorSpeed(cmd, m) = 0
    <3>1. cmd.left = 0 /\ cmd.right = 0
      BY DEF DriverInit, Stop
    <3>2. \A z \in Int : z >= 0 /\ z <= 0 => -z = 0
      OBVIOUS
    <3>3. -cmd.left = 0 /\ -cmd.right = 0
      <4> HIDE DEF DriverInit
      <4>1. cmd.left >= 0 /\ cmd.left <= 0 /\ cmd.right >= 0 /\ cmd.right <= 0
            /\ cmd.left \in Int /\ cmd.right \in Int
        BY <3>1
      <4> QED BY <3>2, <4>1, Zenon
    <3> QED BY <3>3, Zenon DEF MotorSpeed
  <2>2. DutyGoal = [m \in Motors |-> 0]
    BY <2>1, PwmValStop DEF DutyGoal
  <2>3. DutyOut = [m \in Motors |-> 0]
    BY DEF DriverInit, DutyOut, Pins
  <2>4. Idle /\ ~lost
    BY DriverAssumption DEF DriverInit, Idle
  <2> QED BY <2>2, <2>3, <2>4 DEF Bank!Init
<1>2. DriverTypeOK /\ ShootInv /\ DutyInv' /\ [DriverNext]_driverVars
      => [Bank!Next]_(Bank!bankVars)
  BY BankStep
<1> QED BY <1>1, <1>2, DriverTypeCorrect, DutyInvCorrect, ShootInvCorrect, PTL
        DEF DriverSpec, BankSpec, Bank!Spec
=============================================================================
