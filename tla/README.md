# A TLA+ model of the QNX RC car safety system

The car is a set of QNX processes on a Raspberry Pi that talk over message
passing. This directory holds TLA+ modules translated from that code, TLC
configurations that check them on small instances, and TLAPS proofs of the
safety properties for every value of the constants. Paths below are relative to
`src/src/` unless they start with `src/`.

## 1. The system

| Part | State | Operations | Talks to |
|---|---|---|---|
| **Drive process** (`drive/`) | owner `current_active_source_`, `is_e_stopped_`, `timeout_counter_`, target speeds, connection to the display, shutdown flag | speed, control and emergency-stop messages, a 50 ms timer pulse, start-up, shutdown | receives from every client, drives the motors, sends to the display |
| **Motor driver** (`FourMotorI2CDriver`) | the PCA9685's sixteen PWM channels, its auto-increment bit, `initialized_`, the hardware lock | `init`, `setSpeeds`, `stopAll`, destructor; each is a sequence of I2C messages | the I2C bus through `devctl` |
| **Joystick process** (`joystick/`) | last report `m_latestState`, last acted on `m_prevState`, connection, shutdown flag | HID reports on one thread, a 50 ms `publishTick` on another | sends to the drive process, results ignored |
| **Ultrasonic process** (`ultrasonic/`) | `estop_engaged_`, connection, shared memory with its mutex | a 100 ms loop: measure, publish, report a change | sends to the drive process, shares memory with the display |
| **Display process** (`oled/`) | its own `is_e_stopped_`, mapped shared memory | a redraw pulse every second, emergency-stop messages | answers the drive process, reads the memory the ultrasonic process writes, without its mutex |
| **Crash detection** (`crash_detection/`) | previous acceleration, candidate and cooldown on the wall clock | polls the IMU over a UART about every 15 ms, logs | slays and starts the serial driver |
| **Hardware lock** (`FourMotorI2CDriver`, `examples/`) | lock files | taken by drivers and examples, under two different names | nobody |
| **Launcher** (`launcher/`) | process list | stops the processes one by one, starts them in order, gives up on the first that fails | all processes |

How they interact: a client's `MsgSend` blocks until the drive process's single
thread has handled and answered it. That thread writes the motors inside the
handler, and for an emergency stop it sends to the display, and blocks, before
it answers. Pulses of its timer queue on the same channel. Connections are
opened by name; when a server dies they become stale, and only the ultrasonic
process ever opens a new one.

What is hard here, component by component, with the property that makes it
right (the full list, line by line, is `hazards` in `PROJECT.json`):

- *Motor driver.* A command is eight register writes; each may be lost (only
  logged), the process may be killed between two, and the chip remembers. A
  motor must never have both directions on (`NoShootThrough`), never be reversed
  without a stop (`BankSpec`), and a complete call must leave every channel as
  asked whatever came before (`LastCallApplied`).
- *Drive process.* Messages, pulses, signals, a display that dies or hangs, bus
  faults and kills in any order. Under an emergency stop nothing moves
  (`EStopHolds`); an answered client knows that the car stands
  (`AckMeansStopped`); no motor starts without a recent command of the owner
  (`SafeDriveSpec`); the watchdog stops a car nobody drives (`WatchdogHalts`);
  the glass of a display that has taken every byte never shows a free car that is
  stopped (`DisplayFailSafe`); clients
  and shutdowns are never stuck (`ClientAnswered`, `ShutdownCompletes`), and a
  shutdown is over within a known number of the thread's steps (`ShutdownDescends`).
  To a client all this must look like one step per message (`DriveServerSpec`).
- *Joystick process.* A second thread overwrites the state between any two
  steps; sends fail silently; BACK must beat START (`BackWins`), and its stop must hold
  as long as the ultrasonic process has no reason to interfere (`BackHolds`).
- *Ultrasonic process.* It reports changes only, so a lost report must be
  repeated (`ObstacleReported`), what it found must be what the drive process obeys,
  although it only remembers what it sent (`ObstacleStops`), and its clearing messages
  reset the watchdog without keeping a car alive that has lost its driver
  (`JoystickGoneHalts`, and pulse by pulse `CoastsDown`).
- *Display process.* Its loads from the shared memory interleave with the stores of
  a writer that may be killed inside the mutex or before the memory has its size;
  what it draws stays on the glass when it is gone. The bus may refuse any message and
  nobody looks, so after a refused redraw an old, legible, wrong line stays while orders
  are answered. What can be asked of a panel that has taken every byte since it was
  initialised: the line about the emergency stop is right when an order is answered
  (`SignSpec`, `ScreenCurrent`), torn reads heal (`TornCorrected`), and the distance
  comes in the end whatever was killed (`Converges`, `LockNeverWaits`). On any bus,
  neither the drive process nor a signal may wait for ever (`DriveAnswered`,
  `DisplayShutdown`).
- *Crash detection.* Reads that fail or never return, and two windows on a clock that
  may be set. No report without a confirmation (`CrashConfirmed`), none twice
  (`CrashOnce`), none missing for ever (`ShakingReported`), and an end on a signal
  (`DetectorShutdown`).
- *Launcher and lock.* Processes that end late, never, or by themselves while the
  script runs. Nothing is started twice (`OneInstance`), a reload that succeeds leaves
  no dead connection (`ReloadConnects`), the script ends (`ReloadEnds`) within a number of
  steps known when it begins (`ReloadDescends`).

## 2. Modules

| Module | What it is |
|---|---|
| `FourMotorI2CDriver` | the driver and the chip, one step per PWM channel write |
| `MotorBank` | what the driver promises: motors move to their goal and reverse only through a stop |
| `DriveLogic` | the five state-machine variables of `DriveController` and what each handler does to them |
| `DriveController` | the drive process: `DriveLogic`, `FourMotorI2CDriver`, `EStopSign`, `main()`, the server's thread, the IPC and its environment |
| `DriveServer` | the drive process as its clients meet it: one step per message or pulse |
| `SafeDrive` | what the drive process promises: bounded fuel, filled only by the owner's command |
| `UltrasonicNode`, `ButtonMappings` | the two clients, without what their messages cause |
| `CarSystem` | `DriveServer` with the joystick and the ultrasonic process around it |
| `SharedDistance` | the shared memory, its mutex, and the ultrasonic process as their writer |
| `OledDisplay` | the display process, composed with `SharedDistance` |
| `EStopSign` | what the display promises the drive process about its emergency-stop line |
| `CrashDetection` | the crash detector with the IMU, its serial line and the wall clock |
| `Launcher` | the reload script and the processes with their connections |
| `FourMotorI2CDriver_proofs`, `DriveController_proofs`, `CarSystem_proofs`, `OledDisplay_proofs`, `CrashDetection_proofs`, `Launcher_proofs` | theorems |
| `MC...` | values for TLC |

`DriveController` extends `DriveLogic`, `FourMotorI2CDriver` and `EStopSign`: its handlers
call `stopAll` and `setSpeeds`, which only begin a sequence of writes; the
thread then does one `WriteRegister` at a time and takes its next event, or
answers, only when the sequence is over (`Idle`). `DriveServer` extends
`DriveLogic` too, so the decisions of the drive process are written once;
`CarSystem` extends `DriveServer`, and `DriveController` implements it.

### Correspondence with the code

*`FourMotorI2CDriver`.* `pwm[m][pin]` is the off count of a channel, `cmd` the
clamped speeds of the call in progress, `motor` and `phase` its position in
`setMotorSpeed`'s sequence. `setPWM` sends five bytes in one message; without
the chip's auto-increment bit the bytes after the first do not reach their
registers, hence `WriteLands`. `init()` begins by clearing MODE1, so an
initialisation that fails half way leaves the bit off (`init`, third disjunct).
`lost` is a history variable: some write of the current call did not reach its
channel. Speeds are integers with `FullSpeed` for 1.0f, and the truncating cast
is kept (`pwm_val`). Left out: bus addresses and bytes, the prescaler, delays.

*`DriveLogic`.* One operator per handler with the code's name, and
`processHardwarePulse` up to the motor call.

*`DriveController`.* `pc` is the position of the server's thread: `created`,
`starting` and `connect` are `main()` and `start()`, `loop` is the test of
`g_shutdown_requested`, `receive` the `MsgReceive`, `notify` and `display` the
`MsgSend` to the display, `reply` the `MsgReply`, `teardown` and `stopping` the
destructors. A client is idle, blocked, or holds the kind of the message being
handled; what it sends is chosen when it is received, which loses nothing as the
sender is blocked and the content is arbitrary. The server is the only reader of
its state, so tests and assignments between two interactions are one step.
`device` is the driver object of this process; `BusChanges` lets the bus refuse or accept
writes from any moment on. The display is the one `EStopSign`
specifies: it may take an order over (`OledReceives`), draw (`OledDraws`, also for its own
pulses and while it starts) and answer (`OledServes`) in any way the specification
allows, and lose bytes at any time; a sender that dies or is interrupted leaves its order
to be drawn (`Abandon`). Not modelled because nobody calls
them: `DriveController::stop()` and `disconnectIPC()`. Clients never send
`SOURCE_NONE` as a source; pulses with another code, and `_IO_CONNECT`, change no
state (`ReceiveOther`).

*`UltrasonicNode`.* `upc` is the position in the loop. A reading is near (below
25 cm), far, or invalid: echoes that never come, last too long or are out of
range. Handling in the drive process, the answer and the assignment to
`estop_engaged_` are one step, since the sender is blocked until the answer and
nobody else reads the variable.

*`ButtonMappings`.* `Report` is the HID thread. `publishTick` is a snapshot
(`Tick`, `FinalTick`) and one step per `MsgSend`, the commands still to be sent in
`outbox`. Speeds are in units of 1/128, in which the code's float arithmetic is
exact and its dead zone of 0.05 is -6..6. Left out: buttons that only print, the
right stick, `hidd_*` details.

*`DriveServer`.* A message or pulse is one step: the registers, faults and the
display are `DriveController`'s subject. `turning` is all four motors. The step is
taken when the message is received; nobody can tell, as its sender is blocked until
the answer and the thread does nothing else in between. `ServerNext` is any client,
`CarSystem` has the two that exist.

*`CarSystem`.* Handling a message and the sender's return from `MsgSend` are one step.
`last_estop` and `back_stop` are history variables: who gave the last order, and whether
the operator's stop stands without an obstacle having had a part in it.

*`SharedDistance`.* `wpc` is the position in `initSharedState()` and the loop of
`start()`: create the object, give it its size, initialise the mutex, then lock,
store field by field, unlock. Object, content and mutex outlive the process. The
order of the stores within the lock is the compiler's, so any is taken; the time
stamp, which nobody reads, is left out. `WriterDies` at any of these points leaves
everything as it is. One assumption: `pthread_mutex_init` gives a usable, free mutex
even where a process died with the old one. Its result is ignored
(`ultrasonic/src/UltrasonicNode.cpp:147`), POSIX does not define the re-initialisation
of a locked mutex, and `LockNeverWaits` and `Converges` rest on it.

*`OledDisplay`.* `opc` is the position of the thread: `init` (bus and init sequence),
`attach` (channel and timer), `map` (memory), `loop` (the test of the flag), `receive`,
`pulse` (attach again if need be), `snapshot` (the two unlocked loads, each a step of
its own), `draw` and `show` (redraw for a pulse and for an order), `exit`. An order is
`asked` until `MsgReply`; when the drive process is killed or interrupted first
(`DriveGivesUp`) what was received is drawn and nobody is answered.

`panel` is what the glass holds, two lines. No result of `devctl` is looked at, so of a
redraw anything may arrive: all of it, nothing, or a part, of each line the new text, the
old or neither (`updateDisplay`, `Mixtures`); the same holds of the clearing at
start and exit and of a redraw cut off by a kill. A byte lost among the commands may also
shift what follows until the next `initOLED()`, so once one is lost any redraw may again
end in any mixture. `intact` is a history variable, read by no decision of the program:
this process initialised the panel and no byte was lost since. `timer_` is whether
`ConnectAttach`, `timer_create` and `timer_settime`, whose results are ignored, worked:
without them no pulse comes. A mapping of an object without a size
may fail or be had, and the access to it is `LoadFaults`. Left out: fonts, layout, log.

*`CrashDetection`.* `pc` is the position of the thread. The two differences the code
computes from stored wall-clock times are kept as `age` and `since`, which `Sleep` moves
by what an iteration may take and `ClockSet` by what somebody sets the clock; they are
capped at the thresholds they are compared with, and `Moved` undoes the cap when the
clock is set back. `Jolt` is the squared norm against the squared threshold.
`seen`, `jolts`, `span`, `gap` and `stepped` are history variables in true time. A read
waits while the IMU is silent on a live line; with the serial driver slain it fails.

*`Launcher`.* `phase` is the position in the script, `todo` the rest of the list. A process
is off, starting, up, or told to end; `link` is the connection it opens once. `ComesUp`
contains what a process does to others when it starts: the detector slays the serial
driver. A drive process that finds the motor lock taken is one that gives up (`GivesUp`). `lost` is a history variable.

## 3. TLC runs

| Run | Result | What it shows |
|---|---|---|
| `driver_clean` | pass | on a bus that accepts writes, with kills and restarts: types, `NoShootThrough`, the driver implements `MotorBank` |
| `driver_shoot_through` | violation | one lost write, and both directions of a motor are on |
| `drive_safety` | pass | the whole drive process under faults, kills, restarts and a display that comes and goes: what a complete call leaves in the registers (`LastCallApplied`), its safety properties up to the glass of the display, `SafeDrive`, `DriveServer`, and the descent of a requested shutdown |
| `drive_live` | pass | orderly exits leave the motors standing; watchdog, shutdown and clients make progress |
| `drive_oled_hangs` | violation | a hung display stops the watchdog |
| `car_safety` | pass | three processes, each started and killed at will: speed range, BACK beats START, a stop ordered with BACK holds while nothing comes near, the drive process obeys the last finding, a car without a joystick coasts down |
| `car_live` | pass | the car without its joystick comes to rest; changes of the obstacle are reported; the joystick process ends on a signal |
| `car_exit` | violation | the joystick's last message may be a driving speed |
| `display` | pass | display and ultrasonic process, both killed and started at will, on a bus that refuses any message and with a timer that may not work: mutex, picture, the display implements `EStopSign`, the drive process is answered, a signal ends the display |
| `display_heals` | pass | torn reads are corrected and a steady distance is shown in the end |
| `crash` | pass | the detector with failing reads, a silent IMU, a slain serial driver and one change of the clock |
| `launcher` | pass | reloads with and without the drive process and the boot, against a death, a hang and a program started by hand: no double start, no dead connection, and the script descends to its end |

Bounds, and why they are enough:

- `MotorCount = 2`, `LeftCount = 1`: motors are independent and treated alike, one
  per side and a call cut between two of them is all that differs. `drive_live` has
  one motor: its properties ask whether the thread goes on, and that does not depend
  on how many writes a call has.
- Driver speeds `-9, 0, 1, 4, 9` with `FullSpeed = 8`, `Resolution = 4`: out of
  range on both sides, truncated to zero, half, full. Server runs use `0` and `1`:
  its control flow tells only zero from the rest, and the driver runs cover
  directions. `LastCallApplied` is checked there, where all the faults are, and proved for
  every set of speeds.
- `TimeoutPulses` is 2 for 10. One would be too small: the first pulse after
  a command would expire it and the car could never move. Two keeps every
  order of "command, pulse, expiry".
- `MaxPulses` is 1 or 2. Queued pulses of one timer are alike, and the server
  takes one at a time; two let one be queued behind another.
- One client. The content of a message is chosen anew for each, so one client
  sends every sequence a set of clients could have served by a single-threaded
  server; sources are separate (`JOYSTICK`, `WEBAPP` in `drive_safety`).
- `Pads` has 4 reports in `car_safety` (rest, diagonal, START, both buttons), 2 in
  the other car runs (rest; START held with the stick forward).

- `display` has both orders and no distance (every measurement is invalid): its questions
  are about the message loop and the line on the emergency stop. `display_heals` has one
  measurable distance, which with "invalid", the fresh memory's 0 and the display's "---"
  gives four things to show, and no orders (`Orders`): an order only adds a redraw. For
  distances and orders together `ScreenCurrent`, `LockNeverWaits` and `SignSpec` are
  proved. No process's starts or deaths are bounded.
- `crash`: the unit of time is 5 ms. `CONFIRM_MS` is its 35; `CRASH_COOLDOWN_MS` is 60
  instead of 1000, still longer than the confirmation, so that both windows run out
  apart and together. An iteration takes 10, 15 or 45 ms (`Periods`), so that the
  confirmation is met exactly, overshot, and passed within one read. The clock is set
  once (`MaxSteps`), back by 25 ms or forward by more than the cooldown. Four samples:
  rest, tilted, hit from the left, braking hard; every pair differs in whether it is a
  jolt or in the side.
- `launcher`: two seconds instead of twenty (the loop runs, ends in time, times out), one
  death and one start by hand (`MaxDeaths`, `MaxByHand`); invocations are not bounded.

Deadlock is checked in all runs: some process can always start or be started.

### Fairness

`FairSpec` of `DriveController` assumes weak fairness of the thread's own steps (it
is scheduled) and of the timer, strong fairness of receiving a pulse and of
receiving each client's message: the channel is served by priority and then in
order, and the senders wait 50 ms or more between messages, so none is passed
over for ever. The display takes an order over and answers it (which is
`DriveAnswered` of `OledDisplay`), unless `OledMayHang`. Nothing is assumed of signals,
kills, clients, or the bus:
`WatchdogHalts` names what it needs (the process stays, the bus works in the end)
as its premise. `CarSystem` assumes weak fairness of the pulse and of the two
clients' threads: their timers and sleeps end, and the drive process answers.
`OledDisplay` assumes weak fairness of both processes' own steps and strong fairness of
receiving a pulse (the timer, if it was set up, fires every second; `ReceivePulse` has
`timer_` as its guard, so nothing is assumed of one that was not) and an order
(`MsgReceive` serves the channel by priority and in order). Nothing is assumed of the bus.
`Converges` has its premises in the formula: both processes live on with a steady reading,
the timer works, and the panel took every byte since it was initialised; `TornCorrected`
gives up with either of the last two, and `DisplayShutdown` allows a display without a
timer to wait in `MsgReceive`.
`CrashDetection` assumes weak fairness of the thread's steps, and that a read returns
when the IMU answers or the line is gone, but not when the IMU is silent.
`Launcher` assumes that the script runs, and nothing of the processes.

## 4. Refinement

- `FourMotorI2CDriver` implements `MotorBank` (`BankSpec`) when the bus accepts
  every write: `goal` is the signed duty cycle asked of each motor, `out` what the
  chip's two channels give, `settled` that no write is left or lost.
- `DriveController` uses its driver as `FourMotorI2CDriver` is specified
  (`UsesDriver`, proved and in no run), so whatever is proved of the driver holds in
  the process.
- `DriveController` implements `SafeDrive` (`SafeDriveSpec`), faults and kills
  included: fuel is the watchdog's remaining pulses while a target is not zero.
- `DriveController` implements `DriveServer` (`DriveServerSpec`), so the drive process
  of `CarSystem` is the real one: the process is there from its constructor to its
  destructor (`There`), and the motors have been told to turn when the last call asks
  for it (`ToldToTurn`). Whether the registers follow is `LastCallApplied`; the car's
  properties speak of orders, and on a sound bus of motors.
- `OledDisplay` implements `EStopSign` (`SignSpec`), kills and refused messages included.
  The sign is `panel.estop` while the panel is `intact` and "unknown" otherwise: with every
  byte taken an order is answered only when the line shows it, and OFF is drawn only by a
  process that was told so; after a loss `EStopSign` promises nothing of the line, only
  that orders are still answered. `DriveController` relies on no more (`UsesSignCorrect`),
  so `DisplayFailSafe`, proved there, is about the glass `OledDisplay` draws, and leaves
  out the glass that lost a byte: there the code can show `E-STOP: OFF` after it has
  answered an engagement.

## 5. Theorems

All are proved with TLAPS for every value of the constants that satisfies the
named assumptions (`DriverAssumption`, `LogicAssumption`, `ControllerAssumption`,
`PadAssumption`, `CarAssumption`, `DistanceAssumption`, `OrdersAssumption`,
`CrashAssumption`, `LauncherAssumption`),
which TLC evaluates in every run.

*`FourMotorI2CDriver_proofs`*

- `DriverTypeCorrect`: `DriverTypeOK`. The channels stay below `Resolution`
  because the speeds of `cmd` are clamped.
- `LastCallAppliedCorrect`: `LastCallApplied` alone is not inductive; `CallInv`
  adds that the motors already passed obey `cmd`, and that of the motor in progress
  the first channel is off, unless a write was lost.
- `NoShootThroughCorrect`, assuming `~FaultyBus`: `ShootInv` adds that between a
  motor's two writes the released channel is off.
- `DriverImplementsBank`, assuming `~FaultyBus`: from the invariants above and
  `DutyInv`, every step is a step of `MotorBank` or a stutter.

*`DriveController_proofs`*

- `UsesDriverCorrect`, from `ServerInv`, which ties `pc` to the driver's state: the
  driver object is gone exactly when `pc` is `off` and in its destructor exactly
  when `pc` is `stopping`, it is initialised while the channel is attached, and a
  call is in progress only where the thread waits for its end.
- `TypeCorrect`: `TypeOK`, from the driver's type theorem and `ServerTypeOK`.
- `EStopHoldsCorrect`, `AckMeansStoppedCorrect`, `WatchdogGuardsCorrect`: none of the
  three is inductive, because they look at the registers only between calls. The
  inductive `CommandInv` looks at the call instead: targets that are not zero mean
  fuel left and no emergency stop (`MovingInv`); so does a last call that asks for
  motion (`ActiveInv`); registers are being written for motion only between a pulse
  and the next event, with the targets still standing (`WriteInv`); from the
  receipt of an engagement or a change of source to its answer the last call is a
  stop (`AckInv`). `LastCallApplied`, inherited through `UsesDriver`, turns calls into
  motors.
- `UsesSignCorrect`: every step is one of `EStopSign` or leaves the display alone, hence
  `SignInv`: a display that has answered shows what it was told, or nothing, or has lost a
  byte.
- `DisplayFailSafeCorrect`, from `DisplayInv`: an order is under way only while the thread
  waits for it; without a live connection, and after the answer to an emergency stop, the
  display waits for nothing and stays lit (`Lit`). `SignInv` turns that into glass.
- `OffMeansStoppedCorrect`, assuming `~MayCrash`: from `ExitInv`, the destructor's
  stop is the last call.
- `ImplementsSafeDrive`: `SafeDriveSpec`, every step is a step of `SafeDrive` or a
  stutter under the mapping; `WriteInv` is what lets a motor start only with fuel.
- `ImplementsDriveServer`: `DriveServerSpec`, faults, kills and failing starts included.
  Each receipt is a step of `DriveServer`, register writes, answers and the display are
  stutters, and the destructor's stop is the end of the process (`ServerEnds`).
- `ShutdownDescendsCorrect`: `ShutdownDescends`. `StepsLeft` counts stages and, within a
  stage, register writes (`Lexicographic`); a stage may begin a call, which costs
  less than the stage was worth (`StageDescends`), a write shortens the call
  (`WriteDescends`). `RequestInv` adds that no signal is pending for a process that is
  gone.

*`CarSystem_proofs`*

- `SpeedsInRange`, `StraightStick`, `MirroredStick`: the stick-to-speed arithmetic for
  all positions.
- `CarTypeCorrect`: `CarTypeOK`, with `OutboxInv`: what is left to send is one of the six
  suffixes `publishTick` can produce, so `Head` and `Tail` are defined.
- `BackWinsCorrect`: from `BackInv`, a tick that took BACK still has it to send, or has
  only the speed left and, if nobody interfered, the emergency stop engaged.
- `ObstacleStopsCorrect`: from `ObstacleInv`, an open connection leads to the drive
  process that is there, and when there is nothing to send over it the ultrasonic
  process's memory of its last order agrees with the flag, unless the operator gave the
  last order. This is what a drive process started anew cannot break: it closes the
  connection, and the next cycle reports again.
- `CoastsDownCorrect`: from `MovingInv` (a target that is not zero needs fuel and no
  emergency stop); `Coast` is what is left of the watchdog, and once
  more all of it while there is an emergency stop to clear.
- `BackHoldsCorrect`: `BackHolds`, from `BackStopInv`: while the operator's stop stands alone
  the flag is set, and the ultrasonic process neither believes that it engaged one nor has
  found anything near, so it has nothing to send that could lift it.

*`OledDisplay_proofs`*

- `DisplayTypeCorrect`, `LockNeverWaitsCorrect`, `ScreenCurrentCorrect`, from one inductive
  invariant, `DisplayInv`: the writer reaches `measure` and `lock` only with a free mutex
  (`MutexInv`: it was just initialised, or given back), and a redraw for an order draws
  what was ordered (`ShowInv`).
- `SignCorrect`: `SignSpec`, each step of either process is a step of `EStopSign` or a
  stutter; `BlankInv` adds that the glass was cleared before orders are taken.

*`CrashDetection_proofs`*

- `CrashTypeCorrect`, `CrashConfirmedCorrect`, `CrashOnceCorrect`, from `CrashInv`. Before a report
  (`Measures`) the program's clocks run no faster than true time unless the clock was
  set, and there is a candidate exactly when there were jolts; after it (`Reported`) what
  was true at the report still stands until the sleep.

*`Launcher_proofs`*

- `OneInstanceCorrect`, `ReloadConnectsCorrect`, from `LauncherInv`:
  the list has no process twice (`ListInv`); what was stopped, and later what is still to
  be started, is off (`OffInv`), which needs that nobody starts a process by hand while
  the script runs; nobody of the list is still ending when the starts begin (`ClosedInv`);
  a process that is off has no connection and an open one leads to a process that is
  there (`LinkInv`); a dead connection during the starts is explained (`StaleInv`).
- `LauncherTypeCorrect`: `LauncherTypeOK`, from the same and `TypeInv`.
- `ReloadDescendsCorrect`: `ReloadDescends`. Each step of the script lowers `StepsLeft`
  (`ScriptDescends`), nothing a process does changes it (`OthersKeepScript`), and
  `BoundInv` bounds it by what was invoked.

The two descents and `CoastsDown` are the half of `ShutdownCompletes`, `ReloadEnds` and
`JoystickGoneHalts` that does not need fairness: nothing makes the way to the end
longer. The other half, that the next step is taken, is the scheduler's.

Only model-checked: every liveness property (fairness is out of the prover's
reach), and of course the violations. Proved and in no run, because a property of a
run says more or they only state types: `UsesDriver`, `WatchdogGuards` (a consequence
of `DriveServerSpec` and `LastCallApplied`), `DisplayTypeOK`, `CrashTypeOK`,
`LauncherTypeOK`.

## 6. Disagreements between the code and its documentation

Each has a run that reproduces it; `findings` in `PROJECT.json` quotes the lines.

1. `driver_shoot_through`: a lost "off" write is followed by the "on" write of the
   other direction.
2. `drive_oled_hangs`: the send to the display has no time-out.
3. `car_exit`: the HID thread outlives the last "stop" tick.

Seen while reading, without a run:

- left and right motors differ between `setSpeeds` (`drive/src/FourMotorI2CDriver.cpp:111`:
  1 and 2 are left) and its documentation (`drive/include/FourMotorI2CDriver.hpp:44`,
  `drive/README.md:88-89`: 2 and 4);
- the drive README counts on destructors after SIGKILL (328-330), which runs none: a
  killed process leaves its motors turning, in the model `Crash`;
- "no speed commands received" (`drive/README.md:309`): the watchdog is also reset by
  clears and changes of source;
- the channel is detached before the motors are stopped
  (`drive/src/DriveController.cpp:54-57`), the reverse of `drive/README.md`'s shutdown list
  (257-258); a `stopAll` of the destructor that the bus refuses is not repeated, so
  "Guarantee" (328-330) needs a working bus: `OffMeansStopped` carries `~lost` for that;
- "destructor always stops motors" (`drive/README.md:329`) does not hold after an `init()`
  that failed half-way over the motors a killed predecessor left on: the bus takes the
  writes, the chip without auto-increment does not route them to their channels. The model
  counts them as `lost`;
- "Only one motor controller can run at a time" (`drive/src/FourMotorI2CDriver.cpp:21`)
  holds among programs with the lock of `ipc.h:10`; the motor example takes another name
  (`examples/src/example_motor_control.cpp:182`) and can run beside the drive process.

Behaviour worth knowing that contradicts no document: an invalid reading, or an
obstacle that leaves, clears an emergency stop engaged with BACK if the ultrasonic
process had engaged one too; START overrules a near obstacle, which is not reported
again until it has left; an unplugged controller leaves its last stick position in
force; a display whose redraw was refused goes on showing the old line, `E-STOP: OFF` for
instance, until a later redraw is taken, and answers the drive process meanwhile; a restarted joystick process drives at once if the drive process still obeys
the joystick. The display shows the last distance of a dead ultrasonic process for
ever. The detector names the side by the sample that confirmed the crash, not by the
first, and after its serial driver was slain it never reads again. A reload without
`--drive` restarts the display under the drive process, whose connection to it is dead
from then on. A reload stops everything before it looks for the IMU's serial port, and
gives up without starting anything when that is missing.

## 7. Not modelled

The bytes of messages and registers, log output, fonts and layout of the OLED, GPIO
and UART details, build and image files. The launcher's boot part (mounting, copying
itself), and two scripts at once: nothing in the code keeps a developer's reload from
overlapping the boot's, and nothing says what should happen then. `--skip-slay` is
assumed of the boot only, where no process runs yet. The examples are demonstrations
that repeat the driver's writes; the archived crash detector is commented out as a
whole. `DriveController` and `OledDisplay` are not run together: each is checked
against `EStopSign`, which is what the one may expect of the other.

## 8. Plan

The modules of the first plan are written. What is left, in order of worth:

1. Descents for the shutdowns of the joystick process, the display and the detector.
2. The display's distance in `CarSystem`, with the ultrasonic process's two roles in one.
3. Two overlapping reload scripts, should the code come to guard against them.
