---------------------------- MODULE OledDisplay ----------------------------
(***************************************************************************)
(* The display process: main() of oled.cpp and class OledDisplay (src/src/ *)
(* oled/src).  One thread serves a pulse every second, which reads the     *)
(* shared memory and redraws, and the emergency stop messages of the drive *)
(* process, which is blocked until it is answered.  The memory is read     *)
(* without its mutex, so the loads interleave with the ultrasonic          *)
(* process's stores.  What is on the panel stays there when nobody draws.  *)
(***************************************************************************)
EXTENDS SharedDistance

CONSTANT Orders  \* what the drive process may order: "engage", "clear"

ASSUME OrdersAssumption == Orders \subseteq {"engage", "clear"}

VARIABLES
  opc,                    \* "off", "init", "attach", "map", "loop", "receive",
                          \* "pulse", "snapshot", "draw", "show" (for a message)
                          \* or "exit"
  g_shutdown_requested,
  is_e_stopped_,
  ultrasonic_available_,  \* the shared memory is mapped
  distance_valid_,
  distance_cm_,
  timer_,                 \* it was set up: pulses come
  loads,                  \* the fields of the memory still to be loaded
  snapshot,               \* those loaded so far
  asked,                  \* the order the drive process waits for: "engage",
                          \* "clear"; "nothing" when it has its answer, or
                          \* "withdrawn" when it did not wait for one
  panel,                  \* the two lines the panel holds
  intact                  \* history: it was initialised by this process, and no
                          \* byte was lost since

stateVars == <<g_shutdown_requested, is_e_stopped_, ultrasonic_available_,
               distance_valid_, distance_cm_, timer_, loads, snapshot>>
glassVars == <<panel, intact>>
displayVars == <<opc, stateVars, asked, panel, intact>>
vars == <<sharedVars, displayVars>>

\* -1 cm stands for "--- cm", -2 and "none" for a line that is blank, illegible or
\* pieced together from two.
Panels == [estop : {"on", "off", "none"}, distance : Distances \cup {0, -1, -2}]
Blank == [estop |-> "none", distance |-> -2]

DisplayTypeOK ==
  /\ SharedTypeOK
  /\ opc \in {"off", "init", "attach", "map", "loop", "receive", "pulse",
              "snapshot", "draw", "show", "exit"}
  /\ g_shutdown_requested \in BOOLEAN
  /\ is_e_stopped_ \in BOOLEAN
  /\ ultrasonic_available_ \in BOOLEAN
  /\ distance_valid_ \in BOOLEAN
  /\ distance_cm_ \in Distances \cup {0}
  /\ timer_ \in BOOLEAN
  /\ loads \subseteq Fields
  /\ snapshot \in [valid : BOOLEAN, distance : Distances \cup {0}]
  /\ asked \in {"engage", "clear", "nothing", "withdrawn"}
  /\ panel \in Panels
  /\ intact \in BOOLEAN

Constructed == /\ g_shutdown_requested = FALSE
               /\ is_e_stopped_ = TRUE
               /\ ultrasonic_available_ = FALSE
               /\ distance_valid_ = FALSE
               /\ distance_cm_ = 0
               /\ timer_ = FALSE
               /\ loads = {}
               /\ snapshot = Zero

Init == /\ SharedInit
        /\ opc = "off"
        /\ Constructed
        /\ asked = "nothing"
        /\ panel = Blank
        /\ intact = FALSE

-----------------------------------------------------------------------------
(* The panel. *)

\* The picture renderUI() makes.
Frame == [estop |-> IF is_e_stopped_ THEN "on" ELSE "off",
          distance |-> IF distance_valid_ THEN distance_cm_ ELSE -1]

\* What a redraw leaves that did not wholly arrive: of each line the new text,
\* the old or neither.
Mixtures(frame) == [estop : {frame.estop, panel.estop, "none"},
                    distance : {frame.distance, panel.distance, -2}]

\* updateDisplay(): nobody looks at the result of a devctl, so a message the bus
\* refuses is left out and the next one sent.  After that it takes initOLED() to be
\* sure of what the panel does with the bytes that do arrive.
updateDisplay(frame) == \/ intact /\ panel' = frame /\ UNCHANGED intact
                        \/ panel' \in Mixtures(frame) /\ intact' = FALSE

\* The process is killed, perhaps while it draws.
LeavePanel == CASE opc \in {"init", "exit"} -> panel' \in Mixtures(Blank)
                [] opc \in {"draw", "show"} -> panel' \in Mixtures(Frame)
                [] OTHER -> UNCHANGED panel

-----------------------------------------------------------------------------
(* Start and end. *)

OledStarts == /\ opc = "off"
              /\ opc' = "init"
              /\ UNCHANGED <<stateVars, asked, glassVars>>

\* The process is gone; a sender it has not answered gets an error.
Ends == /\ opc' = "off"
        /\ g_shutdown_requested' = FALSE
        /\ is_e_stopped_' = TRUE
        /\ ultrasonic_available_' = FALSE
        /\ distance_valid_' = FALSE
        /\ distance_cm_' = 0
        /\ timer_' = FALSE
        /\ loads' = {}
        /\ snapshot' = Zero
        /\ asked' = "nothing"
        /\ intact' = FALSE

OledDies == opc # "off" /\ Ends /\ LeavePanel

\* main() sees a signal before start(), or the bus does not open.
GivesUp == opc = "init" /\ Ends /\ UNCHANGED panel

\* The init sequence sets whatever earlier bytes may have left wrong, then the
\* panel is cleared; these messages may be lost too.
initOLED == /\ opc = "init"
            /\ opc' = "attach"
            /\ \/ panel' = Blank /\ intact' = TRUE
               \/ panel' \in Mixtures(Blank) /\ intact' = FALSE
            /\ UNCHANGED <<stateVars, asked>>

\* From name_attach() on messages are accepted, though not yet received.  Nobody
\* looks whether ConnectAttach, timer_create and timer_settime succeed.
AttachChannel == /\ opc = "attach"
                 /\ opc' = "map"
                 /\ timer_' \in BOOLEAN
                 /\ UNCHANGED <<g_shutdown_requested, is_e_stopped_, ultrasonic_available_,
                                distance_valid_, distance_cm_, loads, snapshot, asked,
                                glassVars>>

AttachFails == opc = "attach" /\ Ends /\ UNCHANGED panel

\* shm_open() needs the object, mmap() its size: without one it fails, or gives
\* a mapping that must not be touched yet.
MapMemory == IF shm = "empty" THEN ultrasonic_available_' \in BOOLEAN
                              ELSE ultrasonic_available_' = (shm = "sized")

StartMaps == /\ opc = "map"
             /\ MapMemory
             /\ opc' = "draw"
             /\ UNCHANGED <<g_shutdown_requested, is_e_stopped_, distance_valid_,
                            distance_cm_, timer_, loads, snapshot, asked, glassVars>>

\* Wrong variant: the loop does not look at the flag.
LoopCheckRunning == /\ opc = "loop"
                    /\ opc' = "receive"
                    /\ UNCHANGED <<stateVars, asked, glassVars>>

LoopCheck == /\ opc = "loop"
             /\ opc' = IF g_shutdown_requested THEN "exit" ELSE "receive"
             /\ UNCHANGED <<stateVars, asked, glassVars>>

ClearOnExit == opc = "exit" /\ panel' \in Mixtures(Blank) /\ Ends

-----------------------------------------------------------------------------
(* The server. *)

Asking == asked \in {"engage", "clear"}

ReceivePulse == /\ opc = "receive" /\ timer_
                /\ opc' = "pulse"
                /\ UNCHANGED <<stateVars, asked, glassVars>>

\* Wrong variant: an attachment that failed is not tried again.
AttachOnPulseNever == /\ opc = "pulse"
                      /\ UNCHANGED ultrasonic_available_
                      /\ IF ultrasonic_available_
                           THEN opc' = "snapshot" /\ loads' = Fields /\ UNCHANGED distance_valid_
                           ELSE opc' = "draw" /\ distance_valid_' = FALSE /\ UNCHANGED loads
                      /\ UNCHANGED <<g_shutdown_requested, is_e_stopped_, distance_cm_,
                                     timer_, snapshot, asked, glassVars>>

\* The first part of processTimerPulse(): attach if need be.
AttachOnPulse == /\ opc = "pulse"
                 /\ IF ultrasonic_available_ THEN UNCHANGED ultrasonic_available_
                                             ELSE MapMemory
                 /\ IF ultrasonic_available_'
                      THEN opc' = "snapshot" /\ loads' = Fields /\ UNCHANGED distance_valid_
                      ELSE opc' = "draw" /\ distance_valid_' = FALSE /\ UNCHANGED loads
                 /\ UNCHANGED <<g_shutdown_requested, is_e_stopped_, distance_cm_,
                                timer_, snapshot, asked, glassVars>>

\* The processor may load the fields in either order.
Load(f) == /\ opc = "snapshot" /\ f \in loads
           /\ shm = "sized"
           /\ snapshot' = [snapshot EXCEPT ![f] = memory[f]]
           /\ loads' = loads \ {f}
           /\ UNCHANGED <<opc, g_shutdown_requested, is_e_stopped_, ultrasonic_available_,
                          distance_valid_, distance_cm_, timer_, asked, glassVars>>

\* SIGBUS: the mapping has nothing behind it.
LoadFaults == opc = "snapshot" /\ shm # "sized" /\ Ends /\ UNCHANGED panel

\* Wrong variant: once a distance was read it is kept.
TakeFirst == /\ opc = "snapshot" /\ loads = {}
             /\ distance_valid_' = snapshot.valid
             /\ distance_cm_' = IF snapshot.valid /\ ~distance_valid_ THEN snapshot.distance
                                                                     ELSE distance_cm_
             /\ snapshot' = Zero
             /\ opc' = "draw"
             /\ UNCHANGED <<g_shutdown_requested, is_e_stopped_, ultrasonic_available_,
                            timer_, loads, asked, glassVars>>

Take == /\ opc = "snapshot" /\ loads = {}
        /\ distance_valid_' = snapshot.valid
        /\ distance_cm_' = IF snapshot.valid THEN snapshot.distance ELSE distance_cm_
        /\ snapshot' = Zero
        /\ opc' = "draw"
        /\ UNCHANGED <<g_shutdown_requested, is_e_stopped_, ultrasonic_available_,
                       timer_, loads, asked, glassVars>>

\* Wrong variant: the redraw is left to the next pulse.
handleEStopNoRedraw == /\ opc = "receive" /\ Asking
                       /\ is_e_stopped_' = (asked = "engage")
                       /\ opc' = "loop" /\ asked' = "nothing"
                       /\ UNCHANGED <<g_shutdown_requested, ultrasonic_available_, distance_valid_,
                                      distance_cm_, timer_, loads, snapshot, glassVars>>

\* Wrong variant: the answer before the redraw.
handleEStopAnswersFirst ==
  /\ opc = "receive" /\ Asking
  /\ is_e_stopped_' = (asked = "engage")
  /\ opc' = IF is_e_stopped_' # is_e_stopped_ THEN "draw" ELSE "loop"
  /\ asked' = "nothing"
  /\ UNCHANGED <<g_shutdown_requested, ultrasonic_available_, distance_valid_,
                 distance_cm_, timer_, loads, snapshot, glassVars>>

\* Wrong variant: the early return comes before the answer.
handleEStopNoAnswer ==
  /\ opc = "receive" /\ Asking
  /\ is_e_stopped_' = (asked = "engage")
  /\ opc' = IF is_e_stopped_' # is_e_stopped_ THEN "show" ELSE "loop"
  /\ UNCHANGED <<g_shutdown_requested, ultrasonic_available_, distance_valid_,
                 distance_cm_, timer_, loads, snapshot, asked, glassVars>>

\* handleEStop() redraws only a change; the answer comes after the redraw.
handleEStop == /\ opc = "receive" /\ Asking
               /\ is_e_stopped_' = (asked = "engage")
               /\ IF is_e_stopped_' # is_e_stopped_
                    THEN opc' = "show" /\ UNCHANGED asked
                    ELSE opc' = "loop" /\ asked' = "nothing"
               /\ UNCHANGED <<g_shutdown_requested, ultrasonic_available_, distance_valid_,
                              distance_cm_, timer_, loads, snapshot, glassVars>>

renderUI == /\ opc \in {"draw", "show"}
            /\ opc' = "loop"
            /\ updateDisplay(Frame)
            /\ asked' = IF opc = "show" THEN "nothing" ELSE asked
            /\ UNCHANGED stateVars

\* _IO_CONNECT, unknown types, other pulses, errors.
ReceiveOther == /\ opc = "receive"
                /\ opc' = "loop"
                /\ UNCHANGED <<stateVars, asked, glassVars>>

\* EINTR leaves the loop.
ReceiveInterrupted == /\ opc = "receive" /\ g_shutdown_requested
                      /\ opc' = "exit"
                      /\ UNCHANGED <<stateVars, asked, glassVars>>

-----------------------------------------------------------------------------
(* The two processes and what happens to them. *)

\* The drive process has a connection from the moment the channel is there.
DriveSends == /\ opc \notin {"off", "init", "attach"} /\ ~Asking
              /\ asked' \in Orders
              /\ UNCHANGED <<opc, stateVars, glassVars>>

\* It is killed, or a signal interrupts its MsgSend.  What has been received is
\* drawn, but the answer goes to nobody.
DriveGivesUp == /\ Asking
                /\ asked' = "withdrawn"
                /\ opc' = IF opc = "show" THEN "draw" ELSE opc
                /\ UNCHANGED <<stateVars, glassVars>>

Signal == /\ opc # "off"
          /\ g_shutdown_requested' = TRUE
          /\ UNCHANGED <<opc, is_e_stopped_, ultrasonic_available_, distance_valid_,
                         distance_cm_, timer_, loads, snapshot, asked, glassVars>>

\* What the thread does by itself.
DisplayThread == \/ initOLED \/ AttachChannel \/ StartMaps \/ LoopCheck
                 \/ AttachOnPulse \/ (\E f \in Fields : Load(f)) \/ LoadFaults \/ Take
                 \/ renderUI \/ ClearOnExit

Display == \/ DisplayThread
           \/ ReceivePulse \/ handleEStop \/ ReceiveOther \/ ReceiveInterrupted
           \/ OledStarts \/ OledDies \/ GivesUp \/ AttachFails
           \/ DriveSends \/ DriveGivesUp \/ Signal

Writer == WriterThread \/ WriterStarts \/ WriterDies

Next == \/ Writer /\ UNCHANGED displayVars
        \/ Display /\ UNCHANGED sharedVars

Spec == Init /\ [][Next]_vars

\* Both threads are scheduled.  The timer fires every second and messages come
\* one at a time, so neither is passed over in MsgReceive for ever.
Fairness == /\ WF_vars(WriterThread /\ UNCHANGED displayVars)
            /\ WF_vars(DisplayThread /\ UNCHANGED sharedVars)
            /\ SF_vars(ReceivePulse /\ UNCHANGED sharedVars)
            /\ SF_vars(handleEStop /\ UNCHANGED sharedVars)

FairSpec == Spec /\ Fairness

-----------------------------------------------------------------------------
(* Properties. *)

\* The ultrasonic process never waits for its mutex, not even for one that a
\* predecessor took into its grave: pthread_mutex_lock is reached only with a
\* mutex just initialised or given back (UltrasonicNode.cpp:144-150, 89-95).
LockNeverWaits == wpc = "lock" => mutex = "free"

\* Between two events the glass shows what the process believes, whatever a
\* predecessor left on it, unless the bus lost a byte since the process
\* initialised the panel (handleEStop's early return and renderUI,
\* OLedDisplay.cpp:405-412, 239-264).
ScreenCurrent == opc \in {"loop", "receive"} /\ intact => panel = Frame

\* A drive process is never left waiting (the message loop, OLedDisplay.cpp:
\* 316-346).
DriveAnswered == Asking ~> ~Asking

\* A signal ends the process, wherever its thread was, as the next pulse leads
\* it to the flag; only without a timer may it go on waiting (oled.cpp:15-19 and
\* the loop, OLedDisplay.cpp:316-346).
DisplayShutdown == g_shutdown_requested ~> opc = "off" \/ (opc = "receive" /\ ~timer_)

\* "Occasional torn reads are acceptable and quickly corrected next pulse"
\* (OLedDisplay.cpp:380-382): 0 cm, which no sensor measures but a fresh memory
\* holds, does not stay on the glass while both processes live, the timer works and
\* the bus loses nothing.
Torn == panel.distance = 0
TornCorrected == Torn ~> \/ ~Torn
                         \/ wpc = "off" \/ opc = "off"
                         \/ ~timer_ \/ ~intact

\* With a steady obstacle (or none), whatever happened before the display was
\* started, it comes to show it and goes on doing so while the timer works and the
\* bus loses nothing: processes killed inside the mutex or between two steps of
\* creating the memory, a display that was first, torn reads (initSharedState,
\* UltrasonicNode.cpp:121-157; processTimerPulse, OLedDisplay.cpp:358-403).
Steady(r) == wpc # "off" /\ reading = r
Shown(r) == panel.distance = IF r.valid THEN r.distance ELSE -1
Converges == \A r \in Readings :
               <>[](Steady(r) /\ opc # "off" /\ timer_ /\ intact) => <>[]Shown(r)

\* The display keeps what EStopSign promises the drive process: the answer to an
\* order comes after the redraw, the early return leaves a line that is right
\* already (handleEStop and the reply, OLedDisplay.cpp:330-333, 405-412).
Sign == INSTANCE EStopSign WITH
          oled <- opc \notin {"off", "init", "attach"},
          told <- IF is_e_stopped_ THEN "on" ELSE "off",
          sign <- IF intact THEN panel.estop ELSE "unknown"
SignSpec == Sign!SignSpec
=============================================================================
