------------------------- MODULE OledDisplay_proofs -------------------------
(***************************************************************************)
(* Proofs about the display process and the memory it shares with the      *)
(* ultrasonic process: types, the mutex, the picture on the glass, and     *)
(* that the display keeps what EStopSign promises the drive process.       *)
(***************************************************************************)
EXTENDS OledDisplay, TLAPS

-----------------------------------------------------------------------------
(* The ultrasonic process. *)

MutexInv == wpc \in {"measure", "lock"} => mutex = "free"

SharedInv == SharedTypeOK /\ MutexInv

LEMMA ReadingsHaveFields ==
  ASSUME NEW r \in Readings
  PROVE  /\ r.valid \in BOOLEAN
         /\ r.distance \in Distances \cup {0}
<1>1. CASE r = Zero
  <2>1. r.valid = FALSE /\ r.distance = 0
    BY <1>1 DEF Zero
  <2> QED BY <2>1, Zenon
<1>2. CASE r \in [valid : {TRUE}, distance : Distances]
  <2>1. r.valid = TRUE /\ r.distance \in Distances
    BY <1>2
  <2> QED BY <2>1, Zenon
<1> QED BY <1>1, <1>2 DEF Readings

LEMMA FieldsOfMemory ==
  ASSUME NEW m, m \in [valid : BOOLEAN, distance : Distances \cup {0}],
         NEW r \in Readings, NEW f \in Fields
  PROVE  [m EXCEPT ![f] = r[f]] \in [valid : BOOLEAN, distance : Distances \cup {0}]
BY ReadingsHaveFields DEF Fields

LEMMA WriterKeepsInv ==
  ASSUME SharedInv, Writer
  PROVE  SharedInv'
<1> USE DEF SharedInv, SharedTypeOK, MutexInv
<1>1. CASE WriterStarts
  BY <1>1 DEF WriterStarts
<1>2. CASE WriterDies
  BY <1>2 DEF WriterDies, Readings, Fields
<1>3. CASE shm_open
  BY <1>3 DEF shm_open
<1>4. CASE ftruncate
  BY <1>4 DEF ftruncate
<1>5. CASE mutex_init
  BY <1>5 DEF mutex_init
<1>6. CASE measure
  BY <1>6 DEF measure, ToStore, Fields
<1>7. CASE lock
  BY <1>7 DEF lock
<1>8. ASSUME NEW f \in Fields, store(f) PROVE SharedInv'
  <2>1. memory' \in [valid : BOOLEAN, distance : Distances \cup {0}]
    BY <1>8, FieldsOfMemory DEF store
  <2> QED BY <1>8, <2>1 DEF store
<1>9. CASE unlock
  BY <1>9 DEF unlock
<1> QED
  BY <1>1, <1>2, <1>3, <1>4, <1>5, <1>6, <1>7, <1>8, <1>9 DEF Writer, WriterThread

-----------------------------------------------------------------------------
(* The display process. *)

\* DisplayTypeOK without the shared memory, in three parts.
FlagsOK == /\ g_shutdown_requested \in BOOLEAN
           /\ is_e_stopped_ \in BOOLEAN
           /\ ultrasonic_available_ \in BOOLEAN
           /\ distance_valid_ \in BOOLEAN
           /\ timer_ \in BOOLEAN
DataOK == /\ distance_cm_ \in Distances \cup {0}
          /\ loads \subseteq Fields
          /\ snapshot \in [valid : BOOLEAN, distance : Distances \cup {0}]
ControlOK == /\ opc \in {"off", "init", "attach", "map", "loop", "receive", "pulse",
                         "snapshot", "draw", "show", "exit"}
             /\ asked \in {"engage", "clear", "nothing", "withdrawn"}
             /\ panel \in Panels
             /\ intact \in BOOLEAN

LEMMA DisplayTypeParts ==
  /\ DisplayTypeOK <=> SharedTypeOK /\ FlagsOK /\ DataOK /\ ControlOK
  /\ DisplayTypeOK' <=> SharedTypeOK' /\ FlagsOK' /\ DataOK' /\ ControlOK'
BY DEF DisplayTypeOK, FlagsOK, DataOK, ControlOK

\* While a message is shown its sender waits, and the flag is what it ordered.
ShowInv == opc = "show" => Asking /\ is_e_stopped_ = (asked = "engage")

DisplayInv == /\ SharedInv /\ FlagsOK /\ DataOK /\ ControlOK
              /\ ScreenCurrent /\ ShowInv

LEMMA PicturesInPanels == Blank \in Panels /\ (FlagsOK /\ DataOK => Frame \in Panels)
<1>1. Blank \in Panels
  BY DEF Blank, Panels
<1>2. FlagsOK /\ DataOK => Frame \in Panels
  BY DEF FlagsOK, DataOK, Frame, Panels
<1> QED BY <1>1, <1>2

LEMMA MixturesInPanels ==
  ASSUME ControlOK, NEW frame \in Panels
  PROVE  Mixtures(frame) \subseteq Panels
BY DEF ControlOK, Panels, Mixtures

\* What a redraw leaves, whole or not.
LEMMA UpdateDisplayType ==
  ASSUME ControlOK, NEW frame \in Panels, updateDisplay(frame)
  PROVE  panel' \in Panels /\ intact' \in BOOLEAN /\ (intact' => panel' = frame)
BY MixturesInPanels DEF updateDisplay, ControlOK

LEMMA EndsKeepsInv ==
  ASSUME DisplayInv, Ends, panel' \in Panels
  PROVE  FlagsOK' /\ DataOK' /\ ControlOK' /\ ScreenCurrent' /\ ShowInv'
<1>1. FlagsOK'
  BY Zenon DEF Ends, FlagsOK
<1>2. DataOK'
  BY DEF Ends, DataOK, Zero
<1>3. ControlOK' /\ ScreenCurrent' /\ ShowInv'
  BY DEF Ends, ControlOK, ScreenCurrent, ShowInv
<1> QED BY <1>1, <1>2, <1>3

\* Steps to another point of the program that leave the rest alone.
LEMMA MovesKeepInv ==
  ASSUME DisplayInv, UNCHANGED <<stateVars, asked>>,
         ControlOK', ScreenCurrent', opc' # "show"
  PROVE  FlagsOK' /\ DataOK' /\ ControlOK' /\ ScreenCurrent' /\ ShowInv'
BY DEF DisplayInv, stateVars, FlagsOK, DataOK, ShowInv

LEMMA MapMemoryType ==
  ASSUME MapMemory
  PROVE  ultrasonic_available_' \in BOOLEAN
BY Zenon DEF MapMemory

LEMMA DisplayThreadKeepsInv ==
  ASSUME DisplayInv, DisplayThread, UNCHANGED sharedVars
  PROVE  FlagsOK' /\ DataOK' /\ ControlOK' /\ ScreenCurrent' /\ ShowInv'
<1>0. FlagsOK /\ DataOK /\ ControlOK /\ SharedTypeOK
  BY DEF DisplayInv, SharedInv
<1>1. CASE initOLED
  <2>1. panel' \in Panels /\ intact' \in BOOLEAN
    BY <1>0, <1>1, PicturesInPanels, MixturesInPanels DEF initOLED
  <2> QED BY <1>0, <1>1, <2>1, MovesKeepInv
             DEF initOLED, ControlOK, glassVars, ScreenCurrent
<1>2. CASE AttachChannel
  <2>1. FlagsOK'
    BY <1>0, <1>2, Zenon DEF AttachChannel, FlagsOK
  <2> QED BY <1>0, <1>2, <2>1
            DEF AttachChannel, DataOK, ControlOK, glassVars, ScreenCurrent, ShowInv
<1>3. CASE StartMaps
  <2>1. ultrasonic_available_' \in BOOLEAN
    BY <1>3, MapMemoryType DEF StartMaps
  <2>2. FlagsOK'
    BY <1>0, <1>3, <2>1 DEF StartMaps, FlagsOK
  <2> QED BY <1>0, <1>3, <2>2
             DEF StartMaps, DataOK, ControlOK, glassVars, ScreenCurrent, ShowInv
<1>4. CASE LoopCheck
  <2>1. Frame' = Frame
    BY <1>4 DEF LoopCheck, stateVars, Frame
  <2>2. ControlOK' /\ opc' # "show"
    BY <1>0, <1>4 DEF LoopCheck, ControlOK, glassVars
  <2>3. ScreenCurrent'
    BY <1>4, <2>1 DEF DisplayInv, LoopCheck, glassVars, ScreenCurrent
  <2> QED BY <1>4, <2>2, <2>3, MovesKeepInv DEF LoopCheck
<1>5. CASE AttachOnPulse
  <2>1. ultrasonic_available_' \in BOOLEAN
    BY <1>0, <1>5, MapMemoryType, Zenon DEF AttachOnPulse, FlagsOK
  <2>2. distance_valid_' \in BOOLEAN
    BY <1>0, <1>5, Zenon DEF AttachOnPulse, FlagsOK
  <2>3. FlagsOK'
    BY <1>0, <1>5, <2>1, <2>2 DEF AttachOnPulse, FlagsOK
  <2>4. loads' \subseteq Fields /\ opc' \in {"snapshot", "draw"}
    BY <1>0, <1>5 DEF AttachOnPulse, DataOK
  <2> QED BY <1>0, <1>5, <2>3, <2>4
            DEF AttachOnPulse, DataOK, ControlOK, glassVars, ScreenCurrent, ShowInv
<1>6. ASSUME NEW f \in Fields, Load(f)
      PROVE  FlagsOK' /\ DataOK' /\ ControlOK' /\ ScreenCurrent' /\ ShowInv'
  <2>1. snapshot' \in [valid : BOOLEAN, distance : Distances \cup {0}]
    <3>1. memory \in [valid : BOOLEAN, distance : Distances \cup {0}]
      BY <1>0 DEF SharedTypeOK
    <3> QED BY <1>0, <1>6, <3>1 DEF Load, DataOK, Fields
  <2> QED BY <1>0, <1>6, <2>1
            DEF Load, FlagsOK, DataOK, ControlOK, glassVars, ScreenCurrent, ShowInv
<1>7. CASE LoadFaults
  BY <1>0, <1>7, EndsKeepsInv DEF LoadFaults, ControlOK
<1>8. CASE Take
  <2>1. distance_valid_' \in BOOLEAN
    BY <1>0, <1>8 DEF Take, DataOK
  <2>2. distance_cm_' \in Distances \cup {0}
    BY <1>0, <1>8 DEF Take, DataOK
  <2>3. snapshot' \in [valid : BOOLEAN, distance : Distances \cup {0}]
    BY <1>8 DEF Take, Zero
  <2> QED BY <1>0, <1>8, <2>1, <2>2, <2>3
            DEF Take, FlagsOK, DataOK, ControlOK, glassVars, ScreenCurrent, ShowInv
<1>9. CASE renderUI
  <2>1. Frame' = Frame /\ FlagsOK' /\ DataOK'
    BY <1>0, <1>9 DEF renderUI, stateVars, Frame, FlagsOK, DataOK
  <2>2. panel' \in Panels /\ intact' \in BOOLEAN /\ (intact' => panel' = Frame)
    BY <1>0, <1>9, PicturesInPanels, UpdateDisplayType DEF renderUI
  <2>3. asked' \in {"engage", "clear", "nothing", "withdrawn"}
    BY <1>0, <1>9 DEF renderUI, ControlOK
  <2> QED BY <1>0, <1>9, <2>1, <2>2, <2>3 DEF renderUI, ControlOK, ScreenCurrent, ShowInv
<1>10. CASE ClearOnExit
  BY <1>0, <1>10, PicturesInPanels, MixturesInPanels, EndsKeepsInv DEF ClearOnExit
<1> QED
  BY <1>1, <1>2, <1>3, <1>4, <1>5, <1>6, <1>7, <1>8, <1>9, <1>10 DEF DisplayThread

LEMMA DisplayKeepsInv ==
  ASSUME DisplayInv, Display, UNCHANGED sharedVars
  PROVE  FlagsOK' /\ DataOK' /\ ControlOK' /\ ScreenCurrent' /\ ShowInv'
<1>0. FlagsOK /\ DataOK /\ ControlOK /\ ScreenCurrent /\ ShowInv
  BY DEF DisplayInv
<1>1. CASE ReceivePulse \/ ReceiveInterrupted \/ OledStarts
  BY <1>0, <1>1, MovesKeepInv
     DEF ReceivePulse, ReceiveInterrupted, OledStarts, ControlOK, glassVars, ScreenCurrent
<1>2. CASE ReceiveOther
  <2>1. Frame' = Frame
    BY <1>2 DEF ReceiveOther, stateVars, Frame
  <2> QED BY <1>0, <1>2, <2>1, MovesKeepInv
             DEF ReceiveOther, ControlOK, glassVars, ScreenCurrent
<1>3. CASE handleEStop
  <2>1. is_e_stopped_' \in BOOLEAN
    BY <1>3, Zenon DEF handleEStop
  <2>2. FlagsOK' /\ DataOK'
    BY <1>0, <1>3, <2>1 DEF handleEStop, FlagsOK, DataOK
  <2>3. CASE is_e_stopped_' # is_e_stopped_
    BY <1>0, <1>3, <2>2, <2>3
       DEF handleEStop, Asking, ControlOK, glassVars, ScreenCurrent, ShowInv
  <2>4. CASE is_e_stopped_' = is_e_stopped_
    <3>1. Frame' = Frame
      BY <1>3, <2>4 DEF handleEStop, Frame
    <3> QED BY <1>0, <1>3, <2>2, <2>4, <3>1
               DEF handleEStop, ControlOK, glassVars, ScreenCurrent, ShowInv
  <2> QED BY <2>3, <2>4
<1>4. CASE OledDies
  BY <1>0, <1>4, PicturesInPanels, MixturesInPanels, EndsKeepsInv
     DEF OledDies, LeavePanel, ControlOK
<1>5. CASE GivesUp \/ AttachFails
  BY <1>0, <1>5, EndsKeepsInv DEF GivesUp, AttachFails, ControlOK
<1>6. CASE DriveSends
  <2>1. Frame' = Frame /\ FlagsOK' /\ DataOK'
    BY <1>0, <1>6 DEF DriveSends, stateVars, Frame, FlagsOK, DataOK
  <2> QED BY <1>0, <1>6, <2>1, OrdersAssumption
             DEF DriveSends, Asking, ControlOK, glassVars, ScreenCurrent, ShowInv
<1>7. CASE DriveGivesUp
  <2>1. Frame' = Frame /\ FlagsOK' /\ DataOK'
    BY <1>0, <1>7 DEF DriveGivesUp, stateVars, Frame, FlagsOK, DataOK
  <2> QED BY <1>0, <1>7, <2>1 DEF DriveGivesUp, ControlOK, glassVars, ScreenCurrent, ShowInv
<1>8. CASE Signal
  <2>1. Frame' = Frame /\ g_shutdown_requested' \in BOOLEAN
    BY <1>8, Zenon DEF Signal, Frame
  <2> QED BY <1>0, <1>8, <2>1
            DEF Signal, FlagsOK, DataOK, ControlOK, glassVars, ScreenCurrent, ShowInv, Asking
<1> QED
  BY <1>1, <1>2, <1>3, <1>4, <1>5, <1>6, <1>7, <1>8, DisplayThreadKeepsInv DEF Display

LEMMA DisplayInvInductive == DisplayInv /\ [Next]_vars => DisplayInv'
<1> SUFFICES ASSUME DisplayInv, [Next]_vars PROVE DisplayInv'
  OBVIOUS
<1>1. CASE Writer /\ UNCHANGED displayVars
  <2>1. SharedInv'
    BY <1>1, WriterKeepsInv DEF DisplayInv
  <2>2. Frame' = Frame /\ FlagsOK' /\ DataOK'
    BY <1>1 DEF DisplayInv, displayVars, stateVars, Frame, FlagsOK, DataOK
  <2>3. ControlOK' /\ ScreenCurrent' /\ ShowInv'
    BY <1>1, <2>2 DEF DisplayInv, displayVars, stateVars, ControlOK, ScreenCurrent, ShowInv,
       Asking
  <2> QED BY <2>1, <2>2, <2>3 DEF DisplayInv
<1>2. ASSUME UNCHANGED sharedVars PROVE SharedInv'
  BY <1>2 DEF DisplayInv, sharedVars, SharedInv, SharedTypeOK, MutexInv
<1>3. CASE Display /\ UNCHANGED sharedVars
  BY <1>2, <1>3, DisplayKeepsInv DEF DisplayInv
<1>4. CASE UNCHANGED vars
  <2>1. Frame' = Frame /\ FlagsOK' /\ DataOK'
    BY <1>4 DEF DisplayInv, vars, displayVars, stateVars, Frame, FlagsOK, DataOK
  <2>2. ControlOK' /\ ScreenCurrent' /\ ShowInv'
    BY <1>4, <2>1 DEF DisplayInv, vars, displayVars, stateVars, ControlOK, ScreenCurrent,
       ShowInv, Asking
  <2> QED BY <1>2, <1>4, <2>1, <2>2 DEF DisplayInv, vars
<1> QED BY <1>1, <1>3, <1>4 DEF Next

LEMMA DisplayInvInit == Init => DisplayInv
<1> SUFFICES ASSUME Init PROVE DisplayInv
  OBVIOUS
<1>1. SharedInv
  BY DEF Init, SharedInit, SharedInv, SharedTypeOK, MutexInv, Readings, Zero
<1>2. FlagsOK
  BY Zenon DEF Init, Constructed, FlagsOK
<1>3. DataOK /\ ControlOK /\ ScreenCurrent /\ ShowInv
  BY PicturesInPanels DEF Init, Constructed, DataOK, Zero, ControlOK, ScreenCurrent, ShowInv
<1> QED BY <1>1, <1>2, <1>3 DEF DisplayInv

LEMMA DisplayInvCorrect == Spec => []DisplayInv
BY DisplayInvInit, DisplayInvInductive, PTL DEF Spec

-----------------------------------------------------------------------------
(* Theorems. *)

\* Every variable of both processes keeps its type (OLedDisplay.hpp, ultrasonic.h).
THEOREM DisplayTypeCorrect == Spec => []DisplayTypeOK
<1>1. DisplayInv => DisplayTypeOK
  BY DisplayTypeParts DEF DisplayInv, SharedInv
<1> QED BY <1>1, DisplayInvCorrect, PTL

\* The ultrasonic process never waits for its mutex, also after a predecessor was
\* killed inside it (UltrasonicNode.cpp:144-150, 89-95).
THEOREM LockNeverWaitsCorrect == Spec => []LockNeverWaits
<1>1. DisplayInv => LockNeverWaits
  BY DEF DisplayInv, SharedInv, MutexInv, LockNeverWaits
<1> QED BY <1>1, DisplayInvCorrect, PTL

\* Between two events the glass shows what the process believes, unless a byte was
\* lost since it initialised the panel (OLedDisplay.cpp:239-264, 405-412).
THEOREM ScreenCurrentCorrect == Spec => []ScreenCurrent
<1>1. DisplayInv => ScreenCurrent
  BY DEF DisplayInv
<1> QED BY <1>1, DisplayInvCorrect, PTL

-----------------------------------------------------------------------------
(* The display implements EStopSign. *)

\* A display that is about to take orders has just cleared the glass, if the bus
\* took it.
BlankInv == opc = "attach" /\ intact => panel = Blank

LEMMA BlankInvCorrect == Spec => []BlankInv
<1>1. Init => BlankInv
  BY DEF Init, BlankInv
<1>2. ASSUME BlankInv, [Next]_vars PROVE BlankInv'
  <2> USE DEF BlankInv
  <2>1. CASE UNCHANGED displayVars
    BY <1>2, <2>1 DEF displayVars
  <2>2. CASE initOLED
    BY <2>2 DEF initOLED
  <2>3. CASE AttachChannel \/ StartMaps \/ LoopCheck \/ AttachOnPulse \/ Take \/ renderUI
             \/ (\E f \in Fields : Load(f)) \/ LoadFaults \/ ClearOnExit
    BY <2>3 DEF AttachChannel, StartMaps, LoopCheck, AttachOnPulse, Take, renderUI, Load,
       LoadFaults, ClearOnExit, Ends
  <2>4. CASE \/ ReceivePulse \/ handleEStop \/ ReceiveOther \/ ReceiveInterrupted
             \/ OledStarts \/ OledDies \/ GivesUp \/ AttachFails
    BY <2>4 DEF ReceivePulse, handleEStop, ReceiveOther, ReceiveInterrupted, OledStarts,
       OledDies, GivesUp, AttachFails, Ends
  <2>5. CASE DriveSends \/ DriveGivesUp \/ Signal
    BY <1>2, <2>5 DEF DriveSends, DriveGivesUp, Signal, glassVars
  <2>6. CASE UNCHANGED vars
    BY <2>1, <2>6 DEF vars, displayVars
  <2> QED
    BY <1>2, <2>1, <2>2, <2>3, <2>4, <2>5, <2>6 DEF Next, Display, DisplayThread
<1> QED BY <1>1, <1>2, PTL DEF Spec

Told == IF is_e_stopped_ THEN "on" ELSE "off"
There == opc \notin {"off", "init", "attach"}
Line == IF intact THEN panel.estop ELSE "unknown"

LEMMA SignMapping ==
  /\ Sign!SignInit <=> ~There /\ asked = "nothing" /\ Told = "on" /\ Line = "unknown"
  /\ Sign!Clears <=> ~There /\ Line' \in {"none", "unknown"} /\ UNCHANGED <<There, asked, Told>>
  /\ Sign!Appears <=> /\ ~There /\ There' = TRUE /\ Line \in {"none", "unknown"}
                      /\ UNCHANGED <<asked, Told, Line>>
  /\ Sign!Asks <=> There /\ ~Asking /\ asked' \in {"engage", "clear"}
                   /\ UNCHANGED <<There, Told, Line>>
  /\ Sign!Withdraws <=> Asking /\ asked' = "withdrawn"
                        /\ UNCHANGED <<There, Told, Line>>
  /\ Sign!Ordered = IF asked = "engage" THEN "on" ELSE "off"
  /\ Sign!Heeds <=> /\ There /\ Asking
                    /\ Told' = Sign!Ordered
                    /\ \/ asked' = asked
                       \/ asked' = "nothing" /\ Line \in {Sign!Ordered, "none", "unknown"}
                    /\ UNCHANGED <<There, Line>>
  /\ Sign!Draws <=> /\ There
                    /\ \/ Line # "unknown" /\ Line' = Told
                       \/ Line' = "unknown"
                    /\ \/ asked' = asked
                       \/ Asking /\ asked' = "nothing" /\ Told = Sign!Ordered
                    /\ UNCHANGED <<There, Told>>
  /\ Sign!Vanishes <=> /\ There' = FALSE /\ asked' = "nothing" /\ Told' = "on"
                       /\ Line' = "unknown"
BY DEF Sign!SignInit, Sign!Clears, Sign!Appears, Sign!Asks, Sign!Asking, Asking,
       Sign!Withdraws, Sign!Ordered, Sign!Heeds, Sign!Draws, Sign!Vanishes, There, Told, Line

\* A step of the sign, or none.
SignStep == \/ Sign!SignNext
            \/ UNCHANGED <<There, asked, Told, Line>>

LEMMA LinesOfPictures == Frame.estop = Told /\ Blank.estop = "none"
BY DEF Frame, Told, Blank

LEMMA EndsIsSignStep ==
  ASSUME Ends
  PROVE  SignStep
<1>1. There' = FALSE /\ asked' = "nothing" /\ Told' = "on" /\ Line' = "unknown"
  BY DEF Ends, There, Told, Line
<1> QED BY <1>1, SignMapping DEF SignStep, Sign!SignNext

LEMMA NextIsSignStep ==
  ASSUME DisplayInv, BlankInv, [Next]_vars
  PROVE  SignStep
<1>0. FlagsOK /\ DataOK /\ ControlOK /\ ScreenCurrent /\ ShowInv
  BY DEF DisplayInv
<1>1. ASSUME UNCHANGED <<is_e_stopped_, asked, panel, intact>>, There' = There
      PROVE  SignStep
  <2>1. Told' = Told /\ Line' = Line
    BY <1>1 DEF Told, Line
  <2> QED BY <1>1, <2>1 DEF SignStep
<1>2. CASE UNCHANGED displayVars
  BY <1>1, <1>2 DEF displayVars, stateVars, There
<1>3. CASE initOLED
  <2>1. Line' \in {"none", "unknown"}
    BY <1>3, LinesOfPictures DEF initOLED, Line
  <2>2. ~There /\ There' = There /\ Told' = Told /\ asked' = asked
    BY <1>3 DEF initOLED, There, Told, stateVars
  <2> QED BY <2>1, <2>2, SignMapping DEF SignStep, Sign!SignNext
<1>4. CASE AttachChannel
  <2>1. ~There /\ There' = TRUE /\ Told' = Told /\ UNCHANGED <<asked, Line>>
    BY <1>4 DEF AttachChannel, There, Told, Line, glassVars
  <2>2. Line \in {"none", "unknown"}
    BY <1>4, LinesOfPictures DEF AttachChannel, BlankInv, Line
  <2> QED BY <2>1, <2>2, SignMapping DEF SignStep, Sign!SignNext
<1>5. CASE \/ OledStarts \/ LoopCheck \/ ReceivePulse \/ ReceiveOther \/ ReceiveInterrupted
  BY <1>1, <1>5 DEF OledStarts, LoopCheck, ReceivePulse, ReceiveOther, ReceiveInterrupted,
     stateVars, glassVars, There
<1>6. CASE StartMaps \/ AttachOnPulse \/ Take \/ Signal \/ \E f \in Fields : Load(f)
  BY <1>1, <1>6 DEF StartMaps, AttachOnPulse, Take, Signal, Load, glassVars, There
<1>7. CASE handleEStop
  <2>1. /\ There /\ There' = There /\ Asking
        /\ UNCHANGED Line
    BY <1>7 DEF handleEStop, There, Line, glassVars
  <2>2. Told' = Sign!Ordered
    BY <1>7, SignMapping DEF handleEStop, Told
  <2>3. CASE asked' = asked
    BY <2>1, <2>2, <2>3, SignMapping DEF SignStep, Sign!SignNext
  <2>4. CASE asked' # asked
    <3>1. is_e_stopped_' = is_e_stopped_ /\ asked' = "nothing"
      BY <1>7, <2>4 DEF handleEStop
    <3>2. Line \in {Told, "unknown"} /\ Told' = Told
      BY <1>0, <1>7, <3>1, LinesOfPictures DEF handleEStop, ScreenCurrent, Line, Told
    <3> QED BY <2>1, <2>2, <3>1, <3>2, SignMapping DEF SignStep, Sign!SignNext
  <2> QED BY <2>3, <2>4
<1>8. CASE renderUI
  <2>1. There /\ There' = There /\ Told' = Told
    BY <1>8 DEF renderUI, There, Told, stateVars
  <2>2. \/ Line # "unknown" /\ Line' = Told
        \/ Line' = "unknown"
    <3>1. CASE intact /\ panel' = Frame /\ UNCHANGED intact
      <4>1. Line' = Told
        BY <3>1, LinesOfPictures DEF Line
      <4>2. Line # "unknown"
        BY <1>0, <3>1 DEF ControlOK, Panels, Line
      <4> QED BY <4>1, <4>2
    <3>2. CASE intact' = FALSE
      BY <3>2 DEF Line
    <3> QED BY <1>8, <3>1, <3>2 DEF renderUI, updateDisplay
  <2>3. asked' = asked \/ (Asking /\ asked' = "nothing" /\ Told = Sign!Ordered)
    BY <1>0, <1>8, SignMapping DEF renderUI, ShowInv, Told
  <2> QED BY <2>1, <2>2, <2>3, SignMapping DEF SignStep, Sign!SignNext
<1>9. CASE DriveSends
  <2>1. There /\ UNCHANGED <<There, Told, Line>>
    BY <1>9 DEF DriveSends, There, Told, Line, stateVars, glassVars
  <2>2. ~Asking /\ asked' \in {"engage", "clear"}
    BY <1>9, OrdersAssumption DEF DriveSends
  <2> QED BY <2>1, <2>2, SignMapping DEF SignStep, Sign!SignNext
<1>10. CASE DriveGivesUp
  <2>1. UNCHANGED <<There, Told, Line>>
    BY <1>10 DEF DriveGivesUp, There, Told, Line, stateVars, glassVars
  <2> QED BY <1>10, <2>1, SignMapping DEF DriveGivesUp, SignStep, Sign!SignNext
<1>11. CASE LoadFaults \/ GivesUp \/ AttachFails \/ ClearOnExit \/ OledDies
  BY <1>11, EndsIsSignStep DEF LoadFaults, GivesUp, AttachFails, ClearOnExit, OledDies
<1>12. CASE UNCHANGED vars
  BY <1>2, <1>12 DEF vars
<1> QED
  BY <1>2, <1>3, <1>4, <1>5, <1>6, <1>7, <1>8, <1>9, <1>10, <1>11, <1>12
     DEF Next, Display, DisplayThread

\* The display keeps what EStopSign promises the drive process: the answer to an
\* order comes after the redraw, and the early return leaves a line that is right
\* already unless a byte was lost (OLedDisplay.cpp:330-333, 405-412).
THEOREM SignCorrect == Spec => SignSpec
<1>1. Init => Sign!SignInit
  BY SignMapping, LinesOfPictures DEF Init, Constructed, There, Told, Line
<1>2. DisplayInv /\ BlankInv /\ [Next]_vars =>
        [Sign!SignNext]_Sign!signVars
  BY NextIsSignStep DEF SignStep, There, Told, Line, Sign!signVars
<1> QED BY <1>1, <1>2, DisplayInvCorrect, BlankInvCorrect, PTL
           DEF Spec, SignSpec, Sign!SignSpec

=============================================================================
