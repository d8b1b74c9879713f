--------------------------- MODULE UltrasonicNode ---------------------------
(***************************************************************************)
(* The ultrasonic process: class UltrasonicNode (src/src/ultrasonic/src/   *)
(* UltrasonicNode.cpp).  Every 100 ms it measures the distance and tells   *)
(* the drive process when the obstacle comes within, or leaves, 25 cm.     *)
(* Here is its own state; what its messages do to the drive process is in  *)
(* module CarSystem.  The shared memory it fills for the display is left   *)
(* out.  The process has no signal handler: it ends by being killed.       *)
(***************************************************************************)

VARIABLES
  upc,             \* "off", "init", "measure", or "estop" after a measurement
  reading,         \* the last measurement: "near" (below 25 cm), "far" or
                   \* "invalid"
  estop_engaged_,  \* what it last told the drive process
  drive_coid_      \* "none", "open", or "stale" when the server behind it died

ultrasonicVars == <<upc, reading, estop_engaged_, drive_coid_>>

UltrasonicTypeOK ==
  /\ upc \in {"off", "init", "measure", "estop"}
  /\ reading \in {"near", "far", "invalid"}
  /\ estop_engaged_ \in BOOLEAN
  /\ drive_coid_ \in {"none", "open", "stale"}

UltrasonicInit == /\ upc = "off"
                  /\ reading = "invalid"
                  /\ estop_engaged_ = FALSE
                  /\ drive_coid_ = "none"

\* The constructor of a new process.
UltrasonicStarts == /\ upc = "off"
                    /\ upc' = "init"
                    /\ UNCHANGED <<reading, estop_engaged_, drive_coid_>>

UltrasonicDies == /\ upc # "off"
                  /\ upc' = "off"
                  /\ reading' = "invalid"
                  /\ estop_engaged_' = FALSE
                  /\ drive_coid_' = "none"

\* The shared memory and the GPIO pins; start() gives up when either fails.
initSharedState == /\ upc = "init"
                   /\ upc' \in {"measure", "off"}
                   /\ UNCHANGED <<reading, estop_engaged_, drive_coid_>>

\* An echo that never comes, lasts too long or is out of range is invalid.
measureDistanceCm == /\ upc = "measure"
                     /\ upc' = "estop"
                     /\ reading' \in {"near", "far", "invalid"}
                     /\ UNCHANGED <<estop_engaged_, drive_coid_>>

should_engage == reading = "near"

\* Wrong variant: the state is sent in every cycle.
WantsToSendAlways == upc = "estop"

WantsToSend == upc = "estop" /\ should_engage # estop_engaged_

NothingToSend == /\ upc = "estop" /\ should_engage = estop_engaged_
                 /\ upc' = "measure"
                 /\ UNCHANGED <<reading, estop_engaged_, drive_coid_>>

\* connectDriveIpc() opens the channel, which is there or not, when no
\* connection is open; without one the cycle is over.
connectDriveIpc(there) ==
  /\ WantsToSend /\ drive_coid_ = "none"
  /\ IF there THEN drive_coid_' = "open" /\ upc' = upc
              ELSE drive_coid_' = "none" /\ upc' = "measure"
  /\ UNCHANGED <<reading, estop_engaged_>>

\* Wrong variant: what was ordered is not noted.
EStopSentForgets == /\ WantsToSend /\ drive_coid_ = "open"
                    /\ upc' = "measure"
                    /\ UNCHANGED <<reading, estop_engaged_, drive_coid_>>

\* The drive process has handled and answered the message.
EStopSent == /\ WantsToSend /\ drive_coid_ = "open"
             /\ estop_engaged_' = should_engage
             /\ upc' = "measure"
             /\ UNCHANGED <<reading, drive_coid_>>

\* Wrong variant: the dead connection is kept.
EStopFailsKeepsConnection ==
  /\ WantsToSend /\ drive_coid_ = "stale"
  /\ upc' = "measure"
  /\ UNCHANGED <<reading, estop_engaged_, drive_coid_>>

\* MsgSend fails: the connection is closed, the next cycle tries again.
EStopFails == /\ WantsToSend /\ drive_coid_ = "stale"
              /\ drive_coid_' = "none"
              /\ upc' = "measure"
              /\ UNCHANGED <<reading, estop_engaged_>>

\* The server of the connection dies.
UltrasonicLosesDrive ==
  /\ drive_coid_' = IF drive_coid_ = "open" THEN "stale" ELSE drive_coid_
  /\ UNCHANGED <<upc, reading, estop_engaged_>>
=============================================================================
