------------------------------ MODULE EStopSign ------------------------------
(***************************************************************************)
(* What the display promises the drive process about the line "E-STOP: ON  *)
(* / OFF": it starts with ON, and when an order is answered the glass      *)
(* shows what was ordered or nothing, as long as the panel has taken every *)
(* byte since it was initialised.  Once a byte is lost nothing is          *)
(* promised: an old line may stay, and orders are answered all the same.   *)
(* OledDisplay implements this; DriveController relies on it.              *)
(***************************************************************************)

VARIABLES
  oled,   \* the display takes orders
  asked,  \* the order under way: "engage", "clear", "nothing" after an answer,
          \* "withdrawn" when the sender did not wait for one
  told,   \* what the orders so far amount to: "on" or "off"
  sign    \* the line on the glass: "on", "off", "none", or "unknown" when this
          \* display has not initialised the panel, or a byte was lost since

signVars == <<oled, asked, told, sign>>

SignTypeOK == /\ oled \in BOOLEAN
              /\ asked \in {"engage", "clear", "nothing", "withdrawn"}
              /\ told \in {"on", "off"}
              /\ sign \in {"on", "off", "none", "unknown"}

SignInit == /\ oled = FALSE
            /\ asked = "nothing"
            /\ told = "on"
            /\ sign = "unknown"

\* A new display makes the glass blank, or tries to.
Clears == /\ ~oled
          /\ sign' \in {"none", "unknown"}
          /\ UNCHANGED <<oled, asked, told>>

\* It has done so before it takes orders.
Appears == /\ ~oled /\ oled' = TRUE
           /\ sign \in {"none", "unknown"}
           /\ UNCHANGED <<asked, told, sign>>

Asking == asked \in {"engage", "clear"}

Asks == /\ oled /\ ~Asking
        /\ asked' \in {"engage", "clear"}
        /\ UNCHANGED <<oled, told, sign>>

\* The sender is interrupted or dies.  An order that was received is drawn all
\* the same.
Withdraws == /\ Asking /\ asked' = "withdrawn"
             /\ UNCHANGED <<oled, told, sign>>

Ordered == IF asked = "engage" THEN "on" ELSE "off"

Heeds == /\ oled /\ Asking
         /\ told' = Ordered
         /\ \/ asked' = asked
            \/ asked' = "nothing" /\ sign \in {Ordered, "none", "unknown"}
         /\ UNCHANGED <<oled, sign>>

\* Whether every byte arrives or not.
Draws == /\ oled
         /\ \/ sign # "unknown" /\ sign' = told
            \/ sign' = "unknown"
         /\ \/ asked' = asked
            \/ Asking /\ asked' = "nothing" /\ told = Ordered
         /\ UNCHANGED <<oled, told>>

\* Perhaps in the middle of a redraw.
Vanishes == /\ oled' = FALSE
            /\ asked' = "nothing"
            /\ told' = "on"
            /\ sign' = "unknown"

SignNext == Clears \/ Appears \/ Asks \/ Withdraws \/ Heeds \/ Draws \/ Vanishes

SignSpec == SignInit /\ [][SignNext]_signVars
=============================================================================
