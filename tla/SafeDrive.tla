----------------------------- MODULE SafeDrive -----------------------------
(***************************************************************************)
(* What the drive process promises the rest of the car, without I2C, IPC   *)
(* or program counters.  The car has fuel for a bounded number of timer    *)
(* pulses; only the owner's speed command fills an empty tank, and not     *)
(* during an emergency stop.  A motor that does not turn starts turning    *)
(* only while there is fuel.  A motor that turns may go on turning: the    *)
(* bus may be refusing the writes that stop it, or the process be dead.    *)
(***************************************************************************)
EXTENDS Integers

CONSTANTS Motors, Owners, Nobody, Tank

VARIABLES
  owner,    \* who may drive, Nobody before anyone took control
  stopped,  \* the emergency stop is engaged
  fuel,     \* pulses left before the watchdog stops the car
  turning   \* the motors with a channel switched on

safeVars == <<owner, stopped, fuel, turning>>

Init == owner = Nobody /\ stopped = FALSE /\ fuel = 0 /\ turning = {}

\* The owner's speed command: full tank, or none if it asks for a stop.
Drive == /\ ~stopped /\ owner # Nobody
         /\ fuel' \in {0, Tank}
         /\ UNCHANGED <<owner, stopped, turning>>

\* Another owner always starts from a standing order to stop.
Switch == /\ owner' \in Owners
          /\ fuel' = 0
          /\ UNCHANGED <<stopped, turning>>

Engage == /\ stopped' = TRUE
          /\ fuel' = 0
          /\ UNCHANGED <<owner, turning>>

\* Clearing an emergency stop sets nothing in motion: it refills only a tank
\* that was not empty.
Clear == /\ stopped' = FALSE
         /\ fuel' = IF fuel = 0 THEN 0 ELSE Tank
         /\ UNCHANGED <<owner, turning>>

Tick == /\ fuel' = IF fuel = 0 THEN 0 ELSE fuel - 1
        /\ UNCHANGED <<owner, stopped, turning>>

Start(m) == /\ fuel > 0 /\ ~stopped
            /\ turning' = turning \cup {m}
            /\ UNCHANGED <<owner, stopped, fuel>>

Halt(m) == /\ turning' = turning \ {m}
           /\ UNCHANGED <<owner, stopped, fuel>>

\* The process ends or starts again: it forgets everything, the motors keep
\* turning.
Restart == /\ owner' = Nobody /\ stopped' = FALSE /\ fuel' = 0
           /\ UNCHANGED turning

Next == \/ Drive \/ Switch \/ Engage \/ Clear \/ Tick \/ Restart
        \/ \E m \in Motors : Start(m) \/ Halt(m)

Spec == Init /\ [][Next]_safeVars
=============================================================================
