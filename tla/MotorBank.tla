----------------------------- MODULE MotorBank -----------------------------
(***************************************************************************)
(* What FourMotorI2CDriver promises of the motors: each moves, in its own  *)
(* time, from what it does to what the last call asks of it; it changes    *)
(* direction only through a stop; and when the call is settled every motor *)
(* does what was asked.  out[m] is the signed duty cycle of motor m.       *)
(***************************************************************************)
EXTENDS Integers

CONSTANT Motors

VARIABLES goal, out, settled

bankVars == <<goal, out, settled>>

\* a and b do not drive in opposite directions.
SameWay(a, b) == (a >= 0 /\ b >= 0) \/ (a <= 0 /\ b <= 0)

Init == /\ goal = [m \in Motors |-> 0]
        /\ out = [m \in Motors |-> 0]
        /\ settled = TRUE

\* A new call: any goal, nothing has moved yet.
Command == /\ goal' \in [Motors -> Int]
           /\ settled' = FALSE
           /\ UNCHANGED out

\* One motor stops, or takes up its goal if that is no reversal; the call may
\* be settled only when every motor has reached its goal.
Move(m) == /\ ~settled
           /\ \/ out' = [out EXCEPT ![m] = 0]
              \/ /\ SameWay(out[m], goal[m])
                 /\ out' = [out EXCEPT ![m] = goal[m]]
           /\ settled' \in BOOLEAN
           /\ settled' => out' = goal
           /\ UNCHANGED goal

Next == Command \/ \E m \in Motors : Move(m)

Spec == Init /\ [][Next]_bankVars
=============================================================================
