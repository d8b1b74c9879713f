---------------------------- MODULE MCCarSystem ----------------------------
(* Small instances of CarSystem for TLC. *)
EXTENDS CarSystem

\* The stick at rest or forward to the right; START with the stick at rest;
\* both buttons together.
MCPads == {Centred,
           [buttons |-> {}, lx |-> 255, ly |-> 0],
           [buttons |-> {"START"}, lx |-> 128, ly |-> 128],
           [buttons |-> {"START", "BACK"}, lx |-> 255, ly |-> 0]}

\* The stick at rest, or START held with the stick forward.
MCTwoPads == {Centred, [buttons |-> {"START"}, lx |-> 128, ly |-> 0]}
=============================================================================
