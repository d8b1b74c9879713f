--------------------------- MODULE SharedDistance ---------------------------
(***************************************************************************)
(* The shared memory the ultrasonic process fills for the display, and the *)
(* process as the only one that writes it and the only one that takes the  *)
(* mutex in it (UltrasonicNode::start and initSharedState, src/src/        *)
(* ultrasonic/src/UltrasonicNode.cpp:68-171).  What else the process does  *)
(* is in UltrasonicNode.  The time stamp is left out: nobody reads it.     *)
(***************************************************************************)
EXTENDS Integers

CONSTANT Distances  \* what the sensor can measure, in cm

\* ULTRASONIC_MIN_CM is above zero.
ASSUME DistanceAssumption == Distances \subseteq Nat \ {0}

VARIABLES
  wpc,      \* "off", "create", "size", "init", "measure", "lock" or "store"
  reading,  \* what the process is about to publish
  stores,   \* the fields still to be stored; their order is the compiler's
  shm,      \* the object: "absent", "empty" (no size yet) or "sized"
  memory,   \* its content, which outlives the process
  mutex     \* "free" or "held", in the same memory

sharedVars == <<wpc, reading, stores, shm, memory, mutex>>

Fields == {"valid", "distance"}
Zero == [valid |-> FALSE, distance |-> 0]

\* measureDistanceCm() returns 0 and FALSE or a distance in range.
Readings == {Zero} \cup [valid : {TRUE}, distance : Distances]

SharedTypeOK ==
  /\ wpc \in {"off", "create", "size", "init", "measure", "lock", "store"}
  /\ reading \in Readings
  /\ stores \subseteq Fields
  /\ shm \in {"absent", "empty", "sized"}
  /\ memory \in [valid : BOOLEAN, distance : Distances \cup {0}]
  /\ mutex \in {"free", "held"}

SharedInit == /\ wpc = "off"
              /\ reading = Zero
              /\ stores = {}
              /\ shm = "absent"
              /\ memory = Zero
              /\ mutex = "free"

WriterStarts == /\ wpc = "off"
                /\ wpc' = "create"
                /\ UNCHANGED <<reading, stores, shm, memory, mutex>>

\* Killed anywhere (there is no signal handler), or start() gives up: nothing is
\* undone, the object stays.
WriterDies == /\ wpc # "off"
              /\ wpc' = "off"
              /\ reading' = Zero
              /\ stores' = {}
              /\ UNCHANGED <<shm, memory, mutex>>

shm_open == /\ wpc = "create"
            /\ wpc' = "size"
            /\ shm' = IF shm = "absent" THEN "empty" ELSE shm
            /\ UNCHANGED <<reading, stores, memory, mutex>>

\* The content of an object that has its size already is kept.
ftruncate == /\ wpc = "size"
             /\ wpc' = "init"
             /\ shm' = "sized"
             /\ UNCHANGED <<reading, stores, memory, mutex>>

\* Wrong variant: a mutex that is there is taken as it is.
mutex_init_once == /\ wpc = "init"
                   /\ wpc' = "lock"
                   /\ stores' = Fields
                   /\ UNCHANGED <<reading, shm, memory, mutex>>

\* pthread_mutex_init on every start; the reset of the fields is next.  Its result is
\* not looked at: assumed is that it makes the mutex free although a process may have
\* died with it.
mutex_init == /\ wpc = "init"
              /\ wpc' = "lock"
              /\ mutex' = "free"
              /\ stores' = Fields
              /\ UNCHANGED <<reading, shm, memory>>

\* The distance is left alone when the measurement is invalid.
ToStore(r) == {"valid"} \cup {f \in {"distance"} : r.valid}

measure == /\ wpc = "measure"
           /\ wpc' = "lock"
           /\ reading' \in Readings
           /\ stores' = ToStore(reading')
           /\ UNCHANGED <<shm, memory, mutex>>

lock == /\ wpc = "lock" /\ mutex = "free"
        /\ wpc' = "store"
        /\ mutex' = "held"
        /\ UNCHANGED <<reading, stores, shm, memory>>

store(f) == /\ wpc = "store" /\ f \in stores
            /\ memory' = [memory EXCEPT ![f] = reading[f]]
            /\ stores' = stores \ {f}
            /\ UNCHANGED <<wpc, reading, shm, mutex>>

unlock == /\ wpc = "store" /\ stores = {}
          /\ wpc' = "measure"
          /\ mutex' = "free"
          /\ UNCHANGED <<reading, stores, shm, memory>>

WriterThread == \/ shm_open \/ ftruncate \/ mutex_init \/ measure \/ lock
                \/ \E f \in Fields : store(f)
                \/ unlock
=============================================================================
