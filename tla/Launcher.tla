------------------------------ MODULE Launcher ------------------------------
(***************************************************************************)
(* The launcher (reload_pi_car_apps.cpp and .sh, src/src/launcher) stops   *)
(* and starts the processes of the car.  Of a process only this matters    *)
(* here: whether it runs, and the connection it opens once when it starts  *)
(* and never again, which is dead when the process behind it is replaced:  *)
(* the joystick's to the drive process, the drive process's to the         *)
(* display, the crash detector's to the serial driver.                     *)
(* One script runs at a time.  Developers start processes by hand as well. *)
(***************************************************************************)
EXTENDS Naturals, Sequences, SequencesExt

CONSTANTS
  TIMEOUT_SECS,  \* how long a process may take to end
  MaxDeaths,     \* bound: how many processes die by themselves
  MaxByHand      \* bound: how many are started by hand

ASSUME LauncherAssumption == {TIMEOUT_SECS, MaxDeaths, MaxByHand} \subseteq Nat

\* Wrong variant: the list as it was without the detector.
MANAGED_APPSOld == <<"joystick", "ultrasonic", "oled">>
MANAGED_APPS == <<"joystick", "ultrasonic", "oled", "crash_detection">>
DRIVE_APP == "drive"

Apps == {"joystick", "ultrasonic", "oled", "crash_detection", "drive"}
Serial == "devc-serminiuart"
Processes == Apps \cup {Serial}
Server == [joystick |-> "drive", drive |-> "oled", crash_detection |-> Serial]
Clients == DOMAIN Server

VARIABLES
  phase,    \* of the script: "idle", "stop", "wait", "slay", "serial", "start"
            \* or "check"
  apps,     \* APPS_TO_MANAGE
  todo,     \* those still to be stopped, or started
  elapsed,
  proc,     \* each process: "off", "starts", "up" or "closing"
  link,     \* of each client: "none", "open" or "stale"
  lost,     \* what ended since the script was invoked without being stopped by it
  twice,    \* what was started while it was there
  deaths, byHand

scriptVars == <<phase, apps, todo, elapsed>>
vars == <<scriptVars, proc, link, lost, twice, deaths, byHand>>

LauncherTypeOK ==
  /\ phase \in {"idle", "stop", "wait", "slay", "serial", "start", "check"}
  /\ apps \in {<<>>, MANAGED_APPS, Append(MANAGED_APPS, DRIVE_APP)}
  /\ todo \in Seq(ToSet(apps)) /\ elapsed \in 0 .. TIMEOUT_SECS
  /\ proc \in [Processes -> {"off", "starts", "up", "closing"}]
  /\ link \in [Clients -> {"none", "open", "stale"}]
  /\ lost \subseteq Processes /\ twice \subseteq Apps
  /\ deaths \in 0 .. MaxDeaths /\ byHand \in 0 .. MaxByHand

\* The image has started the serial driver.
Init == /\ phase = "idle" /\ apps = <<>> /\ todo = <<>> /\ elapsed = 0
        /\ proc = [p \in Processes |-> IF p = Serial THEN "up" ELSE "off"]
        /\ link = [c \in Clients |-> "none"]
        /\ lost = {} /\ twice = {} /\ deaths = 0 /\ byHand = 0

-----------------------------------------------------------------------------
(* Processes. *)

\* What becomes of the connections when processes go.
Gone(ps) == [c \in Clients |-> CASE c \in ps -> "none"
                                 [] c \notin ps /\ Server[c] \in ps /\ link[c] = "open" -> "stale"
                                 [] OTHER -> link[c]]

Stops(p) == /\ proc' = [proc EXCEPT ![p] = "off"]
            /\ link' = Gone({p})

\* A second instance is only noted.
Starts(a) == IF proc[a] = "off"
               THEN proc' = [proc EXCEPT ![a] = "starts"] /\ UNCHANGED twice
               ELSE twice' = twice \cup {a} /\ UNCHANGED proc

\* The detector slays the serial driver and starts it anew before it opens the line.
ComesUp(a) ==
  /\ proc[a] = "starts"
  /\ proc' = [proc EXCEPT ![a] = "up", ![Serial] = IF a = "crash_detection" THEN "up" ELSE @]
  /\ link' = IF a = "crash_detection" THEN [Gone({Serial}) EXCEPT ![a] = "open"] ELSE link
  /\ UNCHANGED <<scriptVars, lost, twice, deaths, byHand>>

\* Its constructor or start() fails, as the drive process's when the lock is taken.
GivesUp(a) == /\ proc[a] = "starts"
              /\ Stops(a)
              /\ UNCHANGED <<scriptVars, lost, twice, deaths, byHand>>

\* name_open() succeeds; both clients poll for it.  A server that was told to
\* end still has its channel.
Connects(c) == /\ c # "crash_detection"
               /\ proc[c] = "up" /\ link[c] = "none"
               /\ proc[Server[c]] \in {"up", "closing"}
               /\ link' = [link EXCEPT ![c] = "open"]
               /\ UNCHANGED <<scriptVars, proc, lost, twice, deaths, byHand>>

\* The end of a process that was sent SIGTERM, by this script or by one that
\* did not wait for it; it may be late or never come.
Closes(a) == /\ proc[a] = "closing"
             /\ Stops(a)
             /\ lost' = lost \cup ({a} \ ToSet(apps))
             /\ UNCHANGED <<scriptVars, twice, deaths, byHand>>

Dies(p) == /\ proc[p] # "off" /\ deaths < MaxDeaths
           /\ Stops(p)
           /\ deaths' = deaths + 1
           /\ lost' = lost \cup {p}
           /\ UNCHANGED <<scriptVars, twice, byHand>>

StartsByHand(a) == /\ phase = "idle" /\ proc[a] = "off" /\ byHand < MaxByHand
                   /\ Starts(a)
                   /\ byHand' = byHand + 1
                   /\ UNCHANGED <<scriptVars, link, lost, deaths>>

-----------------------------------------------------------------------------
(* The script. *)

\* The boot script skips the shutdown phase; a developer's call does not.
Invoke(include_drive, skip_slay) ==
  /\ phase = "idle"
  /\ skip_slay => \A a \in Apps : proc[a] = "off"
  /\ apps' = IF include_drive THEN Append(MANAGED_APPS, DRIVE_APP) ELSE MANAGED_APPS
  /\ phase' = IF skip_slay THEN "slay" ELSE "stop"
  /\ todo' = apps'
  /\ lost' = {}
  /\ UNCHANGED <<elapsed, proc, link, twice, deaths, byHand>>

\* exit 1: what was stopped stays stopped.
Abort == phase' = "idle" /\ todo' = <<>> /\ elapsed' = 0

shutdown_app == /\ phase = "stop" /\ todo # <<>>
                /\ proc' = [proc EXCEPT ![Head(todo)] = IF @ = "off" THEN @ ELSE "closing"]
                /\ phase' = "wait" /\ elapsed' = 0
                /\ UNCHANGED <<apps, todo, link, lost, twice, deaths, byHand>>

NextToStop == phase' = "stop" /\ todo' = Tail(todo) /\ elapsed' = 0

ShutDown == /\ phase = "wait" /\ elapsed < TIMEOUT_SECS /\ proc[Head(todo)] = "off"
            /\ NextToStop
            /\ UNCHANGED <<apps, proc, link, lost, twice, deaths, byHand>>

\* Wrong variant: the seconds are not counted.
StillThereForever == /\ phase = "wait" /\ elapsed < TIMEOUT_SECS /\ proc[Head(todo)] # "off"
                     /\ UNCHANGED vars

\* Wrong variant: nothing is compared with TIMEOUT_SECS.
StillThereUncapped == /\ phase = "wait" /\ proc[Head(todo)] # "off"
                      /\ elapsed' = elapsed + 1
                      /\ UNCHANGED <<phase, apps, todo, proc, link, lost, twice, deaths, byHand>>

StillThere == /\ phase = "wait" /\ elapsed < TIMEOUT_SECS /\ proc[Head(todo)] # "off"
              /\ elapsed' = elapsed + 1
              /\ UNCHANGED <<phase, apps, todo, proc, link, lost, twice, deaths, byHand>>

\* Wrong variant: the script goes on.
ShutdownTimesOutGoesOn == /\ phase = "wait" /\ elapsed = TIMEOUT_SECS
                          /\ NextToStop
                          /\ UNCHANGED <<apps, proc, link, lost, twice, deaths, byHand>>

ShutdownTimesOut == /\ phase = "wait" /\ elapsed = TIMEOUT_SECS
                    /\ Abort
                    /\ UNCHANGED <<apps, proc, link, lost, twice, deaths, byHand>>

AllStopped == /\ phase = "stop" /\ todo = <<>>
              /\ phase' = "slay"
              /\ UNCHANGED <<apps, todo, elapsed, proc, link, lost, twice, deaths, byHand>>

SlaysSerial == /\ phase = "slay" /\ phase' = "serial"
               /\ Stops(Serial)
               /\ UNCHANGED <<apps, todo, elapsed, lost, twice, deaths, byHand>>

StartsSerial == /\ phase = "serial"
                /\ \/ /\ proc' = [proc EXCEPT ![Serial] = "up"]
                      /\ phase' = "start" /\ todo' = apps
                      /\ UNCHANGED elapsed
                   \/ Abort /\ UNCHANGED proc
                /\ UNCHANGED <<apps, link, lost, twice, deaths, byHand>>

start_app == /\ phase = "start" /\ todo # <<>>
             /\ Starts(Head(todo))
             /\ phase' = "check"
             /\ UNCHANGED <<apps, todo, elapsed, link, lost, deaths, byHand>>

\* A second later, by kill -0.
StartChecked == /\ phase = "check"
                /\ IF proc[Head(todo)] # "off"
                     THEN phase' = "start" /\ todo' = Tail(todo) /\ UNCHANGED elapsed
                     ELSE Abort
                /\ UNCHANGED <<apps, proc, link, lost, twice, deaths, byHand>>

ReloadComplete == /\ phase = "start" /\ todo = <<>>
                  /\ phase' = "idle"
                  /\ UNCHANGED <<apps, todo, elapsed, proc, link, lost, twice, deaths, byHand>>

Script == \/ shutdown_app \/ ShutDown \/ StillThere \/ ShutdownTimesOut \/ AllStopped
          \/ SlaysSerial \/ StartsSerial \/ start_app \/ StartChecked \/ ReloadComplete

Next == \/ Script
        \/ \E include_drive, skip_slay \in BOOLEAN : Invoke(include_drive, skip_slay)
        \/ \E a \in Apps : ComesUp(a) \/ GivesUp(a) \/ Closes(a) \/ StartsByHand(a)
        \/ \E c \in Clients : Connects(c)
        \/ \E p \in Processes : Dies(p)

Spec == Init /\ [][Next]_vars

\* The script is scheduled; nothing is assumed of the processes.
FairSpec == Spec /\ WF_vars(Script)

-----------------------------------------------------------------------------
(* Properties. *)

\* No process is started while one of its name is there, whatever was slow to end
\* or hung: the script gives up before "hardware conflicts"
\* (reload_pi_car_apps.sh:98-137).
OneInstance == twice = {}

\* When the script reports success no process it manages has a dead connection,
\* unless the other end was lost meanwhile: everything is stopped before anything is
\* started (reload_pi_car_apps.sh:139-177).  The drive process, when it was not
\* to be reloaded, is the exception: its connection to the display is dead then.
Reloaded == Clients \ ({DRIVE_APP} \ ToSet(apps))
ReloadConnects ==
  [][ReloadComplete => \A c \in Reloaded : link[c] = "stale" => Server[c] \in lost]_vars

\* An upper bound on the steps of the script: TIMEOUT_SECS + 2 for each process
\* still to be stopped, two for each to be started, four between and after.
StepsLeft ==
  CASE phase = "idle" -> 0
    [] phase = "check" -> 2 * Len(todo)
    [] phase = "start" -> 2 * Len(todo) + 1
    [] phase = "serial" -> 2 * Len(apps) + 2
    [] phase = "slay" -> 2 * Len(apps) + 3
    [] phase = "stop" -> 2 * Len(apps) + 4 + (TIMEOUT_SECS + 2) * Len(todo)
    [] phase = "wait" -> 2 * Len(apps) + 4 + (TIMEOUT_SECS + 2) * (Len(todo) - 1)
                         + (TIMEOUT_SECS - elapsed) + 1

\* Every step of the script brings its end nearer, and nothing a process does
\* delays it: a process that ends late, twice or never, or that is gone again
\* before it is checked, costs at most TIMEOUT_SECS seconds, and the whole
\* script a number of steps known when it is invoked.  It is why ReloadEnds holds
\* (reload_pi_car_apps.sh:98-177).
ReloadDescends ==
  [][phase # "idle" =>
       /\ StepsLeft \in 1 .. (TIMEOUT_SECS + 4) * Len(apps) + 4
       /\ \/ StepsLeft' \in Nat /\ StepsLeft' < StepsLeft
          \/ UNCHANGED scriptVars]_vars

\* The script ends, whatever the processes do (reload_pi_car_apps.sh:98-117).
ReloadEnds == phase # "idle" ~> phase = "idle"
=============================================================================
