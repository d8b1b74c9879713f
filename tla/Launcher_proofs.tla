--------------------------- MODULE Launcher_proofs ---------------------------
(***************************************************************************)
(* Proofs about the launcher: nothing is started twice, and a reload that  *)
(* succeeds leaves no dead connection.  The argument follows the list:     *)
(* what has been stopped stays off until the script starts it.             *)
(***************************************************************************)
EXTENDS Launcher, TLAPS

-----------------------------------------------------------------------------
(* Lists of processes. *)

Lists == {<<>>, MANAGED_APPS, Append(MANAGED_APPS, DRIVE_APP)}
Distinct(s) == \A i, j \in DOMAIN s : s[i] = s[j] => i = j

LEMMA Appended ==
  ASSUME NEW S, NEW s \in Seq(S), NEW e \in S
  PROVE  /\ Append(s, e) \in Seq(S) /\ DOMAIN Append(s, e) = 1 .. Len(s) + 1
         /\ Append(s, e)[Len(s) + 1] = e
         /\ \A i \in 1 .. Len(s) : Append(s, e)[i] = s[i]
OBVIOUS

LEMMA EmptyList == <<>> \in Seq(Apps) /\ Distinct(<<>>) /\ ToSet(<<>>) = {}
BY DEF Distinct, ToSet

LEMMA OneMore ==
  ASSUME NEW m \in Seq(Apps), Distinct(m), NEW e \in Apps, e \notin ToSet(m)
  PROVE  /\ Append(m, e) \in Seq(Apps) /\ Distinct(Append(m, e))
         /\ ToSet(Append(m, e)) = ToSet(m) \cup {e}
<1>1. /\ Append(m, e) \in Seq(Apps) /\ DOMAIN Append(m, e) = 1 .. Len(m) + 1
      /\ Append(m, e)[Len(m) + 1] = e
      /\ \A i \in 1 .. Len(m) : Append(m, e)[i] = m[i]
  BY Appended
<1>2. Len(m) \in Nat /\ DOMAIN m = 1 .. Len(m)
  OBVIOUS
<1>3. \A i \in 1 .. Len(m) : m[i] # e
  BY <1>2 DEF ToSet
<1>4. Distinct(Append(m, e))
  BY <1>1, <1>2, <1>3 DEF Distinct
<1>5. ToSet(Append(m, e)) = ToSet(m) \cup {e}
  <2> DEFINE t == Append(m, e)
             n == Len(m)
  <2>1. /\ n \in Nat /\ DOMAIN t = 1 .. n + 1 /\ t[n + 1] = e
        /\ DOMAIN m = 1 .. n /\ \A i \in 1 .. n : t[i] = m[i]
    BY <1>1, <1>2
  <2> HIDE DEF t, n
  <2>2. ToSet(t) = {t[i] : i \in 1 .. n + 1} /\ ToSet(m) = {m[i] : i \in 1 .. n}
    BY <2>1 DEF ToSet
  <2>3. \A x : x \in ToSet(t) <=> x \in ToSet(m) \cup {e}
    BY <2>1, <2>2
  <2>4. ToSet(t) = ToSet(m) \cup {e}
    BY <2>3
  <2> QED BY <2>4 DEF t
<1> QED BY <1>1, <1>4, <1>5

\* Both lists hold every client but the drive process.
LEMMA ListsAreDistinct ==
  ASSUME NEW s \in Lists
  PROVE  /\ s \in Seq(Apps) /\ Distinct(s)
         /\ s # <<>> => \A c \in Clients : c # DRIVE_APP => c \in ToSet(s)
<1>1. /\ MANAGED_APPS \in Seq(Apps) /\ Len(MANAGED_APPS) = 4 /\ DRIVE_APP \in Apps
      /\ MANAGED_APPS[1] = "joystick" /\ MANAGED_APPS[4] = "crash_detection"
      /\ \A i \in 1 .. 4 : MANAGED_APPS[i] # DRIVE_APP
  BY DEF MANAGED_APPS, DRIVE_APP, Apps
<1>2. Distinct(MANAGED_APPS)
  BY DEF MANAGED_APPS, Distinct
<1>3. DOMAIN MANAGED_APPS = 1 .. 4
  BY <1>1
<1>4. /\ DRIVE_APP \notin ToSet(MANAGED_APPS)
      /\ "joystick" \in ToSet(MANAGED_APPS) /\ "crash_detection" \in ToSet(MANAGED_APPS)
  BY <1>1, <1>3 DEF ToSet
<1>5. \A c \in Clients : c = "joystick" \/ c = "crash_detection" \/ c = DRIVE_APP
  BY DEF Clients, Server, DRIVE_APP
<1>6. CASE s = <<>>
  BY <1>6, EmptyList
<1>7. CASE s = MANAGED_APPS
  BY <1>1, <1>2, <1>4, <1>5, <1>7
<1>8. CASE s = Append(MANAGED_APPS, DRIVE_APP)
  <2>1. s \in Seq(Apps) /\ Distinct(s) /\ ToSet(s) = ToSet(MANAGED_APPS) \cup {DRIVE_APP}
    BY <1>1, <1>2, <1>4, <1>8, OneMore
  <2> QED BY <2>1, <1>4, <1>5
<1> QED BY <1>6, <1>7, <1>8 DEF Lists

LEMMA ListsAreNotEmpty == MANAGED_APPS # <<>> /\ Append(MANAGED_APPS, DRIVE_APP) # <<>>
<1> DEFINE m == MANAGED_APPS
           t == Append(m, DRIVE_APP)
<1>1. m \in Seq(Apps) /\ Len(m) = 4 /\ DRIVE_APP \in Apps
  BY DEF MANAGED_APPS, DRIVE_APP, Apps
<1>2. Len(m) = 4 => m # <<>>
  OBVIOUS
<1> HIDE DEF m
<1>3. DOMAIN t = 1 .. Len(m) + 1
  BY <1>1, Appended
<1>4. 1 \in DOMAIN t
  BY <1>1, <1>3
<1> HIDE DEF t
<1>5. t # <<>>
  BY <1>4
<1> QED BY <1>1, <1>2, <1>5 DEF t, m

LEMMA DistinctTail ==
  ASSUME NEW s \in Seq(Apps), s # <<>>, Distinct(s)
  PROVE  /\ Head(s) \in Apps /\ Tail(s) \in Seq(Apps) /\ Distinct(Tail(s))
         /\ ToSet(s) = ToSet(Tail(s)) \cup {Head(s)}
         /\ Head(s) \notin ToSet(Tail(s))
<1>1. /\ Len(s) \in Nat /\ Len(s) > 0 /\ DOMAIN s = 1 .. Len(s) /\ Head(s) = s[1]
      /\ Tail(s) \in Seq(Apps) /\ DOMAIN Tail(s) = 1 .. Len(s) - 1
      /\ \A i \in 1 .. Len(s) - 1 : Tail(s)[i] = s[i + 1]
  OBVIOUS
<1>2. Distinct(Tail(s))
  BY <1>1 DEF Distinct
<1>3. Head(s) \notin ToSet(Tail(s))
  BY <1>1 DEF Distinct, ToSet
<1>4. ToSet(s) \subseteq ToSet(Tail(s)) \cup {Head(s)}
  <2>1. ASSUME NEW i \in DOMAIN s PROVE s[i] \in ToSet(Tail(s)) \cup {Head(s)}
    <3>1. CASE i = 1
      BY <1>1, <3>1
    <3>2. CASE i # 1
      <4>1. i - 1 \in DOMAIN Tail(s) /\ Tail(s)[i - 1] = s[i]
        BY <1>1, <2>1, <3>2
      <4> QED BY <4>1 DEF ToSet
    <3> QED BY <3>1, <3>2
  <2> QED BY <2>1 DEF ToSet
<1>5. ToSet(Tail(s)) \cup {Head(s)} \subseteq ToSet(s)
  BY <1>1 DEF ToSet
<1> QED BY <1>1, <1>2, <1>3, <1>4, <1>5

LEMMA SetsOfLists ==
  ASSUME NEW s \in Seq(Apps)
  PROVE  ToSet(s) \subseteq Apps /\ (s = <<>> => ToSet(s) = {})
BY DEF ToSet

-----------------------------------------------------------------------------
(* The invariant. *)

Starting == {"slay", "serial", "start", "check"}

ListInv == /\ apps \in Lists
           /\ todo \in Seq(Apps) /\ Distinct(todo)
           /\ ToSet(todo) \subseteq ToSet(apps)
           /\ phase \in {"idle", "stop", "wait"} \cup Starting
           /\ phase \in {"wait", "check"} => todo # <<>>
           /\ phase # "idle" => apps # <<>>

ProcOK == /\ proc \in [Processes -> {"off", "starts", "up", "closing"}]
          /\ link \in [Clients -> {"none", "open", "stale"}]

\* What the script has to find off when it comes to start it.
ToStart == CASE phase = "stop" -> ToSet(apps) \ ToSet(todo)
             [] phase = "wait" -> ToSet(apps) \ ToSet(todo)
             [] phase = "slay" -> ToSet(apps)
             [] phase = "serial" -> ToSet(apps)
             [] phase = "start" -> ToSet(todo)
             [] phase = "check" -> ToSet(Tail(todo))
             [] OTHER -> {}

OffInv == \A a \in ToStart : proc[a] = "off"

\* Nobody the script manages is still ending when it starts them again.
ClosedInv == phase \in Starting => \A a \in ToSet(apps) : proc[a] # "closing"

\* Connections belong to processes that are there and lead to such.
LinkInv == \A c \in Clients :
             /\ proc[c] = "off" => link[c] = "none"
             /\ link[c] = "open" => proc[Server[c]] \in {"up", "closing"}

\* A dead connection of a process the script manages: the other end was lost.
StaleInv == phase \in Starting =>
              \A c \in Clients : /\ c = DRIVE_APP => c \in ToSet(apps)
                                 /\ link[c] = "stale"
                                 => Server[c] \in lost

LauncherInv == /\ ListInv /\ ProcOK /\ OffInv /\ ClosedInv /\ LinkInv /\ StaleInv
               /\ OneInstance

-----------------------------------------------------------------------------
(* Steps of the processes: the script stands still. *)

LEMMA Names ==
  /\ Apps \subseteq Processes /\ Clients \subseteq Apps /\ Serial \notin Apps
  /\ Serial \in Processes /\ Clients = {"joystick", "drive", "crash_detection"}
  /\ Server["joystick"] = "drive" /\ Server["drive"] = "oled"
  /\ Server["crash_detection"] = Serial
  /\ \A c \in Clients : Server[c] \in Processes
BY DEF Apps, Processes, Clients, Server, Serial

LEMMA ToStartInApps ==
  ASSUME ListInv
  PROVE  ToStart \subseteq ToSet(apps) /\ ToSet(apps) \subseteq Apps
<1>1. ToSet(apps) \subseteq Apps
  BY ListsAreDistinct, SetsOfLists DEF ListInv
<1>2. ASSUME phase = "check" PROVE ToSet(Tail(todo)) \subseteq ToSet(apps)
  BY <1>2, DistinctTail DEF ListInv
<1>3. ToStart \in {ToSet(apps) \ ToSet(todo), ToSet(apps), ToSet(todo), ToSet(Tail(todo)), {}}
  BY DEF ToStart
<1> QED BY <1>1, <1>2, <1>3 DEF ListInv, ToStart

LEMMA GoneLinks ==
  ASSUME ProcOK, NEW p \in Processes, NEW c \in Clients
  PROVE  Gone({p})[c] = IF c = p THEN "none"
                        ELSE IF Server[c] = p /\ link[c] = "open" THEN "stale" ELSE link[c]
BY DEF Gone

LEMMA SameList ==
  ASSUME LauncherInv, UNCHANGED scriptVars
  PROVE  ListInv' /\ ToStart' = ToStart /\ phase' = phase /\ apps' = apps
BY DEF LauncherInv, ListInv, ToStart, scriptVars, Lists, Distinct

LEMMA StopsKeepsInv ==
  ASSUME LauncherInv, NEW p \in Processes, Stops(p), UNCHANGED <<scriptVars, twice>>,
         lost \subseteq lost',
         phase \in Starting /\ proc[p] \in {"up", "closing"} => p \in lost'
  PROVE  LauncherInv'
<1>0. ListInv' /\ ToStart' = ToStart /\ phase' = phase /\ apps' = apps
  BY SameList
<1>1. ToStart \subseteq Processes /\ ToSet(apps) \subseteq Processes /\ Clients \subseteq Processes
      /\ \A c \in Clients : Server[c] \in Processes
  BY ToStartInApps, Names DEF LauncherInv
<1>2. /\ proc' = [proc EXCEPT ![p] = "off"]
      /\ \A q \in Processes : proc'[q] = IF q = p THEN "off" ELSE proc[q]
  BY DEF Stops, LauncherInv, ProcOK
<1>3. \A c \in Clients : link'[c] = IF c = p THEN "none"
                        ELSE IF Server[c] = p /\ link[c] = "open" THEN "stale" ELSE link[c]
  BY GoneLinks DEF Stops, LauncherInv
<1>4. ProcOK'
  <2>1. link' \in [Clients -> {"none", "open", "stale"}]
    <3>1. link' = [c \in Clients |-> link'[c]]
      BY DEF Stops, Gone
    <3> QED BY <1>3, <3>1 DEF LauncherInv, ProcOK
  <2> QED BY <1>2, <2>1 DEF LauncherInv, ProcOK
<1>5. OffInv' /\ ClosedInv'
  BY <1>0, <1>1, <1>2 DEF LauncherInv, OffInv, ClosedInv
<1>6. LinkInv'
  BY <1>1, <1>2, <1>3 DEF LauncherInv, LinkInv
<1>7. StaleInv'
  BY <1>0, <1>1, <1>3 DEF LauncherInv, StaleInv, LinkInv
<1>8. OneInstance'
  BY DEF Stops, LauncherInv, OneInstance
<1> QED BY <1>0, <1>4, <1>5, <1>6, <1>7, <1>8 DEF LauncherInv

\* Processes only change from what they were, without stopping or beginning to end.
LEMMA ComesUpKeepsInv ==
  ASSUME LauncherInv, NEW a \in Apps, ComesUp(a)
  PROVE  LauncherInv'
<1>0. ListInv' /\ ToStart' = ToStart /\ phase' = phase /\ apps' = apps
  BY SameList DEF ComesUp
<1>1. ToStart \subseteq Apps /\ ToSet(apps) \subseteq Apps
  BY ToStartInApps DEF LauncherInv
<1>2. \A q \in Processes : proc'[q] = IF q = a THEN "up"
                          ELSE IF q = Serial /\ a = "crash_detection" THEN "up" ELSE proc[q]
  BY Names DEF ComesUp, LauncherInv, ProcOK
<1>3. ASSUME NEW c \in Clients
      PROVE  link'[c] = IF a = "crash_detection" /\ c = a THEN "open" ELSE link[c]
  <2>1. CASE a = "crash_detection"
    <3>1. Gone({Serial}) = [x \in Clients |-> Gone({Serial})[x]]
      BY DEF Gone
    <3>2. c # a => Server[c] # Serial /\ c # Serial
      BY <2>1, Names DEF Apps, Serial
    <3>3. c # a => Gone({Serial})[c] = link[c]
      BY <3>2, Names, GoneLinks DEF LauncherInv
    <3> QED BY <2>1, <3>1, <3>3 DEF ComesUp
  <2> QED BY <2>1 DEF ComesUp
<1>4. ProcOK'
  <2>1. proc' \in [Processes -> {"off", "starts", "up", "closing"}]
    BY DEF ComesUp, LauncherInv, ProcOK
  <2>2. link' = [c \in Clients |-> link'[c]]
    BY DEF ComesUp, Gone, LauncherInv, ProcOK
  <2>3. \A c \in Clients : link'[c] \in {"none", "open", "stale"}
    BY <1>3 DEF LauncherInv, ProcOK
  <2> QED BY <2>1, <2>2, <2>3 DEF ProcOK
<1>5. proc[a] = "starts"
  BY DEF ComesUp
<1>6. OffInv' /\ ClosedInv'
  BY <1>0, <1>1, <1>2, <1>5, Names DEF LauncherInv, OffInv, ClosedInv
<1>7. LinkInv'
  BY <1>2, <1>3, <1>5, Names DEF LauncherInv, LinkInv
<1>8. StaleInv'
  <2>1. lost' = lost
    BY DEF ComesUp
  <2> QED BY <1>0, <1>3, <2>1 DEF LauncherInv, StaleInv
<1>9. OneInstance'
  BY DEF ComesUp, LauncherInv, OneInstance
<1> QED BY <1>0, <1>4, <1>6, <1>7, <1>8, <1>9 DEF LauncherInv

LEMMA ConnectsKeepsInv ==
  ASSUME LauncherInv, NEW c \in Clients, Connects(c)
  PROVE  LauncherInv'
<1>0. ListInv' /\ ToStart' = ToStart /\ phase' = phase /\ apps' = apps
  BY SameList DEF Connects
<1> QED BY <1>0 DEF Connects, LauncherInv, ProcOK, OffInv, ClosedInv, LinkInv, StaleInv,
           OneInstance

-----------------------------------------------------------------------------
(* Steps of the script. *)

\* Steps that leave the processes alone.
LEMMA ScriptMovesKeepInv ==
  ASSUME LauncherInv, ListInv', UNCHANGED <<proc, link, twice>>,
         OffInv', ClosedInv', StaleInv'
  PROVE  LauncherInv'
BY DEF LauncherInv, ProcOK, LinkInv, OneInstance

\* The script is over.
LEMMA IdleKeepsInv ==
  ASSUME LauncherInv, ListInv', phase' = "idle", UNCHANGED <<proc, link, twice>>
  PROVE  LauncherInv'
<1>1. OffInv' /\ ClosedInv' /\ StaleInv'
  BY DEF OffInv, ClosedInv, StaleInv, ToStart, Starting
<1> QED BY <1>1, ScriptMovesKeepInv

LEMMA AbortKeepsList ==
  ASSUME ListInv, Abort, UNCHANGED apps
  PROVE  ListInv' /\ phase' = "idle"
<1>1. apps' = apps /\ todo' = <<>> /\ phase' = "idle"
  BY DEF Abort
<1> QED BY <1>1, EmptyList DEF ListInv

LEMMA ScriptStopsKeepsInv ==
  ASSUME LauncherInv, shutdown_app \/ ShutDown \/ StillThere \/ ShutdownTimesOut \/ AllStopped
  PROVE  LauncherInv'
<1>0. ListInv /\ OffInv /\ ClosedInv
  BY DEF LauncherInv
<1>1. CASE shutdown_app
  <2>1. /\ Head(todo) \in Apps /\ Head(todo) \in Processes /\ phase' = "wait" /\ phase = "stop"
        /\ todo' = todo /\ apps' = apps /\ todo # <<>>
        /\ Head(todo) \in ToSet(todo)
    BY <1>0, <1>1, DistinctTail, Names DEF ListInv, shutdown_app
  <2>2. \A q \in Processes : proc'[q] = IF q = Head(todo) /\ proc[q] # "off" THEN "closing"
                                                                         ELSE proc[q]
    BY <1>1, <2>1 DEF shutdown_app, LauncherInv, ProcOK
  <2>3. ListInv'
    BY <1>0, <2>1 DEF ListInv, Distinct, Lists
  <2>4. ToStart' = ToSet(apps) \ ToSet(todo) /\ ToStart = ToSet(apps) \ ToSet(todo)
    BY <2>1 DEF ToStart
  <2>5. OffInv'
    BY <1>0, <2>1, <2>2, <2>4, ToStartInApps, Names DEF OffInv
  <2>6. ClosedInv' /\ StaleInv'
    BY <2>1 DEF ClosedInv, StaleInv, Starting
  <2>7. ProcOK'
    BY <1>1 DEF shutdown_app, LauncherInv, ProcOK
  <2>8. LinkInv'
    BY <1>1, <2>2, Names DEF shutdown_app, LauncherInv, LinkInv
  <2> QED BY <1>1, <2>3, <2>5, <2>6, <2>7, <2>8
            DEF shutdown_app, LauncherInv, OneInstance
<1>2. CASE ShutDown
  <2>1. /\ phase' = "stop" /\ phase = "wait" /\ todo' = Tail(todo) /\ apps' = apps /\ todo # <<>>
        /\ proc' = proc /\ proc[Head(todo)] = "off"
    BY <1>0, <1>2 DEF ListInv, ShutDown, NextToStop
  <2>2. /\ Tail(todo) \in Seq(Apps) /\ Distinct(Tail(todo))
        /\ ToSet(todo) = ToSet(Tail(todo)) \cup {Head(todo)}
    BY <1>0, <2>1, DistinctTail DEF ListInv
  <2>3. ListInv'
    BY <1>0, <2>1, <2>2 DEF ListInv
  <2>4. ToStart' = ToSet(apps) \ ToSet(Tail(todo)) /\ ToStart = ToSet(apps) \ ToSet(todo)
    BY <2>1 DEF ToStart
  <2>5. OffInv'
    BY <1>0, <2>1, <2>2, <2>4 DEF OffInv
  <2>6. ClosedInv' /\ StaleInv'
    BY <2>1 DEF ClosedInv, StaleInv, Starting
  <2> QED BY <1>2, <2>3, <2>5, <2>6, ScriptMovesKeepInv DEF ShutDown
<1>3. CASE StillThere
  <2>1. ListInv' /\ ToStart' = ToStart
    BY <1>0, <1>3 DEF StillThere, ListInv, ToStart, Distinct, Lists
  <2>2. OffInv' /\ ClosedInv' /\ StaleInv'
    BY <1>0, <1>3, <2>1 DEF StillThere, OffInv, ClosedInv, StaleInv, LauncherInv
  <2> QED BY <1>3, <2>1, <2>2, ScriptMovesKeepInv DEF StillThere
<1>4. CASE ShutdownTimesOut
  BY <1>0, <1>4, AbortKeepsList, IdleKeepsInv DEF ShutdownTimesOut
<1>5. CASE AllStopped
  <2>1. /\ phase' = "slay" /\ phase = "stop" /\ todo = <<>> /\ todo' = todo /\ apps' = apps
        /\ proc' = proc /\ link' = link /\ lost' = lost
    BY <1>5 DEF AllStopped
  <2>2. ListInv'
    BY <1>0, <2>1, EmptyList DEF ListInv, Starting
  <2>3. ToStart' = ToSet(apps) /\ ToStart = ToSet(apps)
    BY <2>1, EmptyList DEF ToStart
  <2>4. OffInv' /\ ClosedInv'
    BY <1>0, <2>1, <2>3 DEF OffInv, ClosedInv
  <2>5. StaleInv'
    <3>1. ASSUME NEW c \in Clients, c \in ToSet(apps) PROVE link[c] = "none"
      BY <1>0, <2>3, <3>1 DEF OffInv, LauncherInv, LinkInv
    <3>2. ASSUME NEW c \in Clients, c # DRIVE_APP PROVE c \in ToSet(apps)
      BY <1>0, <2>1, <3>2, ListsAreDistinct DEF ListInv
    <3> QED BY <2>1, <3>1, <3>2 DEF StaleInv
  <2> QED BY <1>5, <2>2, <2>4, <2>5, ScriptMovesKeepInv DEF AllStopped
<1> QED BY <1>1, <1>2, <1>3, <1>4, <1>5

LEMMA StartsKeepsProcOK ==
  ASSUME ProcOK, NEW a \in Apps, Starts(a)
  PROVE  /\ proc' \in [Processes -> {"off", "starts", "up", "closing"}]
         /\ \A q \in Processes : proc'[q] = IF q = a /\ proc[q] = "off" THEN "starts" ELSE proc[q]
         /\ proc[a] = "off" => twice' = twice
BY Names DEF ProcOK, Starts

LEMMA SlaysSerialKeepsInv ==
  ASSUME LauncherInv, SlaysSerial
  PROVE  LauncherInv'
<1>1. /\ phase = "slay" /\ phase' = "serial" /\ apps' = apps /\ todo' = todo /\ lost' = lost
      /\ twice' = twice /\ Stops(Serial)
  BY DEF SlaysSerial
<1>2. ListInv'
  BY <1>1 DEF LauncherInv, ListInv, Starting, Distinct, Lists
<1>3. ToStart' = ToSet(apps) /\ ToStart = ToSet(apps) /\ ToSet(apps) \subseteq Apps
  BY <1>1, ToStartInApps DEF ToStart, LauncherInv
<1>4. \A q \in Processes : proc'[q] = IF q = Serial THEN "off" ELSE proc[q]
  BY <1>1 DEF Stops, LauncherInv, ProcOK
<1>5. \A c \in Clients : link'[c] = IF Server[c] = Serial /\ link[c] = "open" THEN "stale" ELSE link[c]
  BY <1>1, Names, GoneLinks DEF Stops, LauncherInv
<1>6. ProcOK'
  <2>1. link' = [c \in Clients |-> link'[c]]
    BY <1>1 DEF Stops, Gone
  <2>2. link' \in [Clients -> {"none", "open", "stale"}]
    BY <1>5, <2>1 DEF LauncherInv, ProcOK
  <2> QED BY <1>1, <2>2 DEF Stops, LauncherInv, ProcOK
<1>7. OffInv'
  BY <1>3, <1>4, Names DEF LauncherInv, OffInv
<1>8. ClosedInv'
  BY <1>1, <1>3, <1>4, Names DEF LauncherInv, ClosedInv, Starting
<1>9. LinkInv'
  BY <1>4, <1>5, Names DEF LauncherInv, LinkInv
<1>10. StaleInv'
  <2>1. ASSUME NEW c \in Clients, c = DRIVE_APP => c \in ToSet(apps), link'[c] = "stale"
        PROVE  Server[c] \in lost
    <3>1. c \in ToSet(apps)
      <4>1. apps # <<>>
        BY <1>1 DEF LauncherInv, ListInv
      <4> QED BY <2>1, <4>1, ListsAreDistinct DEF LauncherInv, ListInv
    <3>2. link[c] = "none"
      BY <1>3, <3>1, Names DEF LauncherInv, OffInv, LinkInv
    <3> QED BY <1>5, <2>1, <3>2
  <2> QED BY <1>1, <2>1 DEF StaleInv
<1> QED BY <1>1, <1>2, <1>6, <1>7, <1>8, <1>9, <1>10 DEF LauncherInv, OneInstance

LEMMA StartsSerialKeepsInv ==
  ASSUME LauncherInv, StartsSerial
  PROVE  LauncherInv'
<1>0. ListInv
  BY DEF LauncherInv
<1>1. CASE Abort /\ UNCHANGED proc
  BY <1>0, <1>1, AbortKeepsList, IdleKeepsInv DEF StartsSerial
<1>2. CASE proc' = [proc EXCEPT ![Serial] = "up"] /\ phase' = "start" /\ todo' = apps
  <2>1. /\ phase = "serial" /\ apps' = apps /\ link' = link /\ lost' = lost
        /\ twice' = twice
    BY DEF StartsSerial
  <2>2. ListInv'
    BY <1>0, <1>2, <2>1, ListsAreDistinct DEF ListInv, Starting
  <2>3. ToStart' = ToSet(apps) /\ ToStart = ToSet(apps) /\ ToSet(apps) \subseteq Apps
    BY <1>0, <1>2, <2>1, ToStartInApps DEF ToStart
  <2>4. /\ proc' \in [Processes -> {"off", "starts", "up", "closing"}]
        /\ \A q \in Processes : proc'[q] = IF q = Serial THEN "up" ELSE proc[q]
    BY <1>2 DEF LauncherInv, ProcOK
  <2>5. ProcOK' /\ OffInv' /\ ClosedInv'
    BY <1>2, <2>1, <2>3, <2>4, Names DEF LauncherInv, ProcOK, OffInv, ClosedInv, Starting
  <2>6. LinkInv'
    BY <2>1, <2>4, Names DEF LauncherInv, LinkInv
  <2>7. StaleInv'
    BY <2>1 DEF LauncherInv, StaleInv, Starting
  <2> QED BY <2>1, <2>2, <2>5, <2>6, <2>7 DEF LauncherInv, OneInstance
<1> QED BY <1>1, <1>2 DEF StartsSerial

LEMMA StartAppKeepsInv ==
  ASSUME LauncherInv, start_app
  PROVE  LauncherInv'
<1>1. /\ phase = "start" /\ phase' = "check" /\ todo # <<>> /\ todo' = todo /\ apps' = apps
      /\ link' = link /\ lost' = lost /\ Starts(Head(todo))
  BY DEF start_app
<1>2. /\ Head(todo) \in Apps /\ ToSet(todo) = ToSet(Tail(todo)) \cup {Head(todo)}
      /\ Head(todo) \notin ToSet(Tail(todo))
  BY <1>1, DistinctTail DEF LauncherInv, ListInv
<1>3. ListInv'
  BY <1>1 DEF LauncherInv, ListInv, Starting, Distinct, Lists
<1>4. ToStart' = ToSet(Tail(todo)) /\ ToStart = ToSet(todo) /\ ToSet(todo) \subseteq Apps
  BY <1>1, SetsOfLists DEF ToStart, LauncherInv, ListInv
<1>5. /\ proc' \in [Processes -> {"off", "starts", "up", "closing"}]
      /\ \A q \in Processes :
           proc'[q] = IF q = Head(todo) /\ proc[q] = "off" THEN "starts" ELSE proc[q]
      /\ proc[Head(todo)] = "off" => twice' = twice
  BY <1>1, <1>2, StartsKeepsProcOK DEF LauncherInv
<1>6. proc[Head(todo)] = "off"
  BY <1>2, <1>4 DEF LauncherInv, OffInv
<1>7. OffInv' /\ ProcOK'
  BY <1>1, <1>2, <1>4, <1>5, Names DEF LauncherInv, OffInv, ProcOK
<1>8. ClosedInv'
  BY <1>1, <1>5, Names, ToStartInApps DEF LauncherInv, ClosedInv, Starting
<1>9. LinkInv'
  BY <1>1, <1>5, Names DEF LauncherInv, LinkInv
<1>10. StaleInv'
  BY <1>1 DEF LauncherInv, StaleInv, Starting
<1> QED BY <1>1, <1>3, <1>5, <1>6, <1>7, <1>8, <1>9, <1>10
        DEF LauncherInv, OneInstance

LEMMA StartCheckedKeepsInv ==
  ASSUME LauncherInv, StartChecked
  PROVE  LauncherInv'
<1>0. ListInv
  BY DEF LauncherInv
<1>1. CASE Abort
  BY <1>0, <1>1, AbortKeepsList, IdleKeepsInv DEF StartChecked
<1>2. CASE phase' = "start" /\ todo' = Tail(todo)
  <2>1. /\ phase = "check" /\ apps' = apps /\ todo # <<>> /\ UNCHANGED <<proc, link, lost, twice>>
    BY <1>0 DEF StartChecked, ListInv
  <2>2. /\ Tail(todo) \in Seq(Apps) /\ Distinct(Tail(todo))
        /\ ToSet(todo) = ToSet(Tail(todo)) \cup {Head(todo)}
    BY <1>0, <2>1, DistinctTail DEF ListInv
  <2>3. ListInv'
    BY <1>0, <1>2, <2>1, <2>2 DEF ListInv, Starting
  <2>4. ToStart' = ToSet(Tail(todo)) /\ ToStart = ToSet(Tail(todo))
    BY <1>2, <2>1 DEF ToStart
  <2>5. OffInv' /\ ClosedInv' /\ StaleInv'
    BY <2>1, <2>4 DEF LauncherInv, OffInv, ClosedInv, StaleInv, Starting
  <2> QED BY <2>1, <2>3, <2>5, ScriptMovesKeepInv
<1> QED BY <1>1, <1>2 DEF StartChecked

LEMMA ReloadCompleteKeepsInv ==
  ASSUME LauncherInv, ReloadComplete
  PROVE  LauncherInv'
<1>1. /\ phase' = "idle" /\ UNCHANGED <<apps, todo, proc, link, twice>>
  BY DEF ReloadComplete
<1>2. ListInv'
  BY <1>1 DEF LauncherInv, ListInv, Distinct, Lists
<1> QED BY <1>1, <1>2, IdleKeepsInv

LEMMA InvokeKeepsInv ==
  ASSUME LauncherInv, NEW include_drive \in BOOLEAN, NEW skip_slay \in BOOLEAN,
         Invoke(include_drive, skip_slay)
  PROVE  LauncherInv'
<1>1. /\ apps' \in Lists /\ apps' # <<>> /\ todo' = apps'
      /\ phase' = IF skip_slay THEN "slay" ELSE "stop"
      /\ UNCHANGED <<proc, link, twice>>
  <2> QED BY ListsAreNotEmpty DEF Invoke, Lists
<1>2. /\ apps' \in Seq(Apps) /\ Distinct(apps') /\ ToSet(apps') \subseteq Apps
      /\ \A c \in Clients : c # DRIVE_APP => c \in ToSet(apps')
  BY <1>1, ListsAreDistinct, SetsOfLists
<1>3. ListInv'
  BY <1>1, <1>2 DEF ListInv, Starting
<1>4. CASE skip_slay
  <2>1. \A a \in Apps : proc[a] = "off"
    BY <1>4 DEF Invoke
  <2>2. ToStart' = ToSet(apps')
    BY <1>1, <1>4 DEF ToStart
  <2>3. OffInv' /\ ClosedInv'
    BY <1>1, <1>2, <2>1, <2>2 DEF OffInv, ClosedInv
  <2>4. StaleInv'
    BY <1>1, <2>1, Names DEF StaleInv, LauncherInv, LinkInv
  <2> QED BY <1>1, <1>3, <2>3, <2>4, ScriptMovesKeepInv
<1>5. CASE ~ skip_slay
  <2>1. ToStart' = {}
    BY <1>1, <1>5 DEF ToStart
  <2>2. OffInv' /\ ClosedInv' /\ StaleInv'
    BY <1>1, <1>5, <2>1 DEF OffInv, ClosedInv, StaleInv, Starting
  <2> QED BY <1>1, <1>3, <2>2, ScriptMovesKeepInv
<1> QED BY <1>4, <1>5

LEMMA StartsByHandKeepsInv ==
  ASSUME LauncherInv, NEW a \in Apps, StartsByHand(a)
  PROVE  LauncherInv'
<1>0. /\ ListInv' /\ ToStart' = ToStart /\ phase' = phase /\ apps' = apps /\ phase = "idle"
      /\ UNCHANGED <<link, lost>> /\ Starts(a) /\ proc[a] = "off"
  BY SameList DEF StartsByHand
<1>1. ToStart = {}
  BY <1>0 DEF ToStart
<1>2. /\ proc' \in [Processes -> {"off", "starts", "up", "closing"}]
      /\ \A q \in Processes : proc'[q] = IF q = a /\ proc[q] = "off" THEN "starts" ELSE proc[q]
      /\ twice' = twice
  BY <1>0, StartsKeepsProcOK DEF LauncherInv
<1>3. ProcOK' /\ OffInv' /\ ClosedInv' /\ StaleInv'
  BY <1>0, <1>1, <1>2 DEF LauncherInv, ProcOK, OffInv, ClosedInv, StaleInv, Starting
<1>4. LinkInv'
  BY <1>0, <1>2, Names DEF LauncherInv, LinkInv
<1> QED BY <1>0, <1>2, <1>3, <1>4 DEF LauncherInv, OneInstance

LEMMA EndsKeepInv ==
  ASSUME LauncherInv,
         \/ \E a \in Apps : GivesUp(a) \/ Closes(a)
         \/ \E p \in Processes : Dies(p)
  PROVE  LauncherInv'
<1>1. ASSUME NEW a \in Apps, GivesUp(a) PROVE LauncherInv'
  <2>1. /\ proc[a] = "starts" /\ Stops(a) /\ UNCHANGED <<scriptVars, twice>> /\ lost' = lost
    BY <1>1 DEF GivesUp
  <2> QED BY <2>1, Names, StopsKeepsInv
<1>2. ASSUME NEW a \in Apps, Closes(a) PROVE LauncherInv'
  <2>1. /\ proc[a] = "closing" /\ Stops(a) /\ UNCHANGED <<scriptVars, twice>>
        /\ lost' = lost \cup ({a} \ ToSet(apps))
    BY <1>2 DEF Closes
  <2>2. phase \in Starting => a \notin ToSet(apps)
    BY <2>1 DEF LauncherInv, ClosedInv
  <2> QED BY <2>1, <2>2, Names, StopsKeepsInv
<1>3. ASSUME NEW p \in Processes, Dies(p) PROVE LauncherInv'
  <2>1. /\ Stops(p) /\ UNCHANGED <<scriptVars, twice>> /\ lost' = lost \cup {p}
    BY <1>3 DEF Dies
  <2> QED BY <2>1, StopsKeepsInv
<1> QED BY <1>1, <1>2, <1>3

-----------------------------------------------------------------------------
(* Theorems. *)

LEMMA LauncherInvHoldsAtFirst == Init => LauncherInv
<1> SUFFICES ASSUME Init PROVE LauncherInv
  OBVIOUS
<1>1. ListInv
  BY EmptyList DEF Init, ListInv, Lists
<1>2. ProcOK /\ LinkInv
  BY DEF Init, ProcOK, LinkInv
<1>3. OffInv /\ ClosedInv /\ StaleInv
  BY DEF Init, OffInv, ToStart, ClosedInv, StaleInv, Starting
<1>4. OneInstance
  BY DEF Init, OneInstance
<1> QED BY <1>1, <1>2, <1>3, <1>4 DEF LauncherInv

LEMMA LauncherInvInductive == LauncherInv /\ [Next]_vars => LauncherInv'
<1> SUFFICES ASSUME LauncherInv, [Next]_vars PROVE LauncherInv'
  OBVIOUS
<1>1. CASE Script
  <2>1. CASE shutdown_app \/ ShutDown \/ StillThere \/ ShutdownTimesOut \/ AllStopped
    BY <2>1, ScriptStopsKeepsInv
  <2>2. CASE SlaysSerial \/ StartsSerial
    BY <2>2, SlaysSerialKeepsInv, StartsSerialKeepsInv
  <2>3. CASE start_app \/ StartChecked \/ ReloadComplete
    BY <2>3, StartAppKeepsInv, StartCheckedKeepsInv, ReloadCompleteKeepsInv
  <2> QED BY <1>1, <2>1, <2>2, <2>3 DEF Script
<1>2. ASSUME NEW include_drive \in BOOLEAN, NEW skip_slay \in BOOLEAN,
             Invoke(include_drive, skip_slay)
      PROVE  LauncherInv'
  BY <1>2, InvokeKeepsInv
<1>3. ASSUME NEW a \in Apps, ComesUp(a) \/ GivesUp(a) \/ Closes(a) \/ StartsByHand(a)
      PROVE  LauncherInv'
  BY <1>3, ComesUpKeepsInv, EndsKeepInv, StartsByHandKeepsInv
<1>4. ASSUME NEW c \in Clients, Connects(c) PROVE LauncherInv'
  BY <1>4, ConnectsKeepsInv
<1>5. ASSUME NEW p \in Processes, Dies(p) PROVE LauncherInv'
  BY <1>5, EndsKeepInv
<1>7. CASE UNCHANGED vars
  <2>1. UNCHANGED <<scriptVars, proc, link, lost, twice>>
    BY <1>7 DEF vars
  <2>2. ListInv' /\ ToStart' = ToStart /\ phase' = phase /\ apps' = apps
    BY <2>1, SameList
  <2> QED BY <2>1, <2>2, ScriptMovesKeepInv
            DEF LauncherInv, OffInv, ClosedInv, StaleInv
<1> QED BY <1>1, <1>2, <1>3, <1>4, <1>5, <1>7 DEF Next

LEMMA LauncherInvariant == Spec => []LauncherInv
BY LauncherInvHoldsAtFirst, LauncherInvInductive, PTL DEF Spec

\* The script starts no process that is there, whatever dies, hangs or is
\* started by hand between its runs (reload_pi_car_apps.sh:98-137).
THEOREM OneInstanceCorrect == Spec => []OneInstance
<1>1. LauncherInv => OneInstance
  BY DEF LauncherInv
<1> QED BY <1>1, LauncherInvariant, PTL

\* A reload that reports success leaves no process it manages with a connection
\* to a process that is gone, unless that one was lost meanwhile
\* (reload_pi_car_apps.sh:139-177).
THEOREM ReloadConnectsCorrect == Spec => ReloadConnects
<1>1. ASSUME LauncherInv, ReloadComplete, NEW c \in Reloaded, link[c] = "stale"
      PROVE  Server[c] \in lost
  <2>1. c \in Clients /\ (c = DRIVE_APP => c \in ToSet(apps))
    BY <1>1 DEF Reloaded
  <2>2. phase = "start"
    BY <1>1 DEF ReloadComplete
  <2> QED BY <1>1, <2>1, <2>2 DEF LauncherInv, StaleInv, Starting
<1>2. LauncherInv =>
        [ReloadComplete => \A c \in Reloaded : link[c] = "stale" => Server[c] \in lost]_vars
  BY <1>1
<1> QED BY <1>2, LauncherInvariant, PTL DEF ReloadConnects

-----------------------------------------------------------------------------
(* Types. *)

TypeInv == /\ elapsed \in 0 .. TIMEOUT_SECS
           /\ lost \subseteq Processes /\ twice \subseteq Apps
           /\ deaths \in 0 .. MaxDeaths /\ byHand \in 0 .. MaxByHand

LEMMA TypeInvInductive == LauncherInv /\ TypeInv /\ [Next]_vars => TypeInv'
<1> SUFFICES ASSUME LauncherInv, TypeInv, [Next]_vars PROVE TypeInv'
  OBVIOUS
<1> USE LauncherAssumption
<1>1. CASE Script
  <2>1. elapsed' \in 0 .. TIMEOUT_SECS
    BY <1>1 DEF Script, shutdown_app, ShutDown, NextToStop, StillThere, ShutdownTimesOut, Abort,
                AllStopped, SlaysSerial, StartsSerial, start_app, StartChecked, ReloadComplete,
                TypeInv
  <2>2. UNCHANGED <<lost, deaths, byHand>>
    BY <1>1 DEF Script, shutdown_app, ShutDown, StillThere, ShutdownTimesOut,
                AllStopped, SlaysSerial, StartsSerial, start_app, StartChecked, ReloadComplete
  <2>3. twice' \subseteq Apps
    <3>1. CASE start_app
      <4>1. Head(todo) \in Apps
        BY <3>1, DistinctTail DEF LauncherInv, ListInv, start_app
      <4> QED BY <3>1, <4>1 DEF start_app, Starts, TypeInv
    <3>2. CASE ~ start_app
      BY <1>1, <3>2 DEF Script, shutdown_app, ShutDown, StillThere, ShutdownTimesOut,
                  AllStopped, SlaysSerial, StartsSerial, StartChecked, ReloadComplete, TypeInv
    <3> QED BY <3>1, <3>2
  <2> QED BY <2>1, <2>2, <2>3 DEF TypeInv
<1>2. ASSUME NEW include_drive \in BOOLEAN, NEW skip_slay \in BOOLEAN,
             Invoke(include_drive, skip_slay)
      PROVE  TypeInv'
  BY <1>2 DEF Invoke, TypeInv
<1>3. ASSUME NEW a \in Apps, ComesUp(a) \/ GivesUp(a) \/ Closes(a) \/ StartsByHand(a)
      PROVE  TypeInv'
  BY <1>3, Names DEF ComesUp, GivesUp, Closes, StartsByHand, Starts, TypeInv, scriptVars
<1>4. ASSUME NEW c \in Clients, Connects(c) PROVE TypeInv'
  BY <1>4 DEF Connects, TypeInv, scriptVars
<1>5. ASSUME NEW p \in Processes, Dies(p) PROVE TypeInv'
  BY <1>5 DEF Dies, TypeInv, scriptVars
<1>7. CASE UNCHANGED vars
  BY <1>7 DEF vars, TypeInv, scriptVars
<1> QED BY <1>1, <1>2, <1>3, <1>4, <1>5, <1>7 DEF Next

\* Whatever happens to the processes, the script's list and its seconds, the states of
\* the processes and their connections stay what they are declared as.
THEOREM LauncherTypeCorrect == Spec => []LauncherTypeOK
<1>1. Init => TypeInv
  BY LauncherAssumption DEF Init, TypeInv
<1>2. LauncherInv /\ TypeInv => LauncherTypeOK
  <2> SUFFICES ASSUME LauncherInv, TypeInv PROVE LauncherTypeOK
    OBVIOUS
  <2>1. todo \in Seq(ToSet(apps))
    <3>1. /\ Len(todo) \in Nat /\ DOMAIN todo = 1 .. Len(todo)
          /\ todo = [i \in 1 .. Len(todo) |-> todo[i]]
      BY DEF LauncherInv, ListInv
    <3>2. \A i \in 1 .. Len(todo) : todo[i] \in ToSet(apps)
      BY <3>1 DEF LauncherInv, ListInv, ToSet
    <3> QED BY <3>1, <3>2
  <2> QED BY <2>1
       DEF LauncherInv, ListInv, Lists, Starting, ProcOK, TypeInv, LauncherTypeOK
<1> QED BY <1>1, <1>2, LauncherInvariant, TypeInvInductive, PTL DEF Spec
-----------------------------------------------------------------------------
(* The script comes to its end. *)

\* What has been invoked is bounded from the start; the bound needs no account of
\* the list, for the measure never grows and APPS_TO_MANAGE stays.
BoundInv == phase # "idle" => StepsLeft <= (TIMEOUT_SECS + 4) * Len(apps) + 4

LEMMA Products ==
  ASSUME NEW t \in Nat, NEW n \in Nat
  PROVE  /\ t * n \in Nat /\ t * (n + 1) = t * n + t /\ (t + 2) * n = t * n + 2 * n
         /\ (t + 4) * n = t * n + 4 * n
<1>1. t * n \in Nat
  BY SMT
<1>2. t * (n + 1) = t * n + t
  BY SMT
<1>3. (t + 2) * n = t * n + 2 * n /\ (t + 4) * n = t * n + 4 * n
  BY SMT
<1> QED BY <1>1, <1>2, <1>3

LEMMA Lengths ==
  ASSUME LauncherInv
  PROVE  /\ Len(apps) \in Nat /\ Len(todo) \in Nat
         /\ todo # <<>> => Len(todo) > 0 /\ Len(Tail(todo)) = Len(todo) - 1
         /\ todo = <<>> => Len(todo) = 0
<1>1. apps \in Seq(Apps) /\ todo \in Seq(Apps)
  BY ListsAreDistinct DEF LauncherInv, ListInv
<1> QED BY <1>1

\* The measure with the products named.
PerSecond == TIMEOUT_SECS * Len(todo)
Measured ==
  /\ phase = "idle" => StepsLeft = 0
  /\ phase = "check" => StepsLeft = 2 * Len(todo)
  /\ phase = "start" => StepsLeft = 2 * Len(todo) + 1
  /\ phase = "serial" => StepsLeft = 2 * Len(apps) + 2
  /\ phase = "slay" => StepsLeft = 2 * Len(apps) + 3
  /\ phase = "stop" => StepsLeft = 2 * Len(apps) + 4 + PerSecond + 2 * Len(todo)
  /\ phase = "wait" => StepsLeft = 2 * Len(apps) + 3 + PerSecond + 2 * Len(todo) - elapsed

LEMMA StepsLeftIs == LauncherInv /\ TypeInv => Measured
<1> SUFFICES ASSUME LauncherInv, TypeInv PROVE Measured
  OBVIOUS
<1> DEFINE L == Len(todo)
<1>1. /\ L \in Nat /\ Len(apps) \in Nat /\ TIMEOUT_SECS \in Nat /\ elapsed \in Nat
      /\ phase = "wait" => L > 0
  BY Lengths, LauncherAssumption DEF LauncherInv, ListInv, TypeInv
<1>2. (TIMEOUT_SECS + 2) * L = TIMEOUT_SECS * L + 2 * L /\ TIMEOUT_SECS * L \in Nat
  BY <1>1, Products
<1>3. ASSUME L > 0
      PROVE  (TIMEOUT_SECS + 2) * (L - 1) = TIMEOUT_SECS * L - TIMEOUT_SECS + 2 * L - 2
  <2> DEFINE k == L - 1
  <2>1. k \in Nat /\ L = k + 1
    BY <1>1, <1>3
  <2> HIDE DEF k, L
  <2>2. /\ (TIMEOUT_SECS + 2) * k = TIMEOUT_SECS * k + 2 * k /\ TIMEOUT_SECS * k \in Nat
        /\ TIMEOUT_SECS * (k + 1) = TIMEOUT_SECS * k + TIMEOUT_SECS
    BY <1>1, <2>1, Products
  <2>3. (TIMEOUT_SECS + 2) * k = TIMEOUT_SECS * L - TIMEOUT_SECS + 2 * L - 2
    BY <1>1, <2>1, <2>2
  <2> QED BY <2>3 DEF k
<1>4. CASE phase = "stop"
  BY <1>1, <1>2, <1>4 DEF StepsLeft, Measured, PerSecond
<1>5. CASE phase = "wait"
  <2> DEFINE b == (TIMEOUT_SECS + 2) * (L - 1)
             a == TIMEOUT_SECS * L
  <2>1. b = a - TIMEOUT_SECS + 2 * L - 2 /\ a \in Nat
    BY <1>1, <1>2, <1>3, <1>5
  <2>2. StepsLeft = 2 * Len(apps) + 4 + b + (TIMEOUT_SECS - elapsed) + 1
    BY <1>5 DEF StepsLeft
  <2> HIDE DEF a, b, L
  <2>3. StepsLeft = 2 * Len(apps) + 3 + a + 2 * L - elapsed
    BY <1>1, <2>1, <2>2
  <2> QED BY <1>5, <2>3 DEF a, L, Measured, PerSecond
<1> QED BY <1>1, <1>4, <1>5 DEF LauncherInv, ListInv, Starting, StepsLeft, Measured

LEMMA StepsLeftPositive ==
  ASSUME LauncherInv, TypeInv, Measured
  PROVE  /\ StepsLeft \in Nat /\ (phase # "idle" => StepsLeft > 0)
         /\ PerSecond \in Nat /\ TIMEOUT_SECS \in Nat
         /\ Len(todo) > 0 => /\ TIMEOUT_SECS * (Len(todo) - 1) = PerSecond - TIMEOUT_SECS
                             /\ PerSecond >= TIMEOUT_SECS
<1> DEFINE L == Len(todo)
<1>1. /\ L \in Nat /\ Len(apps) \in Nat /\ TIMEOUT_SECS \in Nat
      /\ elapsed \in 0 .. TIMEOUT_SECS
  BY Lengths, LauncherAssumption DEF TypeInv
<1>2. /\ PerSecond \in Nat /\ (L > 0 => PerSecond >= TIMEOUT_SECS)
      /\ L > 0 => TIMEOUT_SECS * (L - 1) = PerSecond - TIMEOUT_SECS
  <2>1. CASE L = 0
    BY <1>1, <2>1 DEF PerSecond
  <2>2. CASE L > 0
    <3> DEFINE k == L - 1
    <3>1. k \in Nat /\ L = k + 1
      BY <1>1, <2>2
    <3> HIDE DEF k, L
    <3>2. TIMEOUT_SECS * k \in Nat /\ TIMEOUT_SECS * (k + 1) = TIMEOUT_SECS * k + TIMEOUT_SECS
      BY <1>1, <3>1, Products
    <3>3. TIMEOUT_SECS * L = TIMEOUT_SECS * k + TIMEOUT_SECS
      BY <3>1, <3>2
    <3> QED BY <1>1, <2>2, <3>2, <3>3 DEF k, L, PerSecond
  <2> QED BY <1>1, <2>1, <2>2
<1>3. phase \in {"wait", "check"} => L > 0
  BY Lengths DEF LauncherInv, ListInv
<1>4. StepsLeft \in Nat /\ (phase # "idle" => StepsLeft > 0)
  BY <1>1, <1>2, <1>3 DEF LauncherInv, ListInv, Starting, Measured
<1> QED BY <1>1, <1>2, <1>4

\* Every step of the script is one down; the others leave its variables alone or
\* begin at "idle".
LEMMA ScriptDescends ==
  ASSUME LauncherInv, TypeInv, Measured, LauncherInv', TypeInv', Measured', Script
  PROVE  StepsLeft' \in Nat /\ StepsLeft' < StepsLeft /\ apps' = apps /\ phase # "idle"
<1> DEFINE L == Len(todo)
           n == Len(apps)
<1>1. /\ L \in Nat /\ n \in Nat /\ TIMEOUT_SECS \in Nat
      /\ elapsed \in 0 .. TIMEOUT_SECS /\ elapsed' \in 0 .. TIMEOUT_SECS
      /\ todo # <<>> => L > 0 /\ Len(Tail(todo)) = L - 1
      /\ todo = <<>> => L = 0
  BY Lengths, LauncherAssumption DEF TypeInv
<1>2. /\ PerSecond \in Nat
      /\ L > 0 => /\ TIMEOUT_SECS * (L - 1) = PerSecond - TIMEOUT_SECS
                  /\ PerSecond >= TIMEOUT_SECS
  BY StepsLeftPositive
<1>3. apps' = apps
  BY DEF Script, shutdown_app, ShutDown, StillThere, ShutdownTimesOut, AllStopped,
         SlaysSerial, StartsSerial, start_app, StartChecked, ReloadComplete
<1>4. phase \in {"wait", "check"} => L > 0
  BY <1>1 DEF LauncherInv, ListInv
<1>5. StepsLeft \in Nat /\ (phase # "idle" => StepsLeft > 0)
  BY StepsLeftPositive
<1>6. ASSUME Abort PROVE StepsLeft' = 0
  BY <1>6 DEF Abort, Measured
<1>7. CASE shutdown_app
  <2>1. /\ phase = "stop" /\ phase' = "wait" /\ todo' = todo /\ elapsed' = 0
    BY <1>7 DEF shutdown_app
  <2>2. PerSecond' = PerSecond
    BY <2>1 DEF PerSecond
  <2>3. StepsLeft = 2 * n + 4 + PerSecond + 2 * L
    BY <2>1 DEF Measured
  <2>4. StepsLeft' = 2 * n + 3 + PerSecond + 2 * L
    BY <1>1, <1>2, <1>3, <2>1, <2>2 DEF Measured
  <2> QED BY <1>1, <1>2, <1>3, <2>1, <2>3, <2>4
<1>8. CASE ShutDown
  <2>1. /\ phase = "wait" /\ phase' = "stop" /\ todo' = Tail(todo) /\ elapsed < TIMEOUT_SECS
    BY <1>8 DEF ShutDown, NextToStop
  <2>2. L > 0 /\ Len(todo') = L - 1
    BY <1>1, <1>4, <2>1
  <2>3. PerSecond' = PerSecond - TIMEOUT_SECS
    BY <1>2, <2>2 DEF PerSecond
  <2>4. StepsLeft = 2 * n + 3 + PerSecond + 2 * L - elapsed
    BY <2>1 DEF Measured
  <2>5. StepsLeft' = 2 * n + 4 + (PerSecond - TIMEOUT_SECS) + 2 * (L - 1)
    BY <1>3, <2>1, <2>2, <2>3 DEF Measured
  <2>6. StepsLeft' \in Nat
    BY <1>1, <1>2, <2>2, <2>5
  <2> QED BY <1>1, <1>2, <1>3, <2>1, <2>2, <2>4, <2>5, <2>6
<1>9. CASE StillThere
  BY <1>1, <1>2, <1>3, <1>4, <1>9 DEF StillThere, Measured, PerSecond
<1>10. CASE ShutdownTimesOut
  BY <1>3, <1>5, <1>6, <1>10 DEF ShutdownTimesOut
<1>11. CASE AllStopped
  BY <1>1, <1>2, <1>3, <1>11 DEF AllStopped, Measured
<1>12. CASE SlaysSerial
  BY <1>1, <1>3, <1>12 DEF SlaysSerial, Measured
<1>13. CASE StartsSerial
  <2>1. CASE Abort
    BY <1>3, <1>5, <1>6, <1>13, <2>1 DEF StartsSerial
  <2>2. CASE ~ Abort
    BY <1>1, <1>3, <1>13, <2>2 DEF StartsSerial, Measured
  <2> QED BY <2>1, <2>2
<1>14. CASE start_app
  BY <1>1, <1>3, <1>14 DEF start_app, Measured
<1>15. CASE StartChecked
  <2>1. CASE Abort
    BY <1>3, <1>5, <1>6, <1>15, <2>1 DEF StartChecked
  <2>2. CASE ~ Abort
    <3>1. phase = "check" /\ phase' = "start" /\ todo' = Tail(todo)
      BY <1>15, <2>2 DEF StartChecked
    <3> QED BY <1>1, <1>3, <1>4, <3>1 DEF Measured
  <2> QED BY <2>1, <2>2
<1>16. CASE ReloadComplete
  BY <1>1, <1>3, <1>16 DEF ReloadComplete, Measured
<1> QED BY <1>7, <1>8, <1>9, <1>10, <1>11, <1>12, <1>13, <1>14, <1>15, <1>16 DEF Script

LEMMA OthersKeepScript ==
  ASSUME [Next]_vars, ~ Script, phase # "idle"
  PROVE  UNCHANGED scriptVars
<1>1. ASSUME NEW a \in Apps, ComesUp(a) \/ GivesUp(a) \/ Closes(a) \/ StartsByHand(a)
      PROVE  UNCHANGED scriptVars
  BY <1>1 DEF ComesUp, GivesUp, Closes, StartsByHand
<1>2. ASSUME NEW c \in Clients, Connects(c) PROVE UNCHANGED scriptVars
  BY <1>2 DEF Connects
<1>3. ASSUME NEW p \in Processes, Dies(p) PROVE UNCHANGED scriptVars
  BY <1>3 DEF Dies
<1>5. CASE UNCHANGED vars
  BY <1>5 DEF vars
<1>6. ASSUME NEW include_drive \in BOOLEAN, NEW skip_slay \in BOOLEAN,
             Invoke(include_drive, skip_slay)
      PROVE  FALSE
  BY <1>6 DEF Invoke
<1> QED BY <1>1, <1>2, <1>3, <1>5, <1>6 DEF Next

LEMMA BoundInvInductive ==
  ASSUME LauncherInv, TypeInv, Measured, BoundInv,
         LauncherInv', TypeInv', Measured', [Next]_vars
  PROVE  BoundInv'
<1>1. CASE Script
  <2>1. /\ StepsLeft' \in Nat /\ StepsLeft' < StepsLeft /\ apps' = apps /\ phase # "idle"
    BY <1>1, ScriptDescends
  <2>2. Len(apps) \in Nat /\ Len(todo) \in Nat /\ TIMEOUT_SECS \in Nat
    BY Lengths, LauncherAssumption
  <2>3. StepsLeft \in Nat
    BY StepsLeftPositive
  <2>4. (TIMEOUT_SECS + 4) * Len(apps) + 4 \in Nat
    BY <2>2
  <2> DEFINE b == (TIMEOUT_SECS + 4) * Len(apps) + 4
  <2>5. StepsLeft <= b /\ b \in Nat
    BY <2>1, <2>4 DEF BoundInv
  <2>6. b' = b
    BY <2>1
  <2> HIDE DEF b
  <2>7. StepsLeft' <= b'
    BY <2>1, <2>3, <2>5, <2>6
  <2> QED BY <2>7 DEF BoundInv, b
<1>2. CASE phase = "idle" /\ ~ Script
  <2>1. CASE phase' = "idle"
    BY <2>1 DEF BoundInv
  <2>2. CASE phase' # "idle"
    <3>1. PICK include_drive, skip_slay \in BOOLEAN : Invoke(include_drive, skip_slay)
      BY <1>2, <2>2
         DEF Next, ComesUp, GivesUp, Closes, StartsByHand, Connects, Dies,
             vars, scriptVars
    <3>2. todo' = apps' /\ phase' \in {"stop", "slay"}
      BY <3>1 DEF Invoke
    <3>3. apps' \in Seq(Apps)
      BY ListsAreDistinct DEF LauncherInv, ListInv
    <3> DEFINE n == Len(apps')
    <3>4. n \in Nat /\ Len(todo') = n /\ TIMEOUT_SECS \in Nat
      BY <3>2, <3>3, LauncherAssumption
    <3> HIDE DEF n
    <3>5. (TIMEOUT_SECS + 4) * n = TIMEOUT_SECS * n + 4 * n /\ TIMEOUT_SECS * n \in Nat
      BY <3>4, Products
    <3>6. StepsLeft' <= (TIMEOUT_SECS + 4) * n + 4
      BY <3>2, <3>4, <3>5 DEF Measured, PerSecond, n
    <3> QED BY <3>6 DEF BoundInv, n
  <2> QED BY <2>1, <2>2
<1>3. CASE phase # "idle" /\ ~ Script
  <2>1. UNCHANGED scriptVars
    BY <1>3, OthersKeepScript
  <2> QED BY <2>1 DEF BoundInv, StepsLeft, scriptVars
<1> QED BY <1>1, <1>2, <1>3

\* The safety half of the script's end: a reload takes at most a number of steps
\* that is known when it is invoked, and no process can make it take one more
\* (reload_pi_car_apps.sh:98-177).
THEOREM ReloadDescendsCorrect == Spec => ReloadDescends
<1> DEFINE I == LauncherInv /\ TypeInv /\ Measured /\ BoundInv
<1>1. Init => TypeInv /\ BoundInv
  BY LauncherAssumption DEF Init, TypeInv, BoundInv
<1>2. LauncherInv /\ TypeInv /\ Measured /\ BoundInv /\ LauncherInv' /\ TypeInv' /\ Measured'
        /\ [Next]_vars => BoundInv'
  BY BoundInvInductive
<1>3. Spec => []I
  BY <1>1, <1>2, LauncherInvariant, TypeInvInductive, StepsLeftIs, PTL DEF Spec
<1>4. I /\ I' /\ [Next]_vars =>
        [phase # "idle" =>
           /\ StepsLeft \in 1 .. (TIMEOUT_SECS + 4) * Len(apps) + 4
           /\ \/ StepsLeft' \in Nat /\ StepsLeft' < StepsLeft
              \/ UNCHANGED scriptVars]_vars
  <2> SUFFICES ASSUME I, I', [Next]_vars, phase # "idle"
               PROVE  /\ StepsLeft \in 1 .. (TIMEOUT_SECS + 4) * Len(apps) + 4
                      /\ \/ StepsLeft' \in Nat /\ StepsLeft' < StepsLeft
                         \/ UNCHANGED scriptVars
    OBVIOUS
  <2>1. StepsLeft \in 1 .. (TIMEOUT_SECS + 4) * Len(apps) + 4
    BY StepsLeftPositive DEF BoundInv
  <2>2. CASE Script
    BY <2>1, <2>2, ScriptDescends
  <2>3. CASE ~ Script
    BY <2>1, <2>3, OthersKeepScript
  <2> QED BY <2>1, <2>2, <2>3
<1> QED BY <1>3, <1>4, PTL DEF Spec, ReloadDescends
=============================================================================
