--------------------------- MODULE TunRoutesProofs --------------------------
(***************************************************************************)
(* Proofs about TunRoutes, for any networks, interfaces and handlers and   *)
(* any number of network changes.                                          *)
(***************************************************************************)
EXTENDS TunRoutes, TLAPS

(* The inductive invariant, its types and its control.                     *)

Slot == {"zero", "metric", "spare"}

(* Where run is only after the device has been closed.                     *)
Closed == {"Leave", "Unwind", "Cancel", "Join", "Returned", "Failed"}

(* The order of the start-up and of the end.                               *)
Phases ==
  /\ pc["run"] \in Closed => ~device
  /\ pc["run"] = "CancelFirst" => broken \/ ~device
  /\ cancelled /\ ~broken => ~device
  /\ pc["monitor"] = "Restore" => cancelled \/ broken

(* Who owns the receivers while the tunnel is built and works.             *)
Early == InSetup \cup {"ReadRoute", "Watch", "Stack", "Build"}
Working == {"Stack", "Build", "Select"}

Received ==
  /\ pc["run"] \in Early => \A h \in Handler : receiver[h] = "run"
  /\ LossReachesHandlers

(* What the monitor watches, and what it is about to watch.                *)
Present(a) == a = net \/ (a = Tun /\ device)

Watched ==
  /\ (pc["run"] \in {"Delete", "AddTunnel", "AddSpare", "Watch"} /\ ~missed)
       => default_ipaddr # None /\ Present(default_ipaddr)
  /\ (Watching /\ default_iface_up /\ ~missed)
       => default_ipaddr # None /\ Tracked(default_ipaddr)
  /\ pc["monitor"] \in {"Sleep", "ReadRoute", "ReadAddr"}
       => ip # None /\ Tracked(ip)

(* No route leads to where the host is not.                                *)
RoutesSound ==
  /\ \A t \in Slot : routes[t] \in {None, net, Tun}
  /\ ~device => \A t \in Slot : routes[t] # Tun
  /\ routes["metric"] # Tun
  /\ ~itself => routes["spare"] # Tun /\ default_gw # Tun

Clean == ~disturbed /\ ~itself /\ ~broken

(* A set-up that nothing disturbs keeps its own idea of the default route. *)
SetupSound ==
  Clean =>
    \A p \in Process :
      /\ pc[p] = "ReadAddr" => rt = Preferred
      /\ pc[p] \in {"Delete", "AddTunnel", "AddSpare"}
           => default_gw = net /\ net # None

InMain == routes["zero"] = net \/ routes["metric"] = net

(* The way back to the host's network is in a table, or in default_gw.     *)
WayBack ==
  (Clean /\ net # None /\ installed) =>
    /\ (/\ \A p \in Process : pc[p] \notin {"AddTunnel", "AddSpare"}
        /\ pc["monitor"] # "AddDefault")
         => InMain \/ (routes["spare"] = net /\ default_gw = net)
    /\ pc["monitor"] = "AddDefault"
         => InMain \/ (routes["zero"] = None /\ default_gw = net)
-----------------------------------------------------------------------------
LEMMA AddrPresent ==
  ASSUME TypeOK, NEW g, AddrOf(g) # None
  PROVE  AddrOf(g) \in Gateway /\ Present(AddrOf(g))
BY HostAssumption DEF TypeOK, AddrOf, Present, Gateway

LEMMA FlushType ==
  ASSUME TypeOK, NEW g
  PROVE  /\ Flush(routes, g) \in [Slot -> Gateway \cup {None}]
         /\ \A t \in Slot : Flush(routes, g)[t]
                             = IF routes[t] = g THEN None ELSE routes[t]
BY DEF TypeOK, Flush, Slot

LEMMA EventTypes ==
  ASSUME NEW a \in Gateway
  PROVE  Up(a) \in Event /\ Down(a) \in Event
BY DEF Up, Down, Event

LEMMA QueuedType ==
  ASSUME TypeOK, NEW e \in Event
  PROVE  Queued(e) \in Seq(Event)
BY DEF TypeOK, Queued

LEMMA CloseType ==
  ASSUME TypeOK, CloseDevice
  PROVE  /\ device' = FALSE /\ routes' \in [Slot -> Gateway \cup {None}]
         /\ events' \in Seq(Event) /\ woken' \in BOOLEAN
         /\ disturbed' \in BOOLEAN
<1>1. Down(Tun) \in Event
  BY EventTypes DEF Gateway
<1>2. events' \in Seq(Event)
  BY <1>1, QueuedType DEF CloseDevice
<1>3. routes' \in [Slot -> Gateway \cup {None}]
  BY FlushType DEF CloseDevice
<1> QED BY <1>2, <1>3 DEF CloseDevice, TypeOK, WokenByEvent, Disturbs

LEMMA TakeType ==
  ASSUME TypeOK, NEW e, Take(e)
  PROVE  events' \in Seq(Event)
BY DEF TypeOK, Take

LEMMA WithoutType ==
  ASSUME TypeOK, NEW gone
  PROVE  Without(gone) \in [Handler -> {"run", "future", "task", "dropped"}]
BY DEF TypeOK, Without

LEMMA HostTypes ==
  ASSUME TypeOK, Host
  PROVE  TypeOK'
<1> USE DEF TypeOK, hostVars, setupVars, cancelVars
<1>1. CASE LinkDown
  <2>1. net \in Gateway
    BY <1>1 DEF LinkDown, Gateway
  <2>2. events' \in Seq(Event)
    BY <1>1, <2>1, EventTypes, QueuedType DEF LinkDown
  <2>3. routes' \in [Slot -> Gateway \cup {None}]
    BY <1>1, FlushType DEF LinkDown
  <2>4. changes' \in 0 .. MaxChange
    BY <1>1, HostAssumption DEF LinkDown, HostChanges
  <2> QED BY <1>1, <2>2, <2>3, <2>4
          DEF LinkDown, HostChanges, Disturbs, WokenByEvent, Slot
<1>2. ASSUME NEW n \in Net, LinkUp(n) PROVE TypeOK'
  <2>1. n \in Gateway
    BY DEF Gateway
  <2>2. events' \in Seq(Event)
    BY <1>2, <2>1, EventTypes, QueuedType DEF LinkUp
  <2>4. changes' \in 0 .. MaxChange
    BY <1>2, HostAssumption DEF LinkUp, HostChanges
  <2>5. /\ woken' \in BOOLEAN /\ disturbed' \in BOOLEAN /\ missed' \in BOOLEAN
        /\ installed' \in BOOLEAN
    BY <1>2, Zenon DEF LinkUp, HostChanges, Disturbs, WokenByEvent
  <2>6. net' = n
    BY <1>2 DEF LinkUp
  <2>7. UNCHANGED <<routes, policy, device, pc, setupVars, receiver, cancelVars,
                    itself, broken>>
    BY <1>2, Zenon DEF LinkUp, HostChanges
  <2> QED BY <2>2, <2>4, <2>5, <2>6, <2>7
<1>3. CASE OsInstalls
  <2>1. routes' \in [Slot -> Gateway \cup {None}]
    BY <1>3 DEF OsInstalls, Slot, Gateway
  <2> QED BY <1>3, <2>1 DEF OsInstalls, Disturbs, Slot
<1> QED BY <1>1, <1>2, <1>3 DEF Host

LEMMA SetupTypes ==
  ASSUME TypeOK, NEW p \in Process, Setup(p)
  PROVE  TypeOK'
<1> USE DEF TypeOK, hostVars, setupVars, cancelVars, SetupFrame, Moves, Process,
            InSetup, Ended
<1>1. CASE ReadRoute(p)
  BY <1>1 DEF ReadRoute, Preferred
<1>2. CASE ReadAddr(p)
  <2>1. AddrOf(rt) \in Gateway
    BY <1>2, AddrPresent DEF ReadAddr
  <2> QED BY <1>2, <2>1 DEF ReadAddr
<1>3. CASE ReadAddrFails(p)
  <2>1. routes' \in [Slot -> Gateway \cup {None}]
    BY <1>3, FlushType DEF ReadAddrFails, Slot
  <2>2. receiver' \in [Handler -> {"run", "future", "task", "dropped"}]
    BY <1>3, WithoutType DEF ReadAddrFails
  <2> QED BY <1>3, <2>1, <2>2 DEF ReadAddrFails, Slot
<1>4. CASE DeleteDefault(p)
  BY <1>4 DEF DeleteDefault, WithoutMain
<1>5. CASE AddTunnel(p)
  BY <1>5 DEF AddTunnel, WithRoute, Gateway
<1>6. CASE AddSpare(p)
  BY <1>6 DEF AddSpare, WithSpare, WithRoute
<1> QED BY <1>1, <1>2, <1>3, <1>4, <1>5, <1>6 DEF Setup

LEMMA RunPassesTypes ==
  ASSUME TypeOK, NEW from, NEW to \in {"Build", "Returned"},
         Passes("run", from, to)
  PROVE  TypeOK'
BY DEF TypeOK, Passes, Moves, hostVars, setupVars, cancelVars, historyVars,
       Process, InSetup

LEMMA MonitorPassesTypes ==
  ASSUME TypeOK, NEW from, from # "New",
         NEW to \in Ended \cup {"ReadRoute", "Load", "Restore", "Inner", "Register"},
         Passes("monitor", from, to)
  PROVE  TypeOK'
BY DEF TypeOK, Passes, Moves, hostVars, setupVars, cancelVars, historyVars,
       Process, InSetup, Ended

LEMMA RunTypes ==
  ASSUME TypeOK, Run
  PROVE  TypeOK'
<1> USE DEF Process
<1>1. CASE Setup("run")
  BY <1>1, SetupTypes
<1>2. CASE CreateWatcher
  <2>1. net # None => net \in Gateway
    BY DEF TypeOK, Gateway
  <2>2. events' \in Seq(Event)
    BY <1>2, <2>1, EventTypes, Tun \in Gateway DEF CreateWatcher, Gateway
  <2>3. pc' = [pc EXCEPT !["run"] = "Stack", !["monitor"] = "Spawned"]
    BY <1>2 DEF CreateWatcher, SpawnMonitor
  <2>4. UNCHANGED <<routes, device, receiver, cancelVars, woken, disturbed, broken>>
        /\ RunFrame
    BY <1>2 DEF CreateWatcher
  <2> QED BY <2>2, <2>3, <2>4 DEF TypeOK, RunFrame, hostVars, setupVars, cancelVars,
             InSetup
<1>3. CASE ReturnsEarly \/ SelectEnds \/ RunFails \/ (DropSelf /\ device)
  <2>1. CloseDevice /\ UNCHANGED <<cancelVars, broken>> /\ RunFrame
        /\ \E to \in {"Failed", "Leave", "Unwind"} : pc' = [pc EXCEPT !["run"] = to]
    BY <1>3 DEF ReturnsEarly, DropSelf, SelectEnds, RunFails, Moves
  <2>2. /\ device' \in BOOLEAN /\ routes' \in [Slot -> Gateway \cup {None}]
        /\ events' \in Seq(Event) /\ woken' \in BOOLEAN
        /\ disturbed' \in BOOLEAN
    BY <2>1, CloseType
  <2>3. receiver' = receiver \/ receiver' = Without({"run"})
    BY <1>3 DEF ReturnsEarly, DropSelf, SelectEnds, RunFails
  <2>4. receiver' \in [Handler -> {"run", "future", "task", "dropped"}]
    BY <2>3, WithoutType DEF TypeOK
  <2> QED BY <2>1, <2>2, <2>4 DEF TypeOK, RunFrame, hostVars, setupVars, cancelVars,
             InSetup, Slot
<1>4. CASE StackFails \/ (DropSelf /\ ~device)
  <2>1. /\ \E to \in {"CancelFirst", "Failed"} : pc' = [pc EXCEPT !["run"] = to]
        /\ UNCHANGED <<routes, device, receiver, events, cancelVars, woken, disturbed>>
        /\ RunFrame
    BY <1>4 DEF StackFails, DropSelf, Moves
  <2>2. broken' \in BOOLEAN
    BY <1>4, Zenon DEF TypeOK, StackFails, DropSelf
  <2> QED BY <2>1, <2>2 DEF TypeOK, RunFrame, hostVars, setupVars, cancelVars, InSetup
<1>5. CASE StackBuilt \/ Join
  <2>1. \E from : \E to \in {"Build", "Returned"} : Passes("run", from, to)
    BY <1>5 DEF StackBuilt, Join
  <2> QED BY <2>1, RunPassesTypes
<1>6. CASE RuntimeDrops
  BY <1>6, MonitorPassesTypes DEF RuntimeDrops, Ended
<1>7. CASE \E h \in Handler : SpawnClear(h) \/ ClearEnds(h)
  <2>1. receiver' \in [Handler -> {"run", "future", "task", "dropped"}]
    BY <1>7 DEF TypeOK, SpawnClear, ClearEnds, WithClearTask
  <2>2. UNCHANGED <<routes, device, pc, events, cancelVars, woken, disturbed, broken>>
        /\ RunFrame
    BY <1>7 DEF SpawnClear, ClearEnds
  <2> QED BY <2>1, <2>2 DEF TypeOK, RunFrame, hostVars, setupVars, cancelVars
<1>8. CASE CancelMonitor
  <2>1. /\ cancelled' \in BOOLEAN /\ waker' \in BOOLEAN /\ woken' \in BOOLEAN
        /\ UNCHANGED <<routes, device, receiver, events, disturbed, broken>> /\ RunFrame
    BY <1>8, Zenon DEF TypeOK, CancelMonitor, WokenByCancel
  <2>2. \E to \in {"Join", "DropReceivers"} : pc' = [pc EXCEPT !["run"] = to]
    BY <1>8 DEF CancelMonitor, Moves
  <2> QED BY <2>1, <2>2 DEF TypeOK, RunFrame, hostVars, setupVars, InSetup
<1>9. CASE Built \/ DropFutures \/ DropReceivers
  <2>1. receiver' \in [Handler -> {"run", "future", "task", "dropped"}]
    BY <1>9, WithoutType DEF Built, DropFutures, DropReceivers
  <2>2. \E to \in {"Select", "Cancel", "CancelFirst", "DropSelf"} :
          pc' = [pc EXCEPT !["run"] = to]
    BY <1>9 DEF Built, DropFutures, DropReceivers, Moves
  <2>3. UNCHANGED <<routes, device, events, cancelVars, woken, disturbed, broken>>
        /\ RunFrame
    BY <1>9 DEF Built, DropFutures, DropReceivers
  <2> QED BY <2>1, <2>2, <2>3 DEF TypeOK, RunFrame, hostVars, setupVars, cancelVars,
             InSetup
<1> QED BY <1>1, <1>2, <1>3, <1>4, <1>5, <1>6, <1>7, <1>8, <1>9 DEF Run

LEMMA MonitorTypes ==
  ASSUME TypeOK, Monitor
  PROVE  TypeOK'
<1> USE DEF Process
<1>1. CASE Setup("monitor")
  BY <1>1, SetupTypes
<1>2. CASE PollFirst \/ Load \/ InnerPending \/ WakeUp
  <2> DEFINE To == Ended \cup {"ReadRoute", "Load", "Restore", "Inner", "Register"}
  <2>1. \E from : from # "New" /\ \E to \in To : Passes("monitor", from, to)
    BY <1>2 DEF PollFirst, Load, InnerPending, WakeUp
  <2> QED BY <2>1, MonitorPassesTypes
<1>3. CASE Register
  BY <1>3 DEF TypeOK, Register, Moves, MonitorFrame, hostVars, setupVars
<1>4. CASE PollAgain
  <2>1. /\ woken' \in BOOLEAN /\ Moves("monitor", "Parked", "Load") /\ MonitorFrame
        /\ UNCHANGED <<routes, setupVars, events, cancelVars, broken>>
    BY <1>4, Zenon DEF PollAgain
  <2> QED BY <2>1 DEF TypeOK, Moves, MonitorFrame, hostVars, setupVars, cancelVars
<1>5. ASSUME NEW a \in Gateway, TakeUp(a) PROVE TypeOK'
  <2>1. BackUp => AddrOf(default_gw) \in Gateway
    BY AddrPresent DEF BackUp
  <2>2. events' \in Seq(Event)
    BY <1>5, TakeType DEF TakeUp
  <2> QED BY <1>5, <2>1, <2>2 DEF TypeOK, TakeUp, Moves, MonitorFrame, hostVars,
             cancelVars
<1>6. ASSUME NEW a \in Gateway, TakeDown(a) PROVE TypeOK'
  <2>2. events' \in Seq(Event)
    BY <1>6, TakeType DEF TakeDown
  <2>3. /\ pc["monitor"] = "Inner" /\ default_iface_up' \in BOOLEAN
        /\ \E to \in {"Panicked", "Load"} : pc' = [pc EXCEPT !["monitor"] = to]
        /\ UNCHANGED <<routes, rt, default_gw, default_ipaddr, ip, cancelVars, woken,
                       broken>>
        /\ MonitorFrame
    BY <1>6, Zenon DEF TypeOK, TakeDown, UpAfterLoss, Moves
  <2> QED BY <2>2, <2>3 DEF TypeOK, MonitorFrame, hostVars, cancelVars, Ended
<1>7. CASE WatcherFails
  BY <1>7 DEF TypeOK, WatcherFails, Moves, MonitorFrame, hostVars, setupVars,
         cancelVars
<1>8. CASE DeleteSpare
  BY <1>8 DEF TypeOK, DeleteSpare, WithoutSpare, Moves, MonitorFrame, hostVars,
         setupVars, cancelVars
<1>9. CASE AddDefault
  BY <1>9 DEF TypeOK, AddDefault, WithRoute, Moves, MonitorFrame, hostVars,
         setupVars, cancelVars, Ended
<1> QED BY <1>1, <1>2, <1>3, <1>4, <1>5, <1>6, <1>7, <1>8, <1>9 DEF Monitor

THEOREM NextTypes == TypeOK /\ [Next]_vars => TypeOK'
<1> SUFFICES ASSUME TypeOK, [Next]_vars PROVE TypeOK'
  OBVIOUS
<1>1. CASE UNCHANGED vars
  BY <1>1 DEF TypeOK, vars, hostVars, setupVars, cancelVars, historyVars
<1> QED BY <1>1, HostTypes, RunTypes, MonitorTypes DEF Next
-----------------------------------------------------------------------------
(* The device is closed before the monitor is cancelled.                   *)
LEMMA PhasesQuiet ==
  ASSUME TypeOK, Phases, UNCHANGED <<pc, device, cancelled, broken>>
  PROVE  Phases'
BY DEF Phases

LEMMA PhasesMonitor ==
  ASSUME TypeOK, Phases, UNCHANGED <<device, cancelled>>, broken => broken',
         NEW to, pc' = [pc EXCEPT !["monitor"] = to],
         to = "Restore" => cancelled \/ broken'
  PROVE  Phases'
BY DEF Phases, TypeOK, Process

LEMMA PhasesRun ==
  ASSUME TypeOK, Phases, UNCHANGED <<device, cancelled, broken>>,
         NEW to, pc' = [pc EXCEPT !["run"] = to],
         to \in Closed => ~device,
         to = "CancelFirst" => broken \/ ~device
  PROVE  Phases'
BY DEF Phases, TypeOK, Process

LEMMA PhasesCloses ==
  ASSUME TypeOK, Phases, UNCHANGED <<cancelled, broken>>, device' = FALSE,
         NEW to, pc' = [pc EXCEPT !["run"] = to], to \in Closed
  PROVE  Phases'
BY DEF Phases, TypeOK, Process, Closed

LEMMA PhasesSetup ==
  ASSUME TypeOK, Phases, NEW p \in Process, Setup(p)
  PROVE  Phases'
<1>1. UNCHANGED <<cancelled, broken>>
  BY DEF Setup, ReadRoute, ReadAddr, ReadAddrFails, DeleteDefault, AddTunnel,
         AddSpare, SetupFrame, cancelVars
<1>2. CASE p = "run" /\ ReadAddrFails(p)
  <2>1. device' = FALSE /\ pc' = [pc EXCEPT !["run"] = "Failed"]
    BY <1>2, Zenon DEF ReadAddrFails, Moves
  <2> QED BY <1>1, <2>1, PhasesCloses, "Failed" \in Closed, Zenon DEF Closed
<1>3. CASE p = "run" /\ ~ReadAddrFails(p)
  <2>1. UNCHANGED device
        /\ \E to \in InSetup \cup {"Watch"} : pc' = [pc EXCEPT !["run"] = to]
    BY <1>3 DEF Setup, ReadRoute, ReadAddr, DeleteDefault, AddTunnel, AddSpare, Moves,
                InSetup
  <2> QED BY <1>1, <2>1, PhasesRun DEF InSetup, Closed
<1>4. CASE p = "monitor"
  <2>1. UNCHANGED device
        /\ \E to \in InSetup \cup {"Load"} : pc' = [pc EXCEPT !["monitor"] = to]
    BY <1>4, Zenon DEF Setup, ReadRoute, ReadAddr, ReadAddrFails, DeleteDefault, AddTunnel,
                AddSpare, Moves, InSetup, TypeOK
  <2> QED BY <1>1, <2>1, PhasesMonitor, Zenon DEF InSetup
<1> QED BY <1>2, <1>3, <1>4 DEF Process

LEMMA NextPhases ==
  ASSUME TypeOK, Phases, [Next]_vars
  PROVE  Phases'
<1> USE DEF hostVars, setupVars, cancelVars, historyVars
<1>1. CASE \/ Host \/ UNCHANGED vars
           \/ \E h \in Handler : SpawnClear(h) \/ ClearEnds(h)
  <2>1. UNCHANGED <<pc, device, cancelled, broken>>
    BY <1>1 DEF Host, LinkDown, LinkUp, OsInstalls, HostChanges, SpawnClear, ClearEnds,
           vars
  <2> QED BY <2>1, PhasesQuiet
<1>2. CASE Setup("run") \/ Setup("monitor")
  BY <1>2, PhasesSetup DEF Process
<1>3. CASE CreateWatcher
  <2>1. UNCHANGED <<device, cancelled, broken>> /\ pc["run"] = "Watch"
        /\ pc' = [pc EXCEPT !["run"] = "Stack", !["monitor"] = "Spawned"]
    BY <1>3 DEF CreateWatcher, SpawnMonitor
  <2> QED BY <2>1 DEF Phases, TypeOK, Process, Closed
<1>4. CASE ReturnsEarly \/ SelectEnds \/ RunFails \/ DropSelf
  <2>1. UNCHANGED <<cancelled, broken>> /\ device' = FALSE
    BY <1>4 DEF ReturnsEarly, DropSelf, SelectEnds, RunFails, CloseDevice, TypeOK
  <2>2. \E to \in Closed : pc' = [pc EXCEPT !["run"] = to]
    BY <1>4 DEF ReturnsEarly, DropSelf, SelectEnds, RunFails, Moves, Closed
  <2> QED BY <2>1, <2>2, PhasesCloses, Zenon
<1>5. CASE StackBuilt \/ Built \/ Join \/ DropFutures \/ DropReceivers
  <2>1. UNCHANGED <<device, cancelled, broken>>
    BY <1>5 DEF StackBuilt, Built, Join, DropFutures, DropReceivers, Passes
  <2>2. \/ \E to \in {"Build", "Select", "DropSelf"} : pc' = [pc EXCEPT !["run"] = to]
        \/ /\ pc["run"] \in {"Join", "Leave", "Unwind"}
           /\ \E to \in {"Returned", "Cancel", "CancelFirst"} :
                pc' = [pc EXCEPT !["run"] = to]
    BY <1>5 DEF StackBuilt, Built, Join, DropFutures, DropReceivers, Passes, Moves
  <2>3. pc["run"] \in {"Join", "Leave", "Unwind"} => ~device
    BY DEF Phases, Closed
  <2> QED BY <2>1, <2>2, <2>3, PhasesRun DEF Closed
<1>6. CASE StackFails
  <2>1. UNCHANGED <<device, cancelled>> /\ broken'
        /\ pc' = [pc EXCEPT !["run"] = "CancelFirst"]
    BY <1>6 DEF StackFails, Moves
  <2> QED BY <2>1 DEF Phases, TypeOK, Process, Closed
<1>7. CASE CancelMonitor
  <2>1. UNCHANGED <<device, broken>> /\ cancelled'
    BY <1>7 DEF CancelMonitor
  <2>2. \/ pc["run"] = "Cancel" /\ pc' = [pc EXCEPT !["run"] = "Join"]
        \/ /\ pc["run"] = "CancelFirst"
           /\ pc' = [pc EXCEPT !["run"] = "DropReceivers"]
    BY <1>7 DEF CancelMonitor, Moves
  <2> QED BY <2>1, <2>2 DEF Phases, TypeOK, Process, Closed
<1>8. CASE RuntimeDrops \/ PollFirst \/ Load \/ InnerPending \/ WakeUp \/ Register
  <2>1. UNCHANGED <<device, cancelled>> /\ (broken => broken')
    BY <1>8 DEF RuntimeDrops, PollFirst, Load, InnerPending, WakeUp, Register,
           Passes, MonitorFrame
  <2>2. \E to : /\ pc' = [pc EXCEPT !["monitor"] = to]
                /\ to = "Restore" => cancelled \/ broken'
    <3>1. CASE Load
      <4>1. pc' = [pc EXCEPT !["monitor"] = IF cancelled THEN "Restore" ELSE "Inner"]
        BY <3>1 DEF Load, Passes, Moves
      <4>2. CASE cancelled
        <5>1. pc' = [pc EXCEPT !["monitor"] = "Restore"]
          BY <4>1, <4>2
        <5> QED BY <4>2, <5>1, Zenon
      <4>3. CASE ~cancelled
        <5>1. pc' = [pc EXCEPT !["monitor"] = "Inner"]
          BY <4>1, <4>3
        <5> QED BY <5>1, "Inner" # "Restore", Zenon
      <4> QED BY <4>2, <4>3
    <3>2. CASE RuntimeDrops
      BY <3>2, Zenon DEF RuntimeDrops, Passes, Moves
    <3>3. CASE PollFirst \/ InnerPending
      BY <3>3, Zenon DEF PollFirst, InnerPending, Passes, Moves
    <3>4. CASE WakeUp \/ Register
      BY <3>4, Zenon DEF WakeUp, Register, Passes, Moves
    <3> QED BY <1>8, <3>1, <3>2, <3>3, <3>4, Zenon
  <2> QED BY <2>1, <2>2, PhasesMonitor, Zenon
<1>10. CASE \/ PollAgain \/ DeleteSpare \/ AddDefault \/ WatcherFails
            \/ \E a \in Gateway : TakeUp(a) \/ TakeDown(a)
  <2>1. UNCHANGED <<device, cancelled>> /\ (broken => broken')
    BY <1>10 DEF PollAgain, DeleteSpare, AddDefault, WatcherFails, TakeUp, TakeDown,
           MonitorFrame
  <2>2. \E to : /\ pc' = [pc EXCEPT !["monitor"] = to]
                /\ to = "Restore" => cancelled \/ broken'
    BY <1>10, Zenon DEF PollAgain, DeleteSpare, AddDefault, WatcherFails, TakeUp,
           TakeDown, Moves
  <2> QED BY <2>1, <2>2, PhasesMonitor, Zenon
<1> QED BY <1>1, <1>2, <1>3, <1>4, <1>5, <1>6, <1>7, <1>8, <1>10
        DEF Next, Run, Monitor
-----------------------------------------------------------------------------
(* The receivers.                                                          *)
LEMMA ReceivedMonitor ==
  ASSUME Received, UNCHANGED receiver, pc'["run"] = pc["run"],
         Watching' => Watching,
         (pc'["monitor"] = "Panicked" /\ pc["run"] \in Working)
           => pc["monitor"] = "Panicked"
  PROVE  Received'
BY DEF Received, LossReachesHandlers, Working

LEMMA ReceivedEarly ==
  ASSUME Received, UNCHANGED receiver, pc["run"] \in Early, pc'["run"] \in Early,
         pc'["monitor"] # "Panicked"
  PROVE  Received'
BY DEF Received, LossReachesHandlers, Early

LEMMA ReceivedLeft ==
  ASSUME pc'["run"] \notin Early \cup Working
  PROVE  Received'
BY DEF Received, LossReachesHandlers, Working

LEMMA NextReceived ==
  ASSUME TypeOK, Received, [Next]_vars
  PROVE  Received'
<1> USE DEF hostVars, setupVars, cancelVars, historyVars
<1>1. CASE Host \/ UNCHANGED vars
  <2>1. UNCHANGED <<pc, receiver>>
    BY <1>1 DEF Host, LinkDown, LinkUp, OsInstalls, HostChanges, vars
  <2> QED BY <2>1, ReceivedMonitor DEF Watching
<1>2. CASE Setup("run") \/ CreateWatcher \/ StackBuilt
  <2>1. pc["monitor"] # "Panicked" /\ pc["run"] \in Early
    BY <1>2 DEF Setup, ReadRoute, ReadAddr, ReadAddrFails, DeleteDefault, AddTunnel,
           AddSpare, CreateWatcher, SpawnMonitor, StackBuilt, Passes, Moves, TypeOK,
           Received, LossReachesHandlers, Early, InSetup
  <2>2. CASE ReadAddrFails("run")
    <3>1. pc' = [pc EXCEPT !["run"] = "Failed"]
      BY <2>2 DEF ReadAddrFails, Moves
    <3>2. pc'["run"] = "Failed"
      BY <3>1 DEF TypeOK, Process
    <3> QED BY <3>2, ReceivedLeft DEF Early, Working, InSetup
  <2>3. CASE ~ReadAddrFails("run")
    <3>1. UNCHANGED receiver
      BY <1>2, <2>3 DEF Setup, ReadRoute, ReadAddr, DeleteDefault, AddTunnel, AddSpare,
             CreateWatcher, StackBuilt, Passes
    <3>2. \/ \E to \in Early : pc' = [pc EXCEPT !["run"] = to]
          \/ pc' = [pc EXCEPT !["run"] = "Stack", !["monitor"] = "Spawned"]
      BY <1>2, <2>3 DEF Setup, ReadRoute, ReadAddr, DeleteDefault, AddTunnel, AddSpare,
             CreateWatcher, SpawnMonitor, StackBuilt, Passes, Moves, Early, InSetup
    <3>3. pc'["run"] \in Early /\ pc'["monitor"] \in {pc["monitor"], "Spawned"}
      BY <3>2 DEF TypeOK, Process, Early
    <3> QED BY <2>1, <3>1, <3>3, ReceivedEarly
  <2> QED BY <2>2, <2>3
<1>3. CASE Built
  <2>1. pc["run"] = "Build" /\ pc' = [pc EXCEPT !["run"] = "Select"]
        /\ receiver' = [h \in Handler |-> "future"]
    BY <1>3 DEF Built, Moves
  <2>2. pc'["run"] = "Select" /\ pc'["monitor"] = pc["monitor"]
    BY <2>1 DEF TypeOK, Process
  <2>3. pc["monitor"] # "Panicked"
    BY <2>1 DEF Received, LossReachesHandlers
  <2> QED BY <2>1, <2>2, <2>3 DEF Received, LossReachesHandlers, Early, InSetup
<1>4. ASSUME NEW h \in Handler, SpawnClear(h) PROVE Received'
  <2>1. pc["run"] = "Select" /\ UNCHANGED pc
        /\ receiver' = [receiver EXCEPT ![h] = "task"]
    BY <1>4 DEF SpawnClear, WithClearTask
  <2>2. \A g \in Handler : receiver'[g] \in {receiver[g], "task"}
    BY <2>1 DEF TypeOK
  <2>3. Watching' <=> Watching
    BY <2>1 DEF Watching
  <2> QED BY <2>1, <2>2, <2>3 DEF Received, LossReachesHandlers, Early, InSetup
<1>5. ASSUME NEW h \in Handler, ClearEnds(h) PROVE Received'
  <2>1. receiver[h] = "task" /\ UNCHANGED pc
        /\ (pc["monitor"] \in Ended \/ pc["run"] = "Failed")
    BY <1>5 DEF ClearEnds
  <2>2. pc["run"] \notin Early
    BY <2>1 DEF Received
  <2>3. pc["run"] \in Working => ~Watching'
    BY <2>1 DEF Watching, Working
  <2> QED BY <2>1, <2>2, <2>3 DEF Received, LossReachesHandlers, Working
<1>6. CASE \/ ReturnsEarly \/ SelectEnds \/ RunFails \/ StackFails \/ DropFutures
           \/ DropReceivers \/ DropSelf \/ CancelMonitor \/ Join
  <2>1. \E to \in Closed \cup {"CancelFirst", "DropReceivers", "DropSelf"} :
          pc' = [pc EXCEPT !["run"] = to]
    BY <1>6 DEF ReturnsEarly, SelectEnds, RunFails, StackFails, DropFutures,
           DropReceivers, DropSelf, CancelMonitor, Join, Passes, Moves, Closed
  <2>2. pc'["run"] \notin Early \cup Working
    BY <2>1 DEF TypeOK, Process, Closed, Early, Working, InSetup
  <2> QED BY <2>2, ReceivedLeft
<1>7. CASE \/ RuntimeDrops \/ PollFirst \/ Load \/ InnerPending \/ WakeUp \/ Register
           \/ PollAgain \/ DeleteSpare \/ AddDefault \/ WatcherFails
           \/ Setup("monitor") \/ \E a \in Gateway : TakeUp(a)
  <2>1. UNCHANGED receiver
    <3>1. CASE Setup("monitor")
      BY <3>1 DEF Setup, ReadRoute, ReadAddr, ReadAddrFails, DeleteDefault, AddTunnel,
             AddSpare
    <3>2. CASE RuntimeDrops \/ PollFirst \/ Load \/ InnerPending \/ WakeUp
      BY <3>2 DEF RuntimeDrops, PollFirst, Load, InnerPending, WakeUp, Passes
    <3>3. CASE \/ Register \/ PollAgain \/ DeleteSpare \/ AddDefault \/ WatcherFails
               \/ \E a \in Gateway : TakeUp(a)
      BY <3>3 DEF Register, PollAgain, DeleteSpare, AddDefault, WatcherFails, TakeUp,
             MonitorFrame
    <3> QED BY <1>7, <3>1, <3>2, <3>3, Zenon
  <2>2. /\ pc["monitor"] \notin {"New"} \cup Ended
        /\ \E to : to # "Panicked" /\ pc' = [pc EXCEPT !["monitor"] = to]
    <3>1. CASE Setup("monitor")
      BY <3>1 DEF Setup, ReadRoute, ReadAddr, ReadAddrFails, DeleteDefault, AddTunnel,
             AddSpare, Moves, Ended
    <3>2. CASE RuntimeDrops \/ PollFirst \/ Load \/ InnerPending \/ WakeUp
      BY <3>2 DEF RuntimeDrops, PollFirst, Load, InnerPending, WakeUp, Passes, Moves,
             Ended
    <3>3. CASE \/ Register \/ PollAgain \/ DeleteSpare \/ AddDefault \/ WatcherFails
               \/ \E a \in Gateway : TakeUp(a)
      BY <3>3 DEF Register, PollAgain, DeleteSpare, AddDefault, WatcherFails, TakeUp,
             Moves, Ended
    <3> QED BY <1>7, <3>1, <3>2, <3>3, Zenon
  <2>3. pc'["run"] = pc["run"] /\ pc'["monitor"] # "Panicked" /\ Watching
    BY <2>2 DEF TypeOK, Process, Watching
  <2> QED BY <2>1, <2>3, ReceivedMonitor
<1>8. ASSUME NEW a \in Gateway, TakeDown(a) PROVE Received'
  <2>1. pc["monitor"] = "Inner" /\ UNCHANGED receiver
    BY <1>8 DEF TakeDown, MonitorFrame, Moves
  <2>2. Watching
    BY <2>1 DEF Watching, Ended
  <2>3. pc["run"] \in Working => HasReceiver
    BY <2>2, HostAssumption DEF Received, LossReachesHandlers, Working, HasReceiver
  <2>4. \/ pc' = [pc EXCEPT !["monitor"] = "Load"]
        \/ pc' = [pc EXCEPT !["monitor"] = "Panicked"] /\ ~HasReceiver
    BY <1>8, Zenon DEF TakeDown, Moves
  <2>5. /\ pc'["run"] = pc["run"]
        /\ pc'["monitor"] = "Panicked" => pc["run"] \notin Working
    BY <2>3, <2>4 DEF TypeOK, Process
  <2> QED BY <2>1, <2>2, <2>5, ReceivedMonitor
<1> QED BY <1>1, <1>2, <1>3, <1>4, <1>5, <1>6, <1>7, <1>8 DEF Next, Run, Monitor
-----------------------------------------------------------------------------
(* The watch and the routes.                                               *)

(* An address stays tracked whatever happens to the host and the queue, as *)
(* long as its own Down event is not taken.                                *)
TrackedIn(a, n, d, ev) ==
  a = n \/ (a = Tun /\ d) \/ \E i \in 1 .. Len(ev) : ev[i] = Down(a)

LEMMA AppendKeeps ==
  ASSUME NEW a, NEW n, NEW d, NEW ev \in Seq(Event), NEW e, TrackedIn(a, n, d, ev),
         NEW m, a = n => a = m \/ e = Down(a),
         NEW c, (a = Tun /\ d) => c \/ e = Down(a)
  PROVE  TrackedIn(a, m, c, Append(ev, e))
<1> DEFINE more == Append(ev, e)
<1>1. /\ Len(ev) \in Nat /\ Len(more) = Len(ev) + 1 /\ more[Len(ev) + 1] = e
      /\ \A i \in 1 .. Len(ev) : more[i] = ev[i]
  OBVIOUS
<1> HIDE DEF more
<1>2. CASE e = Down(a)
  <2>1. Len(ev) + 1 \in 1 .. Len(more)
    BY <1>1
  <2> QED BY <1>1, <1>2, <2>1 DEF TrackedIn, more
<1>3. ASSUME NEW i \in 1 .. Len(ev), ev[i] = Down(a)
      PROVE  TrackedIn(a, m, c, more)
  BY <1>1, <1>3, i \in 1 .. Len(more) DEF TrackedIn
<1> QED BY <1>2, <1>3 DEF TrackedIn, more

LEMMA TailKeeps ==
  ASSUME NEW a, NEW n, NEW d, NEW ev \in Seq(Event), ev # <<>>, Head(ev) # Down(a),
         TrackedIn(a, n, d, ev)
  PROVE  TrackedIn(a, n, d, Tail(ev))
<1>1. Len(ev) \in Nat /\ Len(ev) >= 1 /\ Len(Tail(ev)) = Len(ev) - 1
      /\ Head(ev) = ev[1]
  OBVIOUS
<1>2. \A i \in 1 .. Len(ev) - 1 : Tail(ev)[i] = ev[i + 1]
  BY <1>1
<1>3. ASSUME NEW i \in 1 .. Len(ev), ev[i] = Down(a)
      PROVE  TrackedIn(a, n, d, Tail(ev))
  <2>1. i # 1
    BY <1>1, <1>3
  <2>2. i - 1 \in 1 .. Len(Tail(ev)) /\ (i - 1) + 1 = i
    BY <1>1, <2>1
  <2>3. Tail(ev)[i - 1] = Down(a)
    BY <1>1, <1>2, <1>3, <2>2
  <2> QED BY <2>2, <2>3 DEF TrackedIn
<1> QED BY <1>3 DEF TrackedIn

LEMMA EventsDiffer ==
  \A a, b : Up(a) # Down(b) /\ (Down(a) = Down(b) => a = b)
BY DEF Up, Down

LEMMA TrackedMeans ==
  ASSUME TypeOK
  PROVE  \A a : Tracked(a) <=> TrackedIn(a, net, device, events)
BY DEF TypeOK, Tracked, TrackedIn

LEMMA WatchedQuiet ==
  ASSUME Watched,
         UNCHANGED <<net, device, events, default_ipaddr, default_iface_up, ip,
                     missed>>,
         pc'["run"] \in {"Delete", "AddTunnel", "AddSpare", "Watch"}
           => pc["run"] \in {"Delete", "AddTunnel", "AddSpare", "Watch"},
         Watching' => Watching,
         pc'["monitor"] \in {"Sleep", "ReadRoute", "ReadAddr"}
           => pc["monitor"] \in {"Sleep", "ReadRoute", "ReadAddr"}
  PROVE  Watched'
BY DEF Watched, Present, Tracked

(* A change of the host or the device that the watcher reports.            *)
LEMMA WatchedReported ==
  ASSUME TypeOK, Watched, TypeOK', NEW e,
         events' = Queued(e),
         UNCHANGED <<default_ipaddr, default_iface_up, ip>>,
         pc'["monitor"] = pc["monitor"],
         missed => missed',
         pc'["run"] \in {"Delete", "AddTunnel", "AddSpare", "Watch"} => missed',
         net' # net => net = None \/ e = Down(net),
         device /\ ~device' => e = Down(Tun),
         ~device => ~device'
  PROVE  Watched'
<1>1. ASSUME Watching, NEW a, a # None, Tracked(a)
      PROVE  TrackedIn(a, net', device', events')
  <2>1. TrackedIn(a, net, device, events) /\ events \in Seq(Event)
    BY <1>1, TrackedMeans DEF TypeOK
  <2>2. events' = Append(events, e)
    BY <1>1 DEF Queued
  <2>3. a = net => a = net' \/ e = Down(a)
    BY <1>1
  <2>4. (a = Tun /\ device) => device' \/ e = Down(a)
    OBVIOUS
  <2> QED BY <2>1, <2>2, <2>3, <2>4, AppendKeeps
<1>2. \A a : TrackedIn(a, net', device', events') => Tracked(a)'
  BY DEF TypeOK, Tracked, TrackedIn
<1>3. Watching' <=> Watching
  BY DEF Watching
<1>4. ((Watching /\ default_iface_up /\ ~missed)
          => default_ipaddr # None /\ Tracked(default_ipaddr))'
  BY <1>1, <1>2, <1>3 DEF Watched
<1>5. (pc["monitor"] \in {"Sleep", "ReadRoute", "ReadAddr"}
          => ip # None /\ Tracked(ip))'
  <2>1. pc["monitor"] \in {"Sleep", "ReadRoute", "ReadAddr"} => Watching
    BY DEF Watching, Ended
  <2> QED BY <1>1, <1>2, <2>1 DEF Watched
<1> QED BY <1>4, <1>5 DEF Watched

LEMMA WatchedTake ==
  ASSUME TypeOK, Watched, TypeOK', NEW e, Take(e), e # Down(default_ipaddr),
         UNCHANGED <<net, device, default_ipaddr, default_iface_up, missed>>,
         NEW to, pc' = [pc EXCEPT !["monitor"] = to],
         to = "Sleep" => ip' # None /\ Present(ip'),
         to \notin {"ReadRoute", "ReadAddr"}
  PROVE  Watched'
<1>1. pc["monitor"] = "Inner" /\ events # <<>> /\ e = Head(events)
      /\ events' = Tail(events) /\ events \in Seq(Event)
  BY DEF Take, TypeOK
<1>2. pc'["run"] = pc["run"] /\ pc'["monitor"] = to
  BY DEF TypeOK, Process
<1>3. Watching
  BY <1>1 DEF Watching, Ended
<1>4. Tracked(default_ipaddr) => Tracked(default_ipaddr)'
  <2>1. TrackedIn(default_ipaddr, net, device, events)
          => TrackedIn(default_ipaddr, net, device, Tail(events))
    BY <1>1, TailKeeps
  <2>2. Tracked(default_ipaddr) => TrackedIn(default_ipaddr, net, device, events)
    BY TrackedMeans
  <2>3. TrackedIn(default_ipaddr, net, device, events') => Tracked(default_ipaddr)'
    BY DEF TypeOK, Tracked, TrackedIn
  <2> QED BY <1>1, <2>1, <2>2, <2>3
<1>5. Present(ip') => Tracked(ip)'
  BY DEF Present, Tracked
<1> QED BY <1>2, <1>3, <1>4, <1>5 DEF Watched, Present

LEMMA WatchedHost ==
  ASSUME TypeOK, TypeOK', Watched, Host
  PROVE  Watched'
<1> USE DEF hostVars, setupVars, cancelVars
<1>1. CASE LinkDown
  <2>1. /\ events' = Queued(Down(net)) /\ UNCHANGED <<device, pc>>
        /\ UNCHANGED <<default_ipaddr, default_iface_up, ip>>
        /\ missed' = (missed \/ pc["run"] \in {"Delete", "AddTunnel", "AddSpare",
                                               "Watch"})
    BY <1>1 DEF LinkDown, HostChanges
  <2> QED BY <2>1, WatchedReported, Zenon
<1>2. ASSUME NEW n \in Net, LinkUp(n) PROVE Watched'
  <2>1. /\ events' = Queued(Up(n)) /\ UNCHANGED <<device, pc>> /\ net = None
        /\ UNCHANGED <<default_ipaddr, default_iface_up, ip>>
        /\ missed' = (missed \/ pc["run"] \in {"Delete", "AddTunnel", "AddSpare",
                                               "Watch"})
    BY <1>2 DEF LinkUp, HostChanges
  <2> QED BY <2>1, WatchedReported, Zenon
<1>3. CASE OsInstalls
  BY <1>3, WatchedQuiet DEF OsInstalls, Watching
<1> QED BY <1>1, <1>2, <1>3 DEF Host

LEMMA WatchedSetup ==
  ASSUME TypeOK, TypeOK', Watched, NEW p \in Process, Setup(p)
  PROVE  Watched'
<1> USE DEF hostVars, setupVars, cancelVars, Moves, SetupFrame, Process
<1>1. CASE ReadAddr(p) /\ p = "run"
  <2>1. /\ default_ipaddr' = AddrOf(rt) /\ AddrOf(rt) # None
        /\ UNCHANGED <<net, device, missed>>
        /\ pc'["monitor"] = pc["monitor"] /\ pc["monitor"] = "New"
    BY <1>1 DEF ReadAddr, TypeOK, InSetup
  <2>2. Present(AddrOf(rt))
    BY <2>1, AddrPresent
  <2> QED BY <2>1, <2>2 DEF Watched, Watching, Present
<1>2. CASE ReadAddr(p) /\ p = "monitor"
  <2>1. /\ default_ipaddr' = ip /\ pc["monitor"] = "ReadAddr"
        /\ UNCHANGED <<net, device, missed, events>>
        /\ pc'["monitor"] = "Delete" /\ pc'["run"] = pc["run"]
        /\ pc["run"] \notin InSetup \cup {"ReadRoute", "Watch"}
    BY <1>2 DEF ReadAddr, TypeOK
  <2>2. ip # None /\ Tracked(ip)
    BY <2>1 DEF Watched
  <2> QED BY <2>1, <2>2 DEF Watched, Tracked, InSetup
<1>3. CASE ReadAddrFails(p) /\ p = "run"
  <2>1. pc'["run"] = "Failed" /\ pc'["monitor"] = pc["monitor"]
        /\ pc["monitor"] = "New"
    BY <1>3 DEF ReadAddrFails, TypeOK, InSetup
  <2> QED BY <2>1 DEF Watched, Watching
<1>4. CASE ~ReadAddr(p) /\ ~(ReadAddrFails(p) /\ p = "run")
  <2>1. UNCHANGED <<net, device, events, default_ipaddr, default_iface_up, ip, missed>>
    BY <1>4 DEF Setup, ReadRoute, ReadAddrFails, DeleteDefault, AddTunnel, AddSpare,
                TypeOK
  <2>2. /\ pc'["run"] \in {"Delete", "AddTunnel", "AddSpare", "Watch"}
             => pc["run"] \in {"Delete", "AddTunnel", "AddSpare", "Watch"}
        /\ Watching' => Watching
        /\ pc'["monitor"] \in {"Sleep", "ReadRoute", "ReadAddr"}
             => pc["monitor"] \in {"Sleep", "ReadRoute", "ReadAddr"}
    <3>1. \E from \in {"ReadRoute", "ReadAddr", "Delete", "AddTunnel", "AddSpare"} :
            /\ pc[p] = from
            /\ \E to \in {"ReadAddr", "AddTunnel", "AddSpare", "Watch", "Load"} :
                 /\ pc' = [pc EXCEPT ![p] = to]
                 /\ p = "run" /\ to # "ReadAddr" => from # "ReadRoute"
                 /\ p = "run" => from # "ReadAddr"
                 /\ p = "monitor" /\ to = "ReadAddr" => from = "ReadRoute"
      BY <1>4 DEF Setup, ReadRoute, ReadAddrFails, DeleteDefault, AddTunnel, AddSpare
    <3>2. CASE p = "run"
      <4>1. pc'["monitor"] = pc["monitor"]
        BY <3>1, <3>2 DEF TypeOK
      <4>2. pc'["run"] \in {"Delete", "AddTunnel", "AddSpare", "Watch"}
               => pc["run"] \in {"Delete", "AddTunnel", "AddSpare", "Watch"}
        BY <3>1, <3>2 DEF TypeOK
      <4> QED BY <4>1, <4>2 DEF Watching
    <3>3. CASE p = "monitor"
      <4>1. pc'["run"] = pc["run"] /\ Watching
        BY <3>1, <3>3 DEF TypeOK, Watching, Ended
      <4>2. pc'["monitor"] \in {"Sleep", "ReadRoute", "ReadAddr"}
               => pc["monitor"] \in {"Sleep", "ReadRoute", "ReadAddr"}
        BY <3>1, <3>3 DEF TypeOK
      <4> QED BY <4>1, <4>2
    <3> QED BY <3>2, <3>3
  <2> QED BY <2>1, <2>2, WatchedQuiet
<1> QED BY <1>1, <1>2, <1>3, <1>4

LEMMA NextWatched ==
  ASSUME TypeOK, TypeOK', Watched, [Next]_vars
  PROVE  Watched'
<1> USE DEF hostVars, setupVars, cancelVars, historyVars
<1>1. CASE UNCHANGED vars
  BY <1>1, WatchedQuiet DEF vars, Watching
<1>2. CASE Setup("run") \/ Setup("monitor")
  BY <1>2, WatchedSetup DEF Process
<1>3. CASE CreateWatcher
  <2>1. /\ pc["run"] = "Watch"
        /\ pc' = [pc EXCEPT !["run"] = "Stack", !["monitor"] = "Spawned"]
        /\ UNCHANGED <<net, device, missed, default_ipaddr>>
    BY <1>3 DEF CreateWatcher, SpawnMonitor, RunFrame
  <2>2. pc'["run"] = "Stack" /\ pc'["monitor"] = "Spawned"
    BY <2>1 DEF TypeOK, Process
  <2>3. ~missed => default_ipaddr # None /\ Present(default_ipaddr)
    BY <2>1 DEF Watched
  <2> QED BY <2>1, <2>2, <2>3 DEF Watched, Present, Tracked
<1>4. CASE ReturnsEarly \/ SelectEnds \/ RunFails \/ (DropSelf /\ device)
  <2>1. \E to \in {"Failed", "Leave", "Unwind"} : pc' = [pc EXCEPT !["run"] = to]
    BY <1>4 DEF ReturnsEarly, DropSelf, SelectEnds, RunFails, Moves
  <2>2. pc'["monitor"] = pc["monitor"] /\ pc'["run"] \in {"Failed", "Leave", "Unwind"}
    BY <2>1 DEF TypeOK, Process
  <2>3. /\ events' = Queued(Down(Tun)) /\ device' = FALSE
        /\ UNCHANGED <<net, missed, default_ipaddr, default_iface_up, ip>>
    BY <1>4 DEF ReturnsEarly, DropSelf, SelectEnds, RunFails, CloseDevice, RunFrame
  <2> QED BY <2>2, <2>3, WatchedReported
<1>5. CASE \/ StackBuilt \/ Built \/ Join \/ StackFails \/ CancelMonitor
           \/ DropFutures \/ DropReceivers \/ (DropSelf /\ ~device)
           \/ \E h \in Handler : SpawnClear(h) \/ ClearEnds(h)
  <2>1. UNCHANGED <<net, device, events, default_ipaddr, default_iface_up, ip, missed>>
    BY <1>5 DEF StackBuilt, Built, Join, StackFails, CancelMonitor, DropFutures,
           DropReceivers, DropSelf, SpawnClear, ClearEnds, Passes, RunFrame
  <2>2. pc' = pc \/ \E to \in Closed \cup {"Build", "Select", "CancelFirst",
                                     "DropReceivers", "DropSelf"} :
                        pc' = [pc EXCEPT !["run"] = to]
    BY <1>5 DEF StackBuilt, Built, Join, StackFails, CancelMonitor, DropFutures,
           DropReceivers, DropSelf, SpawnClear, ClearEnds, Passes, Moves, Closed
  <2>3. /\ pc'["monitor"] = pc["monitor"]
        /\ pc'["run"] \in {"Delete", "AddTunnel", "AddSpare", "Watch"}
             => pc["run"] \in {"Delete", "AddTunnel", "AddSpare", "Watch"}
    BY <2>2 DEF TypeOK, Process, Closed
  <2> QED BY <2>1, <2>3, WatchedQuiet DEF Watching
<1>6. CASE RuntimeDrops \/ PollFirst \/ Load \/ InnerPending \/ WakeUp \/ Register
           \/ PollAgain \/ DeleteSpare \/ AddDefault \/ WatcherFails
  <2>1. UNCHANGED <<net, device, events, default_ipaddr, default_iface_up, ip, missed>>
    BY <1>6 DEF RuntimeDrops, PollFirst, Load, InnerPending, WakeUp, Register,
           PollAgain, DeleteSpare, AddDefault, WatcherFails, Passes, MonitorFrame
  <2>2. /\ pc["monitor"] \notin {"New"} \cup Ended
        /\ \/ pc["monitor"] = "Sleep" /\ pc' = [pc EXCEPT !["monitor"] = "ReadRoute"]
           \/ \E to : /\ to \notin {"Sleep", "ReadRoute", "ReadAddr"}
                      /\ pc' = [pc EXCEPT !["monitor"] = to]
    BY <1>6 DEF RuntimeDrops, PollFirst, Load, InnerPending, WakeUp, Register,
           PollAgain, DeleteSpare, AddDefault, WatcherFails, Passes, Moves, Ended
  <2>3. /\ pc'["run"] = pc["run"] /\ Watching
        /\ pc'["monitor"] \in {"Sleep", "ReadRoute", "ReadAddr"}
             => pc["monitor"] \in {"Sleep", "ReadRoute", "ReadAddr"}
    BY <2>2 DEF TypeOK, Process, Watching
  <2> QED BY <2>1, <2>3, WatchedQuiet
<1>7. ASSUME NEW a \in Gateway, TakeUp(a) PROVE Watched'
  <2>1. /\ Take(Up(a)) /\ Up(a) # Down(default_ipaddr)
        /\ UNCHANGED <<net, device, default_ipaddr, default_iface_up, missed>>
    BY <1>7, EventsDiffer DEF TakeUp, MonitorFrame
  <2>2. \E to : /\ pc' = [pc EXCEPT !["monitor"] = to]
                /\ to = "Sleep" => BackUp /\ ip' = AddrOf(default_gw)
                /\ to \notin {"ReadRoute", "ReadAddr"}
    <3>1. BackUp => /\ pc' = [pc EXCEPT !["monitor"] = "Sleep"]
                    /\ ip' = AddrOf(default_gw)
      BY <1>7 DEF TakeUp, Moves
    <3>2. ~BackUp => pc' = [pc EXCEPT !["monitor"] = "Load"]
      BY <1>7 DEF TakeUp, Moves
    <3> QED BY <3>1, <3>2
  <2>3. BackUp => AddrOf(default_gw) # None /\ Present(AddrOf(default_gw))
    BY AddrPresent DEF BackUp
  <2> QED BY <2>1, <2>2, <2>3, WatchedTake, Zenon
<1>8. ASSUME NEW a \in Gateway, TakeDown(a) PROVE Watched'
  <2>1. /\ Take(Down(a)) /\ pc["monitor"] = "Inner"
        /\ UNCHANGED <<net, device, default_ipaddr, missed>>
    BY <1>8 DEF TakeDown, MonitorFrame, Moves
  <2>2. CASE a # default_ipaddr
    <3>1. /\ UNCHANGED default_iface_up
          /\ \E to : /\ pc' = [pc EXCEPT !["monitor"] = to]
                     /\ to \notin {"Sleep", "ReadRoute", "ReadAddr"}
      <4>1. UNCHANGED default_iface_up /\ pc' = [pc EXCEPT !["monitor"] = "Load"]
        BY <1>8, <2>2 DEF TakeDown, Moves
      <4>2. "Load" \notin {"Sleep", "ReadRoute", "ReadAddr"}
        OBVIOUS
      <4> QED BY <4>1, <4>2, Zenon
    <3>2. Down(a) # Down(default_ipaddr)
      BY <2>2, EventsDiffer
    <3> QED BY <2>1, <3>1, <3>2, WatchedTake, Zenon
  <2>3. CASE a = default_ipaddr
    <3>1. \/ pc' = [pc EXCEPT !["monitor"] = "Panicked"]
          \/ pc' = [pc EXCEPT !["monitor"] = "Load"] /\ ~default_iface_up'
      BY <1>8, <2>3, Zenon DEF TakeDown, Moves, UpAfterLoss
    <3>2. /\ pc'["run"] = pc["run"]
          /\ pc'["monitor"] = "Panicked" \/ (pc'["monitor"] = "Load" /\ ~default_iface_up')
      BY <3>1 DEF TypeOK, Process
    <3>3. pc["run"] \notin InSetup \cup {"Watch"}
      BY <2>1 DEF TypeOK
    <3> QED BY <2>1, <3>2, <3>3 DEF Watched, Watching, Ended, InSetup
  <2> QED BY <2>2, <2>3
<1> QED BY <1>1, <1>2, <1>3, <1>4, <1>5, <1>6, <1>7, <1>8, WatchedHost
        DEF Next, Run, Monitor
-----------------------------------------------------------------------------
Ways == RoutesSound /\ SetupSound /\ WayBack

LEMMA WaysQuiet ==
  ASSUME Ways, UNCHANGED <<net, installed, device, routes, default_gw, rt, itself>>,
         Clean' => Clean,
         \A p \in Process :
           \/ pc'[p] = pc[p]
           \/ {pc[p], pc'[p]} \cap (InSetup \cup {"AddDefault"}) = {}
  PROVE  Ways'
<1>1. \A p \in Process : \A c \in InSetup \cup {"AddDefault"} :
        pc[p] = c <=> pc'[p] = c
  OBVIOUS
<1>2. RoutesSound'
  BY DEF Ways, RoutesSound
<1>3. SetupSound'
  BY <1>1 DEF Ways, SetupSound, Preferred, InSetup
<1>4. WayBack'
  BY <1>1 DEF Ways, WayBack, InMain, InSetup, Process
<1> QED BY <1>2, <1>3, <1>4 DEF Ways

LEMMA WaysCloses ==
  ASSUME TypeOK, Ways, CloseDevice,
         UNCHANGED <<net, installed, default_gw, rt, itself, broken>>,
         pc["run"] \notin InSetup, pc'["run"] \notin InSetup,
         pc'["monitor"] = pc["monitor"]
  PROVE  Ways'
<1>1. \A t \in Slot : routes'[t] = IF routes[t] = Tun THEN None ELSE routes[t]
  BY FlushType DEF CloseDevice
<1>2. Clean' => Clean /\ pc'["monitor"] \notin InSetup
  BY Zenon DEF CloseDevice, Disturbs, Clean, Process
<1>3. RoutesSound'
  BY <1>1, HostAssumption DEF Ways, RoutesSound, Slot
<1>4. SetupSound'
  BY <1>2 DEF SetupSound, InSetup, Process
<1>5. WayBack'
  <2>1. net # None => net # Tun
    BY HostAssumption DEF TypeOK
  <2> QED BY <1>1, <1>2, <2>1 DEF Ways, WayBack, InMain, InSetup, Slot, Process
<1> QED BY <1>3, <1>4, <1>5 DEF Ways

LEMMA WaysHost ==
  ASSUME TypeOK, Ways, Host
  PROVE  Ways'
<1> USE DEF hostVars, setupVars, cancelVars
<1>0. Tun \notin Net /\ None \notin Net /\ Tun # None
  BY HostAssumption
<1>1. CASE LinkDown
  <2>1. \A t \in Slot : routes'[t] = IF routes[t] = net THEN None ELSE routes[t]
    BY <1>1, FlushType DEF LinkDown
  <2>2. net' = None /\ net \in Net
        /\ UNCHANGED <<pc, device, itself, broken, rt, default_gw, installed>>
    BY <1>1 DEF LinkDown, HostChanges, TypeOK
  <2>3. Clean' => \A p \in Process : pc[p] \notin InSetup
    BY <1>1, Zenon DEF LinkDown, Disturbs, Clean
  <2>4. RoutesSound'
    BY <1>0, <2>1, <2>2 DEF Ways, RoutesSound, Slot
  <2> QED BY <2>2, <2>3, <2>4 DEF Ways, SetupSound, WayBack, InSetup
<1>2. ASSUME NEW n \in Net, LinkUp(n) PROVE Ways'
  <2>2. net' = n /\ net = None /\ installed' = FALSE
        /\ UNCHANGED <<pc, routes, device, itself, broken, rt, default_gw>>
    BY <1>2 DEF LinkUp, HostChanges
  <2>3. Clean' => \A p \in Process : pc[p] \notin InSetup
    BY <1>2, Zenon DEF LinkUp, Disturbs, Clean
  <2>4. RoutesSound'
    BY <1>0, <2>2 DEF Ways, RoutesSound, Slot
  <2> QED BY <2>2, <2>3, <2>4 DEF Ways, SetupSound, WayBack, InSetup
<1>3. CASE OsInstalls
  <2>1. /\ net \in Net
        /\ UNCHANGED <<net, pc, device, itself, broken, rt, default_gw>>
    BY <1>3 DEF OsInstalls, TypeOK
  <2>2. \/ routes'["zero"] = net /\ UNCHANGED <<routes["metric"], routes["spare"]>>
        \/ routes'["metric"] = net /\ UNCHANGED <<routes["zero"], routes["spare"]>>
    BY <1>3 DEF OsInstalls, TypeOK
  <2>3. Clean' => \A p \in Process : pc[p] \notin InSetup
    BY <1>3, Zenon DEF OsInstalls, Disturbs, Clean
  <2>4. RoutesSound'
    BY <1>0, <2>1, <2>2 DEF Ways, RoutesSound, Slot
  <2> QED BY <2>1, <2>2, <2>3, <2>4 DEF Ways, SetupSound, WayBack, InMain, InSetup
<1> QED BY <1>1, <1>2, <1>3 DEF Host

(* Only one of the two is in a set-up.                                     *)
LEMMA Alone ==
  ASSUME TypeOK, NEW p \in Process, pc[p] \in InSetup \cup {"ReadRoute"},
         NEW to, pc' = [pc EXCEPT ![p] = to], to # "AddDefault"
  PROVE  /\ pc'[p] = to
         /\ \A q \in Process \ {p} : pc'[q] = pc[q] /\ pc[q] \notin InSetup
         /\ pc["monitor"] # "AddDefault" /\ pc'["monitor"] # "AddDefault"
BY DEF TypeOK, Process, InSetup

LEMMA WaysSetup ==
  ASSUME TypeOK, Ways, NEW p \in Process, Setup(p)
  PROVE  Ways'
<1> USE DEF hostVars, setupVars, cancelVars, Moves, SetupFrame
<1>0. Tun \notin Net /\ None \notin Net /\ Tun # None
      /\ net \in Net \cup {None}
  BY HostAssumption DEF TypeOK
<1>a. UNCHANGED <<net, installed, disturbed, broken>>
  BY DEF Setup, ReadRoute, ReadAddr, ReadAddrFails, DeleteDefault, AddTunnel, AddSpare
<1>1. CASE ReadRoute(p)
  <2>1. /\ pc[p] = "ReadRoute" /\ pc' = [pc EXCEPT ![p] = "ReadAddr"]
        /\ rt' = Preferred /\ UNCHANGED <<routes, device, default_gw, itself>>
    BY <1>1 DEF ReadRoute
  <2>2. /\ pc'[p] = "ReadAddr"
        /\ \A q \in Process \ {p} : pc'[q] = pc[q] /\ pc[q] \notin InSetup
        /\ pc["monitor"] # "AddDefault" /\ pc'["monitor"] # "AddDefault"
    BY <2>1, Alone, Zenon
  <2>3. RoutesSound'
    BY <1>a, <2>1 DEF Ways, RoutesSound
  <2>4. SetupSound'
    BY <2>1, <2>2 DEF SetupSound, Preferred, InSetup
  <2>5. WayBack'
    BY <1>a, <2>1, <2>2 DEF Ways, WayBack, Clean, InMain, InSetup
  <2> QED BY <2>3, <2>4, <2>5 DEF Ways
<1>2. CASE ReadAddr(p)
  <2>1. /\ pc[p] = "ReadAddr" /\ pc' = [pc EXCEPT ![p] = "Delete"]
        /\ default_gw' = rt /\ itself' = (itself \/ rt = Tun) /\ AddrOf(rt) # None
        /\ UNCHANGED <<routes, device, rt>>
    BY <1>2 DEF ReadAddr
  <2>2. /\ pc'[p] = "Delete"
        /\ \A q \in Process \ {p} : pc'[q] = pc[q] /\ pc[q] \notin InSetup
        /\ pc["monitor"] # "AddDefault" /\ pc'["monitor"] # "AddDefault"
    BY <2>1, Alone, Zenon DEF InSetup
  <2>3. RoutesSound'
    BY <1>a, <2>1, Zenon DEF Ways, RoutesSound
  <2>4. Clean' => Clean /\ rt # Tun /\ rt # None
    BY <1>a, <1>0, <2>1, Zenon DEF Clean, AddrOf
  <2>5. Clean' => rt = net /\ net # None
    <3>1. Clean' => rt = Preferred
      BY <2>1, <2>4 DEF Ways, SetupSound
    <3>2. Preferred \in {None, net, Tun}
      BY DEF Ways, RoutesSound, Slot, Preferred
    <3> QED BY <2>4, <3>1, <3>2
  <2>6. SetupSound'
    BY <1>a, <2>1, <2>2, <2>5 DEF SetupSound, InSetup
  <2>7. WayBack'
    BY <1>a, <2>1, <2>2, <2>4, <2>5 DEF Ways, WayBack, InMain, InSetup
  <2> QED BY <2>3, <2>6, <2>7 DEF Ways
<1>3. CASE ReadAddrFails(p)
  <2>1. /\ pc[p] = "ReadAddr" /\ UNCHANGED <<rt, default_gw, itself>>
        /\ \E to \in {"Failed", "Load"} : pc' = [pc EXCEPT ![p] = to]
        /\ \/ device' = FALSE
              /\ \A t \in Slot : routes'[t] = IF routes[t] = Tun THEN None ELSE routes[t]
           \/ UNCHANGED <<device, routes>>
    BY <1>3, FlushType, Zenon DEF ReadAddrFails, TypeOK
  <2>2. /\ pc'[p] \in {"Failed", "Load"}
        /\ \A q \in Process \ {p} : pc'[q] = pc[q] /\ pc[q] \notin InSetup
        /\ pc["monitor"] # "AddDefault" /\ pc'["monitor"] # "AddDefault"
    BY <2>1, Alone, Zenon DEF InSetup
  <2>3. RoutesSound'
    <3>1. CASE UNCHANGED <<device, routes>>
      BY <1>a, <2>1, <3>1 DEF Ways, RoutesSound
    <3>2. CASE /\ device' = FALSE
               /\ \A t \in Slot : routes'[t] = IF routes[t] = Tun THEN None ELSE routes[t]
      <4>1. \A t \in Slot : routes'[t] \in {None, net} /\ routes'[t] # Tun
        BY <1>0, <3>2 DEF Ways, RoutesSound
      <4> QED BY <1>a, <2>1, <4>1 DEF Ways, RoutesSound, Slot
    <3> QED BY <2>1, <3>1, <3>2, Zenon
  <2>4. SetupSound'
    BY <2>2 DEF SetupSound, InSetup
  <2>5. WayBack'
    BY <1>0, <1>a, <2>1, <2>2 DEF Ways, WayBack, Clean, InMain, InSetup, Slot
  <2> QED BY <2>3, <2>4, <2>5 DEF Ways
<1>4. CASE DeleteDefault(p)
  <2>1. /\ pc[p] = "Delete" /\ pc' = [pc EXCEPT ![p] = "AddTunnel"]
        /\ UNCHANGED <<device, rt, default_gw, itself>>
        /\ \A t \in Slot : routes'[t] \in {routes[t], None}
    BY <1>4 DEF DeleteDefault, WithoutMain, TypeOK, Slot
  <2>2. /\ pc'[p] = "AddTunnel"
        /\ \A q \in Process \ {p} : pc'[q] = pc[q] /\ pc[q] \notin InSetup
        /\ pc["monitor"] # "AddDefault" /\ pc'["monitor"] # "AddDefault"
    BY <2>1, Alone, Zenon DEF InSetup
  <2>3. RoutesSound'
    BY <1>0, <1>a, <2>1 DEF Ways, RoutesSound, Slot
  <2>4. SetupSound'
    BY <1>a, <2>1, <2>2 DEF Ways, SetupSound, Clean, InSetup
  <2>5. WayBack'
    BY <2>2 DEF WayBack
  <2> QED BY <2>3, <2>4, <2>5 DEF Ways
<1>5. CASE AddTunnel(p)
  <2>1. /\ pc[p] = "AddTunnel" /\ pc' = [pc EXCEPT ![p] = "AddSpare"]
        /\ UNCHANGED <<device, rt, default_gw, itself>>
        /\ \/ device /\ routes'["zero"] = Tun
              /\ \A t \in Slot \ {"zero"} : routes'[t] = routes[t]
           \/ UNCHANGED routes
    BY <1>5, <1>0 DEF AddTunnel, WithRoute, Reachable, TypeOK, Slot
  <2>2. /\ pc'[p] = "AddSpare"
        /\ \A q \in Process \ {p} : pc'[q] = pc[q] /\ pc[q] \notin InSetup
        /\ pc["monitor"] # "AddDefault" /\ pc'["monitor"] # "AddDefault"
    BY <2>1, Alone, Zenon DEF InSetup
  <2>3. RoutesSound'
    BY <1>0, <1>a, <2>1 DEF Ways, RoutesSound, Slot
  <2>4. SetupSound'
    BY <1>a, <2>1, <2>2 DEF Ways, SetupSound, Clean, InSetup
  <2>5. WayBack'
    BY <2>2 DEF WayBack
  <2> QED BY <2>3, <2>4, <2>5 DEF Ways
<1>6. CASE AddSpare(p)
  <2>1. /\ pc[p] = "AddSpare" /\ UNCHANGED <<device, rt, default_gw, itself>>
        /\ \E to \in {"Watch", "Load"} : pc' = [pc EXCEPT ![p] = to]
    BY <1>6, Zenon DEF AddSpare
  <2>2. /\ pc'[p] \in {"Watch", "Load"}
        /\ \A q \in Process \ {p} : pc'[q] = pc[q] /\ pc[q] \notin InSetup
        /\ pc["monitor"] # "AddDefault" /\ pc'["monitor"] # "AddDefault"
    BY <2>1, Alone, Zenon DEF InSetup
  <2>3. \/ /\ default_gw # None /\ Reachable(default_gw)
           /\ routes'["spare"] = default_gw
           /\ \A t \in Slot \ {"spare"} : routes'[t] = routes[t]
        \/ /\ UNCHANGED routes
           /\ routes["spare"] # None \/ default_gw = None \/ ~Reachable(default_gw)
    BY <1>6 DEF AddSpare, WithSpare, WithRoute, TypeOK, Slot
  <2>4. RoutesSound'
    BY <1>0, <1>a, <2>1, <2>3 DEF Ways, RoutesSound, Slot, Reachable
  <2>5. SetupSound'
    BY <2>2 DEF SetupSound, InSetup
  <2>6. Clean' => default_gw = net /\ net # None /\ routes["spare"] \in {None, net}
    BY <1>a, <2>1 DEF Ways, SetupSound, RoutesSound, Clean, Slot
  <2>7. Clean' => routes'["spare"] = net
    BY <2>3, <2>6 DEF Reachable
  <2>8. WayBack'
    BY <1>a, <2>1, <2>2, <2>6, <2>7 DEF WayBack
  <2> QED BY <2>4, <2>5, <2>8 DEF Ways
<1> QED BY <1>1, <1>2, <1>3, <1>4, <1>5, <1>6 DEF Setup

LEMMA WaysRestore ==
  ASSUME TypeOK, Phases, Ways, DeleteSpare \/ AddDefault
  PROVE  Ways'
<1> USE DEF hostVars, setupVars, cancelVars, Moves, MonitorFrame
<1>0. Tun \notin Net /\ None \notin Net /\ Tun # None
      /\ net \in Net \cup {None}
  BY HostAssumption DEF TypeOK
<1>a. /\ UNCHANGED <<net, installed, device, rt, default_gw, disturbed, itself, broken>>
      /\ pc["monitor"] \in {"Restore", "AddDefault"}
  BY DEF DeleteSpare, AddDefault
<1>b. /\ pc'["run"] = pc["run"] /\ pc["run"] \notin InSetup
      /\ pc'["monitor"] \in {"AddDefault", "Done"}
  BY DEF DeleteSpare, AddDefault, TypeOK, Process
<1>1. SetupSound'
  BY <1>b DEF SetupSound, InSetup, Process
<1>2. CASE DeleteSpare
  <2>1. /\ routes'["spare"] = None /\ pc["monitor"] = "Restore"
        /\ \A t \in Slot \ {"spare"} : routes'[t] = routes[t]
        /\ pc'["monitor"] = "AddDefault"
    BY <1>2 DEF DeleteSpare, WithoutSpare, TypeOK, Slot, Process
  <2>2. RoutesSound'
    BY <1>0, <1>a, <2>1 DEF Ways, RoutesSound, Slot
  <2>3. Clean => ~device
    BY <2>1 DEF Phases, Clean
  <2>4. WayBack'
    <3>1. SUFFICES ASSUME Clean, net # None, installed
                   PROVE  InMain' \/ (routes'["zero"] = None /\ default_gw = net)
      BY <1>a, <2>1 DEF WayBack, Clean
    <3>2. InMain \/ (routes["spare"] = net /\ default_gw = net)
      BY <1>b, <2>1, <3>1 DEF Ways, WayBack, InSetup, Process
    <3>3. routes["zero"] \in {None, net}
      BY <2>3, <3>1 DEF Ways, RoutesSound, Slot
    <3> QED BY <1>a, <2>1, <3>2, <3>3 DEF InMain, Slot
  <2> QED BY <1>1, <2>2, <2>4 DEF Ways
<1>3. CASE AddDefault
  <2>1. /\ pc["monitor"] = "AddDefault" /\ pc'["monitor"] = "Done"
        /\ \/ /\ routes["zero"] = None /\ default_gw # None /\ Reachable(default_gw)
              /\ routes'["zero"] = default_gw
              /\ \A t \in Slot \ {"zero"} : routes'[t] = routes[t]
           \/ /\ UNCHANGED routes
              /\ routes["zero"] # None \/ default_gw = None \/ ~Reachable(default_gw)
    BY <1>3 DEF AddDefault, WithRoute, TypeOK, Slot, Process
  <2>2. RoutesSound'
    BY <1>0, <1>a, <2>1 DEF Ways, RoutesSound, Slot, Reachable
  <2>4. WayBack'
    <3>1. SUFFICES ASSUME Clean, net # None, installed PROVE InMain'
      BY <1>a, <2>1 DEF WayBack, Clean
    <3>2. InMain \/ (routes["zero"] = None /\ default_gw = net)
      BY <2>1, <3>1 DEF Ways, WayBack
    <3>3. routes["metric"] = net => routes'["metric"] = net
      BY <2>1 DEF Slot
    <3>4. routes["zero"] = net => routes'["zero"] = net
      BY <2>1, <3>1
    <3>5. routes["zero"] = None /\ default_gw = net => routes'["zero"] = net
      BY <2>1, <3>1 DEF Reachable
    <3> QED BY <1>a, <3>2, <3>3, <3>4, <3>5 DEF InMain
  <2> QED BY <1>1, <2>2, <2>4 DEF Ways
<1> QED BY <1>2, <1>3

LEMMA NextWays ==
  ASSUME TypeOK, Phases, Ways, [Next]_vars
  PROVE  Ways'
<1> USE DEF hostVars, setupVars, cancelVars, historyVars
<1>1. CASE UNCHANGED vars
  BY <1>1, WaysQuiet DEF vars, Clean
<1>2. CASE Setup("run") \/ Setup("monitor")
  BY <1>2, WaysSetup DEF Process
<1>3. CASE ReturnsEarly \/ SelectEnds \/ RunFails \/ (DropSelf /\ device)
  <2>1. /\ pc["run"] \in {"ReadRoute", "Watch", "DropSelf", "Select", "Build"}
        /\ \E to \in {"Failed", "Leave", "Unwind"} : pc' = [pc EXCEPT !["run"] = to]
    BY <1>3 DEF ReturnsEarly, DropSelf, SelectEnds, RunFails, Moves
  <2>2. /\ pc["run"] \notin InSetup /\ pc'["run"] \notin InSetup
        /\ pc'["monitor"] = pc["monitor"]
    BY <2>1 DEF TypeOK, Process, InSetup
  <2>3. CloseDevice /\ UNCHANGED <<net, installed, default_gw, rt, itself, broken>>
    BY <1>3 DEF ReturnsEarly, DropSelf, SelectEnds, RunFails, RunFrame
  <2> QED BY <2>2, <2>3, WaysCloses
<1>4. CASE \/ StackBuilt \/ Built \/ Join \/ StackFails \/ CancelMonitor
           \/ CreateWatcher \/ DropFutures \/ DropReceivers \/ (DropSelf /\ ~device)
           \/ \E h \in Handler : SpawnClear(h) \/ ClearEnds(h)
  <2>1. /\ UNCHANGED <<net, installed, device, routes, default_gw, rt, itself, disturbed>>
        /\ broken => broken'
    <3>1. CASE StackBuilt \/ Built \/ Join
      BY <3>1 DEF StackBuilt, Built, Join, Passes, RunFrame
    <3>2. CASE StackFails \/ CancelMonitor \/ CreateWatcher
      BY <3>2 DEF StackFails, CancelMonitor, CreateWatcher, RunFrame
    <3>3. CASE DropFutures \/ DropReceivers \/ (DropSelf /\ ~device)
      BY <3>3 DEF DropFutures, DropReceivers, DropSelf, RunFrame
    <3>4. CASE \E h \in Handler : SpawnClear(h) \/ ClearEnds(h)
      BY <3>4 DEF SpawnClear, ClearEnds, RunFrame
    <3> QED BY <1>4, <3>1, <3>2, <3>3, <3>4, Zenon
  <2>2. \/ pc' = pc
        \/ /\ pc["run"] \in {"Stack", "Build", "Join", "Leave", "Cancel", "Unwind",
                           "CancelFirst", "DropReceivers", "DropSelf"}
           /\ \E to \in Closed \cup {"Build", "Select", "CancelFirst", "DropReceivers",
                                   "DropSelf"} : pc' = [pc EXCEPT !["run"] = to]
        \/ /\ pc["run"] = "Watch"
           /\ pc' = [pc EXCEPT !["run"] = "Stack", !["monitor"] = "Spawned"]
    BY <1>4 DEF StackBuilt, Built, Join, StackFails, CancelMonitor, SpawnClear,
           ClearEnds, DropFutures, DropReceivers, DropSelf, Passes, Moves,
           CreateWatcher, SpawnMonitor, Closed
  <2>3. \A p \in Process :
           \/ pc'[p] = pc[p]
           \/ {pc[p], pc'[p]} \cap (InSetup \cup {"AddDefault"}) = {}
    BY <2>2 DEF TypeOK, Process, InSetup, Closed
  <2>4. Clean' => Clean
    BY <2>1 DEF Clean
  <2> QED BY <2>1, <2>3, <2>4, WaysQuiet
<1>5. CASE RuntimeDrops \/ PollFirst \/ Load \/ InnerPending \/ WakeUp \/ Register
           \/ PollAgain \/ WatcherFails \/ \E a \in Gateway : TakeUp(a) \/ TakeDown(a)
  <2>1. /\ UNCHANGED <<net, installed, device, routes, default_gw, rt, itself, disturbed>>
        /\ broken => broken'
    <3>1. CASE RuntimeDrops
      BY <3>1 DEF RuntimeDrops, Passes
    <3>4. CASE PollFirst \/ InnerPending
      BY <3>4 DEF PollFirst, InnerPending, Passes
    <3>5. CASE Load \/ WakeUp
      BY <3>5 DEF Load, WakeUp, Passes
    <3>2. CASE Register \/ PollAgain
      BY <3>2 DEF Register, PollAgain, MonitorFrame
    <3>6. CASE WatcherFails
      BY <3>6 DEF WatcherFails, MonitorFrame
    <3>3. CASE \E a \in Gateway : TakeUp(a) \/ TakeDown(a)
      BY <3>3 DEF TakeUp, TakeDown, MonitorFrame
    <3> QED BY <1>5, <3>1, <3>2, <3>3, <3>4, <3>5, <3>6, Zenon
  <2>2. /\ pc["monitor"] \notin InSetup \cup {"AddDefault"}
        /\ \E to : /\ to \notin InSetup \cup {"AddDefault"}
                   /\ pc' = [pc EXCEPT !["monitor"] = to]
    BY <1>5, Zenon DEF RuntimeDrops, PollFirst, Load, InnerPending, WakeUp, Register,
           PollAgain, WatcherFails, TakeUp, TakeDown, Passes, Moves, InSetup
  <2>3. \A p \in Process :
           \/ pc'[p] = pc[p]
           \/ {pc[p], pc'[p]} \cap (InSetup \cup {"AddDefault"}) = {}
    BY <2>2 DEF TypeOK, Process
  <2>4. Clean' => Clean
    BY <2>1 DEF Clean
  <2> QED BY <2>1, <2>3, <2>4, WaysQuiet
<1> QED BY <1>1, <1>2, <1>3, <1>4, <1>5, WaysHost, WaysRestore
        DEF Next, Run, Monitor
-----------------------------------------------------------------------------
IInv == TypeOK /\ Phases /\ Received /\ Watched /\ Ways

LEMMA InitInvariant == Init => IInv
<1> SUFFICES ASSUME Init PROVE IInv
  OBVIOUS
<1>0. Tun \notin Net /\ None \notin Net /\ Tun # None /\ net \in Net
  BY HostAssumption DEF Init
<1>1. pc["run"] = "ReadRoute" /\ pc["monitor"] = "New"
  BY DEF Init, Process
<1>2. /\ routes["spare"] = None
      /\ \/ routes["zero"] = net /\ routes["metric"] = None
         \/ routes["zero"] = None /\ routes["metric"] = net
  BY DEF Init
<1>3. routes \in [Slot -> Gateway \cup {None}]
  BY <1>0 DEF Init, Slot, Gateway
<1>4. TypeOK
  <2>1. changes \in 0 .. MaxChange /\ events \in Seq(Event)
        /\ receiver \in [Handler -> {"run", "future", "task", "dropped"}]
    BY HostAssumption DEF Init
  <2>2. /\ device \in BOOLEAN /\ installed \in BOOLEAN /\ cancelled \in BOOLEAN
        /\ waker \in BOOLEAN /\ woken \in BOOLEAN /\ missed \in BOOLEAN
        /\ disturbed \in BOOLEAN /\ itself \in BOOLEAN /\ broken \in BOOLEAN
        /\ default_iface_up \in BOOLEAN
    BY Zenon DEF Init
  <2>3. pc \in [Process -> {"ReadRoute", "New"}]
    BY DEF Init, Process
  <2>4. /\ policy \in Policies /\ net \in Net /\ rt = None /\ default_gw = None
        /\ default_ipaddr = None /\ ip = None
    BY DEF Init
  <2> QED BY <1>1, <1>3, <2>1, <2>2, <2>3, <2>4 DEF TypeOK, Slot
<1>5. Phases /\ Received /\ Watched
  BY <1>1 DEF Init, Phases, Closed, Received, LossReachesHandlers, Watched, Watching
<1>6. RoutesSound
  BY <1>0, <1>2 DEF Init, RoutesSound, Slot
<1>7. SetupSound /\ WayBack
  BY <1>1, <1>2 DEF SetupSound, WayBack, InMain, Process
<1> QED BY <1>4, <1>5, <1>6, <1>7 DEF IInv, Ways

THEOREM NextInvariant == IInv /\ [Next]_vars => IInv'
BY NextTypes, NextPhases, NextReceived, NextWatched, NextWays DEF IInv

THEOREM Invariance == Spec => []IInv
BY InitInvariant, NextInvariant, PTL DEF Spec

(* Types, and only one of Tun::run and the monitor is in a set-up.         *)
THEOREM TypeCorrect == Spec => []TypeOK
<1>1. IInv => TypeOK
  BY DEF IInv
<1> QED BY <1>1, Invariance, PTL

(* The address the monitor watches is on the host, or its loss is queued.  *)
THEOREM WatchNeverStale == Spec => []NoStaleWatch
<1>1. IInv => NoStaleWatch
  BY DEF IInv, Watched, NoStaleWatch
<1> QED BY <1>1, Invariance, PTL

(* As long as the tunnel works, wherever the receivers have been moved,    *)
(* every handler has its own while the monitor watches, and the unwrap of  *)
(* notify_tx.send has not panicked.                                        *)
THEOREM LossAlwaysReachesHandlers == Spec => []LossReachesHandlers
<1>1. IInv => LossReachesHandlers
  BY DEF IInv, Received
<1> QED BY <1>1, Invariance, PTL

(* Whichever way the program ends, the host keeps its default route, with  *)
(* the exceptions HostReachable names.                                     *)
THEOREM HostStaysReachable == Spec => []HostReachable
<1>1. IInv => HostReachable
  <2> SUFFICES ASSUME IInv, Gone, net # None, installed, Clean
               PROVE  Preferred = net
    BY DEF HostReachable, Clean
  <2>1. \A p \in Process : pc[p] \notin InSetup \cup {"AddDefault"}
    BY DEF Gone, Process, InSetup, Ended
  <2>2. InMain \/ routes["spare"] = net
    BY <2>1 DEF IInv, Ways, WayBack, InSetup, Process
  <2>3. \A t \in Slot : routes[t] \in {None, net}
    BY DEF IInv, Phases, Closed, Gone, Ways, RoutesSound
  <2> QED BY <2>2, <2>3 DEF InMain, Preferred, Slot
<1> QED BY <1>1, Invariance, PTL
=============================================================================
