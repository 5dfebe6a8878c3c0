----------------------------- MODULE TunRoutes ------------------------------
(***************************************************************************)
(* The life of the tunnel, crates/tun/src/lib.rs, with the route commands  *)
(* of cmd.rs (Linux) and the event stream of cancelable.rs.                *)
(*                                                                         *)
(* Tun::run reads the host's default route, replaces it by the tunnel's    *)
(* and keeps the old one in a second table, spawns the monitor and waits   *)
(* until one of its futures ends.  The monitor follows the addresses of    *)
(* the interfaces: when the default one is lost it notifies the handlers,  *)
(* when it is back it repeats the set-up, and when it is cancelled it puts *)
(* the old route back.  The handlers' receivers belong to run first, then  *)
(* to the futures it waits for, then to the clear tasks these spawn.       *)
(*                                                                         *)
(* The host is external.  It is on one network at a time, or on none; a    *)
(* network stands for its gateway and for the host's address on it, and    *)
(* IfaceOf says which interface leads to it.  The kernel's rules are those *)
(* the commands rely on: a second default route of the same metric is      *)
(* refused, a gateway must be on a connected network, `del default` takes  *)
(* the preferred one, and the routes of an interface go with its address.  *)
(* The commands ignore exit statuses, so a refused one changes nothing.    *)
(***************************************************************************)
EXTENDS Integers, Sequences

CONSTANTS
  Net,         \* the networks the host can be on
  IfaceOf,     \* network -> the interface it is reached through
  Tun, None,   \* the tunnel's own gateway and address; the absent value
  Handler,     \* TcpHandle and UdpHandle, which listen to the monitor
  Policies,    \* how the host may install its default route, see OsInstalls
  MaxChange    \* bound: how often the host leaves or joins a network

ASSUME HostAssumption ==
  /\ Net # {} /\ Tun \notin Net /\ None \notin Net /\ Tun # None
  /\ Handler # {}
  /\ Policies \subseteq {"replace", "lower"}
  /\ MaxChange \in Nat

VARIABLES
  \* the host
  net,               \* the network it is on, or None
  installed,         \* its default route for that network has been installed
  policy,            \* how it does that
  changes,           \* how many changes there have been
  routes,            \* default routes: metric 0 and higher in table main,
                     \* and the one in table default
  device,            \* the tun device is open
  \* Tun::run and PostTunSetup::monitor
  pc,                \* where each of the two is
  rt,                \* the gateway get_default_gw_iface returned
  default_gw,        \* PostTunSetup.default_gw, which stands for the interface
  default_ipaddr,    \* the address the monitor watches
  default_iface_up,
  ip,                \* the address read before the monitor's sleep
  receiver,          \* handler -> what owns its receiver: run, the handler's
                     \* future, its clear task, or nothing any more
  \* Cancelable<IfWatcher>
  events, cancelled, waker, woken,
  \* history
  missed,            \* the network changed before the watcher existed
  disturbed,         \* a network or the device changed during a set-up
  itself,            \* a set-up took the tunnel for the default interface
  broken             \* the watcher failed, or the stack was not built

hostVars == <<net, installed, policy, changes>>
setupVars == <<rt, default_gw, default_ipaddr, default_iface_up, ip>>
cancelVars == <<cancelled, waker>>
historyVars == <<missed, disturbed, itself, broken>>
vars == <<hostVars, routes, device, pc, setupVars, receiver, events,
          cancelVars, woken, historyVars>>

Process == {"run", "monitor"}
Gateway == Net \cup {Tun}
Event == [kind : {"Up", "Down"}, addr : Gateway]
Up(a) == [kind |-> "Up", addr |-> a]
Down(a) == [kind |-> "Down", addr |-> a]

Ended == {"Done", "Panicked", "Dropped"}
InSetup == {"ReadAddr", "Delete", "AddTunnel", "AddSpare"}

Moves(p, from, to) ==
  /\ pc[p] = from
  /\ pc' = [pc EXCEPT ![p] = to]

(* A step of p that changes nothing else.                                  *)
Passes(p, from, to) ==
  /\ Moves(p, from, to)
  /\ UNCHANGED <<hostVars, routes, device, setupVars, receiver, events,
                 cancelVars, woken, historyVars>>

(* A watcher exists from the spawn of the monitor until that has ended.    *)
Watching == pc["monitor"] \notin {"New"} \cup Ended
-----------------------------------------------------------------------------
(* The kernel's tables (external).                                         *)
Reachable(g) == g = net \/ (g = Tun /\ device)

(* What `ip route get 1` finds: main by metric, then table default.        *)
Preferred ==
  IF routes.zero # None THEN routes.zero
  ELSE IF routes.metric # None THEN routes.metric
  ELSE routes.spare

(* The routes left when gateway g is gone.                                 *)
Flush(r, g) == [t \in DOMAIN r |-> IF r[t] = g THEN None ELSE r[t]]

(* `ip route add default via g` into slot t.                               *)
WithRoute(t, g) ==
  IF routes[t] = None /\ g # None /\ Reachable(g)
  THEN [routes EXCEPT ![t] = g] ELSE routes

(* `ip route del default table main` and `... table default`.              *)
WithoutMain ==
  IF routes.zero # None THEN [routes EXCEPT !.zero = None]
  ELSE [routes EXCEPT !.metric = None]
WithoutSpare == [routes EXCEPT !.spare = None]

(* get_if_addr on the interface of gateway g, None for an error.  It takes *)
(* the last address listed; here an interface has one at a time.           *)
AddrOf(g) ==
  IF g = Tun THEN IF device THEN Tun ELSE None
  ELSE IF g # None /\ net # None THEN
    IF IfaceOf[net] = IfaceOf[g] THEN net ELSE None
  ELSE None

(* The interface watcher queues an event and wakes the task that polled it.*)
Queued(e) == IF Watching THEN Append(events, e) ELSE events
WokenByEvent == woken \/ pc["monitor"] \in {"Register", "Parked"}

Disturbs == disturbed' = (disturbed \/ \E p \in Process : pc[p] \in InSetup)

HostChanges ==
  /\ changes < MaxChange
  /\ changes' = changes + 1
  /\ missed' = (missed \/ pc["run"] \in {"Delete", "AddTunnel", "AddSpare", "Watch"})
  /\ UNCHANGED <<policy, device, pc, setupVars, receiver, cancelVars, itself,
                 broken>>

LinkDown ==
  /\ net # None
  /\ net' = None
  /\ routes' = Flush(routes, net)
  /\ events' = Queued(Down(net)) /\ woken' = WokenByEvent
  /\ UNCHANGED installed
  /\ HostChanges /\ Disturbs

LinkUp(n) ==
  /\ net = None
  /\ net' = n
  /\ installed' = FALSE
  /\ events' = Queued(Up(n)) /\ woken' = WokenByEvent
  /\ UNCHANGED routes
  /\ HostChanges /\ Disturbs

(* The host installs its default route: it replaces the one of metric 0,   *)
(* or it adds one of a higher metric.                                      *)
OsInstalls ==
  /\ net # None /\ ~installed
  /\ installed' = TRUE
  /\ routes' = IF policy = "replace" THEN [routes EXCEPT !.zero = net]
               ELSE [routes EXCEPT !.metric = net]
  /\ Disturbs
  /\ UNCHANGED <<net, policy, changes, device, pc, setupVars, receiver, events,
                 cancelVars, woken, missed, itself, broken>>
-----------------------------------------------------------------------------
Init ==
  /\ net \in Net /\ installed = TRUE /\ changes = 0
  /\ policy \in Policies
  /\ routes = IF policy = "replace"
              THEN [zero |-> net, metric |-> None, spare |-> None]
              ELSE [zero |-> None, metric |-> net, spare |-> None]
  /\ device = TRUE
  /\ pc = [p \in Process |-> IF p = "run" THEN "ReadRoute" ELSE "New"]
  /\ rt = None /\ default_gw = None /\ default_ipaddr = None
  /\ default_iface_up = TRUE /\ ip = None
  /\ receiver = [h \in Handler |-> "run"]
  /\ events = <<>> /\ cancelled = FALSE /\ waker = FALSE /\ woken = FALSE
  /\ missed = FALSE /\ disturbed = FALSE /\ itself = FALSE
  /\ broken = FALSE
-----------------------------------------------------------------------------
(* PostTunSetup::new and setup, called by run and again by the monitor.    *)
SetupFrame ==
  UNCHANGED <<hostVars, events, cancelVars, woken, missed, disturbed, broken>>

(* get_default_gw_iface.                                                   *)
ReadRoute(p) ==
  /\ Moves(p, "ReadRoute", "ReadAddr")
  /\ rt' = Preferred
  /\ UNCHANGED <<routes, device, default_gw, default_ipaddr, default_iface_up,
                 ip, receiver, itself>>
  /\ SetupFrame

(* get_if_addr: run starts to watch that address, while the monitor goes   *)
(* on with the one it read before its sleep.                               *)
ReadAddr(p) ==
  /\ AddrOf(rt) # None
  /\ Moves(p, "ReadAddr", "Delete")
  /\ default_gw' = rt
  /\ default_ipaddr' = IF p = "run" THEN AddrOf(rt) ELSE ip
  /\ default_iface_up' = TRUE
  /\ itself' = (itself \/ rt = Tun)
  /\ UNCHANGED <<routes, device, rt, ip, receiver>>
  /\ SetupFrame

(* The receivers when the owners in gone are dropped.                      *)
Without(gone) ==
  [h \in Handler |-> IF receiver[h] \in gone THEN "dropped" ELSE receiver[h]]

(* An error: run panics before it has changed anything, the monitor waits  *)
(* for the next event.                                                     *)
ReadAddrFails(p) ==
  /\ AddrOf(rt) = None
  /\ Moves(p, "ReadAddr", IF p = "run" THEN "Failed" ELSE "Load")
  /\ device' = (device /\ p # "run")
  /\ routes' = IF p = "run" THEN Flush(routes, Tun) ELSE routes
  /\ receiver' = IF p = "run" THEN Without({"run"}) ELSE receiver
  /\ UNCHANGED <<setupVars, itself>>
  /\ SetupFrame

DeleteDefault(p) ==
  /\ Moves(p, "Delete", "AddTunnel")
  /\ routes' = WithoutMain
  /\ UNCHANGED <<device, setupVars, receiver, itself>>
  /\ SetupFrame

AddTunnel(p) ==
  /\ Moves(p, "AddTunnel", "AddSpare")
  /\ routes' = WithRoute("zero", Tun)
  /\ UNCHANGED <<device, setupVars, receiver, itself>>
  /\ SetupFrame

FaultNoSpare == routes
WithSpare == WithRoute("spare", default_gw)

AddSpare(p) ==
  /\ Moves(p, "AddSpare", IF p = "run" THEN "Watch" ELSE "Load")
  /\ routes' = WithSpare
  /\ UNCHANGED <<device, setupVars, receiver, itself>>
  /\ SetupFrame

Setup(p) ==
  \/ ReadRoute(p) \/ ReadAddr(p) \/ ReadAddrFails(p)
  \/ DeleteDefault(p) \/ AddTunnel(p) \/ AddSpare(p)
-----------------------------------------------------------------------------
(* Tun::run after the set-up.                                              *)
RunFrame == UNCHANGED <<hostVars, setupVars, missed, itself>>

(* IfWatcher::new lists the addresses there are; the monitor is spawned.   *)
FaultMonitorBeforeSetup ==
  /\ pc["run"] = "ReadRoute"
  /\ pc' = [pc EXCEPT !["monitor"] = "Spawned"]
SpawnMonitor ==
  /\ pc["run"] = "Watch"
  /\ pc' = [pc EXCEPT !["run"] = "Stack", !["monitor"] = "Spawned"]

CreateWatcher ==
  /\ SpawnMonitor
  /\ events' = IF net = None THEN <<Up(Tun)>> ELSE <<Up(Tun), Up(net)>>
  /\ UNCHANGED <<routes, device, receiver, cancelVars, woken, disturbed,
                 broken>>
  /\ RunFrame

(* The device is dropped with the future (or the variable) that owns it,   *)
(* and the kernel removes its interface.                                   *)
CloseDevice ==
  /\ device' = FALSE
  /\ routes' = Flush(routes, Tun)
  /\ events' = Queued(Down(Tun)) /\ woken' = WokenByEvent
  /\ Disturbs

(* device.destination() or IfWatcher::new fails: run returns, and there is *)
(* no monitor.                                                             *)
ReturnsEarly ==
  /\ \/ Moves("run", "ReadRoute", "Failed")
     \/ Moves("run", "Watch", "Failed")
  /\ CloseDevice
  /\ receiver' = Without({"run"})
  /\ UNCHANGED <<cancelVars, broken>>
  /\ RunFrame

(* NetStack::with_buffer_size takes the device into its futures.           *)
StackBuilt == Passes("run", "Stack", "Build")

(* The fake DNS table and the rules are there, and the futures of the      *)
(* handlers capture the receivers.                                         *)
Built ==
  /\ Moves("run", "Build", "Select")
  /\ receiver' = [h \in Handler |-> "future"]
  /\ UNCHANGED <<routes, device, events, cancelVars, woken, disturbed, broken>>
  /\ RunFrame

(* select_all runs the handlers: the one of UDP spawns its clear task when *)
(* it is first polled, the one of TCP with its first stream.               *)
FaultClearTaskForgotten(h) == [receiver EXCEPT ![h] = "dropped"]
WithClearTask(h) == [receiver EXCEPT ![h] = "task"]

SpawnClear(h) ==
  /\ pc["run"] = "Select" /\ receiver[h] = "future"
  /\ receiver' = WithClearTask(h)
  /\ UNCHANGED <<routes, device, pc, events, cancelVars, woken, disturbed,
                 broken>>
  /\ RunFrame

(* A clear task ends when the monitor has, which closes its channel; the   *)
(* runtime drops it when main has returned.                                *)
ClearEnds(h) ==
  /\ receiver[h] = "task"
  /\ pc["monitor"] \in Ended \/ pc["run"] = "Failed"
  /\ receiver' = [receiver EXCEPT ![h] = "dropped"]
  /\ UNCHANGED <<routes, device, pc, events, cancelVars, woken, disturbed,
                 broken>>
  /\ RunFrame

(* A future has ended: select_all drops them all, first those that share   *)
(* the device ...                                                          *)
SelectEnds ==
  /\ Moves("run", "Select", "Leave")
  /\ CloseDevice
  /\ UNCHANGED <<receiver, cancelVars, broken>>
  /\ RunFrame

(* ... and then the handlers with the receivers they still have.           *)
DropFutures ==
  /\ \/ Moves("run", "Leave", "Cancel")
     \/ Moves("run", "Unwind", "CancelFirst")
  /\ receiver' = Without({"future"})
  /\ UNCHANGED <<routes, device, events, cancelVars, woken, disturbed, broken>>
  /\ RunFrame

(* An error in the building, or a panic of a future: run is left and its   *)
(* variables are dropped in reverse order: the futures, the device first,  *)
(* then the abort_handle, the receivers and self.                          *)
RunFails ==
  /\ pc["run"] \in {"Build", "Select"}
  /\ pc' = [pc EXCEPT !["run"] = "Unwind"]
  /\ CloseDevice
  /\ UNCHANGED <<receiver, cancelVars, broken>>
  /\ RunFrame

(* The stack is not built: there are no futures, and the device still      *)
(* belongs to self.                                                        *)
StackFails ==
  /\ Moves("run", "Stack", "CancelFirst")
  /\ broken' = TRUE
  /\ UNCHANGED <<routes, device, receiver, events, cancelVars, woken,
                 disturbed>>
  /\ RunFrame

DropReceivers ==
  /\ Moves("run", "DropReceivers", "DropSelf")
  /\ receiver' = Without({"run"})
  /\ UNCHANGED <<routes, device, events, cancelVars, woken, disturbed, broken>>
  /\ RunFrame

DropSelf ==
  /\ Moves("run", "DropSelf", "Failed")
  /\ IF device THEN CloseDevice
     ELSE UNCHANGED <<routes, device, events, woken, disturbed>>
  /\ UNCHANGED <<receiver, cancelVars, broken>>
  /\ RunFrame

(* abort_handle.cancel(), or the drop of the abort_handle.                 *)
FaultFlagOnly == woken
WokenByCancel == woken \/ waker

CancelMonitor ==
  /\ \/ Moves("run", "Cancel", "Join")
     \/ Moves("run", "CancelFirst", "DropReceivers")
  /\ cancelled' = TRUE
  /\ woken' = WokenByCancel /\ waker' = FALSE
  /\ UNCHANGED <<routes, device, receiver, events, disturbed, broken>>
  /\ RunFrame

(* monitor_joinable.await.                                                 *)
Join == pc["monitor"] \in Ended /\ Passes("run", "Join", "Returned")

(* main has returned and the runtime drops what waits.                     *)
RuntimeDrops ==
  /\ pc["run"] = "Failed"
  /\ \E yield \in {"Spawned", "Parked", "Sleep"} :
       Passes("monitor", yield, "Dropped")
-----------------------------------------------------------------------------
(* PostTunSetup::monitor, and Cancelable::poll_next under it.              *)
MonitorFrame ==
  UNCHANGED <<hostVars, device, receiver, missed, disturbed, itself>>

PollFirst == Passes("monitor", "Spawned", "Load")

Load == Passes("monitor", "Load", IF cancelled THEN "Restore" ELSE "Inner")

Take(e) ==
  /\ pc["monitor"] = "Inner" /\ events # <<>>
  /\ e = Head(events)
  /\ events' = Tail(events)

(* Up: if the default interface was lost and has an address again, sleep   *)
(* before the set-up.                                                      *)
BackUp == ~default_iface_up /\ AddrOf(default_gw) # None

TakeUp(a) ==
  /\ Take(Up(a))
  /\ Moves("monitor", "Inner", IF BackUp THEN "Sleep" ELSE "Load")
  /\ ip' = IF BackUp THEN AddrOf(default_gw) ELSE ip
  /\ UNCHANGED <<routes, rt, default_gw, default_ipaddr, default_iface_up,
                 cancelVars, woken, broken>>
  /\ MonitorFrame

WakeUp == Passes("monitor", "Sleep", "ReadRoute")

(* Down of the address that is watched: notify_tx.send is unwrapped, and   *)
(* fails when there is no receiver any more.                               *)
HasReceiver == \E h \in Handler : receiver[h] # "dropped"

FaultStillUp == default_iface_up
UpAfterLoss == FALSE

TakeDown(a) ==
  LET lost == a = default_ipaddr IN
  /\ Take(Down(a))
  /\ Moves("monitor", "Inner", IF lost /\ ~HasReceiver THEN "Panicked" ELSE "Load")
  /\ default_iface_up' = IF lost /\ HasReceiver THEN UpAfterLoss
                         ELSE default_iface_up
  /\ UNCHANGED <<routes, rt, default_gw, default_ipaddr, ip, cancelVars, woken,
                 broken>>
  /\ MonitorFrame

(* The stream ends or yields an error, and so does the loop.               *)
WatcherFails ==
  /\ Moves("monitor", "Inner", "Restore")
  /\ broken' = TRUE
  /\ UNCHANGED <<routes, setupVars, events, cancelVars, woken>>
  /\ MonitorFrame

InnerPending == events = <<>> /\ Passes("monitor", "Inner", "Register")

Register ==
  /\ Moves("monitor", "Register", "Parked")
  /\ waker' = TRUE
  /\ UNCHANGED <<routes, setupVars, events, cancelled, woken, broken>>
  /\ MonitorFrame

PollAgain ==
  /\ woken
  /\ Moves("monitor", "Parked", "Load")
  /\ woken' = FALSE
  /\ UNCHANGED <<routes, setupVars, events, cancelVars, broken>>
  /\ MonitorFrame

(* unsetup.                                                                *)
DeleteSpare ==
  /\ Moves("monitor", "Restore", "AddDefault")
  /\ routes' = WithoutSpare
  /\ UNCHANGED <<setupVars, events, cancelVars, woken, broken>>
  /\ MonitorFrame

AddDefault ==
  /\ Moves("monitor", "AddDefault", "Done")
  /\ routes' = WithRoute("zero", default_gw)
  /\ UNCHANGED <<setupVars, events, cancelVars, woken, broken>>
  /\ MonitorFrame
-----------------------------------------------------------------------------
Host == LinkDown \/ (\E n \in Net : LinkUp(n)) \/ OsInstalls

Run ==
  \/ Setup("run")
  \/ CreateWatcher \/ ReturnsEarly \/ StackBuilt \/ Built
  \/ \E h \in Handler : SpawnClear(h) \/ ClearEnds(h)
  \/ SelectEnds \/ RunFails \/ StackFails
  \/ DropFutures \/ DropReceivers \/ DropSelf
  \/ CancelMonitor \/ Join \/ RuntimeDrops

Monitor ==
  \/ PollFirst \/ Load \/ InnerPending \/ Register \/ PollAgain
  \/ \E a \in Gateway : TakeUp(a) \/ TakeDown(a)
  \/ WatcherFails
  \/ WakeUp \/ Setup("monitor")
  \/ DeleteSpare \/ AddDefault

Next == Host \/ Run \/ Monitor

(* Tasks that are ready or woken are polled, and the monitor's sleep ends. *)
(* Nothing is assumed of the host or of the futures of select_all.         *)
Fairness ==
  /\ WF_vars(Monitor)
  /\ WF_vars(DropFutures \/ CancelMonitor \/ Join)

Spec == Init /\ [][Next]_vars /\ Fairness
-----------------------------------------------------------------------------
(* Types; a monitor exists only after a set-up, and only one of the two    *)
(* processes is in a set-up, so that they can share its variables.         *)
TypeOK ==
  /\ net \in Net \cup {None} /\ installed \in BOOLEAN /\ policy \in Policies
  /\ changes \in 0 .. MaxChange
  /\ routes \in [{"zero", "metric", "spare"} -> Gateway \cup {None}]
  /\ device \in BOOLEAN
  /\ pc \in [Process -> InSetup \cup Ended \cup
       {"New", "ReadRoute", "Watch", "Stack", "Build", "Select", "Cancel",
        "Leave", "Unwind", "CancelFirst", "DropReceivers", "DropSelf", "Join",
        "Returned", "Failed", "Spawned", "Load", "Inner", "Register", "Parked",
        "Sleep", "Restore", "AddDefault"}]
  /\ pc["run"] \in InSetup \cup {"ReadRoute", "Watch"} => pc["monitor"] = "New"
  /\ rt \in Gateway \cup {None} /\ default_gw \in Gateway \cup {None}
  /\ default_ipaddr \in Gateway \cup {None} /\ ip \in Gateway \cup {None}
  /\ default_iface_up \in BOOLEAN
  /\ receiver \in [Handler -> {"run", "future", "task", "dropped"}]
  /\ events \in Seq(Event)
  /\ cancelled \in BOOLEAN /\ waker \in BOOLEAN /\ woken \in BOOLEAN
  /\ missed \in BOOLEAN /\ disturbed \in BOOLEAN
  /\ itself \in BOOLEAN /\ broken \in BOOLEAN

(* Address a is on the host, or the watcher will still report its loss.    *)
Tracked(a) ==
  \/ a = net \/ (a = Tun /\ device)
  \/ \E i \in DOMAIN events : events[i] = Down(a)

(* The monitor never believes in an address whose loss it has already been *)
(* told of: although it watches an address read before its sleep and sets  *)
(* the routes up with one read after it, the address is on the host or its *)
(* loss is still queued.  The exception are changes between PostTunSetup:: *)
(* new and IfWatcher::new, which nobody reports.                           *)
NoStaleWatch ==
  (Watching /\ default_iface_up /\ ~missed) => Tracked(default_ipaddr)

(* Neither process is left, or what is left of it can not run any more.    *)
Gone ==
  /\ pc["run"] \in {"Returned", "Failed"}
  /\ pc["monitor"] \in {"New"} \cup Ended

(* Whichever way the program ends, the host's default route leads to the   *)
(* network it is on, as soon as the host has installed one of its own:     *)
(* unsetup restores it, or the copy in table default takes over when the   *)
(* monitor does not get that far.  It is lost only if a set-up went wrong, *)
(* as the network or the device went between its commands or as it took    *)
(* the tunnel itself for the default interface, or if the watcher failed   *)
(* or the stack was not built, as unsetup then runs beside the tunnel's    *)
(* own route.                                                              *)
HostReachable ==
  (/\ Gone /\ net # None /\ installed
   /\ ~disturbed /\ ~itself /\ ~broken)
    => Preferred = net

(* As long as the tunnel works, the loss of the network reaches every      *)
(* handler: while the monitor watches, each receiver is alive wherever it  *)
(* has been moved, so that no handler misses the clear, and the unwrap of  *)
(* notify_tx.send has not panicked.                                        *)
LossReachesHandlers ==
  pc["run"] \in {"Stack", "Build", "Select"} =>
    /\ pc["monitor"] # "Panicked"
    /\ Watching => \A h \in Handler : receiver[h] # "dropped"

(* The cancellation was stored but woke nobody.                            *)
Deaf == pc["monitor"] = "Parked" /\ cancelled /\ waker /\ ~woken

(* run comes to its end after select_all, also when the monitor is asleep  *)
(* or in a set-up at that time, unless the cancellation fell into the      *)
(* first poll_next that returned Pending, before its registration.         *)
RunReturns == pc["run"] = "Join" ~> (pc["run"] = "Returned" \/ Deaf)

(* "if the if ip changed, reset the the route": when the host is on no     *)
(* network and the monitor has handled every event, it regards the default *)
(* interface as down, so that the next Up event resets the route.  It does *)
(* not hold: while the tunnel's route is preferred, get_default_gw_iface   *)
(* returns the tunnel itself, and after another round the tunnel's own     *)
(* address is the one watched.                                             *)
LossNoticed ==
  (/\ pc["run"] = "Select" /\ pc["monitor"] = "Parked" /\ events = <<>>
   /\ net = None /\ ~missed /\ ~disturbed)
    => ~default_iface_up
=============================================================================
