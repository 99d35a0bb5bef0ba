--------------------------- MODULE NiimbotBackend ---------------------------
(***************************************************************************)
(* Discovery of NIIMBOT printers and its way to the server:                *)
(* internal/printer/niimbot.go (poll, Print, Status), the event channels   *)
(* (events.go, MultiDiscoverer) and Bridge.watchPrinters.                  *)
(*                                                                         *)
(* Three kinds of goroutine share the state: the poller, the watcher and   *)
(* one print per printer.  linkMu serialises the use of the radio, mu      *)
(* guards the device map.  Every section under mu is one step, except the  *)
(* expiry loop of poll, which sends events while it holds mu.  A printer   *)
(* and its address are one thing here.  The time since the last status     *)
(* check is left out: any device may be due for a refresh.                 *)
(***************************************************************************)
EXTENDS Integers, Sequences, FiniteSets

CONSTANTS
  Devices,      \* printers
  SerialDevs,   \* those on a configured serial port; the others use BLE
  EvCap,        \* events between poller and watcher: the backend's channel and
                \* MultiDiscoverer's (16 each in the code)
  MissedScans,  \* scans a BLE printer may miss before it expires
  MaxFlips,     \* bound: changes of the printers' physical state
  MaxPrints,    \* bound: calls of Print
  Nobody        \* the free mutex

ASSUME BackendAssumption ==
  /\ SerialDevs \subseteq Devices
  /\ EvCap \in Nat \ {0} /\ MissedScans \in Nat \ {0}
  /\ MaxFlips \in Nat /\ MaxPrints \in Nat
  /\ Nobody \notin Devices /\ "poll" \notin Devices /\ Nobody # "poll"

VARIABLES
  phys,      \* what a heartbeat of the printer would say, or "off"
  known,     \* the printer is in NiimbotBackend.devices
  cached,    \* niimbotDevice.printer.Status
  missed,    \* niimbotDevice.missed
  mu,        \* holder of mu between steps
  link,      \* holder of linkMu
  poll,      \* where poll stands
  todo,      \* devices its current loop has yet to visit
  seen,      \* poll's seen
  refresh,   \* poll's refresh
  pending,   \* the event it is emitting, and where it goes on
  events,    \* the event channels
  watch,     \* where watchPrinters stands
  wev,       \* the event it handles
  view,      \* what the bridge recorded of each printer and gave to the transport
  print,     \* where Print stands for each printer
  shutdown,  \* the context is cancelled
  flips, prints

pollVars  == <<poll, todo, seen, refresh, pending>>
watchVars == <<watch, wev, view>>
devVars   == <<known, cached, missed>>
envVars   == <<phys, shutdown, flips, prints>>
vars == <<devVars, mu, link, pollVars, events, watchVars, print, envVars>>

HeartbeatStatus == {"ready", "cover_open", "out_of_media"}
Status == HeartbeatStatus \cup {"busy", "wrong_media", "error", "offline"}
Event  == [kind : {"connected", "disconnected", "status_changed"}, dev : Devices, status : Status]
Absent == "absent"
NoEvent == <<>>

Ev(k, d, s) == [kind |-> k, dev |-> d, status |-> s]

-----------------------------------------------------------------------------
Init ==
  /\ phys \in [Devices -> HeartbeatStatus \cup {"off"}]
  /\ known = [d \in Devices |-> FALSE]
  /\ cached = [d \in Devices |-> "offline"]
  /\ missed = [d \in Devices |-> 0]
  /\ mu = Nobody /\ link = Nobody
  /\ poll = "idle" /\ todo = {} /\ seen = {} /\ refresh = {} /\ pending = NoEvent
  /\ events = <<>>
  /\ watch = "none" /\ wev = NoEvent
  /\ view = [d \in Devices |-> Absent]
  /\ print = [d \in Devices |-> "idle"]
  /\ shutdown = FALSE /\ flips = 0 /\ prints = 0

-----------------------------------------------------------------------------
(* poll *)

\* Mutant of PollStart: the poll does not ask for linkMu.
PollStartUnlocked ==
  /\ poll = "idle" /\ ~ shutdown
  /\ poll' = "scan" /\ todo' = Devices /\ seen' = {} /\ refresh' = {}
  /\ UNCHANGED <<link, devVars, mu, pending, events, watchVars, print, envVars>>

\* TryLock: the cycle is skipped while a print holds the link.
PollStart ==
  /\ poll = "idle" /\ ~ shutdown
  /\ link = Nobody
  /\ link' = "poll"
  /\ poll' = "scan" /\ todo' = Devices /\ seen' = {} /\ refresh' = {}
  /\ UNCHANGED <<devVars, mu, pending, events, watchVars, print, envVars>>

\* A printer that is already known: a serial one is taken as seen, a BLE one is
\* seen if it advertises and the scan catches it.
ProbeKnown(d) ==
  /\ poll = "scan" /\ d \in todo /\ known[d] /\ mu = Nobody
  /\ todo' = todo \ {d}
  /\ \/ (d \in SerialDevs \/ phys[d] # "off") /\ seen' = seen \cup {d}
     \/ d \notin SerialDevs /\ UNCHANGED seen
  /\ UNCHANGED <<devVars, mu, link, poll, refresh, pending, events, watchVars, print, envVars>>

\* An unknown printer that is not found, does not connect or fails to identify (the
\* mark that poll leaves in seen for one that was found means nothing while it is
\* unknown).
ProbeFail(d) ==
  /\ poll = "scan" /\ d \in todo /\ ~ known[d] /\ mu = Nobody
  /\ todo' = todo \ {d}
  /\ UNCHANGED <<devVars, mu, link, poll, seen, refresh, pending, events, watchVars, print, envVars>>

\* An unknown printer is identified and added; Connected is sent after mu is
\* released.
ProbeAdd(d) ==
  /\ poll = "scan" /\ d \in todo /\ ~ known[d] /\ mu = Nobody
  /\ phys[d] # "off"
  /\ todo' = todo \ {d}
  /\ seen' = seen \cup {d}
  /\ known' = [known EXCEPT ![d] = TRUE]
  /\ cached' = [cached EXCEPT ![d] = phys[d]]
  /\ missed' = [missed EXCEPT ![d] = 0]
  /\ pending' = <<Ev("connected", d, phys[d]), "scan">>
  /\ poll' = "emit"
  /\ UNCHANGED <<mu, link, refresh, events, watchVars, print, envVars>>

\* The expiry loop starts, under mu.
ScanDone ==
  /\ poll = "scan" /\ todo = {} /\ mu = Nobody
  /\ mu' = "poll"
  /\ poll' = "expire" /\ todo' = {d \in Devices : known[d]}
  /\ UNCHANGED <<devVars, link, seen, refresh, pending, events, watchVars, print, envVars>>

Missed(d) == IF d \in seen THEN 0 ELSE IF d \in SerialDevs THEN missed[d] ELSE missed[d] + 1

ExpireKeep(d) ==
  /\ poll = "expire" /\ d \in todo
  /\ Missed(d) < MissedScans
  /\ missed' = [missed EXCEPT ![d] = Missed(d)]
  /\ todo' = todo \ {d}
  /\ refresh' \in {refresh, refresh \cup {d}}
  /\ UNCHANGED <<known, cached, mu, link, poll, seen, pending, events, watchVars, print, envVars>>

\* Disconnected is sent while mu is held.
Expire(d) ==
  /\ poll = "expire" /\ d \in todo
  /\ Missed(d) >= MissedScans
  /\ known' = [known EXCEPT ![d] = FALSE]
  /\ todo' = todo \ {d}
  /\ pending' = <<Ev("disconnected", d, cached[d]), "expire">>
  /\ poll' = "emit"
  /\ UNCHANGED <<cached, missed, mu, link, seen, refresh, events, watchVars, print, envVars>>

ExpireDone ==
  /\ poll = "expire" /\ todo = {}
  /\ mu' = Nobody
  /\ poll' = "refresh"
  /\ UNCHANGED <<devVars, link, todo, seen, refresh, pending, events, watchVars, print, envVars>>

\* probeStatus fails.
RefreshFail(d) ==
  /\ poll = "refresh" /\ d \in refresh
  /\ refresh' = refresh \ {d}
  /\ UNCHANGED <<devVars, mu, link, poll, todo, seen, pending, events, watchVars, print, envVars>>

\* setStatus with the events channel: a change is sent.
Refresh(d) ==
  /\ poll = "refresh" /\ d \in refresh /\ mu = Nobody
  /\ phys[d] # "off"
  /\ refresh' = refresh \ {d}
  /\ known[d]
  /\ cached' = [cached EXCEPT ![d] = phys[d]]
  /\ IF cached[d] # phys[d]
     THEN /\ pending' = <<Ev("status_changed", d, phys[d]), "refresh">>
          /\ poll' = "emit"
     ELSE UNCHANGED <<pending, poll>>
  /\ UNCHANGED <<known, missed, mu, link, todo, seen, events, watchVars, print, envVars>>

\* The first poll is part of Start; watchPrinters runs once Start has returned.
PollEnd ==
  /\ poll = "refresh" /\ refresh = {}
  /\ link' = Nobody
  /\ poll' = "idle"
  /\ watch' = IF watch = "none" THEN "recv" ELSE watch
  /\ UNCHANGED <<devVars, mu, todo, seen, refresh, pending, events, wev, view, print, envVars>>

\* Mutant of EmitSend: an event that finds no room is dropped.
EmitOrDrop ==
  /\ poll = "emit"
  /\ events' = IF Len(events) < EvCap THEN Append(events, pending[1]) ELSE events
  /\ poll' = pending[2] /\ pending' = NoEvent
  /\ UNCHANGED <<devVars, mu, link, todo, seen, refresh, watchVars, print, envVars>>

\* emit: blocks until the channel has room; a cancelled context releases it, but
\* not in add, which passes context.Background.
EmitSend ==
  /\ poll = "emit"
  /\ Len(events) < EvCap
  /\ events' = Append(events, pending[1])
  /\ poll' = pending[2] /\ pending' = NoEvent
  /\ UNCHANGED <<devVars, mu, link, todo, seen, refresh, watchVars, print, envVars>>

EmitAbort ==
  /\ poll = "emit"
  /\ shutdown /\ pending[1].kind # "connected"
  /\ poll' = pending[2] /\ pending' = NoEvent
  /\ UNCHANGED <<devVars, mu, link, todo, seen, refresh, events, watchVars, print, envVars>>

-----------------------------------------------------------------------------
(* Bridge.watchPrinters *)

WatchRecv ==
  /\ watch = "recv"
  /\ events # <<>>
  /\ events' = Tail(events)
  /\ IF Head(events).kind = "disconnected"
     THEN /\ view' = [view EXCEPT ![Head(events).dev] = Absent]
          /\ UNCHANGED <<watch, wev>>
     ELSE /\ watch' = "status" /\ wev' = Head(events)
          /\ UNCHANGED view
  /\ UNCHANGED <<devVars, mu, link, pollVars, print, envVars>>

\* enrichFromDriver asks Status, which takes mu; then record and update.
WatchStatus ==
  /\ watch = "status"
  /\ mu = Nobody
  /\ view' = [view EXCEPT ![wev.dev] = IF known[wev.dev] THEN cached[wev.dev] ELSE wev.status]
  /\ watch' = "recv" /\ wev' = NoEvent
  /\ UNCHANGED <<devVars, mu, link, pollVars, events, print, envVars>>

WatchStop ==
  /\ watch = "recv" /\ shutdown
  /\ watch' = "stopped"
  /\ UNCHANGED <<devVars, mu, link, pollVars, events, wev, view, print, envVars>>

-----------------------------------------------------------------------------
(* Print, called by the printer's queue worker *)

\* setStatus without an events channel, as Print calls it.
SetStatus(d, s) == cached' = IF known[d] THEN [cached EXCEPT ![d] = s] ELSE cached

\* Jobs arrive once Start has returned.  The device is looked up before the link is
\* taken; an unknown one is refused.
PrintCall(d) ==
  /\ print[d] = "idle" /\ prints < MaxPrints /\ watch # "none"
  /\ mu = Nobody /\ known[d]
  /\ print' = [print EXCEPT ![d] = "wait"]
  /\ prints' = prints + 1
  /\ UNCHANGED <<devVars, mu, link, pollVars, events, watchVars, phys, shutdown, flips>>

PrintLock(d) ==
  /\ print[d] = "wait" /\ link = Nobody
  /\ link' = d
  /\ print' = [print EXCEPT ![d] = "connect"]
  /\ UNCHANGED <<devVars, mu, pollVars, events, watchVars, envVars>>

\* Mutant of PrintReturn: the status is not reset after the print.
PrintReturnStillBusy(d, s) ==
  /\ link' = Nobody
  /\ print' = [print EXCEPT ![d] = "idle"]
  /\ UNCHANGED <<devVars, mu, pollVars, events, watchVars, envVars>>

PrintReturn(d, s) ==
  /\ SetStatus(d, s)
  /\ link' = Nobody
  /\ print' = [print EXCEPT ![d] = "idle"]
  /\ UNCHANGED <<known, missed, mu, pollVars, events, watchVars, envVars>>

\* No connection, or no heartbeat, or the heartbeat says it cannot print.
PrintRefused(d) ==
  /\ print[d] = "connect" /\ mu = Nobody
  /\ \/ PrintReturn(d, "offline")
     \/ phys[d] \notin {"off", "ready"} /\ PrintReturn(d, phys[d])

PrintBusy(d) ==
  /\ print[d] = "connect" /\ mu = Nobody
  /\ phys[d] = "ready"
  /\ SetStatus(d, "busy")
  /\ print' = [print EXCEPT ![d] = "printing"]
  /\ UNCHANGED <<known, missed, mu, link, pollVars, events, watchVars, envVars>>

\* The print ends well, or with an error that maps to a status.
PrintEnd(d) ==
  /\ print[d] = "printing" /\ mu = Nobody
  /\ \E s \in {"ready", "error", "cover_open", "out_of_media", "wrong_media"} : PrintReturn(d, s)

-----------------------------------------------------------------------------
(* The environment: lids, paper and power; shutdown *)

Flip(d, s) ==
  /\ flips < MaxFlips
  /\ phys[d] # s
  /\ phys' = [phys EXCEPT ![d] = s]
  /\ flips' = flips + 1
  /\ UNCHANGED <<devVars, mu, link, pollVars, events, watchVars, print, shutdown, prints>>

Shutdown ==
  /\ ~ shutdown
  /\ shutdown' = TRUE
  /\ UNCHANGED <<devVars, mu, link, pollVars, events, watchVars, print, phys, flips, prints>>

-----------------------------------------------------------------------------
Next ==
  \/ PollStart \/ ScanDone \/ ExpireDone \/ PollEnd \/ EmitSend \/ EmitAbort
  \/ WatchRecv \/ WatchStatus \/ WatchStop
  \/ \E d \in Devices :
       \/ ProbeKnown(d) \/ ProbeFail(d) \/ ProbeAdd(d)
       \/ ExpireKeep(d) \/ Expire(d) \/ RefreshFail(d) \/ Refresh(d)
       \/ PrintCall(d) \/ PrintLock(d) \/ PrintRefused(d) \/ PrintBusy(d) \/ PrintEnd(d)
       \/ \E s \in HeartbeatStatus \cup {"off"} : Flip(d, s)
  \/ Shutdown

Spec == Init /\ [][Next]_vars

-----------------------------------------------------------------------------
(* Properties *)

\* The type invariant: among it, the event channels never exceed their capacity.
TypeOK ==
  /\ phys \in [Devices -> HeartbeatStatus \cup {"off"}]
  /\ known \in [Devices -> BOOLEAN]
  /\ cached \in [Devices -> Status]
  /\ missed \in [Devices -> 0 .. MissedScans]
  /\ mu \in {Nobody, "poll"}
  /\ link \in {Nobody, "poll"} \cup Devices
  /\ poll \in {"idle", "scan", "expire", "refresh", "emit"}
  /\ todo \subseteq Devices /\ seen \subseteq Devices /\ refresh \subseteq Devices
  /\ pending = NoEvent \/ pending \in Event \X {"scan", "expire", "refresh"}
  /\ events \in Seq(Event) /\ Len(events) <= EvCap
  /\ watch \in {"none", "recv", "status", "stopped"}
  /\ wev = NoEvent \/ wev \in Event
  /\ view \in [Devices -> Status \cup {Absent}]
  /\ print \in [Devices -> {"idle", "wait", "connect", "printing"}]
  /\ shutdown \in BOOLEAN
  /\ flips \in 0 .. MaxFlips /\ prints \in 0 .. MaxPrints

\* A printer never expires while a print is talking to it (it does not advertise
\* then): misses are only counted under linkMu.
NoExpiryDuringPrint ==
  [][\A d \in Devices : known[d] /\ ~ known'[d] => print[d] \notin {"connect", "printing"}]_vars

\* A printer is reported busy only while a print holds the link.
BusyIsPrinting ==
  \A d \in Devices : known[d] /\ cached[d] = "busy" => print[d] = "printing" /\ link = d

\* The events that have left the device map and not reached the bridge's list.
OnTheWay == (IF watch = "status" THEN <<wev>> ELSE <<>>) \o events
              \o (IF poll = "emit" THEN <<pending[1]>> ELSE <<>>)

\* The events q make a list that has d (was) into one that has it (is): the newest event
\* about d decides.
Settles(q, d, was, is) ==
  /\ (\A i \in 1 .. Len(q) : q[i].dev # d) => (is <=> was)
  /\ \A i \in 1 .. Len(q) :
       q[i].dev = d /\ (\A k \in i + 1 .. Len(q) : q[k].dev # d) =>
         (is <=> q[i].kind # "disconnected")

\* Whatever the watcher has still to do, the events on their way make the bridge's
\* list of printers equal to the device map: none is forgotten, none comes back
\* from an event that was overtaken.
PresenceTracked ==
  ~ shutdown => \A d \in Devices : Settles(OnTheWay, d, view[d] # Absent, known[d])

Quiescent ==
  poll = "idle" /\ watch = "recv" /\ events = <<>> /\ \A d \in Devices : print[d] = "idle"

\* docs/server-contract.md:99: the bridge sends a printer_update "when a printer is
\* discovered (and on every status change)".  Refuted: Print changes the cached
\* status without an event.  When everything is quiet and the cache agrees with the
\* printer, no later refresh will find a change to report either.
StatusReported ==
  Quiescent => \A d \in Devices : known[d] /\ cached[d] = phys[d] => view[d] = phys[d]

\* events.go:5: emit "sends an event without blocking on a slow consumer".
\* Refuted: with full channels, poll waits in emit holding mu, and the watcher,
\* which alone could make room, waits for mu in Status.
EmitNeverStuck ==
  ~ (poll = "emit" /\ mu = "poll" /\ Len(events) = EvCap /\ watch = "status")
=============================================================================
