--------------------------- MODULE BrotherBackend ---------------------------
(***************************************************************************)
(* Brother printers on macOS, from the USB bus to the server and from a    *)
(* job to a CUPS queue: internal/printer/usb_darwin.go (the polling        *)
(* discoverer), cups_darwin.go (the driver and its cache of endpoints) and *)
(* Bridge.watchPrinters, which joins them.                                 *)
(*                                                                         *)
(* The poller, the watcher and the print workers run concurrently; the     *)
(* driver's map and cache are read and written under its own mutex, one    *)
(* access per step.  Device, serial number and uuid are one thing here;    *)
(* the model name is what Contains says of it.                             *)
(***************************************************************************)
EXTENDS Integers, Sequences, FiniteSets

CONSTANTS
  Devices,   \* printers
  Contains,  \* printer -> those whose model name contains the name of its model
  Queues,    \* printers that have a CUPS queue
  EvCap,     \* events between poller and watcher
  Flaky,     \* the commands of CUPS may fail
  MaxEps,    \* bound: endpoints
  MaxFlips,  \* bound: changes of the hardware
  MaxPrints, \* bound: calls of Print
  Nothing    \* no device, no endpoint

ASSUME BrotherAssumption ==
  /\ Contains \in [Devices -> SUBSET Devices] /\ \A d \in Devices : d \in Contains[d]
  /\ Queues \subseteq Devices
  /\ EvCap \in Nat \ {0}
  /\ Flaky \in BOOLEAN
  /\ {MaxEps, MaxFlips, MaxPrints} \subseteq Nat
  /\ Nothing \notin Devices \cup Nat

VARIABLES
  plugged,    \* printers on the bus
  ep,         \* the endpoint ipp-usb serves each of them at
  phys,       \* the state of each printer
  known,      \* darwinUSBDiscoverer.known
  poll,       \* where poll stands
  appear,     \* Connected events it has still to send
  vanish,     \* Disconnected events it has still to send
  events,     \* the event channels
  watch,      \* where watchPrinters stands
  wev,        \* the printer whose event it handles
  pass,       \* Status or LoadedMedia: which of the two asks for attributes
  tries,      \* times it found the endpoint stale
  queue,      \* the queue it resolved
  endpoint,   \* the endpoint in hand
  status,     \* what Status returned, and the printer that said so
  registered, \* cupsDriver.known
  endpoints,  \* cupsDriver.endpoints
  view,       \* what the bridge recorded of each printer and gave to the transport
  source,     \* history: the printer that said so
  owners,     \* history: the printers that each endpoint was given to
  misprints,  \* history: jobs given to the queue of another printer
  unresolved, \* history: printers discovery knew when a job for them failed for want of a model
  shutdown, flips, prints

hwVars    == <<plugged, ep, phys, owners>>
pollVars  == <<known, poll, appear, vanish>>
askVars   == <<pass, tries, queue, endpoint, status>>
watchVars == <<watch, wev, askVars, view, source>>
drvVars   == <<registered, endpoints>>
printVars == <<misprints, unresolved, prints>>
vars == <<hwVars, pollVars, events, watchVars, drvVars, printVars, shutdown, flips>>

Status == {"ready", "cover_open", "offline"}
Absent == "absent"

Init ==
  /\ plugged = {} /\ ep = [d \in Devices |-> Nothing] /\ phys = [d \in Devices |-> "ready"]
  /\ owners = [n \in 1 .. MaxEps |-> {}]
  /\ known = {} /\ poll = "idle" /\ appear = {} /\ vanish = {}
  /\ events = <<>>
  /\ watch = "none" /\ wev = Nothing
  /\ pass = "status" /\ tries = 0 /\ queue = Nothing /\ endpoint = Nothing /\ status = <<"offline", Nothing>>
  /\ view = [d \in Devices |-> Absent] /\ source = [d \in Devices |-> Nothing]
  /\ registered = {} /\ endpoints = [d \in Devices |-> Nothing]
  /\ misprints = {} /\ unresolved = {} /\ prints = 0
  /\ shutdown = FALSE /\ flips = 0

-----------------------------------------------------------------------------
(* poll *)

\* parseBrotherPrinters: the printers of a scan, each of them once.
Scan == plugged

\* Mutant of Poll: known is replaced before it is compared with the scan.
PollNoVanish ==
  /\ poll = "idle" /\ ~ shutdown
  /\ known' = Scan
  /\ appear' = Scan \ known
  /\ vanish' = {}
  /\ poll' = "emit"
  /\ UNCHANGED <<hwVars, events, watchVars, drvVars, printVars, shutdown, flips>>

\* Scan and swap.  Discovery gives every printer the status ready, so that a known one
\* never has a status change.
Poll ==
  /\ poll = "idle" /\ ~ shutdown
  /\ known' = Scan
  /\ appear' = Scan \ known
  /\ vanish' = known \ Scan
  /\ poll' = "emit"
  /\ UNCHANGED <<hwVars, events, watchVars, drvVars, printVars, shutdown, flips>>

\* A scan that fails changes nothing, but the first one is part of Start all the same.
PollFail ==
  /\ poll = "idle" /\ watch = "none"
  /\ Flaky \/ shutdown
  /\ watch' = "recv"
  /\ UNCHANGED <<hwVars, pollVars, events, wev, askVars, view, source, drvVars, printVars, shutdown, flips>>

\* The next event: the new printers first, in any order.
NextEvent(k, d) ==
  \/ k = "connected" /\ d \in appear /\ appear' = appear \ {d} /\ UNCHANGED vanish
  \/ k = "disconnected" /\ appear = {} /\ d \in vanish /\ vanish' = vanish \ {d} /\ UNCHANGED appear

\* Mutant of Emit: the event is dropped when the channels are full.
EmitOrDrop(k, d) ==
  /\ poll = "emit" /\ NextEvent(k, d)
  /\ events' = IF Len(events) < EvCap THEN Append(events, [kind |-> k, dev |-> d]) ELSE events
  /\ UNCHANGED <<hwVars, known, poll, watchVars, drvVars, printVars, shutdown, flips>>

\* emit: wait for a place in the channels.
Emit(k, d) ==
  /\ poll = "emit" /\ NextEvent(k, d)
  /\ Len(events) < EvCap
  /\ events' = Append(events, [kind |-> k, dev |-> d])
  /\ UNCHANGED <<hwVars, known, poll, watchVars, drvVars, printVars, shutdown, flips>>

\* emit, when the context is done: the event is lost.
EmitAbort(k, d) ==
  /\ poll = "emit" /\ NextEvent(k, d)
  /\ shutdown
  /\ UNCHANGED <<hwVars, known, poll, events, watchVars, drvVars, printVars, shutdown, flips>>

\* The first poll is part of Start; watchPrinters runs once Start has returned.
PollEnd ==
  /\ poll = "emit" /\ appear = {} /\ vanish = {}
  /\ poll' = "idle"
  /\ watch' = IF watch = "none" THEN "recv" ELSE watch
  /\ UNCHANGED <<hwVars, known, appear, vanish, events, wev, askVars, view, source, drvVars,
                 printVars, shutdown, flips>>

-----------------------------------------------------------------------------
(* watchPrinters *)

\* An available printer is registered with the driver, then asked for its status.
WatchRecv ==
  /\ watch = "recv" /\ events # <<>>
  /\ events' = Tail(events)
  /\ LET d == Head(events).dev IN
     IF Head(events).kind = "disconnected"
     THEN /\ view' = [view EXCEPT ![d] = Absent]
          /\ UNCHANGED <<watch, wev, pass, tries, registered>>
     ELSE /\ registered' = registered \cup {d}
          /\ wev' = d /\ watch' = "queue" /\ pass' = "status" /\ tries' = 0
          /\ UNCHANGED view
  /\ UNCHANGED <<hwVars, pollVars, queue, endpoint, status, source, endpoints, printVars, shutdown, flips>>

WatchStop ==
  /\ watch = "recv" /\ shutdown
  /\ watch' = "stopped"
  /\ UNCHANGED <<hwVars, pollVars, events, wev, askVars, view, source, drvVars, printVars, shutdown, flips>>

\* lookup and matchQueue: the queues whose label or name contains the model, by which a
\* printer that is not registered matches none.
Matching(d) == IF d \in registered THEN {q \in Queues : q \in Contains[d]} ELSE {}

\* The attributes have been read, or not.  Status comes first, then LoadedMedia (whose
\* answer is left out), then recordPrinter and sendPrinterUpdate.
Answered(s, who) ==
  IF pass = "status"
  THEN /\ status' = <<s, who>>
       /\ pass' = "media" /\ tries' = 0 /\ watch' = "queue"
       /\ UNCHANGED <<wev, view, source>>
  ELSE /\ view' = [view EXCEPT ![wev] = status[1]]
       /\ source' = [source EXCEPT ![wev] = status[2]]
       /\ watch' = "recv" /\ wev' = Nothing
       /\ UNCHANGED <<status, pass, tries>>

\* resolveQueue: a unique match.  When lpstat fails under deviceAttributes, Status tries
\* it once more before it gives up.
ResolveQueue ==
  /\ watch = "queue"
  /\ \/ /\ Cardinality(Matching(wev)) = 1
        /\ queue' \in Matching(wev)
        /\ watch' = "endpoint" \/ (Flaky /\ watch' = "proxy")
        /\ UNCHANGED <<wev, pass, tries, status, view, source>>
     \/ /\ Flaky \/ Cardinality(Matching(wev)) # 1
        /\ Answered("offline", Nothing)
        /\ UNCHANGED queue
  /\ UNCHANGED <<hwVars, pollVars, events, endpoint, drvVars, printVars, shutdown, flips>>

\* Mutant of Matches: any endpoint will do.
MatchesAny(e) == TRUE

\* The uuid of the queue, or the model.
Matches(e) == e = queue \/ e \in Contains[wev]

\* deviceEndpoint: from the cache, or from ippfind.
DeviceEndpoint ==
  /\ watch = "endpoint"
  /\ \/ /\ endpoints[wev] # Nothing
        /\ endpoint' = endpoints[wev] /\ watch' = "attributes"
        /\ UNCHANGED endpoints
     \/ /\ endpoints[wev] = Nothing
        /\ \E e \in plugged :
             /\ Matches(e)
             /\ endpoint' = ep[e] /\ endpoints' = [endpoints EXCEPT ![wev] = ep[e]]
        /\ watch' = "attributes"
     \/ /\ endpoints[wev] = Nothing
        /\ Flaky \/ \A e \in plugged : ~ Matches(e)
        /\ watch' = "proxy"
        /\ UNCHANGED <<endpoint, endpoints>>
  /\ UNCHANGED <<hwVars, pollVars, events, wev, pass, tries, queue, status, view, source, registered,
                 printVars, shutdown, flips>>

\* getPrinterAttributes at the endpoint: whoever is there answers.
Attributes ==
  /\ watch = "attributes"
  /\ \E e \in plugged : ep[e] = endpoint /\ Answered(phys[e], e)
  /\ UNCHANGED <<hwVars, pollVars, events, queue, endpoint, drvVars, printVars, shutdown, flips>>

\* Nobody does: forget the endpoint and try once more, then ask the queue proxy.
AttributesFail ==
  /\ watch = "attributes"
  /\ Flaky \/ \A e \in plugged : ep[e] # endpoint
  /\ IF tries = 0
     THEN endpoints' = [endpoints EXCEPT ![wev] = Nothing] /\ tries' = 1 /\ watch' = "endpoint"
     ELSE watch' = "proxy" /\ UNCHANGED <<endpoints, tries>>
  /\ UNCHANGED <<hwVars, pollVars, events, wev, pass, queue, endpoint, status, view, source, registered,
                 printVars, shutdown, flips>>

\* The proxy, or lpstat, says what CUPS last heard of the printer of that queue.
Proxy ==
  /\ watch = "proxy"
  /\ \E s \in Status : Answered(s, queue)
  /\ UNCHANGED <<hwVars, pollVars, events, queue, endpoint, drvVars, printVars, shutdown, flips>>

-----------------------------------------------------------------------------
\* cupsDriver.Print, called by a queue worker: lookup, resolveQueue, lp.
PrintJob(d) ==
  /\ prints < MaxPrints /\ watch # "none"
  /\ prints' = prints + 1
  /\ misprints' = IF Cardinality(Matching(d)) = 1 /\ d \notin Matching(d) THEN misprints \cup {d} ELSE misprints
  /\ unresolved' = IF d \in known \ registered THEN unresolved \cup {d} ELSE unresolved
  /\ UNCHANGED <<hwVars, pollVars, events, watchVars, drvVars, shutdown, flips>>

-----------------------------------------------------------------------------
(* The environment: the bus, ipp-usb and the printers *)

\* An endpoint that no printer has now; another one may have had it before.
Fresh(n) == n \in 1 .. MaxEps /\ \A d \in Devices : ep[d] # n

\* A printer is plugged in, or ipp-usb restarts: it gets an endpoint.
Serve(d, n) ==
  /\ flips < MaxFlips /\ Fresh(n)
  /\ flips' = flips + 1
  /\ plugged' = plugged \cup {d} /\ ep' = [ep EXCEPT ![d] = n]
  /\ owners' = [owners EXCEPT ![n] = @ \cup {d}]
  /\ UNCHANGED <<phys, pollVars, events, watchVars, drvVars, printVars, shutdown>>

Unplug(d) ==
  /\ flips < MaxFlips /\ d \in plugged
  /\ flips' = flips + 1
  /\ plugged' = plugged \ {d} /\ ep' = [ep EXCEPT ![d] = Nothing]
  /\ UNCHANGED <<phys, owners, pollVars, events, watchVars, drvVars, printVars, shutdown>>

Cover(d) ==
  /\ flips < MaxFlips
  /\ flips' = flips + 1
  /\ phys' = [phys EXCEPT ![d] = IF @ = "ready" THEN "cover_open" ELSE "ready"]
  /\ UNCHANGED <<plugged, ep, owners, pollVars, events, watchVars, drvVars, printVars, shutdown>>

Shutdown ==
  /\ ~ shutdown
  /\ shutdown' = TRUE
  /\ UNCHANGED <<hwVars, pollVars, events, watchVars, drvVars, printVars, flips>>

Kinds == {"connected", "disconnected"}

PollStep  == Poll \/ PollFail \/ (\E k \in Kinds, d \in Devices : Emit(k, d) \/ EmitAbort(k, d)) \/ PollEnd
WatchStep ==
  WatchRecv \/ WatchStop \/ ResolveQueue \/ DeviceEndpoint \/ Attributes \/ AttributesFail \/ Proxy

Next ==
  \/ PollStep \/ WatchStep
  \/ \E d \in Devices : PrintJob(d) \/ Unplug(d) \/ Cover(d) \/ \E n \in 1 .. MaxEps : Serve(d, n)
  \/ Shutdown

Spec == Init /\ [][Next]_vars

(* The ticker of the poller and the goroutine of the watcher run; each command that    *)
(* they wait for ends, and scans do not fail for ever.                                  *)
FairSpec == Spec /\ WF_vars(PollStep) /\ WF_vars(WatchStep)

-----------------------------------------------------------------------------
(* Properties *)

\* The type invariant: among it, the event channels never exceed their capacity.
TypeOK ==
  /\ plugged \subseteq Devices /\ known \subseteq Devices /\ registered \subseteq Devices
  /\ ep \in [Devices -> 1 .. MaxEps \cup {Nothing}] /\ endpoints \in [Devices -> 1 .. MaxEps \cup {Nothing}]
  /\ phys \in [Devices -> Status] /\ owners \in [1 .. MaxEps -> SUBSET Devices]
  /\ poll \in {"idle", "emit"} /\ appear \subseteq known /\ vanish \cap known = {}
  /\ events \in Seq([kind : Kinds, dev : Devices]) /\ Len(events) <= EvCap
  /\ watch \in {"none", "recv", "queue", "endpoint", "attributes", "proxy", "stopped"}
  /\ wev \in Devices \cup {Nothing} /\ pass \in {"status", "media"} /\ tries \in {0, 1}
  /\ queue \in Devices \cup {Nothing} /\ endpoint \in 1 .. MaxEps \cup {Nothing}
  /\ status \in Status \X (Devices \cup {Nothing})
  /\ view \in [Devices -> Status \cup {Absent}] /\ source \in [Devices -> Devices \cup {Nothing}]
  /\ flips \in 0 .. MaxFlips /\ prints \in 0 .. MaxPrints

\* Whose status the bridge may report for d: that of a printer whose model name contains
\* d's, or of one that ipp-usb served at an endpoint where such a printer was served too.
Explains(e, d) ==
  \/ e = Nothing \/ e \in Contains[d]
  \/ \E n \in 1 .. MaxEps : e \in owners[n] /\ owners[n] \cap Contains[d] # {}

\* Status (cups_darwin.go:151): the model, the queue, the cached endpoint and the answer
\* are four look-ups with the bus changing in between.  However often ipp-usb restarts and
\* whatever the cache still holds, a status that is not the printer's own is explained by
\* one of two causes: a model name within another, or an endpoint that passed from one
\* printer to another.
StatusExplained == \A d \in Devices : Explains(source[d], d)

\* Once the bus is at rest the bridge's list of printers becomes, and stays, what is
\* plugged in.
PresenceFollows == <>[](shutdown \/ \A d \in Devices : d \in plugged <=> view[d] # Absent)

-----------------------------------------------------------------------------
(* What the documents say and the code does not do *)

\* cups_darwin.go:147: "Status reports the printer's live status from the device's IPP
\* attributes".  Refuted, with models that have nothing to do with each other: ipp-usb
\* gives the endpoint of an unplugged printer to another one, and the cached endpoint is
\* asked without asking who is there.
StatusIsOwn == \A d \in Devices : source[d] \in {d, Nothing}

\* bridge.go:176: printers are registered with the driver "so it can resolve this printer
\* (by model, for CUPS) when a job arrives".  Refuted: discovery knows the printers when
\* Start returns and the connection is opened, but the watcher registers them one by one,
\* each after it has waited for the status of the one before.
KnownIsResolved == unresolved = {}

\* cups_parse.go:102: matchQueue "finds the CUPS queue serving the given printer".
\* Refuted: with two printers of one model and one queue, both are given that queue.
PrintsOnOwn == misprints = {}

\* docs/server-contract.md:99: a printer_update is sent "when a printer is discovered (and
\* on every status change)".  Refuted: the status is read when a printer is plugged in and
\* never again.
StatusFollows ==
  <>[](shutdown \/ \A d \in Devices : view[d] # Absent => view[d] = phys[d])
=============================================================================
