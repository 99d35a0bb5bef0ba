------------------------ MODULE NiimbotBackendProofs ------------------------
(***************************************************************************)
(* Proofs about NiimbotBackend for any set of printers, any channel        *)
(* capacity and any number of missed scans.                                *)
(***************************************************************************)
EXTENDS NiimbotBackend, SequenceTheorems, TLAPS

(* Who may be where is decided by linkMu: poll works only while it holds the     *)
(* link, and so does the talking part of every print.  The types of the          *)
(* functions involved are part of the invariant.                                 *)

LinkTypes ==
  /\ known \in [Devices -> BOOLEAN]
  /\ cached \in [Devices -> Status]
  /\ print \in [Devices -> {"idle", "wait", "connect", "printing"}]
  /\ phys \in [Devices -> HeartbeatStatus \cup {"off"}]
  /\ pending = NoEvent \/ pending[2] \in {"scan", "expire", "refresh"}

LinkHeld ==
  /\ poll = "idle" <=> link # "poll"
  /\ poll = "emit" => pending # NoEvent
  /\ \A d \in Devices : print[d] \in {"connect", "printing"} <=> link = d

LinkInv == LinkTypes /\ LinkHeld /\ BusyIsPrinting

\* Initially nobody holds the link and no printer is known.
LEMMA LinkInit == Init => LinkInv
  BY BackendAssumption
  DEF Init, LinkInv, LinkTypes, LinkHeld, BusyIsPrinting, Status, HeartbeatStatus, NoEvent

\* A poll step that leaves statuses and prints alone and keeps the link.
LEMMA LinkPollStep ==
  ASSUME LinkInv, poll # "idle", poll' # "idle",
         UNCHANGED <<link, print, cached, phys>>,
         known' \in [Devices -> BOOLEAN], \A d \in Devices : known'[d] => known[d],
         pending' = NoEvent \/ pending'[2] \in {"scan", "expire", "refresh"},
         poll' = "emit" => pending' # NoEvent
  PROVE  LinkInv'
  BY DEF LinkInv, LinkTypes, LinkHeld, BusyIsPrinting

\* A poll step that caches a heartbeat status: no print talks to a printer then, so
\* none is marked busy.
LEMMA LinkCacheStep ==
  ASSUME LinkInv, poll # "idle", poll' # "idle",
         UNCHANGED <<link, print, phys>>,
         known' \in [Devices -> BOOLEAN],
         NEW d \in Devices, phys[d] # "off",
         cached' = [cached EXCEPT ![d] = phys[d]],
         \A e \in Devices \ {d} : known'[e] = known[e],
         pending' = NoEvent \/ pending'[2] \in {"scan", "expire", "refresh"},
         poll' = "emit" => pending' # NoEvent
  PROVE  LinkInv'
<1>1. phys[d] \in HeartbeatStatus
  BY DEF LinkInv, LinkTypes
<1>2. LinkTypes'
  BY <1>1 DEF LinkInv, LinkTypes, Status
<1>3. LinkHeld'
  BY DEF LinkInv, LinkHeld
<1>4. BusyIsPrinting'
  BY <1>1 DEF LinkInv, LinkTypes, BusyIsPrinting, HeartbeatStatus
<1> QED BY <1>2, <1>3, <1>4 DEF LinkInv

\* A print gives the link back and caches a final status, never "busy".
LEMMA LinkReturnStep ==
  ASSUME LinkInv, NEW d \in Devices, NEW s \in Status \ {"busy"},
         print[d] \in {"connect", "printing"}, PrintReturn(d, s)
  PROVE  LinkInv'
<1>1. link = d /\ link' = Nobody /\ UNCHANGED <<known, pollVars, phys>>
  BY DEF LinkInv, LinkHeld, PrintReturn, envVars
<1>2. \A e \in Devices : print'[e] = IF e = d THEN "idle" ELSE print[e]
  BY DEF LinkInv, LinkTypes, PrintReturn
<1>3. \A e \in Devices : cached'[e] = IF e = d /\ known[d] THEN s ELSE cached[e]
  BY DEF LinkInv, LinkTypes, PrintReturn, SetStatus
<1>4. LinkTypes'
  BY <1>1 DEF LinkInv, LinkTypes, PrintReturn, SetStatus, pollVars
<1>5. LinkHeld'
  BY <1>1, <1>2, BackendAssumption DEF LinkInv, LinkHeld, pollVars
<1>6. BusyIsPrinting'
  BY <1>1, <1>2, <1>3 DEF LinkInv, BusyIsPrinting
<1> QED BY <1>4, <1>5, <1>6 DEF LinkInv

\* The link invariant is inductive.
LEMMA LinkStep == LinkInv /\ [Next]_vars => LinkInv'
<1> SUFFICES ASSUME LinkInv, [Next]_vars PROVE LinkInv'
  OBVIOUS
<1>1. CASE PollStart
  <2>1. /\ poll = "idle" /\ poll' = "scan" /\ link = Nobody /\ link' = "poll"
        /\ UNCHANGED <<known, cached, print, phys, pending>>
    BY <1>1 DEF PollStart, devVars, envVars
  <2> QED BY <2>1, BackendAssumption DEF LinkInv, LinkTypes, LinkHeld, BusyIsPrinting
<1>2. ASSUME NEW d \in Devices, ProbeKnown(d) \/ ProbeFail(d) \/ RefreshFail(d) \/ ExpireKeep(d) PROVE LinkInv'
  <2>1. /\ poll # "idle" /\ poll # "emit" /\ poll' = poll
        /\ UNCHANGED <<link, print, cached, phys, known, pending>>
    BY <1>2 DEF ProbeKnown, ProbeFail, RefreshFail, ExpireKeep, devVars, envVars
  <2> QED BY <2>1, LinkPollStep DEF LinkInv, LinkTypes
<1>3. CASE ScanDone \/ ExpireDone
  <2>1. /\ poll # "idle" /\ poll' \in {"expire", "refresh"}
        /\ UNCHANGED <<link, print, cached, phys, known, pending>>
    BY <1>3 DEF ScanDone, ExpireDone, devVars, envVars
  <2> QED BY <2>1, LinkPollStep DEF LinkInv, LinkTypes
<1>4. ASSUME NEW d \in Devices, ProbeAdd(d) PROVE LinkInv'
  <2>1. /\ poll # "idle" /\ poll' = "emit" /\ phys[d] # "off"
        /\ UNCHANGED <<link, print, phys>>
        /\ known' = [known EXCEPT ![d] = TRUE]
        /\ cached' = [cached EXCEPT ![d] = phys[d]]
        /\ pending' = <<Ev("connected", d, phys[d]), "scan">>
    BY <1>4 DEF ProbeAdd, envVars
  <2>2. known' \in [Devices -> BOOLEAN] /\ \A e \in Devices \ {d} : known'[e] = known[e]
    BY <2>1 DEF LinkInv, LinkTypes
  <2>3. pending' # NoEvent /\ pending'[2] = "scan"
    BY <2>1 DEF NoEvent
  <2> QED BY <2>1, <2>2, <2>3, LinkCacheStep
<1>5. ASSUME NEW d \in Devices, Expire(d) PROVE LinkInv'
  <2>1. /\ poll # "idle" /\ poll' = "emit"
        /\ UNCHANGED <<link, print, cached, phys>>
        /\ known' = [known EXCEPT ![d] = FALSE]
        /\ pending' = <<Ev("disconnected", d, cached[d]), "expire">>
    BY <1>5 DEF Expire, envVars
  <2>2. known' \in [Devices -> BOOLEAN] /\ \A e \in Devices : known'[e] => known[e]
    BY <2>1 DEF LinkInv, LinkTypes
  <2>3. pending' # NoEvent /\ pending'[2] = "expire"
    BY <2>1 DEF NoEvent
  <2> QED BY <2>1, <2>2, <2>3, LinkPollStep
<1>6. ASSUME NEW d \in Devices, Refresh(d) PROVE LinkInv'
  <2>1. /\ poll = "refresh" /\ poll' # "idle" /\ phys[d] # "off"
        /\ UNCHANGED <<link, print, phys, known>>
        /\ cached' = [cached EXCEPT ![d] = phys[d]]
    BY <1>6 DEF Refresh, envVars
  <2>2. \/ pending' = pending /\ poll' = poll
        \/ pending' = <<Ev("status_changed", d, phys[d]), "refresh">>
    BY <1>6 DEF Refresh
  <2>3. /\ pending' = NoEvent \/ pending'[2] \in {"scan", "expire", "refresh"}
        /\ poll' = "emit" => pending' # NoEvent
    BY <2>1, <2>2 DEF LinkInv, LinkTypes, NoEvent
  <2> QED BY <2>1, <2>3, LinkCacheStep DEF LinkInv, LinkTypes
<1>7. CASE PollEnd
  <2>1. /\ poll = "refresh" /\ poll' = "idle" /\ link' = Nobody
        /\ UNCHANGED <<known, cached, print, phys, pending>>
    BY <1>7 DEF PollEnd, devVars, envVars
  <2>2. link = "poll"
    BY <2>1 DEF LinkInv, LinkHeld
  <2>3. \A d \in Devices : link # d /\ link' # d
    BY <2>1, <2>2, BackendAssumption
  <2>4. link' # "poll"
    BY <2>1, BackendAssumption
  <2> QED BY <2>1, <2>3, <2>4 DEF LinkInv, LinkTypes, LinkHeld, BusyIsPrinting
<1>8. CASE EmitSend \/ EmitAbort
  <2>1. /\ poll = "emit" /\ poll' = pending[2] /\ pending' = NoEvent
        /\ UNCHANGED <<link, print, cached, phys, known>>
    BY <1>8 DEF EmitSend, EmitAbort, devVars, envVars
  <2>2. pending[2] \in {"scan", "expire", "refresh"}
    BY <2>1 DEF LinkInv, LinkTypes, LinkHeld
  <2> QED BY <2>1, <2>2, LinkPollStep DEF LinkInv, LinkTypes
<1>9. CASE WatchRecv \/ WatchStatus \/ WatchStop \/ Shutdown
  BY <1>9 DEF WatchRecv, WatchStatus, WatchStop, Shutdown, LinkInv, LinkTypes, LinkHeld, BusyIsPrinting,
              devVars, pollVars, envVars
<1>10. ASSUME NEW d \in Devices, PrintCall(d) PROVE LinkInv'
  <2>1. /\ print[d] = "idle" /\ UNCHANGED <<link, known, cached, phys, pending, poll>>
        /\ print' = [print EXCEPT ![d] = "wait"]
    BY <1>10 DEF PrintCall, devVars, pollVars
  <2>2. \A e \in Devices : print'[e] = IF e = d THEN "wait" ELSE print[e]
    BY <2>1 DEF LinkInv, LinkTypes
  <2> QED BY <2>1, <2>2 DEF LinkInv, LinkTypes, LinkHeld, BusyIsPrinting
<1>11. ASSUME NEW d \in Devices, PrintLock(d) PROVE LinkInv'
  <2>1. /\ print[d] = "wait" /\ link = Nobody /\ link' = d
        /\ UNCHANGED <<known, cached, phys, pending, poll>>
        /\ print' = [print EXCEPT ![d] = "connect"]
    BY <1>11 DEF PrintLock, devVars, pollVars, envVars
  <2>2. \A e \in Devices : print'[e] = IF e = d THEN "connect" ELSE print[e]
    BY <2>1 DEF LinkInv, LinkTypes
  <2> QED BY <2>1, <2>2, BackendAssumption DEF LinkInv, LinkTypes, LinkHeld, BusyIsPrinting
<1>12. ASSUME NEW d \in Devices, PrintRefused(d) PROVE LinkInv'
  <2>1. PICK s \in Status \ {"busy"} : PrintReturn(d, s)
    BY <1>12 DEF PrintRefused, LinkInv, LinkTypes, Status, HeartbeatStatus
  <2> QED BY <1>12, <2>1, LinkReturnStep DEF PrintRefused
<1>13. ASSUME NEW d \in Devices, PrintBusy(d) PROVE LinkInv'
  <2>1. /\ print[d] = "connect" /\ UNCHANGED <<link, known, phys, pending, poll>>
        /\ print' = [print EXCEPT ![d] = "printing"]
        /\ cached' = IF known[d] THEN [cached EXCEPT ![d] = "busy"] ELSE cached
    BY <1>13 DEF PrintBusy, SetStatus, pollVars, envVars
  <2>2. \A e \in Devices : print'[e] = IF e = d THEN "printing" ELSE print[e]
    BY <2>1 DEF LinkInv, LinkTypes
  <2>3. \A e \in Devices \ {d} : cached'[e] = cached[e]
    BY <2>1 DEF LinkInv, LinkTypes
  <2>4. LinkTypes' /\ LinkHeld'
    BY <2>1, <2>2 DEF LinkInv, LinkTypes, LinkHeld, Status
  <2>5. BusyIsPrinting'
    BY <2>1, <2>2, <2>3 DEF LinkInv, LinkHeld, BusyIsPrinting
  <2> QED BY <2>4, <2>5 DEF LinkInv
<1>14. ASSUME NEW d \in Devices, PrintEnd(d) PROVE LinkInv'
  <2>1. PICK s \in Status \ {"busy"} : PrintReturn(d, s)
    BY <1>14 DEF PrintEnd, Status, HeartbeatStatus
  <2> QED BY <1>14, <2>1, LinkReturnStep DEF PrintEnd
<1>15. ASSUME NEW d \in Devices, NEW s \in HeartbeatStatus \cup {"off"}, Flip(d, s) PROVE LinkInv'
  BY <1>15 DEF Flip, LinkInv, LinkTypes, LinkHeld, BusyIsPrinting, devVars, pollVars
<1>16. CASE UNCHANGED vars
  BY <1>16 DEF vars, LinkInv, LinkTypes, LinkHeld, BusyIsPrinting, devVars, pollVars, envVars
<1> QED BY <1>1, <1>2, <1>3, <1>4, <1>5, <1>6, <1>7, <1>8, <1>9, <1>10, <1>11, <1>12, <1>13,
           <1>14, <1>15, <1>16
        DEF Next

\* A printer is cached as busy only while a print holds the link and prints to it.
THEOREM Busy == Spec => []BusyIsPrinting
<1>1. LinkInv => BusyIsPrinting
  BY DEF LinkInv
<1> QED BY <1>1, LinkInit, LinkStep, PTL DEF Spec

\* Only poll removes a printer, and it holds the link then: no print is talking to
\* any printer.
THEOREM NoExpiry == Spec => NoExpiryDuringPrint
<1> DEFINE A == \A d \in Devices : known[d] /\ ~ known'[d] => print[d] \notin {"connect", "printing"}
<1>1. ASSUME LinkInv, Next PROVE A
  <2> SUFFICES ASSUME NEW d \in Devices, known[d], ~ known'[d]
               PROVE  print[d] \notin {"connect", "printing"}
    OBVIOUS
  <2>1. PICK e \in Devices : Expire(e) \/ ProbeAdd(e)
    BY <1>1 DEF Next, PollStart, ScanDone, ExpireDone, PollEnd, EmitSend, EmitAbort, WatchRecv, WatchStatus,
                WatchStop, ProbeKnown, ProbeFail, ExpireKeep, RefreshFail, Refresh, PrintCall, PrintLock,
                PrintRefused, PrintReturn, PrintBusy, PrintEnd, Flip, Shutdown, devVars
  <2>2. poll # "idle"
    BY <2>1 DEF Expire, ProbeAdd
  <2>3. link = "poll"
    BY <1>1, <2>2 DEF LinkInv, LinkHeld
  <2> QED BY <1>1, <2>3, BackendAssumption DEF LinkInv, LinkHeld
<1>2. LinkInv /\ [Next]_vars => [A]_vars
  BY <1>1
<1> QED BY <1>2, LinkInit, LinkStep, PTL DEF Spec, NoExpiryDuringPrint

-----------------------------------------------------------------------------
(* Type correctness *)

\* The watcher asks for the status of a printer that was announced or has changed, and
\* the poller in emit has an event to send.
EventsHeld ==
  /\ watch = "status" => wev \in Event /\ wev.kind # "disconnected"
  /\ poll = "emit" => pending \in Event \X {"scan", "expire", "refresh"}

TypeInv == TypeOK /\ EventsHeld

\* Initially no event exists.
LEMMA TypeInit == Init => TypeInv
<1> SUFFICES ASSUME Init PROVE TypeInv
  OBVIOUS
<1>1. events \in Seq(Event) /\ Len(events) = 0
  BY EmptySeq DEF Init
<1>2. "offline" \in Status
  BY DEF Status
<1>3. /\ known \in [Devices -> BOOLEAN] /\ cached \in [Devices -> Status]
      /\ missed \in [Devices -> 0 .. MissedScans] /\ view \in [Devices -> Status \cup {Absent}]
      /\ print \in [Devices -> {"idle", "wait", "connect", "printing"}]
  BY <1>2, BackendAssumption DEF Init
<1>4. flips \in 0 .. MaxFlips /\ prints \in 0 .. MaxPrints /\ Len(events) <= EvCap
  BY <1>1, BackendAssumption DEF Init
<1> QED
  BY <1>1, <1>3, <1>4 DEF Init, TypeInv, TypeOK, EventsHeld

\* A cached status stays a status, whichever print sets it.
LEMMA SetStatusType ==
  ASSUME TypeOK, NEW d \in Devices, NEW s \in Status, SetStatus(d, s)
  PROVE  cached' \in [Devices -> Status]
BY DEF TypeOK, SetStatus

\* Every step keeps the types.
LEMMA TypeStep == TypeInv /\ [Next]_vars => TypeInv'
<1> SUFFICES ASSUME TypeInv, [Next]_vars PROVE TypeInv'
  OBVIOUS
<1> USE BackendAssumption
<1>a. TypeOK /\ EventsHeld
  BY DEF TypeInv
<1>b. HeartbeatStatus \subseteq Status
  BY DEF Status
<1>1. CASE PollStart \/ ScanDone \/ ExpireDone \/ PollEnd
  <2>1. /\ UNCHANGED <<phys, devVars, pending, events, wev, view, print, shutdown, flips, prints>>
        /\ poll' \in {"idle", "scan", "expire", "refresh"}
        /\ mu' \in {mu, Nobody, "poll"} /\ link' \in {link, Nobody, "poll"}
        /\ todo' \subseteq Devices /\ seen' \in {seen, {}} /\ refresh' \in {refresh, {}}
        /\ watch' \in {watch, "recv"}
    BY <1>1, <1>a DEF PollStart, ScanDone, ExpireDone, PollEnd, envVars, watchVars, TypeOK
  <2> QED
    BY <1>a, <2>1 DEF TypeInv, TypeOK, EventsHeld, devVars
<1>2. ASSUME NEW d \in Devices, ProbeKnown(d) \/ ProbeFail(d) \/ RefreshFail(d)
      PROVE  TypeInv'
  <2>1. /\ UNCHANGED <<phys, devVars, mu, link, poll, pending, events, watchVars, print, shutdown,
                       flips, prints>>
        /\ todo' \subseteq Devices /\ seen' \subseteq Devices /\ refresh' \subseteq Devices
    BY <1>2, <1>a DEF ProbeKnown, ProbeFail, RefreshFail, envVars, TypeOK
  <2> QED
    BY <1>a, <2>1 DEF TypeInv, TypeOK, EventsHeld, devVars, watchVars
<1>3. ASSUME NEW d \in Devices, ProbeAdd(d)
      PROVE  TypeInv'
  <2>1. phys[d] \in Status
    BY <1>3, <1>a, <1>b DEF ProbeAdd, TypeOK
  <2>2. pending' \in Event \X {"scan", "expire", "refresh"}
    BY <1>3, <2>1 DEF ProbeAdd, Ev, Event
  <2>3. /\ known' \in [Devices -> BOOLEAN] /\ cached' \in [Devices -> Status]
        /\ missed' \in [Devices -> 0 .. MissedScans]
    BY <1>3, <1>a, <2>1 DEF ProbeAdd, TypeOK
  <2> QED
    BY <1>3, <1>a, <2>2, <2>3 DEF ProbeAdd, TypeInv, TypeOK, EventsHeld, watchVars, envVars
<1>4. ASSUME NEW d \in Devices, ExpireKeep(d)
      PROVE  TypeInv'
  <2>1. Missed(d) \in 0 .. MissedScans
    BY <1>4, <1>a DEF ExpireKeep, Missed, TypeOK
  <2>2. missed' \in [Devices -> 0 .. MissedScans]
    BY <1>4, <1>a, <2>1 DEF ExpireKeep, TypeOK
  <2>3. refresh' \subseteq Devices /\ todo' \subseteq Devices
    BY <1>4, <1>a DEF ExpireKeep, TypeOK
  <2> QED
    BY <1>4, <1>a, <2>2, <2>3 DEF ExpireKeep, TypeInv, TypeOK, EventsHeld, watchVars, envVars
<1>5. ASSUME NEW d \in Devices, Expire(d)
      PROVE  TypeInv'
  <2>1. pending' \in Event \X {"scan", "expire", "refresh"}
    BY <1>5, <1>a DEF Expire, Ev, Event, TypeOK
  <2>2. known' \in [Devices -> BOOLEAN]
    BY <1>5, <1>a DEF Expire, TypeOK
  <2> QED
    BY <1>5, <1>a, <2>1, <2>2 DEF Expire, TypeInv, TypeOK, EventsHeld, watchVars, envVars
<1>6. ASSUME NEW d \in Devices, Refresh(d)
      PROVE  TypeInv'
  <2>1. phys[d] \in Status
    BY <1>6, <1>a, <1>b DEF Refresh, TypeOK
  <2>2. cached' \in [Devices -> Status] /\ refresh' \subseteq Devices
    BY <1>6, <1>a, <2>1 DEF Refresh, TypeOK
  <2>3. \/ pending' = pending /\ poll' = poll /\ poll = "refresh"
        \/ pending' \in Event \X {"scan", "expire", "refresh"} /\ poll' = "emit"
    BY <1>6, <2>1 DEF Refresh, Ev, Event
  <2>4. UNCHANGED <<known, missed, mu, link, todo, seen, events, watchVars, print, envVars>>
    BY <1>6 DEF Refresh
  <2> QED
    BY <1>a, <2>2, <2>3, <2>4 DEF TypeInv, TypeOK, EventsHeld, watchVars, envVars
<1>7. CASE EmitSend
  <2>1. pending[1] \in Event /\ pending[2] \in {"scan", "expire", "refresh"}
    BY <1>7, <1>a DEF EmitSend, EventsHeld
  <2>2. events' \in Seq(Event) /\ Len(events') <= EvCap
    BY <1>7, <1>a, <2>1, AppendProperties DEF EmitSend, TypeOK
  <2> QED
    BY <1>7, <1>a, <2>1, <2>2 DEF EmitSend, TypeInv, TypeOK, EventsHeld, devVars, watchVars, envVars
<1>8. CASE EmitAbort
  <2>1. pending[2] \in {"scan", "expire", "refresh"}
    BY <1>8, <1>a DEF EmitAbort, EventsHeld
  <2> QED
    BY <1>8, <1>a, <2>1 DEF EmitAbort, TypeInv, TypeOK, EventsHeld, devVars, watchVars, envVars
<1>9. CASE WatchRecv
  <2>1. /\ Head(events) \in Event /\ Tail(events) \in Seq(Event)
        /\ Len(Tail(events)) = Len(events) - 1 /\ Len(events) \in Nat
    BY <1>9, <1>a, HeadTailProperties DEF WatchRecv, TypeOK
  <2>2. events' \in Seq(Event) /\ Len(events') <= EvCap
    BY <1>9, <1>a, <2>1 DEF WatchRecv, TypeOK
  <2>3. Head(events).dev \in Devices
    BY <2>1 DEF Event
  <2>4. \/ /\ view' = [view EXCEPT ![Head(events).dev] = Absent]
           /\ UNCHANGED <<watch, wev>>
        \/ /\ watch' = "status" /\ wev' = Head(events) /\ wev'.kind # "disconnected"
           /\ UNCHANGED view
    BY <1>9 DEF WatchRecv
  <2>5. /\ view' \in [Devices -> Status \cup {Absent}]
        /\ watch' \in {"none", "recv", "status", "stopped"} /\ (wev' = NoEvent \/ wev' \in Event)
        /\ watch' = "status" => wev' \in Event /\ wev'.kind # "disconnected"
    BY <1>a, <2>1, <2>3, <2>4 DEF TypeOK, EventsHeld
  <2>6. UNCHANGED <<devVars, mu, link, pollVars, print, envVars>>
    BY <1>9 DEF WatchRecv
  <2> QED
    BY <1>a, <2>2, <2>5, <2>6 DEF TypeInv, TypeOK, EventsHeld, devVars, pollVars, envVars
<1>10. CASE WatchStatus
  <2>1. wev.dev \in Devices /\ wev.status \in Status
    BY <1>10, <1>a DEF WatchStatus, EventsHeld, Event
  <2>2. (IF known[wev.dev] THEN cached[wev.dev] ELSE wev.status) \in Status
    BY <1>a, <2>1 DEF TypeOK
  <2>3. view' \in [Devices -> Status \cup {Absent}]
    BY <1>10, <1>a, <2>2 DEF WatchStatus, TypeOK
  <2> QED
    BY <1>10, <1>a, <2>3 DEF WatchStatus, TypeInv, TypeOK, EventsHeld, devVars, pollVars, envVars
<1>11. CASE WatchStop
  BY <1>11, <1>a DEF WatchStop, TypeInv, TypeOK, EventsHeld, devVars, pollVars, envVars
<1>12. ASSUME NEW d \in Devices, PrintCall(d)
       PROVE  TypeInv'
  BY <1>12, <1>a DEF PrintCall, TypeInv, TypeOK, EventsHeld, devVars, pollVars, watchVars
<1>13. ASSUME NEW d \in Devices, PrintLock(d)
       PROVE  TypeInv'
  BY <1>13, <1>a DEF PrintLock, TypeInv, TypeOK, EventsHeld, devVars, pollVars, watchVars, envVars
<1>14. ASSUME NEW d \in Devices, PrintRefused(d) \/ PrintEnd(d)
       PROVE  TypeInv'
  <2>1. PICK s \in Status : PrintReturn(d, s)
    BY <1>14, <1>a DEF PrintRefused, PrintEnd, TypeOK, Status, HeartbeatStatus
  <2>2. cached' \in [Devices -> Status]
    BY <1>a, <2>1, SetStatusType DEF PrintReturn
  <2>3. print' \in [Devices -> {"idle", "wait", "connect", "printing"}]
    BY <1>a, <2>1 DEF PrintReturn, TypeOK
  <2> QED
    BY <1>a, <2>1, <2>2, <2>3 DEF PrintReturn, TypeInv, TypeOK, EventsHeld, pollVars, watchVars, envVars
<1>15. ASSUME NEW d \in Devices, PrintBusy(d)
       PROVE  TypeInv'
  <2>1. cached' \in [Devices -> Status]
    BY <1>15, <1>a, SetStatusType DEF PrintBusy, Status
  <2>2. print' \in [Devices -> {"idle", "wait", "connect", "printing"}]
    BY <1>15, <1>a DEF PrintBusy, TypeOK
  <2> QED
    BY <1>15, <1>a, <2>1, <2>2 DEF PrintBusy, TypeInv, TypeOK, EventsHeld, pollVars, watchVars, envVars
<1>16. ASSUME NEW d \in Devices, NEW s \in HeartbeatStatus \cup {"off"}, Flip(d, s)
       PROVE  TypeInv'
  BY <1>16, <1>a DEF Flip, TypeInv, TypeOK, EventsHeld, devVars, pollVars, watchVars
<1>17. CASE Shutdown
  BY <1>17, <1>a DEF Shutdown, TypeInv, TypeOK, EventsHeld, devVars, pollVars, watchVars
<1>18. CASE UNCHANGED vars
  BY <1>18, <1>a DEF vars, TypeInv, TypeOK, EventsHeld, devVars, pollVars, watchVars, envVars
<1> QED
  BY <1>1, <1>2, <1>3, <1>4, <1>5, <1>6, <1>7, <1>8, <1>9, <1>10, <1>11, <1>12, <1>13, <1>14,
     <1>15, <1>16, <1>17, <1>18 DEF Next

\* The type invariant: the event channels keep their capacity and every event on them
\* is whole.
THEOREM TypeCorrect == Spec => []TypeOK
<1>1. TypeInv => TypeOK
  BY DEF TypeInv
<1> QED
  BY <1>1, TypeInit, TypeStep, PTL DEF Spec

-----------------------------------------------------------------------------
(* The bridge's list of printers follows the device map *)

\* A newer event about another printer changes nothing.
LEMMA SettlesOther ==
  ASSUME NEW q \in Seq(Event), NEW e \in Event, NEW d, NEW was \in BOOLEAN, NEW is \in BOOLEAN,
         Settles(q, d, was, is), e.dev # d
  PROVE  Settles(Append(q, e), d, was, is)
<1> DEFINE r == Append(q, e)
<1>1. /\ Len(r) = Len(q) + 1 /\ Len(q) \in Nat
      /\ \A i \in 1 .. Len(q) : r[i] = q[i]
      /\ r[Len(q) + 1] = e
  BY AppendProperties
<1> HIDE DEF r
<1> QED
  BY <1>1 DEF Settles, r

\* The newest event about a printer decides.
LEMMA SettlesNewest ==
  ASSUME NEW q \in Seq(Event), NEW e \in Event, NEW was \in BOOLEAN, NEW is \in BOOLEAN,
         is <=> e.kind # "disconnected"
  PROVE  Settles(Append(q, e), e.dev, was, is)
<1> DEFINE r == Append(q, e)
<1>1. /\ Len(r) = Len(q) + 1 /\ Len(q) \in Nat
      /\ \A i \in 1 .. Len(q) : r[i] = q[i]
      /\ r[Len(q) + 1] = e
  BY AppendProperties
<1> HIDE DEF r
<1> QED
  BY <1>1 DEF Settles, r

\* Applying the oldest event keeps what the others will make of the list.
LEMMA SettlesTail ==
  ASSUME NEW q \in Seq(Event), q # <<>>, NEW d, NEW was \in BOOLEAN, NEW now \in BOOLEAN,
         NEW is \in BOOLEAN, Settles(q, d, was, is),
         now <=> IF Head(q).dev = d THEN Head(q).kind # "disconnected" ELSE was
  PROVE  Settles(Tail(q), d, now, is)
<1> DEFINE r == Tail(q)
<1>1. /\ Len(r) = Len(q) - 1 /\ Len(q) \in Nat \ {0} /\ Head(q) = q[1]
      /\ \A i \in 1 .. Len(r) : r[i] = q[i + 1]
  BY HeadTailProperties, LenProperties, EmptySeq
<1> HIDE DEF r
<1>2. \A i \in 2 .. Len(q) : i - 1 \in 1 .. Len(r) /\ r[i - 1] = q[i]
  BY <1>1
<1>3. ASSUME \A i \in 1 .. Len(r) : r[i].dev # d
      PROVE  is <=> now
  <2>1. \A i \in 2 .. Len(q) : q[i].dev # d
    BY <1>2, <1>3
  <2>2. CASE Head(q).dev = d
    BY <1>1, <2>1, <2>2 DEF Settles
  <2>3. CASE Head(q).dev # d
    BY <1>1, <2>1, <2>3 DEF Settles
  <2> QED
    BY <2>2, <2>3
<1>4. ASSUME NEW i \in 1 .. Len(r), r[i].dev = d, \A k \in i + 1 .. Len(r) : r[k].dev # d
      PROVE  is <=> r[i].kind # "disconnected"
  <2>1. i + 1 \in 1 .. Len(q) /\ q[i + 1] = r[i]
    BY <1>1
  <2>2. ASSUME NEW k \in (i + 1) + 1 .. Len(q) PROVE q[k].dev # d
    <3>1. k - 1 \in i + 1 .. Len(r) /\ r[k - 1] = q[k]
      BY <1>1, <1>2, <2>1
    <3> QED
      BY <1>4, <3>1
  <2> QED
    BY <1>4, <2>1, <2>2 DEF Settles
<1> QED
  BY <1>3, <1>4 DEF Settles, r

\* An event that reaches the head of the channel and is taken by the watcher, or is sent
\* by the poller, stays where it is in the order of all events.
LEMMA TakenStays ==
  ASSUME NEW q \in Seq(Event), q # <<>>, NEW r \in Seq(Event)
  PROVE  /\ (<<Head(q)>> \o Tail(q)) \o r = (<<>> \o q) \o r
         /\ Tail((<<>> \o q) \o r) = (<<>> \o Tail(q)) \o r
         /\ Head((<<>> \o q) \o r) = Head(q)
<1>1. /\ Head(q) \in Event /\ Tail(q) \in Seq(Event) /\ Len(Tail(q)) = Len(q) - 1
      /\ Len(q) \in Nat \ {0} /\ Head(q) = q[1]
      /\ \A i \in 1 .. Len(Tail(q)) : Tail(q)[i] = q[i + 1]
  BY HeadTailProperties, LenProperties, EmptySeq
<1>2. <<Head(q)>> \in Seq(Event) /\ Len(<<Head(q)>>) = 1 /\ <<Head(q)>>[1] = Head(q)
  BY <1>1
<1>3. <<Head(q)>> \o Tail(q) = q
  <2> DEFINE h == <<Head(q)>>
             t == Tail(q)
  <2>1. /\ h \o t \in Seq(Event) /\ Len(h \o t) = Len(h) + Len(t)
        /\ \A i \in 1 .. Len(h) + Len(t) : (h \o t)[i] = IF i <= Len(h) THEN h[i] ELSE t[i - Len(h)]
    BY <1>1, <1>2, ConcatProperties
  <2>2. \A i \in 1 .. Len(h \o t) : (h \o t)[i] = q[i]
    BY <1>1, <1>2, <2>1
  <2> QED
    BY <1>1, <1>2, <2>1, <2>2, SeqEqual
<1>4. <<>> \o q = q /\ <<>> \o Tail(q) = Tail(q)
  BY <1>1, ConcatEmptySeq
<1>5. /\ q \o r \in Seq(Event) /\ Len(q \o r) = Len(q) + Len(r) /\ Len(r) \in Nat
      /\ \A i \in 1 .. Len(q) + Len(r) : (q \o r)[i] = IF i <= Len(q) THEN q[i] ELSE r[i - Len(q)]
  BY ConcatProperties, LenProperties
<1>6. q \o r # <<>> /\ Head(q \o r) = q[1]
  BY <1>1, <1>5, EmptySeq
<1>7. /\ Tail(q) \o r \in Seq(Event) /\ Len(Tail(q) \o r) = Len(Tail(q)) + Len(r)
      /\ \A i \in 1 .. Len(Tail(q)) + Len(r) :
           (Tail(q) \o r)[i] = IF i <= Len(Tail(q)) THEN Tail(q)[i] ELSE r[i - Len(Tail(q))]
  BY <1>1, ConcatProperties
<1>8. /\ Tail(q \o r) \in Seq(Event) /\ Len(Tail(q \o r)) = Len(q \o r) - 1
      /\ \A i \in 1 .. Len(Tail(q \o r)) : Tail(q \o r)[i] = (q \o r)[i + 1]
  BY <1>5, <1>6, HeadTailProperties
<1>9. Tail(q \o r) = Tail(q) \o r
  <2>1. Len(Tail(q \o r)) = Len(Tail(q) \o r)
    BY <1>1, <1>5, <1>7, <1>8
  <2>2. \A i \in 1 .. Len(Tail(q \o r)) : Tail(q \o r)[i] = (Tail(q) \o r)[i]
    BY <1>1, <1>5, <1>7, <1>8
  <2> QED
    BY <1>7, <1>8, <2>1, <2>2, SeqEqual
<1> QED
  BY <1>1, <1>3, <1>4, <1>6, <1>9

\* The parts of the way: what the watcher handles and what the poller is sending.
Watched  == IF watch = "status" THEN <<wev>> ELSE <<>>
Emitting == IF poll = "emit" THEN <<pending[1]>> ELSE <<>>

\* The way is a sequence of events.
LEMMA WayType ==
  ASSUME TypeInv
  PROVE  /\ Watched \in Seq(Event) /\ Emitting \in Seq(Event) /\ events \in Seq(Event)
         /\ OnTheWay = (Watched \o events) \o Emitting
         /\ Watched \o events \in Seq(Event) /\ OnTheWay \in Seq(Event)
<1>1. watch = "status" => wev \in Event
  BY DEF TypeInv, EventsHeld
<1>2. poll = "emit" => pending[1] \in Event
  BY DEF TypeInv, EventsHeld
<1>3. Watched \in Seq(Event) /\ Emitting \in Seq(Event) /\ events \in Seq(Event)
  BY <1>1, <1>2, EmptySeq DEF Watched, Emitting, TypeInv, TypeOK
<1>4. OnTheWay = (Watched \o events) \o Emitting
  BY DEF OnTheWay, Watched, Emitting
<1> QED
  BY <1>3, <1>4, ConcatProperties

\* A step that leaves the events, the device map and the list alone.
LEMMA PresenceFrame ==
  ASSUME PresenceTracked, shutdown => shutdown', OnTheWay' = OnTheWay,
         UNCHANGED <<view, known>>
  PROVE  PresenceTracked'
<1> SUFFICES ASSUME ~ shutdown', NEW d \in Devices
             PROVE  Settles(OnTheWay', d, view'[d] # Absent, known'[d])
  BY DEF PresenceTracked
<1> QED
  BY DEF PresenceTracked

\* The poller has changed the device map and starts to emit what it did.
LEMMA PresenceEmit ==
  ASSUME TypeInv, TypeInv', PresenceTracked, NEW e \in Event,
         poll # "emit", poll' = "emit", pending'[1] = e,
         UNCHANGED <<watch, wev, events, view, shutdown>>,
         known'[e.dev] <=> e.kind # "disconnected",
         \A d \in Devices \ {e.dev} : known'[d] = known[d]
  PROVE  PresenceTracked'
<1>1. OnTheWay' = Append(OnTheWay, e) /\ OnTheWay \in Seq(Event)
  <2>1. Emitting = <<>> /\ Emitting' = <<e>> /\ Watched' = Watched
    BY DEF Emitting, Watched
  <2>2. OnTheWay = Watched \o events /\ OnTheWay \in Seq(Event)
    BY <2>1, WayType, ConcatEmptySeq
  <2>3. OnTheWay' = (Watched \o events) \o <<e>>
    BY <2>1 DEF OnTheWay, Watched, Emitting
  <2> QED
    BY <2>2, <2>3, AppendIsConcat
<1> SUFFICES ASSUME ~ shutdown', NEW d \in Devices
             PROVE  Settles(OnTheWay', d, view'[d] # Absent, known'[d])
  BY DEF PresenceTracked
<1>2. known[d] \in BOOLEAN /\ known'[d] \in BOOLEAN /\ (view[d] # Absent) \in BOOLEAN
  BY DEF TypeInv, TypeOK
<1>3. Settles(OnTheWay, d, view[d] # Absent, known[d])
  BY DEF PresenceTracked
<1>4. CASE e.dev = d
  BY <1>1, <1>2, <1>4, SettlesNewest
<1>5. CASE e.dev # d
  <2>1. known'[d] = known[d]
    BY <1>5
  <2> QED
    BY <1>1, <1>2, <1>3, <1>5, <2>1, SettlesOther
<1> QED
  BY <1>4, <1>5

\* The bridge applies the oldest event to its list.
LEMMA PresenceApply ==
  ASSUME TypeInv, TypeInv', PresenceTracked, OnTheWay # <<>>, OnTheWay' = Tail(OnTheWay),
         UNCHANGED <<known, shutdown>>,
         view'[Head(OnTheWay).dev] # Absent <=> Head(OnTheWay).kind # "disconnected",
         \A d \in Devices \ {Head(OnTheWay).dev} : view'[d] = view[d]
  PROVE  PresenceTracked'
<1> SUFFICES ASSUME ~ shutdown', NEW d \in Devices
             PROVE  Settles(OnTheWay', d, view'[d] # Absent, known'[d])
  BY DEF PresenceTracked
<1>1. known[d] \in BOOLEAN /\ known' = known /\ OnTheWay \in Seq(Event)
  BY WayType DEF TypeInv, TypeOK
<1>2. Settles(OnTheWay, d, view[d] # Absent, known[d])
  BY DEF PresenceTracked
<1>3. view'[d] # Absent <=> IF Head(OnTheWay).dev = d THEN Head(OnTheWay).kind # "disconnected"
                            ELSE view[d] # Absent
  OBVIOUS
<1>4. Settles(Tail(OnTheWay), d, view'[d] # Absent, known[d])
  BY <1>1, <1>2, <1>3, SettlesTail
<1> QED
  BY <1>1, <1>4

\* Every step keeps the list and the device map together.
LEMMA PresenceStep ==
  ASSUME TypeInv, TypeInv', PresenceTracked, [Next]_vars
  PROVE  PresenceTracked'
<1>a. TypeOK /\ EventsHeld
  BY DEF TypeInv
<1>1. CASE PollStart \/ ScanDone \/ ExpireDone \/ PollEnd
  <2>1. /\ UNCHANGED <<known, view, events, wev, pending, shutdown>>
        /\ poll # "emit" /\ poll' # "emit" /\ (watch' = "status" <=> watch = "status")
    BY <1>1 DEF PollStart, ScanDone, ExpireDone, PollEnd, devVars, watchVars, envVars
  <2> QED
    BY <2>1, PresenceFrame DEF OnTheWay
<1>2. ASSUME NEW d \in Devices, ProbeKnown(d) \/ ProbeFail(d) \/ RefreshFail(d) \/ ExpireKeep(d)
      PROVE  PresenceTracked'
  <2>1. UNCHANGED <<known, view, events, watch, wev, poll, pending, shutdown>>
    BY <1>2 DEF ProbeKnown, ProbeFail, RefreshFail, ExpireKeep, devVars, watchVars, envVars
  <2> QED
    BY <2>1, PresenceFrame DEF OnTheWay
<1>3. ASSUME NEW d \in Devices, ProbeAdd(d)
      PROVE  PresenceTracked'
  <2> DEFINE e == Ev("connected", d, phys[d])
  <2>1. phys[d] \in Status
    BY <1>3, <1>a DEF ProbeAdd, TypeOK, Status
  <2>2. e \in Event /\ e.dev = d /\ e.kind = "connected"
    BY <2>1 DEF Ev, Event
  <2>3. /\ poll # "emit" /\ poll' = "emit" /\ pending'[1] = e
        /\ UNCHANGED <<watch, wev, events, view, shutdown>>
    BY <1>3 DEF ProbeAdd, watchVars, envVars
  <2>4. known'[d] /\ \A c \in Devices \ {d} : known'[c] = known[c]
    BY <1>3, <1>a DEF ProbeAdd, TypeOK
  <2> HIDE DEF e
  <2> QED
    BY <2>2, <2>3, <2>4, PresenceEmit
<1>4. ASSUME NEW d \in Devices, Expire(d)
      PROVE  PresenceTracked'
  <2> DEFINE e == Ev("disconnected", d, cached[d])
  <2>2. e \in Event /\ e.dev = d /\ e.kind = "disconnected"
    BY <1>a DEF Ev, Event, TypeOK
  <2>3. /\ poll # "emit" /\ poll' = "emit" /\ pending'[1] = e
        /\ UNCHANGED <<watch, wev, events, view, shutdown>>
    BY <1>4 DEF Expire, watchVars, envVars
  <2>4. ~ known'[d] /\ \A c \in Devices \ {d} : known'[c] = known[c]
    BY <1>4, <1>a DEF Expire, TypeOK
  <2> HIDE DEF e
  <2> QED
    BY <2>2, <2>3, <2>4, PresenceEmit
<1>5. ASSUME NEW d \in Devices, Refresh(d)
      PROVE  PresenceTracked'
  <2>1. poll = "refresh" /\ known[d] /\ UNCHANGED <<known, watch, wev, events, view, shutdown>>
    BY <1>5 DEF Refresh, watchVars, envVars
  <2>2. CASE cached[d] # phys[d]
    <3> DEFINE e == Ev("status_changed", d, phys[d])
    <3>1. phys[d] \in Status
      BY <1>5, <1>a DEF Refresh, TypeOK, Status
    <3>2. e \in Event /\ e.dev = d /\ e.kind = "status_changed"
      BY <3>1 DEF Ev, Event
    <3>3. poll' = "emit" /\ pending'[1] = e
      BY <1>5, <2>2 DEF Refresh
    <3> HIDE DEF e
    <3> QED
      BY <2>1, <3>2, <3>3, PresenceEmit
  <2>3. CASE cached[d] = phys[d]
    <3>1. UNCHANGED <<pending, poll>>
      BY <1>5, <2>3 DEF Refresh
    <3> QED
      BY <2>1, <3>1, PresenceFrame DEF OnTheWay
  <2> QED
    BY <2>2, <2>3
<1>6. CASE EmitSend
  <2>1. /\ poll = "emit" /\ poll' # "emit" /\ events' = Append(events, pending[1])
        /\ UNCHANGED <<known, view, watch, wev, shutdown>>
    BY <1>6, <1>a DEF EmitSend, EventsHeld, devVars, watchVars, envVars
  <2>2. pending[1] \in Event
    BY <2>1, <1>a DEF EventsHeld
  <2>3. Emitting = <<pending[1]>> /\ Emitting' = <<>> /\ Watched' = Watched
    BY <2>1 DEF Emitting, Watched
  <2>4. <<pending[1]>> \in Seq(Event) /\ events' = events \o <<pending[1]>>
    BY <2>1, <2>2, WayType, AppendIsConcat
  <2>5. OnTheWay = (Watched \o events) \o <<pending[1]>>
    BY <2>3, WayType
  <2>6. OnTheWay' = (Watched \o (events \o <<pending[1]>>)) \o <<>>
    BY <2>3, <2>4 DEF OnTheWay, Watched, Emitting
  <2>7. /\ Watched \in Seq(Event) /\ events \in Seq(Event)
        /\ events \o <<pending[1]>> \in Seq(Event)
    BY <2>4, WayType, ConcatProperties
  <2>8. Watched \o (events \o <<pending[1]>>) \in Seq(Event)
    BY <2>7, ConcatProperties
  <2>9. OnTheWay' = Watched \o (events \o <<pending[1]>>)
    BY <2>6, <2>8, ConcatEmptySeq
  <2>10. OnTheWay' = OnTheWay
    BY <2>4, <2>5, <2>7, <2>9, ConcatAssociative
  <2> QED
    BY <2>1, <2>10, PresenceFrame
<1>7. CASE EmitAbort \/ WatchStop \/ Shutdown
  <2>1. shutdown'
    BY <1>7 DEF EmitAbort, WatchStop, Shutdown, envVars
  <2> QED
    BY <2>1 DEF PresenceTracked
<1>8. CASE WatchRecv
  <2>1. /\ watch = "recv" /\ events # <<>> /\ events' = Tail(events)
        /\ UNCHANGED <<known, poll, pending, shutdown>>
    BY <1>8 DEF WatchRecv, devVars, pollVars, envVars
  <2>2. Watched = <<>> /\ Emitting' = Emitting
    BY <2>1 DEF Watched, Emitting
  <2>3. OnTheWay = (<<>> \o events) \o Emitting
    BY <2>2, WayType
  <2>4. OnTheWay' = (Watched' \o Tail(events)) \o Emitting
    BY <2>1, <2>2 DEF OnTheWay, Watched, Emitting
  <2>5. CASE Head(events).kind = "disconnected"
    <3>1. view' = [view EXCEPT ![Head(events).dev] = Absent] /\ watch' = watch
      BY <1>8, <2>5 DEF WatchRecv
    <3>2. Head(events) \in Event
      BY <2>1, WayType, HeadTailProperties
    <3>3. Head(events).dev \in Devices
      BY <3>2 DEF Event
    <3>4. /\ view'[Head(events).dev] = Absent
          /\ \A d \in Devices \ {Head(events).dev} : view'[d] = view[d]
      BY <1>a, <3>1, <3>3 DEF TypeOK
    <3>5. OnTheWay' = (<<>> \o Tail(events)) \o Emitting
      BY <2>1, <2>4, <3>1 DEF Watched
    <3>6. Head(OnTheWay) = Head(events) /\ OnTheWay' = Tail(OnTheWay)
      BY <2>1, <2>3, <3>5, WayType, TakenStays
    <3>7. OnTheWay # <<>>
      <4>1. <<>> \o events = events
        BY WayType, ConcatEmptySeq
      <4> QED
        BY <2>1, <2>3, <4>1, WayType, ConcatEqualIffEmpty
    <3> QED
      BY <2>1, <2>5, <3>4, <3>6, <3>7, PresenceApply
  <2>6. CASE Head(events).kind # "disconnected"
    <3>1. watch' = "status" /\ wev' = Head(events) /\ view' = view
      BY <1>8, <2>6 DEF WatchRecv
    <3>2. Watched' = <<Head(events)>>
      BY <3>1 DEF Watched
    <3>3. OnTheWay' = OnTheWay
      BY <2>1, <2>3, <2>4, <3>2, WayType, TakenStays
    <3> QED
      BY <2>1, <3>1, <3>3, PresenceFrame
  <2> QED
    BY <2>5, <2>6
<1>9. CASE WatchStatus
  <2>1. /\ watch = "status" /\ watch' = "recv"
        /\ UNCHANGED <<known, events, poll, pending, shutdown>>
        /\ view' = [view EXCEPT ![wev.dev] = IF known[wev.dev] THEN cached[wev.dev] ELSE wev.status]
    BY <1>9 DEF WatchStatus, devVars, pollVars, envVars
  <2>2. wev \in Event /\ wev.dev \in Devices /\ wev.status \in Status /\ wev.kind # "disconnected"
    BY <1>a, <2>1 DEF EventsHeld, Event
  <2>3. view'[wev.dev] # Absent /\ \A d \in Devices \ {wev.dev} : view'[d] = view[d]
    <3>1. (IF known[wev.dev] THEN cached[wev.dev] ELSE wev.status) \in Status
      BY <1>a, <2>2 DEF TypeOK
    <3>2. Absent \notin Status
      BY DEF Absent, Status, HeartbeatStatus
    <3> QED
      BY <1>a, <2>1, <2>2, <3>1, <3>2 DEF TypeOK
  <2>4. Watched = <<wev>> /\ Watched' = <<>> /\ Emitting' = Emitting
    BY <2>1 DEF Watched, Emitting
  <2> DEFINE q == <<wev>> \o events
  <2>5. /\ q \in Seq(Event) /\ q # <<>> /\ Head(q) = wev /\ Tail(q) = events
    <3>1. <<wev>> \in Seq(Event) /\ Len(<<wev>>) = 1 /\ <<wev>>[1] = wev /\ events \in Seq(Event)
      BY <2>2, WayType
    <3>2. /\ q \in Seq(Event) /\ Len(q) = 1 + Len(events) /\ Len(events) \in Nat
          /\ \A i \in 1 .. 1 + Len(events) : q[i] = IF i <= 1 THEN wev ELSE events[i - 1]
      BY <3>1, ConcatProperties, LenProperties
    <3> HIDE DEF q
    <3>3. q # <<>> /\ q[1] = wev
      BY <3>2, EmptySeq
    <3>4. /\ Tail(q) \in Seq(Event) /\ Len(Tail(q)) = Len(q) - 1
          /\ \A i \in 1 .. Len(Tail(q)) : Tail(q)[i] = q[i + 1]
      BY <3>2, <3>3, HeadTailProperties
    <3>5. \A i \in 1 .. Len(Tail(q)) : Tail(q)[i] = events[i]
      BY <3>2, <3>4
    <3>6. Tail(q) = events
      BY <3>1, <3>2, <3>4, <3>5, SeqEqual
    <3> QED
      BY <3>2, <3>3, <3>6
  <2>6. OnTheWay = q \o Emitting /\ Emitting \in Seq(Event)
    BY <2>4, WayType
  <2>7. OnTheWay' = (<<>> \o events) \o Emitting
    BY <2>1, <2>4 DEF OnTheWay, Watched, Emitting
  <2> HIDE DEF q
  <2>8. <<>> \o q = q
    BY <2>5, ConcatEmptySeq
  <2>9. Head(OnTheWay) = wev /\ OnTheWay' = Tail(OnTheWay)
    BY <2>5, <2>6, <2>7, <2>8, TakenStays
  <2>10. OnTheWay # <<>>
    BY <2>5, <2>6, ConcatEqualIffEmpty
  <2> QED
    BY <2>1, <2>2, <2>3, <2>9, <2>10, PresenceApply
<1>10. ASSUME NEW d \in Devices,
              PrintCall(d) \/ PrintLock(d) \/ PrintRefused(d) \/ PrintBusy(d) \/ PrintEnd(d)
       PROVE  PresenceTracked'
  <2>1. UNCHANGED <<known, view, events, watch, wev, poll, pending, shutdown>>
    BY <1>10 DEF PrintCall, PrintLock, PrintRefused, PrintBusy, PrintEnd, PrintReturn, devVars, pollVars,
                 watchVars, envVars
  <2> QED
    BY <2>1, PresenceFrame DEF OnTheWay
<1>11. ASSUME NEW d \in Devices, NEW s \in HeartbeatStatus \cup {"off"}, Flip(d, s)
       PROVE  PresenceTracked'
  <2>1. UNCHANGED <<known, view, events, watch, wev, poll, pending, shutdown>>
    BY <1>11 DEF Flip, devVars, pollVars, watchVars
  <2> QED
    BY <2>1, PresenceFrame DEF OnTheWay
<1>12. CASE UNCHANGED vars
  <2>1. UNCHANGED <<known, view, events, watch, wev, poll, pending, shutdown>>
    BY <1>12 DEF vars, devVars, pollVars, watchVars, envVars
  <2> QED
    BY <2>1, PresenceFrame DEF OnTheWay
<1> QED
  BY <1>1, <1>2, <1>3, <1>4, <1>5, <1>6, <1>7, <1>8, <1>9, <1>10, <1>11, <1>12 DEF Next

\* Whatever the watcher has still to do, the events under way turn the bridge's list of
\* printers into the device map: for any number of printers and any channel capacity, an
\* event is neither lost nor overtaken between poll, the channels and watchPrinters.
THEOREM ListFollows == Spec => []PresenceTracked
<1>1. Init => PresenceTracked
  <2> SUFFICES ASSUME Init, NEW d \in Devices PROVE Settles(OnTheWay, d, view[d] # Absent, known[d])
    BY DEF PresenceTracked
  <2>1. TypeInv /\ Watched = <<>> /\ Emitting = <<>> /\ events = <<>>
    BY TypeInit DEF Init, Watched, Emitting
  <2>2. OnTheWay = (<<>> \o <<>>) \o <<>>
    BY <2>1, WayType
  <2>3. OnTheWay = <<>> /\ Len(OnTheWay) = 0
    BY <2>2, ConcatEmptySeq, EmptySeq
  <2>4. view[d] = Absent /\ known[d] = FALSE
    BY DEF Init
  <2> QED
    BY <2>3, <2>4 DEF Settles
<1>2. TypeInv /\ PresenceTracked /\ [Next]_vars => (TypeInv /\ PresenceTracked)'
  BY TypeStep, PresenceStep
<1> QED
  BY <1>1, <1>2, TypeInit, PTL DEF Spec
=============================================================================
