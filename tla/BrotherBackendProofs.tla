------------------------ MODULE BrotherBackendProofs ------------------------
(***************************************************************************)
(* Proofs about BrotherBackend for any number of printers, queues and      *)
(* endpoints, and any order of the steps of poller, watcher and ipp-usb.   *)
(***************************************************************************)
EXTENDS BrotherBackend, FiniteSetTheorems, SequenceTheorems, TLAPS

Eps == 1 .. MaxEps

(* Type correctness.  poll emits only while it has swapped its list, and the    *)
(* watcher handles a printer exactly while it is between two events.            *)

Asking == {"queue", "endpoint", "attributes", "proxy"}

Standing ==
  /\ watch \in Asking => wev \in Devices
  /\ watch \in {"endpoint", "attributes", "proxy"} => queue \in Devices
  /\ watch = "attributes" => endpoint \in Eps
  /\ poll = "idle" => appear = {} /\ vanish = {}

\* ipp-usb: a printer that is on the bus has an endpoint.
Served == \A d \in plugged : ep[d] \in Eps

TypeInv == TypeOK /\ Standing /\ Served

\* The initial state has the types.
LEMMA TypeInit == Init => TypeInv
<1> SUFFICES ASSUME Init PROVE TypeInv
  OBVIOUS
<1>1. TypeOK
  BY BrotherAssumption, EmptySeq DEF Init, TypeOK, Status, Absent
<1> QED
  BY <1>1 DEF TypeInv, Standing, Served, Init, Asking

\* The channels after a send.
LEMMA EventSent ==
  ASSUME TypeOK, NEW e \in [kind : Kinds, dev : Devices], Len(events) < EvCap, events' = Append(events, e)
  PROVE  events' \in Seq([kind : Kinds, dev : Devices]) /\ Len(events') <= EvCap
BY AppendProperties, LenProperties, BrotherAssumption DEF TypeOK

\* The channels after a receive.
LEMMA EventReceived ==
  ASSUME TypeOK, events # <<>>, events' = Tail(events)
  PROVE  /\ events' \in Seq([kind : Kinds, dev : Devices]) /\ Len(events') <= EvCap
         /\ Head(events).dev \in Devices /\ Head(events).kind \in Kinds
<1>1. /\ Head(events) \in [kind : Kinds, dev : Devices] /\ Tail(events) \in Seq([kind : Kinds, dev : Devices])
      /\ Len(Tail(events)) = Len(events) - 1 /\ Len(events) \in Nat
  BY HeadTailProperties, LenProperties DEF TypeOK
<1> QED
  BY <1>1, BrotherAssumption DEF TypeOK

\* The answer to a question of the watcher.
LEMMA AnswerType ==
  ASSUME TypeInv, watch \in Asking, NEW s \in Status, NEW who \in Devices \cup {Nothing}, Answered(s, who)
  PROVE  /\ status' \in Status \X (Devices \cup {Nothing}) /\ pass' \in {"status", "media"} /\ tries' \in {0, 1}
         /\ view' \in [Devices -> Status \cup {Absent}] /\ source' \in [Devices -> Devices \cup {Nothing}]
         /\ (watch' = "queue" /\ wev' = wev) \/ (watch' = "recv" /\ wev' = Nothing)
<1>1. /\ status \in Status \X (Devices \cup {Nothing}) /\ pass \in {"status", "media"} /\ tries \in {0, 1}
      /\ view \in [Devices -> Status \cup {Absent}] /\ source \in [Devices -> Devices \cup {Nothing}]
      /\ wev \in Devices
  BY DEF TypeInv, TypeOK, Standing
<1>2. CASE pass = "status"
  <2>1. /\ status' = <<s, who>> /\ pass' = "media" /\ tries' = 0 /\ watch' = "queue"
        /\ UNCHANGED <<wev, view, source>>
    BY <1>2 DEF Answered
  <2> QED
    BY <1>1, <2>1
<1>3. CASE pass # "status"
  <2>1. /\ view' = [view EXCEPT ![wev] = status[1]] /\ source' = [source EXCEPT ![wev] = status[2]]
        /\ watch' = "recv" /\ wev' = Nothing /\ UNCHANGED <<status, pass, tries>>
    BY <1>3 DEF Answered
  <2>2. status[1] \in Status /\ status[2] \in Devices \cup {Nothing}
    BY <1>1
  <2> QED
    BY <1>1, <2>1, <2>2
<1> QED
  BY <1>2, <1>3

\* Every step keeps the types.
LEMMA TypeStep == TypeInv /\ [Next]_vars => TypeInv'
<1> SUFFICES ASSUME TypeInv, [Next]_vars PROVE TypeInv'
  OBVIOUS
<1> USE DEF TypeInv
<1>1. CASE Poll
  BY <1>1 DEF Poll, TypeOK, Standing, Served, Scan, hwVars, watchVars, askVars, drvVars, printVars
<1>2. CASE PollFail
  BY <1>2 DEF PollFail, TypeOK, Standing, Served, Asking, hwVars, pollVars, askVars, drvVars, printVars
<1>3. ASSUME NEW k \in Kinds, NEW d \in Devices, Emit(k, d)
      PROVE  TypeInv'
  <2>1. /\ events' \in Seq([kind : Kinds, dev : Devices]) /\ Len(events') <= EvCap
    BY <1>3, EventSent DEF Emit
  <2>2. appear' \subseteq appear /\ vanish' \subseteq vanish /\ poll = "emit"
    BY <1>3 DEF Emit, NextEvent
  <2> QED
    BY <1>3, <2>1, <2>2 DEF Emit, TypeOK, Standing, Served, hwVars, watchVars, askVars, drvVars, printVars
<1>4. ASSUME NEW k \in Kinds, NEW d \in Devices, EmitAbort(k, d)
      PROVE  TypeInv'
  <2>1. appear' \subseteq appear /\ vanish' \subseteq vanish /\ poll = "emit"
    BY <1>4 DEF EmitAbort, NextEvent
  <2> QED
    BY <1>4, <2>1 DEF EmitAbort, TypeOK, Standing, Served, hwVars, watchVars, askVars, drvVars, printVars
<1>5. CASE PollEnd
  BY <1>5 DEF PollEnd, TypeOK, Standing, Served, Asking, hwVars, askVars, drvVars, printVars
<1>6. CASE WatchRecv
  <2>1. /\ events' \in Seq([kind : Kinds, dev : Devices]) /\ Len(events') <= EvCap
        /\ Head(events).dev \in Devices /\ Head(events).kind \in Kinds
    BY <1>6, EventReceived DEF WatchRecv
  <2>2. CASE Head(events).kind = "disconnected"
    <3>1. view' = [view EXCEPT ![Head(events).dev] = Absent] /\ UNCHANGED <<watch, wev, pass, tries, registered>>
      BY <1>6, <2>2 DEF WatchRecv
    <3> QED
      BY <1>6, <2>1, <3>1 DEF WatchRecv, TypeOK, Standing, Served, hwVars, pollVars, printVars
  <2>3. CASE Head(events).kind # "disconnected"
    <3>1. /\ registered' = registered \cup {Head(events).dev}
          /\ wev' = Head(events).dev /\ watch' = "queue" /\ pass' = "status" /\ tries' = 0
          /\ UNCHANGED view
      BY <1>6, <2>3 DEF WatchRecv
    <3> QED
      BY <1>6, <2>1, <3>1 DEF WatchRecv, TypeOK, Standing, Served, hwVars, pollVars, printVars
  <2> QED
    BY <2>2, <2>3
<1>7. CASE WatchStop
  BY <1>7 DEF WatchStop, TypeOK, Standing, Served, Asking, hwVars, pollVars, askVars, drvVars, printVars
<1>8. CASE ResolveQueue
  <2>0. watch \in Asking /\ "offline" \in Status
    BY <1>8 DEF ResolveQueue, Asking, Status
  <2>1. CASE /\ queue' \in Matching(wev)
             /\ watch' = "endpoint" \/ (Flaky /\ watch' = "proxy")
             /\ UNCHANGED <<wev, pass, tries, status, view, source>>
    <3>1. queue' \in Devices
      BY <2>1, BrotherAssumption DEF Matching
    <3> QED
      BY <1>8, <2>0, <2>1, <3>1 DEF ResolveQueue, TypeOK, Standing, Served, Asking, hwVars, pollVars, drvVars, printVars
  <2>2. CASE Answered("offline", Nothing) /\ UNCHANGED queue
    <3>1. /\ status' \in Status \X (Devices \cup {Nothing}) /\ pass' \in {"status", "media"} /\ tries' \in {0, 1}
          /\ view' \in [Devices -> Status \cup {Absent}] /\ source' \in [Devices -> Devices \cup {Nothing}]
          /\ (watch' = "queue" /\ wev' = wev) \/ (watch' = "recv" /\ wev' = Nothing)
      BY <2>0, <2>2, AnswerType
    <3> QED
      BY <1>8, <2>0, <2>2, <3>1 DEF ResolveQueue, TypeOK, Standing, Served, Asking, hwVars, pollVars, drvVars, printVars
  <2> QED
    BY <1>8, <2>1, <2>2 DEF ResolveQueue
<1>9. CASE DeviceEndpoint
  <2>1. endpoint' \in Eps \cup {Nothing} /\ (watch' = "attributes" => endpoint' \in Eps)
        /\ endpoints' \in [Devices -> Eps \cup {Nothing}] /\ watch' \in {"attributes", "proxy"}
        /\ wev \in Devices /\ queue \in Devices
    BY <1>9 DEF DeviceEndpoint, TypeOK, Standing, Served, Eps, Asking
  <2> QED
    BY <1>9, <2>1 DEF DeviceEndpoint, TypeOK, Standing, Served, Asking, hwVars, pollVars, printVars, Eps
<1>10. CASE Attributes
  <2>1. PICK e \in plugged : ep[e] = endpoint /\ Answered(phys[e], e)
    BY <1>10 DEF Attributes
  <2>2. phys[e] \in Status /\ e \in Devices /\ watch \in Asking
    BY <1>10 DEF TypeOK, Attributes, Asking
  <2>3. /\ status' \in Status \X (Devices \cup {Nothing}) /\ pass' \in {"status", "media"} /\ tries' \in {0, 1}
        /\ view' \in [Devices -> Status \cup {Absent}] /\ source' \in [Devices -> Devices \cup {Nothing}]
        /\ (watch' = "queue" /\ wev' = wev) \/ (watch' = "recv" /\ wev' = Nothing)
    BY <2>1, <2>2, AnswerType
  <2> QED
    BY <1>10, <2>2, <2>3 DEF Attributes, TypeOK, Standing, Served, Asking, hwVars, pollVars, drvVars, printVars
<1>11. CASE AttributesFail
  <2>1. /\ endpoints' \in [Devices -> Eps \cup {Nothing}] /\ tries' \in {0, 1} /\ watch' \in {"endpoint", "proxy"}
        /\ wev \in Devices /\ queue \in Devices
    BY <1>11 DEF AttributesFail, TypeOK, Standing, Eps, Asking
  <2> QED
    BY <1>11, <2>1 DEF AttributesFail, TypeOK, Standing, Served, Asking, hwVars, pollVars, printVars, Eps
<1>12. CASE Proxy
  <2>1. PICK s \in Status : Answered(s, queue)
    BY <1>12 DEF Proxy
  <2>2. queue \in Devices /\ watch \in Asking
    BY <1>12 DEF Standing, Proxy, Asking
  <2>3. /\ status' \in Status \X (Devices \cup {Nothing}) /\ pass' \in {"status", "media"} /\ tries' \in {0, 1}
        /\ view' \in [Devices -> Status \cup {Absent}] /\ source' \in [Devices -> Devices \cup {Nothing}]
        /\ (watch' = "queue" /\ wev' = wev) \/ (watch' = "recv" /\ wev' = Nothing)
    BY <2>1, <2>2, AnswerType
  <2> QED
    BY <1>12, <2>2, <2>3 DEF Proxy, TypeOK, Standing, Served, Asking, hwVars, pollVars, drvVars, printVars
<1>13. ASSUME NEW d \in Devices, PrintJob(d)
       PROVE  TypeInv'
  BY <1>13, BrotherAssumption DEF PrintJob, TypeOK, Standing, Served, hwVars, pollVars, watchVars, askVars, drvVars
<1>14. ASSUME NEW d \in Devices, NEW n \in 1 .. MaxEps, Serve(d, n)
       PROVE  TypeInv'
  <2>1. owners' \in [1 .. MaxEps -> SUBSET Devices]
    BY <1>14 DEF Serve, TypeOK
  <2> QED
    BY <1>14, <2>1, BrotherAssumption
    DEF Serve, TypeOK, Standing, Served, Eps, pollVars, watchVars, askVars, drvVars, printVars
<1>15. ASSUME NEW d \in Devices, Unplug(d)
       PROVE  TypeInv'
  BY <1>15, BrotherAssumption DEF Unplug, TypeOK, Standing, Served, Eps, pollVars, watchVars, askVars, drvVars, printVars
<1>16. ASSUME NEW d \in Devices, Cover(d)
       PROVE  TypeInv'
  BY <1>16, BrotherAssumption DEF Cover, TypeOK, Standing, Served, Status, pollVars, watchVars, askVars, drvVars, printVars
<1>17. CASE Shutdown
  BY <1>17 DEF Shutdown, TypeOK, Standing, Served, hwVars, pollVars, watchVars, askVars, drvVars, printVars
<1>18. CASE UNCHANGED vars
  BY <1>18 DEF vars, TypeOK, Standing, Served, hwVars, pollVars, watchVars, askVars, drvVars, printVars
<1> QED
  BY <1>1, <1>2, <1>3, <1>4, <1>5, <1>6, <1>7, <1>8, <1>9, <1>10, <1>11, <1>12, <1>13, <1>14, <1>15,
     <1>16, <1>17, <1>18 DEF Next, PollStep, WatchStep

\* The components of the state keep their types and the event channels their capacity.
THEOREM TypeCorrect == Spec => []TypeOK
<1>1. TypeInv => TypeOK
  BY DEF TypeInv
<1> QED
  BY <1>1, TypeInit, TypeStep, PTL DEF Spec

-----------------------------------------------------------------------------
(* Whose status the bridge reports, whatever the names of the models and whoever  *)
(* ipp-usb gives an endpoint to.  An endpoint in the cache was, at some time, that  *)
(* of a printer the driver may take for the one it asks about; who is there now    *)
(* was given the same endpoint.  The history of owners only grows, so what it       *)
(* explains stays explained.                                                        *)

\* A printer that may be taken for d has been served at n.
Shared(n, d) == n = Nothing \/ owners[n] \cap Contains[d] # {}

Resident == \A d \in Devices : ep[d] = Nothing \/ d \in owners[ep[d]]

Cached == \A d \in Devices : Shared(endpoints[d], d)

Answering ==
  /\ watch \in {"endpoint", "attributes", "proxy"} => queue \in Contains[wev]
  /\ watch = "attributes" => Shared(endpoint, wev)
  /\ watch \in Asking /\ pass = "media" => Explains(status[2], wev)

OwnInv == Resident /\ Cached /\ Answering /\ StatusExplained

\* Nothing is known of any printer at the start.
LEMMA OwnInit == Init => OwnInv
BY DEF Init, OwnInv, Resident, Cached, Answering, Shared, Asking, StatusExplained, Explains

\* The watcher goes on with an answer that is explained.
LEMMA OwnAnswer ==
  ASSUME TypeInv, OwnInv, watch \in Asking, NEW s, NEW who \in Devices \cup {Nothing}, Answered(s, who),
         Explains(who, wev), UNCHANGED <<hwVars, endpoints>>
  PROVE  OwnInv'
<1>1. \A e, d : Explains(e, d)' <=> Explains(e, d)
  BY DEF Explains, hwVars
<1>2. Resident' /\ Cached'
  BY DEF OwnInv, Resident, Cached, Shared, hwVars
<1>3. CASE pass = "status"
  <2>1. status' = <<s, who>> /\ UNCHANGED <<wev, source>> /\ watch' = "queue"
    BY <1>3 DEF Answered
  <2>2. Explains(status'[2], wev')
    BY <2>1
  <2>3. Answering'
    BY <1>1, <2>1, <2>2 DEF Answering
  <2> QED
    BY <1>1, <1>2, <2>1, <2>3 DEF OwnInv, StatusExplained
<1>4. CASE pass # "status"
  <2>1. source' = [source EXCEPT ![wev] = status[2]] /\ watch' = "recv" /\ pass = "media"
    BY <1>4 DEF Answered, TypeInv, TypeOK
  <2>2. Explains(status[2], wev) /\ source \in [Devices -> Devices \cup {Nothing}]
    BY <2>1 DEF OwnInv, Answering, TypeInv, TypeOK
  <2>3. \A d \in Devices : Explains(source'[d], d)
    BY <2>1, <2>2 DEF OwnInv, StatusExplained
  <2>4. StatusExplained' /\ Answering'
    BY <1>1, <2>1, <2>3 DEF StatusExplained, Answering, Asking
  <2> QED
    BY <1>2, <2>4 DEF OwnInv
<1> QED
  BY <1>3, <1>4

\* Steps that touch neither the watcher's question nor the endpoints.
LEMMA OwnFrame ==
  ASSUME OwnInv, UNCHANGED <<ep, owners, endpoints, source>>,
         UNCHANGED <<watch, wev, askVars>> \/ (watch' \notin Asking)
  PROVE  OwnInv'
<1>1. \A e, d : (Explains(e, d)' <=> Explains(e, d)) /\ (Shared(e, d)' <=> Shared(e, d))
  BY DEF Explains, Shared
<1>2. Resident' /\ StatusExplained' /\ Cached'
  BY <1>1 DEF Cached, OwnInv, Resident, StatusExplained
<1>3. Answering'
  BY <1>1 DEF OwnInv, Answering, askVars, Asking
<1> QED
  BY <1>2, <1>3 DEF OwnInv

\* An endpoint that gets one more owner takes no explanation away.
LEMMA OwnMore ==
  ASSUME TypeInv, OwnInv, NEW d \in Devices, NEW n \in Eps, owners' = [owners EXCEPT ![n] = @ \cup {d}],
         UNCHANGED <<endpoints, source, watch, wev, pass, queue, endpoint, status>>
  PROVE  Cached' /\ Answering' /\ StatusExplained'
<1>1. owners \in [Eps -> SUBSET Devices] /\ endpoints \in [Devices -> Eps \cup {Nothing}]
  BY DEF TypeInv, TypeOK, Eps
<1>2. \A m \in Eps : owners[m] \subseteq owners'[m]
  BY <1>1
<1>3. \A m \in Eps \cup {Nothing} : \A e : Shared(m, e) => Shared(m, e)'
  BY <1>2 DEF Shared
<1>4. \A c, e : Explains(c, e) => Explains(c, e)'
  BY <1>2 DEF Explains, Eps
<1>5. Cached' /\ StatusExplained'
  BY <1>1, <1>3, <1>4 DEF OwnInv, Cached, StatusExplained
<1>6. watch = "attributes" => endpoint \in Eps
  BY DEF TypeInv, Standing
<1>7. Answering'
  BY <1>3, <1>4, <1>6 DEF OwnInv, Answering
<1> QED
  BY <1>5, <1>7

\* Every step keeps it.
LEMMA OwnStep ==
  ASSUME TypeInv, OwnInv, [Next]_vars
  PROVE  OwnInv'
<1>a. TypeOK /\ Standing /\ Served
  BY DEF TypeInv
<1>1. CASE WatchRecv
  <2>1. CASE Head(events).kind = "disconnected"
    BY <1>1, <2>1, OwnFrame DEF WatchRecv, hwVars, askVars
  <2>2. CASE Head(events).kind # "disconnected"
    <3>1. watch' = "queue" /\ pass' = "status" /\ UNCHANGED <<ep, owners, endpoints, source>>
      BY <1>1, <2>2 DEF WatchRecv, hwVars
    <3>2. Resident' /\ StatusExplained' /\ Cached'
      BY <3>1 DEF Cached, OwnInv, Resident, StatusExplained, Shared, Explains
    <3> QED
      BY <3>1, <3>2 DEF OwnInv, Answering
  <2> QED
    BY <2>1, <2>2
<1>2. CASE ResolveQueue
  <2>1. watch \in Asking /\ wev \in Devices /\ UNCHANGED <<hwVars, endpoints>>
    BY <1>2, <1>a DEF ResolveQueue, Standing, Asking, drvVars
  <2>2. CASE /\ queue' \in Matching(wev)
             /\ watch' = "endpoint" \/ (Flaky /\ watch' = "proxy")
             /\ UNCHANGED <<wev, pass, tries, status, view, source>>
    <3>1. queue' \in Contains[wev']
      BY <2>1, <2>2 DEF Matching
    <3>2. Resident' /\ StatusExplained' /\ Cached'
      BY <2>1, <2>2 DEF Cached, OwnInv, Resident, StatusExplained, Shared, Explains, hwVars
    <3>3. \A e, d : Explains(e, d)' <=> Explains(e, d)
      BY <2>1 DEF Explains, hwVars
    <3>4. Answering'
      BY <2>1, <2>2, <3>1, <3>3 DEF OwnInv, Answering
    <3> QED
      BY <3>2, <3>4 DEF OwnInv
  <2>3. CASE Answered("offline", Nothing)
    <3>1. Explains(Nothing, wev)
      BY DEF Explains
    <3> QED
      BY <2>1, <2>3, <3>1, OwnAnswer
  <2> QED
    BY <1>2, <2>2, <2>3 DEF ResolveQueue
<1>3. CASE DeviceEndpoint
  <2>1. /\ watch \in Asking /\ wev \in Devices /\ queue \in Contains[wev]
        /\ watch' \in {"attributes", "proxy"} /\ UNCHANGED <<hwVars, wev, pass, queue, status, source>>
    BY <1>3, <1>a DEF DeviceEndpoint, Standing, OwnInv, Answering, Asking
  <2>2. \A e \in plugged : Matches(e) => ep[e] \in Eps /\ Shared(ep[e], wev)
    <3> SUFFICES ASSUME NEW e \in plugged, Matches(e) PROVE ep[e] \in Eps /\ Shared(ep[e], wev)
      OBVIOUS
    <3>1. e \in Contains[wev]
      BY <2>1 DEF Matches
    <3>2. ep[e] \in Eps /\ e \in Devices
      BY <1>a DEF Served, TypeOK
    <3>3. e \in owners[ep[e]]
      BY <3>2, BrotherAssumption DEF OwnInv, Resident, Eps
    <3> QED
      BY <3>1, <3>2, <3>3 DEF Shared
  <2>3. \/ endpoint' = endpoints[wev] /\ UNCHANGED endpoints
        \/ \E n \in Eps : Shared(n, wev) /\ endpoint' = n /\ endpoints' = [endpoints EXCEPT ![wev] = n]
        \/ watch' = "proxy" /\ UNCHANGED <<endpoint, endpoints>>
    BY <1>3, <2>2 DEF DeviceEndpoint
  <2>4. \A e, d : (Explains(e, d)' <=> Explains(e, d)) /\ (Shared(e, d)' <=> Shared(e, d))
    BY <2>1 DEF Explains, Shared, hwVars
  <2>5. Shared(endpoints[wev], wev) /\ endpoints \in [Devices -> Eps \cup {Nothing}]
    BY <1>a, <2>1 DEF OwnInv, Cached, TypeOK, Eps
  <2>6. \A d \in Devices : Shared(endpoints'[d], d)
    BY <2>1, <2>3, <2>5 DEF OwnInv, Cached
  <2>7. watch' = "attributes" => Shared(endpoint', wev)
    BY <2>3, <2>5
  <2>8. Resident' /\ StatusExplained'
    BY <2>1, <2>4 DEF OwnInv, Resident, StatusExplained, hwVars
  <2>9. Answering'
    BY <2>1, <2>4, <2>7 DEF OwnInv, Answering
  <2> QED
    BY <2>4, <2>6, <2>8, <2>9 DEF OwnInv, Cached
<1>4. CASE Attributes
  <2>1. PICK e \in plugged : ep[e] = endpoint /\ Answered(phys[e], e)
    BY <1>4 DEF Attributes
  <2>2. watch \in Asking /\ UNCHANGED <<hwVars, endpoints>> /\ Shared(endpoint, wev) /\ endpoint \in Eps
    BY <1>4, <1>a DEF Attributes, OwnInv, Answering, Asking, drvVars, Standing
  <2>3. e \in Devices /\ endpoint # Nothing
    BY <1>a, <2>2, BrotherAssumption DEF TypeOK, Eps
  <2>4. e \in owners[endpoint]
    BY <2>1, <2>3 DEF OwnInv, Resident
  <2>5. Explains(e, wev)
    BY <2>2, <2>3, <2>4 DEF Explains, Shared, Eps
  <2> QED
    BY <2>1, <2>2, <2>3, <2>5, OwnAnswer
<1>5. CASE AttributesFail
  <2>1. /\ watch' \in {"endpoint", "proxy"} /\ UNCHANGED <<hwVars, wev, pass, queue, status, source>>
        /\ \/ endpoints' = [endpoints EXCEPT ![wev] = Nothing]
           \/ UNCHANGED endpoints
        /\ watch = "attributes"
    BY <1>5, <1>a DEF AttributesFail
  <2>2. endpoints \in [Devices -> Eps \cup {Nothing}]
    BY <1>a DEF TypeOK, Eps
  <2>3. \A e, d : (Explains(e, d)' <=> Explains(e, d)) /\ (Shared(e, d)' <=> Shared(e, d))
    BY <2>1 DEF Explains, Shared, hwVars
  <2>4. \A d \in Devices : Shared(endpoints'[d], d)
    BY <2>1, <2>2 DEF OwnInv, Shared, Cached
  <2>5. Resident' /\ StatusExplained'
    BY <2>1, <2>3 DEF OwnInv, Resident, StatusExplained, hwVars
  <2>6. Answering'
    BY <2>1, <2>3 DEF OwnInv, Answering, Asking
  <2> QED
    BY <2>3, <2>4, <2>5, <2>6 DEF OwnInv, Cached
<1>6. CASE Proxy
  <2>1. PICK s \in Status : Answered(s, queue)
    BY <1>6 DEF Proxy
  <2>2. /\ watch \in Asking /\ UNCHANGED <<hwVars, endpoints>> /\ queue \in Contains[wev]
        /\ queue \in Devices
    BY <1>6, <1>a DEF Proxy, OwnInv, Answering, Asking, drvVars, Standing
  <2>3. Explains(queue, wev)
    BY <2>2 DEF Explains
  <2> QED
    BY <2>1, <2>2, <2>3, OwnAnswer
<1>7. ASSUME NEW d \in Devices, NEW n \in 1 .. MaxEps, Serve(d, n)
      PROVE  OwnInv'
  <2>1. /\ ep' = [ep EXCEPT ![d] = n] /\ owners' = [owners EXCEPT ![n] = @ \cup {d}]
        /\ UNCHANGED <<endpoints, source, watch, wev, pass, queue, endpoint, status>>
    BY <1>7 DEF Serve, drvVars, watchVars, askVars
  <2>2. /\ ep \in [Devices -> Eps \cup {Nothing}] /\ owners \in [Eps -> SUBSET Devices]
        /\ n \in Eps /\ Nothing \notin Eps
    BY <1>a, BrotherAssumption DEF TypeOK, Eps
  <2>3. \A m \in Eps : owners[m] \subseteq owners'[m]
    BY <2>1, <2>2
  <2>4. \A e \in Devices : ep'[e] = Nothing \/ e \in owners'[ep'[e]]
    BY <2>1, <2>2, <2>3 DEF OwnInv, Resident
  <2>5. Cached' /\ Answering' /\ StatusExplained'
    BY <2>1, <2>2, OwnMore
  <2> QED
    BY <2>4, <2>5 DEF OwnInv, Resident
<1>8. ASSUME NEW d \in Devices, Unplug(d)
      PROVE  OwnInv'
  <2>1. /\ ep' = [ep EXCEPT ![d] = Nothing]
        /\ UNCHANGED <<owners, endpoints, source, watch, wev, pass, queue, endpoint, status>>
    BY <1>8 DEF Unplug, drvVars, watchVars, askVars
  <2>2. ep \in [Devices -> Eps \cup {Nothing}]
    BY <1>a DEF TypeOK, Eps
  <2>3. Resident'
    BY <2>1, <2>2 DEF OwnInv, Resident
  <2>4. \A e, c : (Explains(e, c)' <=> Explains(e, c)) /\ (Shared(e, c)' <=> Shared(e, c))
    BY <2>1 DEF Explains, Shared
  <2>5. StatusExplained' /\ Answering' /\ Cached'
    BY <2>1, <2>4 DEF Cached, OwnInv, StatusExplained, Answering
  <2> QED
    BY <2>3, <2>5 DEF OwnInv
<1>9. CASE PollFail \/ PollEnd
  <2>1. watch' \notin Asking \/ UNCHANGED <<watch, wev, askVars>>
    BY <1>9 DEF PollFail, PollEnd, Asking
  <2> QED
    BY <1>9, <2>1, OwnFrame DEF PollFail, PollEnd, hwVars, drvVars
<1>10. CASE WatchStop
  BY <1>10, OwnFrame DEF WatchStop, Asking, hwVars, drvVars
<1>11. CASE \/ Poll \/ Shutdown \/ UNCHANGED vars
            \/ \E k \in Kinds, d \in Devices : Emit(k, d) \/ EmitAbort(k, d)
            \/ \E d \in Devices : PrintJob(d) \/ Cover(d)
  <2>1. UNCHANGED <<ep, owners, endpoints, source, watch, wev, askVars>>
    BY <1>11 DEF Poll, Shutdown, vars, Emit, EmitAbort, PrintJob, Cover, hwVars, drvVars, watchVars
  <2> QED
    BY <2>1, OwnFrame
<1> QED
  BY <1>1, <1>2, <1>3, <1>4, <1>5, <1>6, <1>7, <1>8, <1>9, <1>10, <1>11 DEF Next, PollStep, WatchStep

\* cups_darwin.go:151: for any models, queues and endpoints, through every restart of ipp-usb
\* and whatever the cache still holds, the status the bridge reports for a printer is that of
\* a printer whose model name contains its own, or of one that was served at an endpoint
\* where such a printer was served too.  In particular, where no model name contains another
\* and no endpoint passes from one printer to another, it is its own.
THEOREM OwnStatus == Spec => []StatusExplained
<1>1. TypeInv /\ OwnInv /\ [Next]_vars => (TypeInv /\ OwnInv)'
  BY TypeStep, OwnStep
<1>2. OwnInv => StatusExplained
  BY DEF OwnInv
<1> QED
  BY <1>1, <1>2, TypeInit, OwnInit, PTL DEF Spec
=============================================================================
