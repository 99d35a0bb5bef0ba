------------------------------ MODULE Delivery ------------------------------
(***************************************************************************)
(* A job from the server to the printer and back: the bridge process as a  *)
(* whole (cmd/bridge/main.go, internal/bridge, internal/queue and the      *)
(* outbound side of internal/transport), the connections it goes through   *)
(* and the restarts that launchd's KeepAlive gives it.  Nothing of the     *)
(* queue, the outbound buffer or the dedup store outlives the process.     *)
(*                                                                         *)
(* The grain is coarser than in JobQueue and Transport, which show that    *)
(* the queue serves one printer's jobs in order and one at a time, and     *)
(* that a message handed to Client.Send is written at most once and in     *)
(* order.  There is one printer, of either kind: a NIIMBOT driver waits    *)
(* for the label, the CUPS driver for lp to spool the job.  Its channel of *)
(* 64 jobs never fills here, and the seven days of the dedup retention do  *)
(* not pass.                                                               *)
(*                                                                         *)
(* The server is external: docs and code expect it to keep its jobs and to *)
(* deliver again, on every new connection, each job of which it has not    *)
(* received a terminal status.                                             *)
(***************************************************************************)
EXTENDS Integers, SequencesExt

CONSTANTS
  JobIds,     \* the jobs the server holds for the printer
  Nobody,     \* "no job"
  BufferCap,  \* capacity of Client.out (128 in the code)
  MaxConns,   \* bound: connections in a behaviour; the last one is not lost
  MaxCrashes, \* bound: process deaths in a behaviour
  Spools,     \* the driver hands the job to CUPS, which takes it whether or not it prints
  MaxChanges  \* bound: times the printer appears, disappears or changes its status

ASSUME DeliveryAssumption ==
  /\ Nobody \notin JobIds /\ IsFiniteSet(JobIds)
  /\ BufferCap \in Nat \ {0}
  /\ MaxConns \in Nat /\ MaxCrashes \in Nat /\ MaxChanges \in Nat
  /\ Spools \in BOOLEAN

VARIABLES
  known,     \* server: the last word about each job
  view,      \* server: the printer is available
  link,      \* the connection: up, dead (unnoticed), or down
  conns,     \* number of connections so far
  toBridge,  \* deliveries in flight on the connection
  process,   \* the bridge process: running, closing (Run has returned), or dead
  crashes,   \* number of deaths so far
  buffer,    \* Client.out
  stale,     \* write loops of lost connections that have not stopped yet
  hands,     \* read loops inside handleJobDeliver, by connection
  waiting,   \* worker.jobs
  wpc,       \* where the worker stands
  cur,       \* the job it processes, if it is not in its select
  seen,      \* dedupStore.seen
  present,   \* the printer is attached
  ready,     \* the status its driver would report now is printable
  announced, \* the printer is there, as the bridge last announced it
  changes,   \* number of changes of present and ready so far
  turned,    \* history: the status has changed since the last update was made
  handed,    \* history: prints taken, as labels out of the printer or jobs spooled by lp
  extra,     \* history: deliveries let through while an earlier one was unrecorded
  last,      \* history: the last printer update given to Send (n is 0 before the first)
  gone       \* history: what will never be received

serverVars  == <<known, view>>
linkVars    == <<link, conns, toBridge, stale>>
queueVars   == <<waiting, wpc, cur, seen>>
printerVars == <<present, ready, announced, changes, turned, last>>
histVars    == <<handed, extra>>
vars == <<serverVars, linkVars, process, crashes, buffer, hands, queueVars, printerVars, histVars, gone>>

Terminal == {"completed", "failed"}
Lives    == 0 .. MaxCrashes

Job(j, s)     == [about |-> j, says |-> s, n |-> 0, life |-> crashes]
Update(on, n) == [about |-> Nobody, says |-> IF on THEN "available" ELSE "unavailable",
                  n |-> n, life |-> crashes]

\* Of what is lost, the terminal statuses and the updates are kept in the history.
Lost(ms) == gone \cup {m \in ms : m.says \in Terminal \cup {"available", "unavailable"}}

Init ==
  /\ known = [j \in JobIds |-> "created"] /\ view = FALSE
  /\ link = "down" /\ conns = 0 /\ toBridge = <<>> /\ stale = 0
  /\ process = "running" /\ crashes = 0
  /\ buffer = <<>> /\ hands = {}
  /\ waiting = <<>> /\ wpc = "select" /\ cur = Nobody /\ seen = {}
  /\ present \in BOOLEAN /\ ready \in BOOLEAN /\ announced = FALSE
  /\ changes = 0 /\ turned = FALSE
  /\ last = [about |-> Nobody, says |-> "unavailable", n |-> 0, life |-> 0]
  /\ handed = [j \in JobIds |-> [l \in Lives |-> 0]]
  /\ extra = [j \in JobIds |-> [l \in Lives |-> 0]]
  /\ gone = {}

-----------------------------------------------------------------------------
(* The server and the network *)

Unfinished == {j \in JobIds : known[j] \notin Terminal}

\* Run dials again and the handshake succeeds; the server delivers what is unfinished.
Connect ==
  /\ process = "running" /\ link = "down" /\ conns < MaxConns
  /\ link' = "up" /\ conns' = conns + 1
  /\ \E order \in SetToSeqs(Unfinished) : toBridge' = order
  /\ UNCHANGED <<serverVars, stale, process, crashes, buffer, hands, queueVars,
                 printerVars, histVars, gone>>

\* Both directions fail; the bridge does not know yet.
ConnDies ==
  /\ link = "up" /\ conns < MaxConns
  /\ link' = "dead"
  /\ toBridge' = <<>>
  /\ UNCHANGED <<serverVars, conns, stale, process, crashes, buffer, hands, queueVars,
                 printerVars, histVars, gone>>

\* The server processes a message: acknowledgement, job status or printer update.
ServerReceive(m) ==
  IF m.about = Nobody
  THEN view' = (m.says = "available") /\ UNCHANGED known
  ELSE known' = [known EXCEPT ![m.about] = IF m.says = "ack" THEN @ ELSE m.says]
       /\ UNCHANGED view

-----------------------------------------------------------------------------
(* Client: Send, the write loop, the end of a connection *)

\* The message goes into the buffer, or nowhere; the caller goes on.
Send(m) ==
  IF Len(buffer) < BufferCap
  THEN buffer' = Append(buffer, m) /\ UNCHANGED gone
  ELSE gone' = Lost({m}) /\ UNCHANGED buffer

\* A write on a live connection reaches the server.  A message that is under way when
\* the connection dies is one that was written in vain.
Write ==
  /\ process = "running" /\ link = "up" /\ buffer # <<>>
  /\ ServerReceive(Head(buffer))
  /\ buffer' = Tail(buffer)
  /\ UNCHANGED <<linkVars, process, crashes, hands, queueVars, printerVars, histVars, gone>>

\* A write on a dead connection succeeds or fails, a write loop of an earlier connection
\* takes a message before it sees that it was cancelled: the message is lost.
WriteInVain ==
  /\ process = "running" /\ buffer # <<>>
  /\ \/ link = "dead" /\ UNCHANGED stale
     \/ stale > 0 /\ stale' = stale - 1
  /\ gone' = Lost({Head(buffer)})
  /\ buffer' = Tail(buffer)
  /\ UNCHANGED <<serverVars, link, conns, toBridge, process, crashes, hands, queueVars,
                 printerVars, histVars>>

\* One of the loops reports an error; connectAndServe returns without waiting for
\* the other, which may be the write loop.
NoticeLoss ==
  /\ process = "running" /\ link = "dead"
  /\ link' = "down"
  /\ stale' = stale + 1
  /\ UNCHANGED <<serverVars, conns, toBridge, process, crashes, buffer, hands, queueVars,
                 printerVars, histVars, gone>>

StaleStops ==
  /\ stale > 0
  /\ stale' = stale - 1
  /\ UNCHANGED <<serverVars, link, conns, toBridge, process, crashes, buffer, hands,
                 queueVars, printerVars, histVars, gone>>

\* A write that times out ends Run for good, and the deferred queue.Close begins.
WriteTimesOut ==
  /\ process = "running" /\ link = "dead" /\ crashes < MaxCrashes
  /\ process' = "closing"
  /\ link' = "down"
  /\ UNCHANGED <<serverVars, conns, toBridge, stale, crashes, buffer, hands, queueVars,
                 printerVars, histVars, gone>>

-----------------------------------------------------------------------------
(* handleJobDeliver, on the read loop of a connection *)

Acting == process # "dead"

\* Receive and the acknowledgement, which comes before Submit.
Deliver ==
  /\ process = "running" /\ link = "up" /\ toBridge # <<>>
  /\ \A h \in hands : h.conn # conns
  /\ hands' = hands \cup {[conn |-> conns, job |-> Head(toBridge), at |-> "check"]}
  /\ toBridge' = Tail(toBridge)
  /\ Send(Job(Head(toBridge), "ack"))
  /\ UNCHANGED <<serverVars, link, conns, stale, process, crashes, queueVars,
                 printerVars, histVars>>

Passes(h) ==
  /\ hands' = (hands \ {h}) \cup {[h EXCEPT !.at = "send"]}
  /\ extra' = IF h.job \in ToSet(waiting) \cup {cur} \cup {g.job : g \in {g \in hands : g.at = "send"}}
              THEN [extra EXCEPT ![h.job][crashes] = @ + 1] ELSE extra

\* Mutant of Submit: the dedup store is not asked.
SubmitUnchecked(h) ==
  /\ Acting
  /\ h.at = "check"
  /\ IF process = "closing"
     THEN hands' = hands \ {h} /\ UNCHANGED extra
     ELSE Passes(h)
  /\ UNCHANGED <<serverVars, linkVars, process, crashes, buffer, queueVars, printerVars, handed, gone>>

\* Submit's two early returns: a duplicate gets no answer, and the error that rejects a
\* job while the queue closes finds no connection.
Submit(h) ==
  /\ Acting
  /\ h.at = "check"
  /\ IF h.job \in seen \/ process = "closing"
     THEN hands' = hands \ {h} /\ UNCHANGED extra
     ELSE Passes(h)
  /\ UNCHANGED <<serverVars, linkVars, process, crashes, buffer, queueVars, printerVars, handed, gone>>

\* The job goes on the worker's channel.
Accept(h) ==
  /\ Acting
  /\ h.at = "send"
  /\ hands' = hands \ {h}
  /\ waiting' = Append(waiting, h.job)
  /\ UNCHANGED <<serverVars, linkVars, process, crashes, buffer, wpc, cur, seen, printerVars,
                 histVars, gone>>

-----------------------------------------------------------------------------
(* The worker *)

Take ==
  /\ Acting /\ wpc = "select" /\ waiting # <<>>
  /\ cur' = Head(waiting)
  /\ waiting' = Tail(waiting)
  /\ wpc' = "queued"
  /\ UNCHANGED <<serverVars, linkVars, process, crashes, buffer, hands, seen, printerVars,
                 histVars, gone>>

\* The reports before printing; here wpc names the state about to be reported.
After(s) == CASE s = "queued" -> "sent" [] s = "sent" -> "printing" [] s = "printing" -> "print"
              [] OTHER -> "record"

\* Mutant of Report: a failure is not reported.
ReportNoFailure ==
  /\ Acting /\ wpc \in {"queued", "sent", "printing"} \cup Terminal
  /\ IF wpc = "failed" THEN UNCHANGED <<buffer, gone>> ELSE Send(Job(cur, wpc))
  /\ wpc' = After(wpc)
  /\ UNCHANGED <<serverVars, linkVars, process, crashes, hands, waiting, cur, seen, printerVars,
                 histVars>>

Report ==
  /\ Acting /\ wpc \in {"queued", "sent", "printing"} \cup Terminal
  /\ Send(Job(cur, wpc))
  /\ wpc' = After(wpc)
  /\ UNCHANGED <<serverVars, linkVars, process, crashes, hands, waiting, cur, seen, printerVars,
                 histVars>>

\* What the driver may have passed on when Print returns: nothing, or the job.
Passed == {0} \cup (IF present \/ Spools THEN {1} ELSE {})

\* Mutant of DriverPrint: the error of the driver is ignored.
PrintErrorIgnored ==
  /\ Acting /\ wpc = "print"
  /\ \E taken \in Passed :
       /\ wpc' = "completed"
       /\ handed' = [handed EXCEPT ![cur][crashes] = @ + taken]
  /\ UNCHANGED <<serverVars, linkVars, process, crashes, buffer, hands, waiting, cur, seen,
                 printerVars, extra, gone>>

\* driver.Print: the job is taken and no error returned, or an error, before the job was
\* taken or after it.  NIIMBOT returns nil when the label is out; CUPS when lp has
\* spooled the job, which may never become a label.
DriverPrint ==
  /\ Acting /\ wpc = "print"
  /\ \E taken \in Passed, err \in BOOLEAN :
       /\ taken = 0 => err
       /\ wpc' = IF err THEN "failed" ELSE "completed"
       /\ handed' = [handed EXCEPT ![cur][crashes] = @ + taken]
  /\ UNCHANGED <<serverVars, linkVars, process, crashes, buffer, hands, waiting, cur, seen,
                 printerVars, extra, gone>>

\* Mutant of Record: a job is not remembered.
RecordNothing ==
  /\ Acting /\ wpc = "record"
  /\ cur' = Nobody
  /\ wpc' = "select"
  /\ UNCHANGED <<serverVars, linkVars, process, crashes, buffer, hands, waiting, seen, printerVars,
                 histVars, gone>>

\* dedup.record, on both paths.
Record ==
  /\ Acting /\ wpc = "record"
  /\ seen' = seen \cup {cur}
  /\ cur' = Nobody
  /\ wpc' = "select"
  /\ UNCHANGED <<serverVars, linkVars, process, crashes, buffer, hands, waiting, printerVars,
                 histVars, gone>>

-----------------------------------------------------------------------------
(* The printer and watchPrinters *)

Plug ==
  /\ changes < MaxChanges
  /\ changes' = changes + 1
  /\ present' = ~ present
  /\ UNCHANGED <<serverVars, linkVars, process, crashes, buffer, hands, queueVars, ready,
                 announced, turned, last, histVars, gone>>

\* The printer runs out of labels, its cover is opened or closed, a print or a lost
\* connection to it changes what the driver reports: none of this sends anything.
StatusTurns ==
  /\ changes < MaxChanges
  /\ changes' = changes + 1
  /\ ready' = ~ ready
  /\ turned' = TRUE
  /\ UNCHANGED <<serverVars, linkVars, process, crashes, buffer, hands, queueVars, present,
                 announced, last, histVars, gone>>

\* Mutant of Available: the status is left out.
PresentOnly == present

\* What enrichFromDriver and sendPrinterUpdate make of an event: the printer is there and
\* Status.Printable of the driver's status.
Available == present /\ ready

\* sendPrinterUpdate.  It is sent once: a new connection does not repeat it.
SendUpdate ==
  /\ last' = Update(Available, last.n + 1)
  /\ turned' = FALSE
  /\ Send(last')

\* Discovery sees the printer come or go and the bridge sends a printer_update.
WatchPrinters ==
  /\ Acting
  /\ announced # present
  /\ announced' = present
  /\ SendUpdate
  /\ UNCHANGED <<serverVars, linkVars, process, crashes, hands, queueVars, present, ready,
                 changes, histVars>>

\* A poll that finds another status sends an event, and the bridge an update.  NIIMBOT
\* polls now and then; for a Brother printer there are no such events.
StatusEvent ==
  /\ Acting
  /\ announced /\ present /\ turned
  /\ SendUpdate
  /\ UNCHANGED <<serverVars, linkVars, process, crashes, hands, queueVars, present, ready,
                 announced, changes, histVars>>

-----------------------------------------------------------------------------
(* The end of the process and its restart *)

\* What dies with the process: its memory.
Die ==
  /\ process' = "dead"
  /\ crashes' = crashes + 1
  /\ link' = "down" /\ toBridge' = <<>> /\ stale' = 0
  /\ gone' = {m \in Lost(ToSet(buffer)) : m.about = Nobody}
  /\ buffer' = <<>> /\ hands' = {} /\ waiting' = <<>>
  /\ wpc' = "select" /\ cur' = Nobody /\ seen' = {}
  /\ announced' = FALSE
  /\ UNCHANGED <<serverVars, conns, present, ready, changes, turned, last, histVars>>

\* A crash, a kill or a power cut, at any moment.
Crash == process = "running" /\ crashes < MaxCrashes /\ conns < MaxConns /\ Die

\* Close has returned (the worker has left its job; it may have taken more of them
\* before it saw done) and main exits.
Exit == process = "closing" /\ wpc = "select" /\ conns < MaxConns /\ Die

\* KeepAlive.
Restart ==
  /\ process = "dead"
  /\ process' = "running"
  /\ UNCHANGED <<serverVars, linkVars, crashes, buffer, hands, queueVars, printerVars, histVars, gone>>

-----------------------------------------------------------------------------
ReadLoops == Deliver \/ \E h \in hands : Submit(h) \/ Accept(h)
Worker    == Take \/ Report \/ DriverPrint \/ Record
Printer   == Plug \/ StatusTurns \/ StatusEvent \/ WatchPrinters
Losses    == ConnDies \/ WriteInVain \/ WriteTimesOut \/ Crash

Next ==
  \/ Connect \/ Write \/ NoticeLoss \/ StaleStops
  \/ ReadLoops \/ Worker \/ Printer
  \/ Losses
  \/ Exit \/ Restart

Spec == Init /\ [][Next]_vars

(* Goroutines that can run do run, the last connection stays up, launchd restarts the *)
(* process, and driver.Print returns.  A write loop is not starved by the loops of    *)
(* lost connections: those stop.                                                      *)
Fairness ==
  /\ WF_vars(Connect) /\ WF_vars(Write)
  /\ WF_vars(NoticeLoss \/ WriteTimesOut) /\ WF_vars(StaleStops)
  /\ WF_vars(Deliver) /\ WF_vars(\E h \in hands : Submit(h) \/ Accept(h))
  /\ WF_vars(Worker) /\ WF_vars(WatchPrinters)
  /\ WF_vars(Exit) /\ WF_vars(Restart)

FairSpec == Spec /\ Fairness

-----------------------------------------------------------------------------
(* Properties *)

JobStates == {"created", "queued", "sent", "printing"} \cup Terminal
Messages  == [about : JobIds, says : JobStates \cup {"ack"}, n : {0}, life : Lives]
               \cup [about : {Nobody}, says : {"available", "unavailable"}, n : Nat, life : Lives]

\* The type invariant: among it, the outbound buffer keeps its limit.
TypeOK ==
  /\ known \in [JobIds -> JobStates] /\ view \in BOOLEAN
  /\ link \in {"up", "dead", "down"} /\ conns \in 0 .. MaxConns /\ stale \in 0 .. MaxConns
  /\ toBridge \in Seq(JobIds)
  /\ process \in {"running", "closing", "dead"} /\ crashes \in Lives
  /\ buffer \in Seq(Messages) /\ Len(buffer) <= BufferCap
  /\ hands \subseteq [conn : 1 .. MaxConns, job : JobIds, at : {"check", "send"}]
  /\ waiting \in Seq(JobIds) /\ cur \in JobIds \cup {Nobody} /\ seen \subseteq JobIds
  /\ wpc \in {"select", "print", "record"} \cup JobStates
  /\ present \in BOOLEAN /\ announced \in BOOLEAN /\ ready \in BOOLEAN /\ turned \in BOOLEAN
  /\ changes \in 0 .. MaxChanges
  /\ last \in Messages /\ gone \subseteq Messages

\* A job the server holds as completed was taken: by the printer, for a driver that waits
\* for the label, or by lp, whose spool may still fail to print it; whatever connection or
\* process life reported it.  A report of one job never stands for another, nor a failed
\* print for a successful one.
CompletedWasTaken ==
  \A j \in JobIds : known[j] = "completed" => \E l \in Lives : handed[j][l] > 0

\* A job is handed to the printer or to lp at most once in the life of a process, plus
\* once for each delivery that got past Submit before the terminal record of the one
\* before it.  However often connections are lost and jobs delivered again, nothing else
\* prints a label twice.
ReprintExplained ==
  \A j \in JobIds, l \in Lives : handed[j][l] <= 1 + extra[j][l]

\* The server takes the printer for available exactly when it is there and printable,
\* except while discovery or the last update is on its way; when that update was lost
\* with a connection, with the process or to a full buffer; when a process died and its
\* successor has not seen the printer; or when the status has changed since the update
\* was made: the bridge neither repeats an update nor sends every change.
ViewExplained ==
  \/ view = (present /\ ready)
  \/ announced # present \/ process = "dead"
  \/ last \in ToSet(buffer) \cup gone
  \/ last.life # crashes
  \/ present /\ turned

\* A job the server holds as finished becomes unfinished again only by a second printing,
\* in a later process life or because of an overtaking delivery.
FinishedStaysFinished ==
  [][\A j \in JobIds :
       known[j] \in Terminal /\ known'[j] \notin Terminal =>
         crashes > 0 \/ \E l \in Lives : extra[j][l] > 0]_vars

Suppressed(j) == j \in seen /\ \E s \in Terminal : Job(j, s) \in gone

\* Every job is answered: in the end the server holds a terminal status of it, or that
\* status was lost and the process still remembers the job, so that every further
\* delivery is swallowed as a duplicate (until a restart or the end of the retention).
JobsAnswered == <>[](\A j \in JobIds : known[j] \in Terminal \/ Suppressed(j))
=============================================================================
