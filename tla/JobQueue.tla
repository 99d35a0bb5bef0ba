------------------------------ MODULE JobQueue ------------------------------
(***************************************************************************)
(* The print queue: internal/queue (queue.go, worker.go, dedup.go) with    *)
(* the job life cycle of internal/job.                                     *)
(*                                                                         *)
(* Submitters are the goroutines that call Queue.Submit: the read loops of *)
(* the server connection.  Two of them can run at once, because            *)
(* transport.connectAndServe does not wait for the read loop of a dead     *)
(* connection, which may still be blocked in Submit.  A worker is named by *)
(* its printer and the submitter that started it, so that two workers for  *)
(* one printer are representable (and shown not to happen).                *)
(***************************************************************************)
EXTENDS Integers, Sequences, FiniteSets

CONSTANTS
  Printers,    \* printer IDs the server addresses
  JobIds,      \* job IDs, the idempotency keys
  Jobs,        \* the deliveries the server may make
  Submitters,  \* goroutines that call Submit
  Closer,      \* the goroutine that calls Close
  NoOne,       \* "no submitter": the free mutex, the absent map entry
  ChanCap,     \* capacity of worker.jobs (64 in the code)
  Retention,   \* dedup retention, in clock ticks (7 days in the code)
  MaxSubmits,  \* bound: calls of Submit in a behaviour
  MaxTime      \* bound: clock ticks in a behaviour

ASSUME QueueAssumption ==
  /\ Jobs \subseteq [id : JobIds, printer : Printers, copies : Nat, wellFormed : BOOLEAN]
  /\ Jobs # {}
  /\ NoOne \notin Submitters /\ Closer \notin Submitters /\ NoOne # Closer
  /\ NoOne \notin Jobs
  /\ ChanCap \in Nat \ {0}
  /\ Retention \in Nat \ {0}
  /\ MaxSubmits \in Nat
  /\ MaxTime \in Nat

VARIABLES
  pc,        \* where each submitter stands in Submit
  sub,       \* the job each submitter is submitting
  target,    \* the worker (its creator) that the submitter looked up
  result,    \* last SubmitResult each submitter got
  submits,   \* number of Submit calls so far
  mu,        \* holder of Queue.mu
  closed,    \* Queue.closed
  workers,   \* Queue.workers: printer -> creator of its worker
  closer,    \* where the caller of Close stands
  jobs,      \* worker.jobs, the buffered channel
  done,      \* worker.done is closed
  wpc,       \* where each worker goroutine stands
  cur,       \* the job each worker processes
  tracker,   \* job.Tracker.current of that job
  left,      \* copies not yet handed to the driver
  printErr,  \* the driver returned an error
  seen,      \* dedupStore.seen: printer -> job ID -> processedAt
  now,       \* the clock
  handledAt, \* history: time of the last terminal report per printer and ID
  accepted,  \* history: Submit calls answered Accepted, per printer
  finished   \* history: jobs processed to their end, per printer

subVars    == <<pc, sub, target, result, submits>>
lockVars   == <<mu, closed, workers, closer>>
workerVars == <<wpc, cur, tracker, left, printErr>>
histVars   == <<handledAt, accepted, finished>>
vars == <<subVars, lockVars, jobs, done, workerVars, seen, now, histVars>>

Workers == Printers \X Submitters
Never   == -1           \* "not in the map"

-----------------------------------------------------------------------------
(* The job life cycle: job/job.go, job/state.go *)

States == {"created", "queued", "sent", "printing", "completed", "failed", "cancelled"}

allowed ==
  [s \in States |->
     CASE s = "created"  -> {"queued", "cancelled", "failed"}
       [] s = "queued"   -> {"sent", "cancelled", "failed"}
       [] s = "sent"     -> {"printing", "failed", "cancelled"}
       [] s = "printing" -> {"completed", "failed"}
       [] OTHER          -> {}]

CanTransition(from, to) == to \in allowed[from]

\* The reason that To demands for "failed" is always there: classify never
\* returns the empty string.
Terminal(s) == s \in {"completed", "failed", "cancelled"}

\* Everything but the number of copies is one flag: each missing or malformed
\* field has the same effect.
Validate(j) == j.wellFormed /\ j.copies >= 1

-----------------------------------------------------------------------------
(* dedupStore: each method is one critical section of its own mutex *)

\* Mutant of Pruned: an entry exactly as old as the retention period goes too.
PrunedAtCutoff(s) ==
  [p \in Printers |-> [i \in JobIds |->
     IF s[p][i] <= now - Retention THEN Never ELSE s[p][i]]]

\* pruneLocked: an entry goes when it is strictly before the cutoff.  The empty
\* inner maps that the code also deletes are not distinguishable here.
Pruned(s) ==
  [p \in Printers |-> [i \in JobIds |->
     IF s[p][i] < now - Retention THEN Never ELSE s[p][i]]]

-----------------------------------------------------------------------------
Init ==
  /\ pc = [r \in Submitters |-> "idle"]
  /\ sub \in [Submitters -> {CHOOSE j \in Jobs : TRUE}]
  /\ target = [r \in Submitters |-> NoOne]
  /\ result = [r \in Submitters |-> "none"]
  /\ submits = 0
  /\ mu = NoOne
  /\ closed = FALSE
  /\ workers = [p \in Printers |-> NoOne]
  /\ closer = "open"
  /\ jobs = [w \in Workers |-> <<>>]
  /\ done = [w \in Workers |-> FALSE]
  /\ wpc = [w \in Workers |-> "none"]
  /\ cur \in [Workers -> {CHOOSE j \in Jobs : TRUE}]
  /\ tracker = [w \in Workers |-> "created"]
  /\ left = [w \in Workers |-> 0]
  /\ printErr = [w \in Workers |-> FALSE]
  /\ seen = [p \in Printers |-> [i \in JobIds |-> Never]]
  /\ now = 0
  /\ handledAt = [p \in Printers |-> [i \in JobIds |-> Never]]
  /\ accepted = [p \in Printers |-> 0]
  /\ finished = [p \in Printers |-> 0]

-----------------------------------------------------------------------------
(* Submit, one step per access to shared state *)

Return(r, res) ==
  /\ pc' = [pc EXCEPT ![r] = "idle"]
  /\ result' = [result EXCEPT ![r] = res]

\* The call and Validate.
Submit(r, j) ==
  /\ pc[r] = "idle"
  /\ submits < MaxSubmits
  /\ submits' = submits + 1
  /\ IF Validate(j)
     THEN /\ pc' = [pc EXCEPT ![r] = "check"]
          /\ sub' = [sub EXCEPT ![r] = j]
          /\ UNCHANGED result
     ELSE /\ Return(r, "Rejected")
          /\ UNCHANGED sub
  /\ UNCHANGED <<target, lockVars, jobs, done, workerVars, seen, now, histVars>>

\* dedup.seenRecently, which prunes first.
SeenRecently(r) ==
  /\ pc[r] = "check"
  /\ seen' = Pruned(seen)
  /\ IF seen'[sub[r].printer][sub[r].id] # Never
     THEN Return(r, "Duplicate")
     ELSE /\ pc' = [pc EXCEPT ![r] = "lock"]
          /\ UNCHANGED result
  /\ UNCHANGED <<sub, target, submits, lockVars, jobs, done, workerVars, now, histVars>>

\* Mutant of Lock: Submit looks the worker up without taking Queue.mu.
LockNotTaken(r) ==
  /\ pc[r] = "lock"
  /\ mu' = r
  /\ pc' = [pc EXCEPT ![r] = "lookup"]
  /\ UNCHANGED <<sub, target, result, submits, closed, workers, closer,
                 jobs, done, workerVars, seen, now, histVars>>

Lock(r) ==
  /\ pc[r] = "lock"
  /\ mu = NoOne
  /\ mu' = r
  /\ pc' = [pc EXCEPT ![r] = "lookup"]
  /\ UNCHANGED <<sub, target, result, submits, closed, workers, closer,
                 jobs, done, workerVars, seen, now, histVars>>

\* Mutant of Lookup: the closed flag is not looked at.
LookupIgnoresClosed(r) ==
  /\ pc[r] = "lookup"
  /\ target' = [target EXCEPT ![r] = workers[sub[r].printer]]
  /\ pc' = [pc EXCEPT ![r] = IF target'[r] = NoOne THEN "create" ELSE "unlock"]
  /\ UNCHANGED <<mu, result, sub, submits, closed, workers, closer, jobs, done, workerVars,
                 seen, now, histVars>>

\* Mutant of Lookup: the early return of a closed queue forgets to unlock.
LookupKeepsLock(r) ==
  /\ pc[r] = "lookup"
  /\ IF closed
     THEN /\ Return(r, "Rejected")
          /\ UNCHANGED target
     ELSE /\ target' = [target EXCEPT ![r] = workers[sub[r].printer]]
          /\ pc' = [pc EXCEPT ![r] = IF target'[r] = NoOne THEN "create" ELSE "unlock"]
          /\ UNCHANGED result
  /\ UNCHANGED <<mu, sub, submits, closed, workers, closer, jobs, done, workerVars,
                 seen, now, histVars>>

\* q.closed, then q.workers[j.PrinterID].
Lookup(r) ==
  /\ pc[r] = "lookup"
  /\ IF closed
     THEN /\ Return(r, "Rejected")
          /\ mu' = NoOne
          /\ UNCHANGED target
     ELSE /\ target' = [target EXCEPT ![r] = workers[sub[r].printer]]
          /\ pc' = [pc EXCEPT ![r] = IF target'[r] = NoOne THEN "create" ELSE "unlock"]
          /\ UNCHANGED <<mu, result>>
  /\ UNCHANGED <<sub, submits, closed, workers, closer, jobs, done, workerVars,
                 seen, now, histVars>>

\* newWorker, and its entry in the map.
NewWorker(r) ==
  /\ pc[r] = "create"
  /\ wpc' = [wpc EXCEPT ![<<sub[r].printer, r>>] = "select"]
  /\ workers' = [workers EXCEPT ![sub[r].printer] = r]
  /\ target' = [target EXCEPT ![r] = r]
  /\ pc' = [pc EXCEPT ![r] = "unlock"]
  /\ UNCHANGED <<sub, result, submits, mu, closed, closer, jobs, done,
                 cur, tracker, left, printErr, seen, now, histVars>>

Unlock(r) ==
  /\ pc[r] = "unlock"
  /\ mu' = NoOne
  /\ pc' = [pc EXCEPT ![r] = "send"]
  /\ UNCHANGED <<sub, target, result, submits, closed, workers, closer, jobs, done,
                 workerVars, seen, now, histVars>>

\* Mutant of SendJob: a full channel drops the job instead of blocking.
SendJobOrDrop(r) ==
  LET w == <<sub[r].printer, target[r]>> IN
  /\ pc[r] = "send"
  /\ jobs' = IF Len(jobs[w]) < ChanCap THEN [jobs EXCEPT ![w] = Append(@, sub[r])] ELSE jobs
  /\ accepted' = [accepted EXCEPT ![sub[r].printer] = @ + 1]
  /\ Return(r, "Accepted")
  /\ UNCHANGED <<sub, target, submits, lockVars, done, workerVars, seen, now,
                 handledAt, finished>>

\* worker.submit: select between the two channels.  Submit answers Accepted
\* whichever of them was ready.
SendJob(r) ==
  LET w == <<sub[r].printer, target[r]>> IN
  /\ pc[r] = "send"
  /\ Len(jobs[w]) < ChanCap
  /\ jobs' = [jobs EXCEPT ![w] = Append(@, sub[r])]
  /\ accepted' = [accepted EXCEPT ![sub[r].printer] = @ + 1]
  /\ Return(r, "Accepted")
  /\ UNCHANGED <<sub, target, submits, lockVars, done, workerVars, seen, now,
                 handledAt, finished>>

SendDone(r) ==
  /\ pc[r] = "send"
  /\ done[<<sub[r].printer, target[r]>>]
  /\ accepted' = [accepted EXCEPT ![sub[r].printer] = @ + 1]
  /\ Return(r, "Accepted")
  /\ UNCHANGED <<sub, target, submits, lockVars, jobs, done, workerVars, seen, now,
                 handledAt, finished>>

-----------------------------------------------------------------------------
(* The worker goroutine: worker.run and worker.process *)

\* run's select, the done case.  With jobs waiting the choice is random.
Exit(w) ==
  /\ wpc[w] = "select"
  /\ done[w]
  /\ wpc' = [wpc EXCEPT ![w] = "exited"]
  /\ UNCHANGED <<subVars, lockVars, jobs, done, cur, tracker, left, printErr, seen, now, histVars>>

\* Mutant of Take: the newest job is served first.
TakeNewest(w) ==
  LET j == jobs[w][Len(jobs[w])] IN
  /\ wpc[w] = "select"
  /\ jobs[w] # <<>>
  /\ cur' = [cur EXCEPT ![w] = j]
  /\ jobs' = [jobs EXCEPT ![w] = SubSeq(@, 1, Len(@) - 1)]
  /\ tracker' = [tracker EXCEPT ![w] = "created"]
  /\ left' = [left EXCEPT ![w] = j.copies]
  /\ printErr' = [printErr EXCEPT ![w] = FALSE]
  /\ wpc' = [wpc EXCEPT ![w] = "queued"]
  /\ UNCHANGED <<subVars, lockVars, done, seen, now, histVars>>

\* run's select, the jobs case, and the start of process.
Take(w) ==
  /\ wpc[w] = "select"
  /\ jobs[w] # <<>>
  /\ cur' = [cur EXCEPT ![w] = Head(jobs[w])]
  /\ jobs' = [jobs EXCEPT ![w] = Tail(@)]
  /\ tracker' = [tracker EXCEPT ![w] = "created"]
  /\ left' = [left EXCEPT ![w] = Head(jobs[w]).copies]
  /\ printErr' = [printErr EXCEPT ![w] = FALSE]
  /\ wpc' = [wpc EXCEPT ![w] = "queued"]
  /\ UNCHANGED <<subVars, lockVars, done, seen, now, histVars>>

\* process's emit: the tracker moves and the sink is told, or nothing happens.
Emit(w, to) ==
  IF CanTransition(tracker[w], to)
  THEN /\ tracker' = [tracker EXCEPT ![w] = to]
       /\ handledAt' = IF Terminal(to)
                       THEN [handledAt EXCEPT ![cur[w].printer][cur[w].id] = now]
                       ELSE handledAt
  ELSE UNCHANGED <<tracker, handledAt>>

\* The three emits before printing; an illegal transition ends process.  Here
\* wpc names the state about to be reported.
NextEmit(s) == CASE s = "queued" -> "sent" [] s = "sent" -> "printing" [] OTHER -> "copies"

Progress(w) ==
  /\ wpc[w] \in {"queued", "sent", "printing"}
  /\ Emit(w, wpc[w])
  /\ IF CanTransition(tracker[w], wpc[w])
     THEN /\ wpc' = [wpc EXCEPT ![w] = NextEmit(wpc[w])]
          /\ UNCHANGED finished
     ELSE /\ wpc' = [wpc EXCEPT ![w] = "select"]
          /\ finished' = [finished EXCEPT ![cur[w].printer] = @ + 1]
  /\ UNCHANGED <<subVars, lockVars, jobs, done, cur, left, printErr, seen, now, accepted>>

\* Mutant of PrintCopies: the loop runs once too often.
PrintOneMore(w) ==
  /\ wpc[w] = "copies"
  /\ \E failed \in BOOLEAN :
       /\ printErr' = [printErr EXCEPT ![w] = failed]
       /\ left' = IF failed THEN left ELSE [left EXCEPT ![w] = @ - 1]
       /\ wpc' = [wpc EXCEPT ![w] = IF failed \/ left[w] = 0 THEN "finish" ELSE "copies"]
  /\ UNCHANGED <<subVars, lockVars, jobs, done, cur, tracker, seen, now, histVars>>

\* One pass of the copies loop: driver.Print either prints or returns an error.
PrintCopies(w) ==
  /\ wpc[w] = "copies"
  /\ left[w] > 0
  /\ \E failed \in BOOLEAN :
       /\ printErr' = [printErr EXCEPT ![w] = failed]
       /\ left' = IF failed THEN left ELSE [left EXCEPT ![w] = @ - 1]
       /\ wpc' = [wpc EXCEPT ![w] = IF failed \/ left[w] = 1 THEN "finish" ELSE "copies"]
  /\ UNCHANGED <<subVars, lockVars, jobs, done, cur, tracker, seen, now, histVars>>

Finish(w) ==
  /\ wpc[w] = "finish"
  /\ Emit(w, IF printErr[w] THEN "failed" ELSE "completed")
  /\ wpc' = [wpc EXCEPT ![w] = "record"]
  /\ UNCHANGED <<subVars, lockVars, jobs, done, cur, left, printErr, seen, now, accepted, finished>>

\* Mutant of Record: a failed job is not recorded.
RecordSuccessOnly(w) ==
  /\ wpc[w] = "record"
  /\ seen' = IF printErr[w] THEN seen ELSE [seen EXCEPT ![cur[w].printer][cur[w].id] = now]
  /\ finished' = [finished EXCEPT ![cur[w].printer] = @ + 1]
  /\ wpc' = [wpc EXCEPT ![w] = "select"]
  /\ UNCHANGED <<subVars, lockVars, jobs, done, cur, tracker, left, printErr, now,
                 handledAt, accepted>>

\* Mutant of Record: the worker returns after its first job.
RecordAndReturn(w) ==
  /\ wpc[w] = "record"
  /\ seen' = [seen EXCEPT ![cur[w].printer][cur[w].id] = now]
  /\ finished' = [finished EXCEPT ![cur[w].printer] = @ + 1]
  /\ wpc' = [wpc EXCEPT ![w] = "exited"]
  /\ UNCHANGED <<subVars, lockVars, jobs, done, cur, tracker, left, printErr, now,
                 handledAt, accepted>>

\* dedup.record, on both paths, and back to the select.
Record(w) ==
  /\ wpc[w] = "record"
  /\ seen' = [seen EXCEPT ![cur[w].printer][cur[w].id] = now]
  /\ finished' = [finished EXCEPT ![cur[w].printer] = @ + 1]
  /\ wpc' = [wpc EXCEPT ![w] = "select"]
  /\ UNCHANGED <<subVars, lockVars, jobs, done, cur, tracker, left, printErr, now,
                 handledAt, accepted>>

-----------------------------------------------------------------------------
(* Close, called once, when Bridge.Run returns *)

Close ==
  /\ closer = "open"
  /\ closer' = "lock"
  /\ UNCHANGED <<subVars, mu, closed, workers, jobs, done, workerVars, seen, now, histVars>>

CloseLock ==
  /\ closer = "lock"
  /\ mu = NoOne
  /\ mu' = Closer
  /\ closed' = TRUE
  /\ closer' = "stopping"
  /\ UNCHANGED <<subVars, workers, jobs, done, workerVars, seen, now, histVars>>

\* w.stop for one entry of the map.
Stop(p) ==
  /\ closer = "stopping"
  /\ workers[p] # NoOne
  /\ ~ done[<<p, workers[p]>>]
  /\ done' = [done EXCEPT ![<<p, workers[p]>>] = TRUE]
  /\ UNCHANGED <<subVars, lockVars, jobs, workerVars, seen, now, histVars>>

CloseUnlock ==
  /\ closer = "stopping"
  /\ \A p \in Printers : workers[p] # NoOne => done[<<p, workers[p]>>]
  /\ mu' = NoOne
  /\ closer' = "waiting"
  /\ UNCHANGED <<subVars, closed, workers, jobs, done, workerVars, seen, now, histVars>>

\* q.wg.Wait returns when every goroutine that was started has returned.
CloseReturn ==
  /\ closer = "waiting"
  /\ \A w \in Workers : wpc[w] \in {"none", "exited"}
  /\ closer' = "returned"
  /\ UNCHANGED <<subVars, mu, closed, workers, jobs, done, workerVars, seen, now, histVars>>

Tick ==
  /\ now < MaxTime
  /\ now' = now + 1
  /\ UNCHANGED <<subVars, lockVars, jobs, done, workerVars, seen, histVars>>

-----------------------------------------------------------------------------
SubmitStep(r) ==
  \/ SeenRecently(r) \/ Lock(r) \/ Lookup(r) \/ NewWorker(r) \/ Unlock(r)
  \/ SendJob(r) \/ SendDone(r)

WorkerStep(w) ==
  Exit(w) \/ Take(w) \/ Progress(w) \/ PrintCopies(w) \/ Finish(w) \/ Record(w)

CloseStep == CloseLock \/ (\E p \in Printers : Stop(p)) \/ CloseUnlock \/ CloseReturn

Next ==
  \/ \E r \in Submitters : \/ \E j \in Jobs : Submit(r, j)
                           \/ SubmitStep(r)
  \/ \E w \in Workers : WorkerStep(w)
  \/ Close
  \/ CloseStep
  \/ Tick

Spec == Init /\ [][Next]_vars

(* Every goroutine that can run does run.  sync.Mutex hands itself to a waiter   *)
(* that starves, and a channel serves its blocked senders in order: hence strong *)
(* fairness of the lock and of the send.  That driver.Print returns is assumed   *)
(* (part of WorkerStep); that Submit or Close is ever called is not.             *)
Fairness ==
  /\ \A r \in Submitters : /\ WF_vars(SubmitStep(r))
                           /\ SF_vars(Lock(r))
                           /\ SF_vars(SendJob(r) \/ SendDone(r))
  /\ \A w \in Workers : WF_vars(WorkerStep(w))
  /\ WF_vars(CloseStep)
  /\ SF_vars(CloseLock)

FairSpec == Spec /\ Fairness

-----------------------------------------------------------------------------
(* Properties *)

SubmitPcs == {"idle", "check", "lock", "lookup", "create", "unlock", "send"}
WorkerPcs == {"none", "select", "queued", "sent", "printing", "copies", "finish", "record", "exited"}
Times     == Nat \cup {Never}

\* The type invariant: each process is at a program point of its code, each printer has at
\* most one map entry, the clock and the submissions stay within their bounds.
TypeOK ==
  /\ pc \in [Submitters -> SubmitPcs]
  /\ sub \in [Submitters -> Jobs]
  /\ target \in [Submitters -> Submitters \cup {NoOne}]
  /\ result \in [Submitters -> {"none", "Accepted", "Duplicate", "Rejected"}]
  /\ submits \in 0 .. MaxSubmits
  /\ mu \in Submitters \cup {NoOne, Closer}
  /\ closed \in BOOLEAN
  /\ workers \in [Printers -> Submitters \cup {NoOne}]
  /\ closer \in {"open", "lock", "stopping", "waiting", "returned"}
  /\ jobs \in [Workers -> Seq(Jobs)]
  /\ done \in [Workers -> BOOLEAN]
  /\ wpc \in [Workers -> WorkerPcs]
  /\ cur \in [Workers -> Jobs]
  /\ tracker \in [Workers -> States]
  /\ left \in [Workers -> Nat]
  /\ printErr \in [Workers -> BOOLEAN]
  /\ seen \in [Printers -> [JobIds -> Times]]
  /\ now \in 0 .. MaxTime
  /\ handledAt \in [Printers -> [JobIds -> Times]]
  /\ accepted \in [Printers -> Nat]
  /\ finished \in [Printers -> Nat]

Busy(w)  == wpc[w] \in {"queued", "sent", "printing", "copies", "finish", "record"}
Alive(w) == Busy(w) \/ wpc[w] = "select"

\* "Print jobs sequentially per printer": however Submit calls of several read
\* loops interleave, newWorker runs at most once for a printer, so no two
\* goroutines ever feed it.
SequentialPerPrinter ==
  \A v, w \in Workers : v[1] = w[1] /\ wpc[v] # "none" /\ wpc[w] # "none" => v = w

\* Once Close has returned (bridge shut down) no worker is left that could
\* still drive a printer or report a status.
QuietAfterClose == closer = "returned" => \A w \in Workers : ~ Alive(w)

Handled(p, i) == handledAt[p][i] # Never /\ now - handledAt[p][i] <= Retention

Recording(p, i) ==
  \E w \in Workers : wpc[w] = "record" /\ cur[w].printer = p /\ cur[w].id = i

\* A job whose terminal state was reported stays suppressed for the whole
\* retention period, whoever prunes in between, except for the moment in which
\* its worker has reported but not yet recorded it.
TerminalRemembered ==
  \A p \in Printers, i \in JobIds :
    Handled(p, i) => seen[p][i] >= handledAt[p][i] \/ Recording(p, i)

\* Submit never lets through a delivery of a job that was handled, and recorded,
\* within the retention period: "a redelivered job is not printed twice".
HandledNotAccepted ==
  [][\A r \in Submitters :
       pc[r] = "check" /\ pc'[r] = "lock" =>
         LET p == sub[r].printer
             i == sub[r].id
         IN  Handled(p, i) => Recording(p, i)]_vars

Waiting(p) == IF workers[p] = NoOne THEN 0 ELSE Len(jobs[<<p, workers[p]>>])
InHand(p)  == IF \E w \in Workers : w[1] = p /\ Busy(w) THEN 1 ELSE 0

\* While the queue is open nothing that Submit accepted is lost: it is on its
\* printer's channel, being processed, or finished.
NothingLost ==
  ~ closed => \A p \in Printers : accepted[p] = finished[p] + Waiting(p) + InHand(p)

\* Nobody waits for ever: a read loop blocked in Submit on a full channel is released
\* by the worker or by Close, and Close returns whatever workers and submitters do.
CallsReturn ==
  /\ \A r \in Submitters : pc[r] # "idle" ~> pc[r] = "idle"
  /\ closer # "open" ~> closer = "returned"

-----------------------------------------------------------------------------
(* Refinement: the queue implements the spool *)

WorkerOf(p) == <<p, workers[p]>>
Serving(p)  == workers[p] # NoOne /\ Busy(WorkerOf(p))

spoolLine   == [p \in Printers |-> IF workers[p] = NoOne THEN <<>> ELSE jobs[WorkerOf(p)]]
spoolActive == [p \in Printers |-> IF Serving(p) THEN cur[WorkerOf(p)] ELSE NoOne]
spoolStatus == [p \in Printers |-> IF Serving(p) THEN tracker[WorkerOf(p)] ELSE "created"]

Spool == INSTANCE PrintSpool WITH
  Idle   <- NoOne,
  line   <- spoolLine,
  active <- spoolActive,
  status <- spoolStatus,
  shut   <- (closer = "returned")

\* The queue serves each printer's jobs in the order in which they were accepted,
\* one at a time, through the whole life cycle, and not at all after Close.
ImplementsSpool == Spool!Spec

-----------------------------------------------------------------------------
(* What the documents say and the code does not do *)

\* job.go:45-46: "the bridge must not reprint a job whose ID it has already
\* terminally handled".  Refuted: the worker does not ask the dedup store, so a
\* second delivery that was queued before the first one ended is printed.
NoReprintOfHandled ==
  \A w \in Workers : wpc[w] = "copies" => ~ Handled(cur[w].printer, cur[w].id)

\* queue.go:110: Close "waits for in-flight workers to drain", bridge.go:150
\* "It drains the queue on shutdown".  Refuted: a worker may leave its select by
\* the done case with jobs on its channel.
DrainedOnClose == closer = "returned" => \A w \in Workers : jobs[w] = <<>>
=============================================================================
