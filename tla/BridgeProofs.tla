---------------------------- MODULE BridgeProofs ----------------------------
(***************************************************************************)
(* Proofs about JobQueue and Bridge for any printers, jobs, submitters,    *)
(* workers, read loops, capacities and retention: first the queue by       *)
(* itself, then the bridge, which only adds to the steps of the queue, so  *)
(* that whatever holds of the queue holds inside the bridge.               *)
(***************************************************************************)
EXTENDS Bridge, FiniteSetTheorems, SequenceTheorems, WellFoundedInduction, TLAPS

\* The initial value of the job-valued locals is a job.
LEMMA SomeJob == (CHOOSE j \in Jobs : TRUE) \in Jobs
  BY QueueAssumption

\* The head of a non-empty sequence of jobs is a job, the tail one of jobs.
LEMMA HeadTailType ==
  ASSUME NEW s \in Seq(Jobs), s # <<>>
  PROVE  Head(s) \in Jobs /\ Tail(s) \in Seq(Jobs)
  OBVIOUS

\* Setting one entry of a two-level map keeps its type.
LEMMA UpdateType ==
  ASSUME NEW A, NEW B, NEW C, NEW f \in [A -> [B -> C]], NEW a \in A, NEW b \in B, NEW c \in C
  PROVE  [f EXCEPT ![a][b] = c] \in [A -> [B -> C]]
  OBVIOUS

\* What the entries of the updated map are.
LEMMA UpdateValue ==
  ASSUME NEW A, NEW B, NEW C, NEW f \in [A -> [B -> C]], NEW a \in A, NEW b \in B, NEW c,
         NEW x \in A, NEW y \in B
  PROVE  [f EXCEPT ![a][b] = c][x][y] = IF x = a /\ y = b THEN c ELSE f[x][y]
  OBVIOUS

\* A legal or illegal emit leaves the tracker and the history well typed.
LEMMA EmitType ==
  ASSUME TypeOK, NEW w \in Workers, NEW to \in States, Emit(w, to)
  PROVE  /\ tracker' \in [Workers -> States]
         /\ handledAt' \in [Printers -> [JobIds -> Times]]
  <1>1. tracker' \in [Workers -> States]
    BY DEF Emit, TypeOK
  <1>2. now \in Times
    BY QueueAssumption DEF TypeOK, Times
  <1>3. cur[w].printer \in Printers /\ cur[w].id \in JobIds
    BY QueueAssumption DEF TypeOK
  <1>4. handledAt' \in [Printers -> [JobIds -> Times]]
    <2>1. [handledAt EXCEPT ![cur[w].printer][cur[w].id] = now] \in [Printers -> [JobIds -> Times]]
      BY <1>2, <1>3, UpdateType DEF TypeOK
    <2> QED BY <2>1 DEF Emit, TypeOK
  <1> QED BY <1>1, <1>4

\* The initial state has the types.
LEMMA TypeInit == Init => TypeOK
<1> SUFFICES ASSUME Init PROVE TypeOK
  OBVIOUS
<1>1. sub \in [Submitters -> Jobs] /\ cur \in [Workers -> Jobs]
  BY SomeJob DEF Init
<1>2. jobs \in [Workers -> Seq(Jobs)]
  BY DEF Init
<1>3. /\ seen \in [Printers -> [JobIds -> Times]]
      /\ handledAt \in [Printers -> [JobIds -> Times]]
  BY DEF Init, Times
<1>4. submits \in 0 .. MaxSubmits /\ now \in 0 .. MaxTime
  BY QueueAssumption DEF Init
<1> QED BY <1>1, <1>2, <1>3, <1>4 DEF Init, TypeOK, SubmitPcs, WorkerPcs, States

\* Every step keeps them.
LEMMA TypeStep == TypeOK /\ [Next]_vars => TypeOK'
<1> SUFFICES ASSUME TypeOK, [Next]_vars PROVE TypeOK'
  OBVIOUS
<1> USE DEF TypeOK
<1>1. ASSUME NEW r \in Submitters, NEW j \in Jobs, Submit(r, j) PROVE TypeOK'
  <2>1. submits' \in 0 .. MaxSubmits
    BY <1>1, QueueAssumption DEF Submit
  <2>2. /\ pc' \in [Submitters -> SubmitPcs] /\ sub' \in [Submitters -> Jobs]
        /\ result' \in [Submitters -> {"none", "Accepted", "Duplicate", "Rejected"}]
    <3>1. CASE Validate(j)
      BY <1>1, <3>1 DEF Submit, SubmitPcs
    <3>2. CASE ~ Validate(j)
      BY <1>1, <3>2 DEF Submit, Return, SubmitPcs
    <3> QED BY <3>1, <3>2
  <2> QED BY <1>1, <2>1, <2>2 DEF Submit, lockVars, workerVars, histVars
<1>2. ASSUME NEW r \in Submitters, SeenRecently(r) PROVE TypeOK'
  <2>1. seen' \in [Printers -> [JobIds -> Times]]
    BY <1>2 DEF SeenRecently, Pruned, Times, Never
  <2> QED BY <1>2, <2>1 DEF SeenRecently, Return, SubmitPcs, lockVars, workerVars, histVars
<1>3. ASSUME NEW r \in Submitters, Lock(r) PROVE TypeOK'
  BY <1>3 DEF Lock, SubmitPcs, workerVars, histVars
<1>4. ASSUME NEW r \in Submitters, Lookup(r) PROVE TypeOK'
  <2>1. sub[r].printer \in Printers
    BY QueueAssumption
  <2>2. CASE closed
    BY <1>4, <2>1, <2>2 DEF Lookup, Return, SubmitPcs, workerVars, histVars
  <2>3. CASE ~ closed
    <3>1. target' \in [Submitters -> Submitters \cup {NoOne}]
      <4>1. target' = [target EXCEPT ![r] = workers[sub[r].printer]]
        BY <1>4, <2>3, Zenon DEF Lookup
      <4> QED BY <2>1, <4>1
    <3>2. pc' \in [Submitters -> SubmitPcs]
      BY <1>4, <2>3 DEF Lookup, SubmitPcs
    <3> QED BY <1>4, <2>3, <3>1, <3>2 DEF Lookup, workerVars, histVars
  <2> QED BY <2>2, <2>3
<1>5. ASSUME NEW r \in Submitters, NewWorker(r) PROVE TypeOK'
  <2>1. sub[r].printer \in Printers
    BY QueueAssumption
  <2> QED BY <1>5, <2>1 DEF NewWorker, SubmitPcs, WorkerPcs, histVars
<1>6. ASSUME NEW r \in Submitters, Unlock(r) PROVE TypeOK'
  BY <1>6 DEF Unlock, SubmitPcs, workerVars, histVars
<1>7. ASSUME NEW r \in Submitters, SendJob(r) PROVE TypeOK'
  <2>1. sub[r].printer \in Printers
    BY QueueAssumption
  <2>2. jobs' \in [Workers -> Seq(Jobs)]
    <3> DEFINE w == <<sub[r].printer, target[r]>>
    <3>1. jobs' = [jobs EXCEPT ![w] = Append(@, sub[r])]
      BY <1>7 DEF SendJob
    <3>2. CASE w \in Workers
      <4>1. Append(jobs[w], sub[r]) \in Seq(Jobs)
        BY <3>2
      <4> QED BY <3>1, <4>1
    <3>3. CASE w \notin Workers
      BY <3>1, <3>3
    <3> QED BY <3>2, <3>3
  <2>3. /\ pc' \in [Submitters -> SubmitPcs] /\ accepted' \in [Printers -> Nat]
        /\ result' \in [Submitters -> {"none", "Accepted", "Duplicate", "Rejected"}]
    BY <1>7, <2>1 DEF SendJob, Return, SubmitPcs
  <2> QED BY <1>7, <2>2, <2>3 DEF SendJob, lockVars, workerVars
<1>8. ASSUME NEW r \in Submitters, SendDone(r) PROVE TypeOK'
  <2>1. sub[r].printer \in Printers
    BY QueueAssumption
  <2> QED BY <1>8, <2>1 DEF SendDone, Return, SubmitPcs, lockVars, workerVars
<1>9. ASSUME NEW w \in Workers, Exit(w) PROVE TypeOK'
  BY <1>9 DEF Exit, WorkerPcs, subVars, lockVars, histVars
<1>10. ASSUME NEW w \in Workers, Take(w) PROVE TypeOK'
  <2>1. Head(jobs[w]) \in Jobs /\ Tail(jobs[w]) \in Seq(Jobs)
    BY <1>10, HeadTailType DEF Take
  <2>2. Head(jobs[w]).copies \in Nat
    BY <2>1, QueueAssumption
  <2> QED BY <1>10, <2>1, <2>2 DEF Take, WorkerPcs, States, subVars, lockVars, histVars
<1>11. ASSUME NEW w \in Workers, Progress(w) PROVE TypeOK'
  <2>1. cur[w].printer \in Printers
    BY QueueAssumption
  <2>2. tracker' \in [Workers -> States] /\ handledAt' \in [Printers -> [JobIds -> Times]]
    BY <1>11, EmitType DEF Progress, States
  <2>3. wpc' \in [Workers -> WorkerPcs] /\ finished' \in [Printers -> Nat]
    <3>1. NextEmit(wpc[w]) \in WorkerPcs
      BY DEF NextEmit, WorkerPcs
    <3>2. CASE CanTransition(tracker[w], wpc[w])
      BY <1>11, <3>1, <3>2 DEF Progress
    <3>3. CASE ~ CanTransition(tracker[w], wpc[w])
      <4>1. /\ wpc' = [wpc EXCEPT ![w] = "select"]
            /\ finished' = [finished EXCEPT ![cur[w].printer] = @ + 1]
        BY <1>11, <3>3, Zenon DEF Progress
      <4> QED BY <2>1, <4>1 DEF WorkerPcs
    <3> QED BY <3>2, <3>3
  <2> QED BY <1>11, <2>2, <2>3 DEF Progress, subVars, lockVars
<1>12. ASSUME NEW w \in Workers, PrintCopies(w) PROVE TypeOK'
  BY <1>12 DEF PrintCopies, WorkerPcs, subVars, lockVars, histVars
<1>13. ASSUME NEW w \in Workers, Finish(w) PROVE TypeOK'
  <2>1. tracker' \in [Workers -> States] /\ handledAt' \in [Printers -> [JobIds -> Times]]
    BY <1>13, EmitType DEF Finish, States
  <2> QED BY <1>13, <2>1 DEF Finish, WorkerPcs, subVars, lockVars
<1>14. ASSUME NEW w \in Workers, Record(w) PROVE TypeOK'
  <2>1. cur[w].printer \in Printers /\ cur[w].id \in JobIds /\ now \in Times
    BY QueueAssumption DEF Times
  <2> QED BY <1>14, <2>1 DEF Record, WorkerPcs, subVars, lockVars
<1>15. ASSUME Close PROVE TypeOK'
  BY <1>15 DEF Close, subVars, workerVars, histVars
<1>16. ASSUME CloseLock PROVE TypeOK'
  BY <1>16 DEF CloseLock, subVars, workerVars, histVars
<1>17. ASSUME NEW p \in Printers, Stop(p) PROVE TypeOK'
  BY <1>17 DEF Stop, subVars, lockVars, workerVars, histVars
<1>18. ASSUME CloseUnlock PROVE TypeOK'
  BY <1>18 DEF CloseUnlock, subVars, workerVars, histVars
<1>19. ASSUME CloseReturn PROVE TypeOK'
  BY <1>19 DEF CloseReturn, subVars, workerVars, histVars
<1>20. ASSUME Tick PROVE TypeOK'
  BY <1>20, QueueAssumption DEF Tick, subVars, lockVars, workerVars, histVars
<1>21. CASE UNCHANGED vars
  BY <1>21 DEF vars, subVars, lockVars, workerVars, histVars
<1> QED BY <1>1, <1>2, <1>3, <1>4, <1>5, <1>6, <1>7, <1>8, <1>9, <1>10, <1>11, <1>12,
           <1>13, <1>14, <1>15, <1>16, <1>17, <1>18, <1>19, <1>20, <1>21
        DEF Next, SubmitStep, WorkerStep, CloseStep

\* Every variable keeps its type, for any value of the constants.
THEOREM TypeCorrect == Spec => []TypeOK
  BY TypeInit, TypeStep, PTL DEF Spec

-----------------------------------------------------------------------------
(* One worker per printer, and none after Close.  Neither is inductive: who      *)
(* holds the mutex, that a submitter about to create a worker still sees the     *)
(* empty entry and the open queue, and that every started worker is in the map   *)
(* have to be carried along.                                                     *)

LockDiscipline ==
  /\ \A r \in Submitters : mu = r <=> pc[r] \in {"lookup", "create", "unlock"}
  /\ mu = Closer <=> closer = "stopping"

CreatorSeesNone ==
  \A r \in Submitters : pc[r] = "create" => workers[sub[r].printer] = NoOne /\ ~ closed

StartedIsMapped ==
  \A p \in Printers, r \in Submitters : wpc[<<p, r>>] # "none" => workers[p] = r

ClosedByCloser == closed <=> closer \in {"stopping", "waiting", "returned"}

QueueInv == LockDiscipline /\ CreatorSeesNone /\ StartedIsMapped /\ ClosedByCloser /\ QuietAfterClose

\* The strengthened invariant implies that a printer has at most one worker.
LEMMA QueueInvSequential == QueueInv => SequentialPerPrinter
<1> SUFFICES ASSUME QueueInv, NEW v \in Workers, NEW w \in Workers,
                    v[1] = w[1], wpc[v] # "none", wpc[w] # "none"
             PROVE  v = w
  BY DEF SequentialPerPrinter
<1>1. PICK p \in Printers, r \in Submitters : v = <<p, r>>
  BY DEF Workers
<1>2. PICK q \in Printers, s \in Submitters : w = <<q, s>>
  BY DEF Workers
<1>3. p = q
  BY <1>1, <1>2
<1>4. workers[p] = r /\ workers[p] = s
  BY <1>1, <1>2, <1>3 DEF QueueInv, StartedIsMapped
<1> QED BY <1>1, <1>2, <1>3, <1>4

\* A step that touches neither the lock, nor the map, nor any worker's place keeps
\* the invariant, if it leaves no submitter newly inside or outside the lock.
LEMMA QueueInvFrame ==
  ASSUME TypeOK, QueueInv, UNCHANGED <<mu, closed, workers, closer, wpc>>,
         NEW r \in Submitters, NEW l \in SubmitPcs \ {"lookup", "create", "unlock"},
         pc[r] \notin {"lookup", "create", "unlock"},
         pc' = [pc EXCEPT ![r] = l],
         \A s \in Submitters \ {r} : sub'[s] = sub[s]
  PROVE  QueueInv'
<1>1. \A s \in Submitters : pc'[s] = IF s = r THEN l ELSE pc[s]
  BY DEF TypeOK
<1>2. LockDiscipline'
  BY <1>1 DEF QueueInv, LockDiscipline
<1>3. CreatorSeesNone'
  BY <1>1 DEF QueueInv, CreatorSeesNone
<1>4. StartedIsMapped' /\ ClosedByCloser' /\ QuietAfterClose'
  BY DEF QueueInv, StartedIsMapped, ClosedByCloser, QuietAfterClose, Alive, Busy
<1> QED BY <1>2, <1>3, <1>4 DEF QueueInv

\* A worker that exists and goes on, while everything else stays, keeps the
\* invariant as long as it does not come back from "exited".
LEMMA QueueInvWorkerStep ==
  ASSUME TypeOK, QueueInv, UNCHANGED <<subVars, lockVars>>,
         NEW w \in Workers, NEW l \in WorkerPcs, Alive(w),
         wpc' = [wpc EXCEPT ![w] = l]
  PROVE  QueueInv'
<1>1. \A v \in Workers : wpc'[v] = IF v = w THEN l ELSE wpc[v]
  BY DEF TypeOK
<1>2. LockDiscipline' /\ CreatorSeesNone' /\ ClosedByCloser'
  BY DEF QueueInv, LockDiscipline, CreatorSeesNone, ClosedByCloser, subVars, lockVars
<1>3. StartedIsMapped'
  BY <1>1 DEF QueueInv, StartedIsMapped, Workers, Alive, Busy, lockVars
<1>4. QuietAfterClose'
  BY <1>1 DEF QueueInv, QuietAfterClose, lockVars
<1> QED BY <1>2, <1>3, <1>4 DEF QueueInv

\* The strengthened invariant is inductive.
LEMMA QueueInvStep == TypeOK /\ QueueInv /\ [Next]_vars => QueueInv'
<1> SUFFICES ASSUME TypeOK, QueueInv, [Next]_vars PROVE QueueInv'
  OBVIOUS
<1>1. ASSUME NEW r \in Submitters, NEW j \in Jobs, Submit(r, j) PROVE QueueInv'
  <2>1. UNCHANGED <<mu, closed, workers, closer, wpc>>
    BY <1>1 DEF Submit, lockVars, workerVars
  <2>2. PICK l \in {"idle", "check"} : pc' = [pc EXCEPT ![r] = l]
    BY <1>1 DEF Submit, Return
  <2>3. \A s \in Submitters \ {r} : sub'[s] = sub[s]
    BY <1>1 DEF Submit, TypeOK
  <2>4. pc[r] = "idle"
    BY <1>1 DEF Submit
  <2> QED BY <2>1, <2>2, <2>3, <2>4, QueueInvFrame DEF SubmitPcs
<1>2. ASSUME NEW r \in Submitters, SeenRecently(r) PROVE QueueInv'
  <2>1. UNCHANGED <<mu, closed, workers, closer, wpc, sub>> /\ pc[r] = "check"
    BY <1>2 DEF SeenRecently, lockVars, workerVars
  <2>2. PICK l \in {"idle", "lock"} : pc' = [pc EXCEPT ![r] = l]
    BY <1>2 DEF SeenRecently, Return
  <2> QED BY <2>1, <2>2, QueueInvFrame DEF SubmitPcs
<1>3. ASSUME NEW r \in Submitters, Lock(r) PROVE QueueInv'
  <2>1. \A s \in Submitters : pc'[s] = IF s = r THEN "lookup" ELSE pc[s]
    BY <1>3 DEF Lock, TypeOK
  <2>2. LockDiscipline'
    BY <1>3, <2>1, QueueAssumption DEF Lock, QueueInv, LockDiscipline
  <2>3. CreatorSeesNone'
    BY <1>3, <2>1 DEF Lock, QueueInv, CreatorSeesNone
  <2>4. StartedIsMapped' /\ ClosedByCloser' /\ QuietAfterClose'
    BY <1>3 DEF Lock, QueueInv, StartedIsMapped, ClosedByCloser, QuietAfterClose, Alive, Busy, workerVars
  <2> QED BY <2>2, <2>3, <2>4 DEF QueueInv
<1>4. ASSUME NEW r \in Submitters, Lookup(r) PROVE QueueInv'
  <2>1. UNCHANGED <<closed, workers, closer, wpc, sub>> /\ pc[r] = "lookup"
    BY <1>4 DEF Lookup, workerVars
  <2>2. StartedIsMapped' /\ ClosedByCloser' /\ QuietAfterClose'
    BY <2>1 DEF QueueInv, StartedIsMapped, ClosedByCloser, QuietAfterClose, Alive, Busy
  <2>3. CASE closed
    <3>1. mu' = NoOne /\ pc' = [pc EXCEPT ![r] = "idle"]
      BY <1>4, <2>3, Zenon DEF Lookup, Return
    <3>2. \A s \in Submitters : pc'[s] = IF s = r THEN "idle" ELSE pc[s]
      BY <3>1 DEF TypeOK
    <3>3. LockDiscipline'
      BY <2>1, <3>1, <3>2, QueueAssumption DEF QueueInv, LockDiscipline
    <3>4. CreatorSeesNone'
      BY <2>1, <3>2 DEF QueueInv, CreatorSeesNone
    <3> QED BY <2>2, <3>3, <3>4 DEF QueueInv
  <2>4. CASE ~ closed
    <3>1. /\ mu' = mu
          /\ target' = [target EXCEPT ![r] = workers[sub[r].printer]]
          /\ pc' = [pc EXCEPT ![r] = IF target'[r] = NoOne THEN "create" ELSE "unlock"]
      BY <1>4, <2>4, Zenon DEF Lookup
    <3>2. target'[r] = workers[sub[r].printer]
      BY <3>1 DEF TypeOK
    <3>3. \A s \in Submitters : pc'[s] = IF s # r THEN pc[s]
                                          ELSE IF target'[r] = NoOne THEN "create" ELSE "unlock"
      BY <3>1 DEF TypeOK
    <3>4. LockDiscipline'
      BY <2>1, <3>1, <3>3 DEF QueueInv, LockDiscipline
    <3>5. CreatorSeesNone'
      BY <2>1, <2>4, <3>2, <3>3 DEF QueueInv, CreatorSeesNone
    <3> QED BY <2>2, <3>4, <3>5 DEF QueueInv
  <2> QED BY <2>3, <2>4
<1>5. ASSUME NEW r \in Submitters, NewWorker(r) PROVE QueueInv'
  <2> DEFINE p == sub[r].printer
  <2>1. /\ pc[r] = "create" /\ p \in Printers
        /\ workers[p] = NoOne /\ ~ closed
        /\ UNCHANGED <<mu, closed, closer, sub>>
    BY <1>5, QueueAssumption DEF NewWorker, TypeOK, QueueInv, CreatorSeesNone
  <2>2. \A s \in Submitters : pc'[s] = IF s = r THEN "unlock" ELSE pc[s]
    BY <1>5 DEF NewWorker, TypeOK
  <2>3. \A q \in Printers : workers'[q] = IF q = p THEN r ELSE workers[q]
    BY <1>5 DEF NewWorker, TypeOK
  <2>4. LockDiscipline'
    BY <2>1, <2>2 DEF QueueInv, LockDiscipline
  <2>5. CreatorSeesNone'
    BY <2>1, <2>2 DEF QueueInv, LockDiscipline, CreatorSeesNone
  <2>6. StartedIsMapped'
    <3> SUFFICES ASSUME NEW q \in Printers, NEW s \in Submitters, wpc'[<<q, s>>] # "none"
                 PROVE  workers'[q] = s
      BY DEF StartedIsMapped
    <3>1. <<q, s>> \in Workers
      BY DEF Workers
    <3>2. CASE q = p /\ s = r
      BY <2>3, <3>2
    <3>3. CASE ~ (q = p /\ s = r)
      <4>1. wpc[<<q, s>>] # "none"
        BY <1>5, <3>1, <3>3 DEF NewWorker, TypeOK
      <4>2. workers[q] = s
        BY <4>1 DEF QueueInv, StartedIsMapped
      <4> QED BY <2>1, <2>3, <4>2, QueueAssumption
    <3> QED BY <3>2, <3>3
  <2>7. ClosedByCloser' /\ QuietAfterClose'
    BY <2>1 DEF QueueInv, ClosedByCloser, QuietAfterClose
  <2> QED BY <2>4, <2>5, <2>6, <2>7 DEF QueueInv
<1>6. ASSUME NEW r \in Submitters, Unlock(r) PROVE QueueInv'
  <2>1. \A s \in Submitters : pc'[s] = IF s = r THEN "send" ELSE pc[s]
    BY <1>6 DEF Unlock, TypeOK
  <2>2. LockDiscipline'
    BY <1>6, <2>1, QueueAssumption DEF Unlock, QueueInv, LockDiscipline
  <2>3. CreatorSeesNone'
    BY <1>6, <2>1 DEF Unlock, QueueInv, CreatorSeesNone
  <2>4. StartedIsMapped' /\ ClosedByCloser' /\ QuietAfterClose'
    BY <1>6 DEF Unlock, QueueInv, StartedIsMapped, ClosedByCloser, QuietAfterClose, Alive, Busy, workerVars
  <2> QED BY <2>2, <2>3, <2>4 DEF QueueInv
<1>7. ASSUME NEW r \in Submitters, SendJob(r) \/ SendDone(r) PROVE QueueInv'
  <2>1. /\ UNCHANGED <<mu, closed, workers, closer, wpc, sub>> /\ pc[r] = "send"
        /\ pc' = [pc EXCEPT ![r] = "idle"]
    BY <1>7 DEF SendJob, SendDone, Return, lockVars, workerVars
  <2> QED BY <2>1, QueueInvFrame DEF SubmitPcs
<1>8. ASSUME NEW w \in Workers, WorkerStep(w) PROVE QueueInv'
  <2>1. Alive(w) /\ UNCHANGED <<subVars, lockVars>>
    BY <1>8 DEF WorkerStep, Exit, Take, Progress, PrintCopies, Finish, Record, Alive, Busy
  <2>2. PICK l \in WorkerPcs : wpc' = [wpc EXCEPT ![w] = l]
    <3>1. CASE Exit(w) \/ Take(w) \/ Finish(w) \/ Record(w)
      BY <3>1 DEF Exit, Take, Finish, Record, WorkerPcs
    <3>2. CASE PrintCopies(w)
      BY <3>2 DEF PrintCopies, WorkerPcs
    <3>3. CASE Progress(w)
      <4>1. NextEmit(wpc[w]) \in WorkerPcs
        BY DEF NextEmit, WorkerPcs
      <4> QED BY <3>3, <4>1 DEF Progress, WorkerPcs
    <3> QED BY <1>8, <3>1, <3>2, <3>3 DEF WorkerStep
  <2> QED BY <2>1, <2>2, QueueInvWorkerStep
<1>9. ASSUME Close PROVE QueueInv'
  BY <1>9 DEF Close, QueueInv, LockDiscipline, CreatorSeesNone, StartedIsMapped, ClosedByCloser,
              QuietAfterClose, subVars, workerVars
<1>10. ASSUME CloseLock PROVE QueueInv'
  <2>1. LockDiscipline'
    BY <1>10, QueueAssumption DEF CloseLock, QueueInv, LockDiscipline, subVars
  <2>2. CreatorSeesNone'
    BY <1>10, QueueAssumption DEF CloseLock, QueueInv, LockDiscipline, CreatorSeesNone, subVars
  <2>3. StartedIsMapped' /\ ClosedByCloser' /\ QuietAfterClose'
    BY <1>10 DEF CloseLock, QueueInv, StartedIsMapped, ClosedByCloser, QuietAfterClose, subVars, workerVars
  <2> QED BY <2>1, <2>2, <2>3 DEF QueueInv
<1>11. ASSUME NEW p \in Printers, Stop(p) PROVE QueueInv'
  BY <1>11 DEF Stop, QueueInv, LockDiscipline, CreatorSeesNone, StartedIsMapped, ClosedByCloser,
               QuietAfterClose, Alive, Busy, subVars, lockVars, workerVars
<1>12. ASSUME CloseUnlock PROVE QueueInv'
  BY <1>12, QueueAssumption
  DEF CloseUnlock, QueueInv, LockDiscipline, CreatorSeesNone, StartedIsMapped, ClosedByCloser,
      QuietAfterClose, subVars, workerVars
<1>13. ASSUME CloseReturn PROVE QueueInv'
  BY <1>13
  DEF CloseReturn, QueueInv, LockDiscipline, CreatorSeesNone, StartedIsMapped, ClosedByCloser,
      QuietAfterClose, Alive, Busy, subVars, workerVars
<1>14. CASE Tick \/ UNCHANGED vars
  BY <1>14 DEF Tick, vars, QueueInv, LockDiscipline, CreatorSeesNone, StartedIsMapped, ClosedByCloser,
               QuietAfterClose, Alive, Busy, subVars, lockVars, workerVars
<1> QED BY <1>1, <1>2, <1>3, <1>4, <1>5, <1>6, <1>7, <1>8, <1>9, <1>10, <1>11, <1>12, <1>13, <1>14
        DEF Next, SubmitStep, CloseStep

\* Initially the lock is free, the map empty and no worker started.
LEMMA QueueInvInit == Init => QueueInv
  BY QueueAssumption
  DEF Init, QueueInv, LockDiscipline, CreatorSeesNone, StartedIsMapped, ClosedByCloser, QuietAfterClose, Workers

\* "Print jobs sequentially per printer": Submit's lookup and newWorker under
\* Queue.mu give a printer one worker, for any number of concurrent submitters.
THEOREM Sequential == Spec => []SequentialPerPrinter
<1>1. Spec => []QueueInv
  BY QueueInvInit, QueueInvStep, TypeCorrect, PTL DEF Spec
<1> QED BY <1>1, QueueInvSequential, PTL

\* After Close has returned no worker runs, although Submit calls that were in
\* progress may still go on: none of them can start a worker.
THEOREM Quiet == Spec => []QuietAfterClose
<1>1. Spec => []QueueInv
  BY QueueInvInit, QueueInvStep, TypeCorrect, PTL DEF Spec
<1>2. QueueInv => QuietAfterClose
  BY DEF QueueInv
<1> QED BY <1>1, <1>2, PTL

-----------------------------------------------------------------------------
(* Duplicate suppression.  TerminalRemembered becomes inductive with the fact    *)
(* that no job was handled in the future.                                        *)

NotInFuture == \A p \in Printers, i \in JobIds : handledAt[p][i] <= now

RememberInv == TerminalRemembered /\ NotInFuture

\* A step that leaves the store, the clock and the history alone, and takes no
\* worker out of the recording step, keeps the invariant.
LEMMA RememberFrame ==
  ASSUME RememberInv, UNCHANGED <<seen, now, handledAt>>,
         \A w \in Workers : wpc[w] = "record" => wpc'[w] = "record" /\ cur'[w] = cur[w]
  PROVE  RememberInv'
<1>1. \A p \in Printers, i \in JobIds : Recording(p, i) => Recording(p, i)'
  BY DEF Recording
<1>2. TerminalRemembered'
  BY <1>1 DEF RememberInv, TerminalRemembered, Handled
<1> QED BY <1>2 DEF RememberInv, NotInFuture

\* The strengthened invariant is inductive.
LEMMA RememberStep == TypeOK /\ QueueInv /\ RememberInv /\ [Next]_vars => RememberInv'
<1> SUFFICES ASSUME TypeOK, QueueInv, RememberInv, [Next]_vars PROVE RememberInv'
  OBVIOUS
<1> DEFINE Key(w, p, i) == cur[w].printer = p /\ cur[w].id = i
<1>0. /\ now \in Int /\ Retention \in Int
      /\ \A p \in Printers, i \in JobIds : seen[p][i] \in Int /\ handledAt[p][i] \in Int
  BY QueueAssumption DEF TypeOK, Times, Never
<1>1. ASSUME NEW r \in Submitters, NEW j \in Jobs, Submit(r, j) PROVE RememberInv'
  BY <1>1, RememberFrame DEF Submit, workerVars, histVars
<1>2. ASSUME NEW r \in Submitters, SeenRecently(r) PROVE RememberInv'
  <2>1. UNCHANGED <<wpc, cur, now, handledAt>> /\ seen' = Pruned(seen)
    BY <1>2 DEF SeenRecently, workerVars, histVars
  <2>2. TerminalRemembered'
    <3> SUFFICES ASSUME NEW p \in Printers, NEW i \in JobIds, Handled(p, i)', ~ Recording(p, i)'
                 PROVE  seen'[p][i] >= handledAt'[p][i]
      BY DEF TerminalRemembered
    <3>1. Handled(p, i) /\ ~ Recording(p, i)
      BY <2>1 DEF Handled, Recording
    <3>2. /\ seen[p][i] >= handledAt[p][i]
          /\ now - handledAt[p][i] <= Retention
      BY <3>1 DEF RememberInv, TerminalRemembered, Handled
    <3>3. ~ (seen[p][i] < now - Retention)
      BY <1>0, <3>2
    <3>4. seen'[p][i] = seen[p][i]
      BY <2>1, <3>3 DEF Pruned
    <3> QED BY <2>1, <3>2, <3>4
  <2> QED BY <2>1, <2>2 DEF RememberInv, NotInFuture
<1>3. ASSUME NEW r \in Submitters, Lock(r) \/ Lookup(r) \/ Unlock(r) \/ SendJob(r) \/ SendDone(r)
      PROVE  RememberInv'
  BY <1>3, RememberFrame DEF Lock, Lookup, Unlock, SendJob, SendDone, workerVars, histVars
<1>4. ASSUME NEW r \in Submitters, NewWorker(r) PROVE RememberInv'
  <2> DEFINE p == sub[r].printer
  <2>1. p \in Printers /\ workers[p] = NoOne
    BY <1>4, QueueAssumption DEF NewWorker, TypeOK, QueueInv, CreatorSeesNone
  <2>2. wpc[<<p, r>>] = "none"
    BY <2>1, QueueAssumption DEF QueueInv, StartedIsMapped
  <2>3. \A w \in Workers : wpc[w] = "record" => wpc'[w] = "record"
    BY <1>4, <2>2 DEF NewWorker, TypeOK
  <2> QED BY <1>4, <2>3, RememberFrame DEF NewWorker, histVars
<1>5. ASSUME NEW w \in Workers, Exit(w) \/ Take(w) \/ PrintCopies(w) PROVE RememberInv'
  <2>1. UNCHANGED <<seen, now, handledAt>> /\ wpc[w] # "record"
    BY <1>5 DEF Exit, Take, PrintCopies, histVars
  <2>2. \A v \in Workers \ {w} : wpc'[v] = wpc[v] /\ cur'[v] = cur[v]
    BY <1>5 DEF Exit, Take, PrintCopies, TypeOK
  <2> QED BY <2>1, <2>2, RememberFrame
<1>6. ASSUME NEW w \in Workers, Progress(w) PROVE RememberInv'
  <2>1. UNCHANGED <<seen, now, cur>> /\ wpc[w] \in {"queued", "sent", "printing"} /\ Emit(w, wpc[w])
    BY <1>6 DEF Progress
  <2>2. handledAt' = handledAt
    BY <2>1 DEF Emit, Terminal
  <2>3. \A v \in Workers \ {w} : wpc'[v] = wpc[v]
    BY <1>6 DEF Progress, TypeOK
  <2> QED BY <2>1, <2>2, <2>3, RememberFrame
<1>7. ASSUME NEW w \in Workers, Finish(w) PROVE RememberInv'
  <2> DEFINE to == IF printErr[w] THEN "failed" ELSE "completed"
  <2>1. UNCHANGED <<seen, now, cur>> /\ Emit(w, to)
    BY <1>7 DEF Finish
  <2>2. \A v \in Workers : wpc'[v] = IF v = w THEN "record" ELSE wpc[v]
    BY <1>7 DEF Finish, TypeOK
  <2>3. cur[w].printer \in Printers /\ cur[w].id \in JobIds
    BY QueueAssumption DEF TypeOK
  <2>4. \/ handledAt' = handledAt
        \/ handledAt' = [handledAt EXCEPT ![cur[w].printer][cur[w].id] = now]
    BY <2>1 DEF Emit
  <2>5. ASSUME NEW p \in Printers, NEW i \in JobIds
        PROVE  /\ ~ Key(w, p, i) => handledAt'[p][i] = handledAt[p][i]
               /\ handledAt'[p][i] \in {handledAt[p][i], now}
    <3>1. handledAt \in [Printers -> [JobIds -> Times]]
      BY DEF TypeOK
    <3>2. [handledAt EXCEPT ![cur[w].printer][cur[w].id] = now][p][i]
            = IF Key(w, p, i) THEN now ELSE handledAt[p][i]
      BY <2>3, <3>1, UpdateValue
    <3> QED BY <2>4, <3>2
  <2>7. TerminalRemembered'
    <3> SUFFICES ASSUME NEW p \in Printers, NEW i \in JobIds, Handled(p, i)', ~ Recording(p, i)'
                 PROVE  seen'[p][i] >= handledAt'[p][i]
      BY DEF TerminalRemembered
    <3>1. ~ Key(w, p, i)
      BY <2>1, <2>2 DEF Recording
    <3>2. Handled(p, i) /\ ~ Recording(p, i)
      BY <2>1, <2>2, <2>5, <3>1 DEF Handled, Recording
    <3> QED BY <2>1, <2>5, <3>1, <3>2 DEF RememberInv, TerminalRemembered
  <2>8. NotInFuture'
    BY <1>0, <2>1, <2>5 DEF RememberInv, NotInFuture
  <2> QED BY <2>7, <2>8 DEF RememberInv
<1>8. ASSUME NEW w \in Workers, Record(w) PROVE RememberInv'
  <2>1. UNCHANGED <<now, cur, handledAt>>
    BY <1>8 DEF Record
  <2>2. cur[w].printer \in Printers /\ cur[w].id \in JobIds
    BY QueueAssumption DEF TypeOK
  <2>3. \A p \in Printers, i \in JobIds : seen'[p][i] = IF Key(w, p, i) THEN now ELSE seen[p][i]
    BY <1>8, <2>2 DEF Record, TypeOK
  <2>4. \A v \in Workers \ {w} : wpc'[v] = wpc[v]
    BY <1>8 DEF Record, TypeOK
  <2>5. TerminalRemembered'
    <3> SUFFICES ASSUME NEW p \in Printers, NEW i \in JobIds, Handled(p, i)', ~ Recording(p, i)'
                 PROVE  seen'[p][i] >= handledAt'[p][i]
      BY DEF TerminalRemembered
    <3>1. CASE Key(w, p, i)
      <4>1. seen'[p][i] = now
        BY <2>3, <3>1
      <4>2. handledAt[p][i] <= now
        BY DEF RememberInv, NotInFuture
      <4> QED BY <1>0, <2>1, <4>1, <4>2
    <3>2. CASE ~ Key(w, p, i)
      <4>1. Handled(p, i) /\ ~ Recording(p, i)
        BY <2>1, <2>4, <3>2 DEF Handled, Recording
      <4> QED BY <2>1, <2>3, <3>2, <4>1 DEF RememberInv, TerminalRemembered
    <3> QED BY <3>1, <3>2
  <2> QED BY <2>1, <2>5 DEF RememberInv, NotInFuture
<1>9. CASE Close \/ CloseLock \/ (\E p \in Printers : Stop(p)) \/ CloseUnlock \/ CloseReturn
  BY <1>9, RememberFrame DEF Close, CloseLock, Stop, CloseUnlock, CloseReturn, workerVars, histVars
<1>10. CASE Tick
  <2>1. now' = now + 1 /\ UNCHANGED <<wpc, cur, seen, handledAt>>
    BY <1>10 DEF Tick, workerVars, histVars
  <2>2. \A p \in Printers, i \in JobIds :
          (Handled(p, i)' => Handled(p, i)) /\ (Recording(p, i) => Recording(p, i)')
    BY <1>0, <2>1 DEF Handled, Recording
  <2> QED BY <1>0, <2>1, <2>2 DEF RememberInv, TerminalRemembered, NotInFuture
<1>11. CASE UNCHANGED vars
  BY <1>11, RememberFrame DEF vars, workerVars, histVars
<1> QED BY <1>1, <1>2, <1>3, <1>4, <1>5, <1>6, <1>7, <1>8, <1>9, <1>10, <1>11
        DEF Next, SubmitStep, WorkerStep, CloseStep

\* Nothing has been handled initially.
LEMMA RememberInit == Init => RememberInv
  BY DEF Init, RememberInv, TerminalRemembered, NotInFuture, Handled, Never

\* A reported job stays suppressed for the whole retention period, for any
\* retention, any interleaving of prunes, records and clock ticks.
THEOREM Remembered == Spec => []TerminalRemembered
<1>1. Spec => []RememberInv
  BY RememberInit, RememberStep, QueueInvInit, QueueInvStep, TypeCorrect, PTL DEF Spec
<1>2. RememberInv => TerminalRemembered
  BY DEF RememberInv
<1> QED BY <1>1, <1>2, PTL

\* The check in Submit, which prunes first, answers "not seen" only for a key that
\* is not handled, or whose worker is about to record it.
LEMMA NotSeenNotHandled ==
  ASSUME TypeOK, TerminalRemembered, NEW r \in Submitters, SeenRecently(r), pc'[r] = "lock",
         Handled(sub[r].printer, sub[r].id)
  PROVE  Recording(sub[r].printer, sub[r].id)
<1> DEFINE p == sub[r].printer
           i == sub[r].id
<1>1. p \in Printers /\ i \in JobIds
  BY QueueAssumption DEF TypeOK
<1>2. /\ now \in Int /\ Retention \in Int /\ now >= 0
      /\ seen[p][i] \in Int /\ handledAt[p][i] \in Int /\ handledAt[p][i] >= -1
  BY <1>1, QueueAssumption DEF TypeOK, Times, Never
<1>3. SUFFICES ASSUME seen[p][i] >= handledAt[p][i] PROVE FALSE
  BY <1>1 DEF TerminalRemembered
<1>4. seen[p][i] # Never /\ ~ (seen[p][i] < now - Retention)
  BY <1>2, <1>3 DEF Handled, Never
<1>5. seen'[p][i] # Never
  BY <1>1, <1>4 DEF SeenRecently, Pruned
<1>6. pc' = [pc EXCEPT ![r] = "idle"]
  BY <1>5, Zenon DEF SeenRecently, Return
<1> QED BY <1>6 DEF TypeOK

\* Submit lets no delivery through whose job was handled and recorded within the
\* retention period.
THEOREM Suppressed == Spec => HandledNotAccepted
<1> DEFINE A(r) == pc[r] = "check" /\ pc'[r] = "lock" =>
                     LET p == sub[r].printer
                         i == sub[r].id
                     IN  Handled(p, i) => Recording(p, i)
<1>1. ASSUME TypeOK, TerminalRemembered, [Next]_vars, NEW r \in Submitters PROVE A(r)
  <2> SUFFICES ASSUME pc[r] = "check", pc'[r] = "lock" PROVE A(r)
    OBVIOUS
  <2>1. SeenRecently(r)
    <3>1. ASSUME NEW s \in Submitters, NEW j \in Jobs, Submit(s, j) PROVE FALSE
      <4>1. PICK l \in {"idle", "check"} : pc' = [pc EXCEPT ![s] = l]
        BY <3>1 DEF Submit, Return
      <4> QED BY <4>1 DEF TypeOK
    <3>2. ASSUME NEW s \in Submitters, SubmitStep(s), s # r PROVE FALSE
      <4>1. PICK l : pc' = [pc EXCEPT ![s] = l]
        BY <3>2 DEF SubmitStep, SeenRecently, Lock, Lookup, NewWorker, Unlock, SendJob, SendDone, Return
      <4> QED BY <3>2, <4>1 DEF TypeOK
    <3>3. ASSUME NEW w \in Workers, WorkerStep(w) PROVE FALSE
      BY <3>3 DEF WorkerStep, Exit, Take, Progress, PrintCopies, Finish, Record, subVars
    <3>4. ASSUME Close \/ CloseStep \/ Tick \/ UNCHANGED vars PROVE FALSE
      BY <3>4 DEF Close, CloseStep, CloseLock, Stop, CloseUnlock, CloseReturn, Tick, vars, subVars
    <3>5. SubmitStep(r)
      BY <1>1, <3>1, <3>2, <3>3, <3>4 DEF Next
    <3> QED BY <3>5 DEF SubmitStep, Lock, Lookup, NewWorker, Unlock, SendJob, SendDone
  <2> QED BY <1>1, <2>1, NotSeenNotHandled
<1>2. TypeOK /\ TerminalRemembered /\ [Next]_vars => [\A r \in Submitters : A(r)]_vars
  BY <1>1
<1> QED BY <1>2, TypeCorrect, Remembered, PTL DEF Spec, HandledNotAccepted
-----------------------------------------------------------------------------
(* What a worker serves.  The accounting of NothingLost and the refinement of    *)
(* the spool need to know that a submitter past its look-up still holds the      *)
(* mapped worker, although it has let go of the mutex; that a mapped worker was  *)
(* started and an unstarted one has no jobs; that a worker serves only jobs of   *)
(* its own printer; and that its tracker is where its program counter says.      *)

TargetIsMapped ==
  \A r \in Submitters : pc[r] \in {"unlock", "send"} =>
    target[r] # NoOne /\ workers[sub[r].printer] = target[r]

MappedIsStarted ==
  \A p \in Printers : workers[p] # NoOne => wpc[<<p, workers[p]>>] # "none"

OwnJobs ==
  \A w \in Workers :
    /\ \A i \in DOMAIN jobs[w] : jobs[w][i].printer = w[1]
    /\ Busy(w) => cur[w].printer = w[1]

UnstartedIsEmpty == \A w \in Workers : wpc[w] = "none" => jobs[w] = <<>>

StoppedWhenClosed == \A w \in Workers : done[w] => closed

TrackerFollows ==
  \A w \in Workers :
    /\ wpc[w] = "queued" => tracker[w] = "created"
    /\ wpc[w] = "sent" => tracker[w] = "queued"
    /\ wpc[w] = "printing" => tracker[w] = "sent"
    /\ wpc[w] \in {"copies", "finish"} => tracker[w] = "printing"
    /\ wpc[w] = "record" => tracker[w] \in {"completed", "failed"}

WorkInv == OwnJobs /\ UnstartedIsEmpty /\ TrackerFollows

ServiceInv == TargetIsMapped /\ MappedIsStarted /\ StoppedWhenClosed /\ WorkInv

\* A step of a submitter that leaves the map and the workers alone keeps the
\* invariant when it neither enters nor stays past the look-up.
LEMMA ServiceFrame ==
  ASSUME TypeOK, ServiceInv, UNCHANGED <<workers, wpc, jobs, done, closed, cur, tracker>>,
         NEW r \in Submitters,
         \A s \in Submitters \ {r} : pc'[s] = pc[s] /\ sub'[s] = sub[s] /\ target'[s] = target[s],
         pc'[r] \notin {"unlock", "send"}
  PROVE  ServiceInv'
<1>1. TargetIsMapped'
  BY DEF ServiceInv, TargetIsMapped
<1>2. MappedIsStarted' /\ StoppedWhenClosed'
  BY DEF ServiceInv, MappedIsStarted, StoppedWhenClosed
<1>3. WorkInv'
  BY DEF ServiceInv, WorkInv, OwnJobs, UnstartedIsEmpty, TrackerFollows, Busy
<1> QED BY <1>1, <1>2, <1>3 DEF ServiceInv

\* A step of a started worker keeps the invariant when that worker keeps serving
\* jobs of its printer and its tracker follows.
LEMMA ServiceWorker ==
  ASSUME TypeOK, ServiceInv, UNCHANGED <<subVars, lockVars, done>>,
         NEW w \in Workers,
         \A v \in Workers \ {w} : wpc'[v] = wpc[v] /\ jobs'[v] = jobs[v] /\ cur'[v] = cur[v]
                                  /\ tracker'[v] = tracker[v],
         wpc'[w] # "none",
         \A i \in DOMAIN jobs'[w] : jobs'[w][i].printer = w[1],
         Busy(w)' => cur'[w].printer = w[1],
         /\ wpc'[w] = "queued" => tracker'[w] = "created"
         /\ wpc'[w] = "sent" => tracker'[w] = "queued"
         /\ wpc'[w] = "printing" => tracker'[w] = "sent"
         /\ wpc'[w] \in {"copies", "finish"} => tracker'[w] = "printing"
         /\ wpc'[w] = "record" => tracker'[w] \in {"completed", "failed"}
  PROVE  ServiceInv'
<1>1. TargetIsMapped' /\ StoppedWhenClosed'
  BY DEF ServiceInv, TargetIsMapped, StoppedWhenClosed, subVars, lockVars
<1>2. MappedIsStarted'
  <2> SUFFICES ASSUME NEW p \in Printers, workers[p] # NoOne
               PROVE  wpc'[<<p, workers[p]>>] # "none"
    BY DEF MappedIsStarted, lockVars
  <2>1. <<p, workers[p]>> \in Workers /\ wpc[<<p, workers[p]>>] # "none"
    BY DEF ServiceInv, MappedIsStarted, TypeOK, Workers
  <2> QED BY <2>1
<1>3. OwnJobs'
  <2> SUFFICES ASSUME NEW v \in Workers
               PROVE  /\ \A i \in DOMAIN jobs'[v] : jobs'[v][i].printer = v[1]
                      /\ Busy(v)' => cur'[v].printer = v[1]
    BY DEF OwnJobs
  <2>1. CASE v = w
    BY <2>1
  <2>2. CASE v # w
    BY <2>2 DEF ServiceInv, WorkInv, OwnJobs, Busy
  <2> QED BY <2>1, <2>2
<1>4. UnstartedIsEmpty'
  BY DEF ServiceInv, WorkInv, UnstartedIsEmpty
<1>5. TrackerFollows'
  <2> SUFFICES ASSUME NEW v \in Workers
               PROVE  /\ wpc'[v] = "queued" => tracker'[v] = "created"
                      /\ wpc'[v] = "sent" => tracker'[v] = "queued"
                      /\ wpc'[v] = "printing" => tracker'[v] = "sent"
                      /\ wpc'[v] \in {"copies", "finish"} => tracker'[v] = "printing"
                      /\ wpc'[v] = "record" => tracker'[v] \in {"completed", "failed"}
    BY DEF TrackerFollows
  <2>1. CASE v = w
    BY <2>1
  <2>2. CASE v # w
    BY <2>2 DEF ServiceInv, WorkInv, TrackerFollows
  <2> QED BY <2>1, <2>2
<1> QED BY <1>1, <1>2, <1>3, <1>4, <1>5 DEF ServiceInv, WorkInv

\* The head of a worker's channel and what remains behind it are its own jobs.
LEMMA HeadTailOwn ==
  ASSUME NEW s \in Seq(Jobs), s # <<>>, NEW p, \A i \in DOMAIN s : s[i].printer = p
  PROVE  Head(s).printer = p /\ \A i \in DOMAIN Tail(s) : Tail(s)[i].printer = p
  OBVIOUS

\* A worker's three reports before printing are always legal: the branch of
\* process that gives up on a refused transition is never taken.
LEMMA ProgressLegal ==
  ASSUME TypeOK, ServiceInv, NEW w \in Workers, Progress(w)
  PROVE  /\ CanTransition(tracker[w], wpc[w])
         /\ tracker' = [tracker EXCEPT ![w] = wpc[w]]
         /\ wpc' = [wpc EXCEPT ![w] = NextEmit(wpc[w])]
         /\ UNCHANGED finished
<1>1. CanTransition(tracker[w], wpc[w])
  BY DEF Progress, ServiceInv, WorkInv, TrackerFollows, CanTransition, allowed, States
<1> QED BY <1>1, Zenon DEF Progress, Emit

\* The last report is legal as well, and terminal.
LEMMA FinishLegal ==
  ASSUME TypeOK, ServiceInv, NEW w \in Workers, Finish(w)
  PROVE  /\ wpc[w] = "finish" /\ tracker[w] = "printing"
         /\ \E s \in {"completed", "failed"} : tracker' = [tracker EXCEPT ![w] = s]
         /\ wpc' = [wpc EXCEPT ![w] = "record"]
<1> DEFINE s == IF printErr[w] THEN "failed" ELSE "completed"
<1>1. wpc[w] = "finish" /\ tracker[w] = "printing"
  BY DEF Finish, ServiceInv, WorkInv, TrackerFollows
<1>2. CanTransition(tracker[w], s)
  BY <1>1 DEF CanTransition, allowed, States
<1>3. tracker' = [tracker EXCEPT ![w] = s]
  BY <1>2, Zenon DEF Finish, Emit
<1>4. s \in {"completed", "failed"}
  OBVIOUS
<1> QED BY <1>1, <1>3, <1>4 DEF Finish

\* The invariant on what the workers serve is inductive.
LEMMA ServiceStep == TypeOK /\ QueueInv /\ ServiceInv /\ [Next]_vars => ServiceInv'
<1> SUFFICES ASSUME TypeOK, QueueInv, ServiceInv, [Next]_vars PROVE ServiceInv'
  OBVIOUS
<1>1. ASSUME NEW r \in Submitters, NEW j \in Jobs, Submit(r, j) PROVE ServiceInv'
  <2>1. PICK l \in {"idle", "check"} : pc' = [pc EXCEPT ![r] = l]
    BY <1>1 DEF Submit, Return
  <2>2. \A s \in Submitters \ {r} : pc'[s] = pc[s] /\ sub'[s] = sub[s] /\ target'[s] = target[s]
    BY <1>1, <2>1 DEF Submit, TypeOK
  <2>3. UNCHANGED <<workers, wpc, jobs, done, closed, cur, tracker>>
    BY <1>1 DEF Submit, lockVars, workerVars
  <2>4. pc'[r] \notin {"unlock", "send"}
    BY <2>1 DEF TypeOK
  <2> QED BY <2>2, <2>3, <2>4, ServiceFrame
<1>2. ASSUME NEW r \in Submitters, SeenRecently(r) \/ Lock(r) \/ SendDone(r) PROVE ServiceInv'
  <2>1. PICK l \in {"idle", "lock", "lookup"} : pc' = [pc EXCEPT ![r] = l]
    BY <1>2 DEF SeenRecently, Lock, SendDone, Return
  <2>2. /\ UNCHANGED <<workers, wpc, jobs, done, closed, cur, tracker>>
        /\ UNCHANGED <<sub, target>>
    BY <1>2 DEF SeenRecently, Lock, SendDone, lockVars, workerVars
  <2> QED BY <2>1, <2>2, ServiceFrame DEF TypeOK
<1>3. ASSUME NEW r \in Submitters, Lookup(r) PROVE ServiceInv'
  <2>1. /\ UNCHANGED <<workers, wpc, jobs, done, closed, cur, tracker>>
        /\ UNCHANGED sub
    BY <1>3 DEF Lookup, workerVars
  <2>2. CASE closed
    <3>1. pc' = [pc EXCEPT ![r] = "idle"] /\ target' = target
      BY <1>3, <2>2, Zenon DEF Lookup, Return
    <3> QED BY <2>1, <3>1, ServiceFrame DEF TypeOK
  <2>3. CASE ~ closed
    <3>1. /\ target' = [target EXCEPT ![r] = workers[sub[r].printer]]
          /\ pc' = [pc EXCEPT ![r] = IF target'[r] = NoOne THEN "create" ELSE "unlock"]
      BY <1>3, <2>3, Zenon DEF Lookup
    <3>2. TargetIsMapped'
      BY <2>1, <3>1 DEF ServiceInv, TargetIsMapped, TypeOK
    <3>3. MappedIsStarted' /\ StoppedWhenClosed'
      BY <2>1 DEF ServiceInv, MappedIsStarted, StoppedWhenClosed
    <3>4. WorkInv'
      BY <2>1 DEF ServiceInv, WorkInv, OwnJobs, UnstartedIsEmpty, TrackerFollows, Busy
    <3> QED BY <3>2, <3>3, <3>4 DEF ServiceInv
  <2> QED BY <2>2, <2>3
<1>4. ASSUME NEW r \in Submitters, NewWorker(r) PROVE ServiceInv'
  <2> DEFINE p == sub[r].printer
             w == <<p, r>>
  <2>1. p \in Printers /\ w \in Workers /\ workers[p] = NoOne
    BY <1>4, QueueAssumption DEF NewWorker, TypeOK, QueueInv, CreatorSeesNone, Workers
  <2>2. /\ \A q \in Printers : workers'[q] = IF q = p THEN r ELSE workers[q]
        /\ \A v \in Workers : wpc'[v] = IF v = w THEN "select" ELSE wpc[v]
        /\ \A s \in Submitters : /\ pc'[s] = IF s = r THEN "unlock" ELSE pc[s]
                                 /\ target'[s] = IF s = r THEN r ELSE target[s]
        /\ UNCHANGED <<sub, jobs, done, closed, cur, tracker>>
    BY <1>4 DEF NewWorker, TypeOK
  <2>3. TargetIsMapped'
    <3> SUFFICES ASSUME NEW s \in Submitters, pc'[s] \in {"unlock", "send"}
                 PROVE  target'[s] # NoOne /\ workers'[sub[s].printer] = target'[s]
      BY <2>2 DEF TargetIsMapped
    <3>1. CASE s = r
      BY <2>1, <2>2, <3>1, QueueAssumption
    <3>2. CASE s # r
      <4>1. target[s] # NoOne /\ workers[sub[s].printer] = target[s]
        BY <2>2, <3>2 DEF ServiceInv, TargetIsMapped
      <4>2. sub[s].printer \in Printers
        BY QueueAssumption DEF TypeOK
      <4> QED BY <2>1, <2>2, <3>2, <4>1, <4>2
    <3> QED BY <3>1, <3>2
  <2>4. MappedIsStarted'
    <3> SUFFICES ASSUME NEW q \in Printers, workers'[q] # NoOne
                 PROVE  wpc'[<<q, workers'[q]>>] # "none"
      BY DEF MappedIsStarted
    <3>1. CASE q = p
      BY <2>1, <2>2, <3>1
    <3>2. CASE q # p
      <4>1. workers[q] # NoOne /\ workers'[q] = workers[q]
        BY <2>2, <3>2
      <4>2. <<q, workers[q]>> \in Workers /\ <<q, workers[q]>> # w
        BY <3>2, <4>1 DEF TypeOK, Workers
      <4>3. wpc[<<q, workers[q]>>] # "none"
        BY <4>1 DEF ServiceInv, MappedIsStarted
      <4> QED BY <2>2, <4>1, <4>2, <4>3
    <3> QED BY <3>1, <3>2
  <2>5. StoppedWhenClosed'
    BY <2>2 DEF ServiceInv, StoppedWhenClosed
  <2>6. OwnJobs'
    BY <2>2 DEF ServiceInv, WorkInv, OwnJobs, Busy
  <2>7. UnstartedIsEmpty' /\ TrackerFollows'
    BY <2>2 DEF ServiceInv, WorkInv, UnstartedIsEmpty, TrackerFollows
  <2> QED BY <2>3, <2>4, <2>5, <2>6, <2>7 DEF ServiceInv, WorkInv
<1>5. ASSUME NEW r \in Submitters, Unlock(r) PROVE ServiceInv'
  <2>1. /\ UNCHANGED <<workers, wpc, jobs, done, closed, cur, tracker, sub, target>>
        /\ pc[r] = "unlock"
        /\ \A s \in Submitters : pc'[s] = IF s = r THEN "send" ELSE pc[s]
    BY <1>5 DEF Unlock, workerVars, TypeOK
  <2>2. TargetIsMapped' /\ MappedIsStarted' /\ StoppedWhenClosed'
    BY <2>1 DEF ServiceInv, TargetIsMapped, MappedIsStarted, StoppedWhenClosed
  <2>3. WorkInv'
    BY <2>1 DEF ServiceInv, WorkInv, OwnJobs, UnstartedIsEmpty, TrackerFollows, Busy
  <2> QED BY <2>2, <2>3 DEF ServiceInv
<1>6. ASSUME NEW r \in Submitters, SendJob(r) PROVE ServiceInv'
  <2> DEFINE p == sub[r].printer
             w == <<p, target[r]>>
  <2>1. /\ UNCHANGED <<workers, wpc, done, closed, cur, tracker, sub, target>>
        /\ pc[r] = "send"
        /\ \A s \in Submitters : pc'[s] = IF s = r THEN "idle" ELSE pc[s]
        /\ jobs' = [jobs EXCEPT ![w] = Append(jobs[w], sub[r])]
    BY <1>6 DEF SendJob, Return, lockVars, workerVars, TypeOK
  <2>2. p \in Printers /\ workers[p] = target[r] /\ target[r] # NoOne
    BY <2>1, QueueAssumption DEF ServiceInv, TargetIsMapped, TypeOK
  <2>3. w \in Workers /\ wpc[w] # "none"
    BY <2>2 DEF ServiceInv, MappedIsStarted, TypeOK, Workers
  <2>4. \A v \in Workers : jobs'[v] = IF v = w THEN Append(jobs[w], sub[r]) ELSE jobs[v]
    BY <2>1, <2>3 DEF TypeOK
  <2>5. \A i \in DOMAIN Append(jobs[w], sub[r]) : Append(jobs[w], sub[r])[i].printer = p
    <3>1. jobs[w] \in Seq(Jobs) /\ sub[r] \in Jobs
      BY <2>3 DEF TypeOK
    <3>2. \A i \in DOMAIN jobs[w] : jobs[w][i].printer = p
      BY <2>3 DEF ServiceInv, WorkInv, OwnJobs
    <3> QED BY <3>1, <3>2
  <2>6. OwnJobs'
    <3> SUFFICES ASSUME NEW v \in Workers
                 PROVE  /\ \A i \in DOMAIN jobs'[v] : jobs'[v][i].printer = v[1]
                        /\ Busy(v) => cur[v].printer = v[1]
      BY <2>1 DEF OwnJobs, Busy
    <3>1. CASE v = w
      BY <2>4, <2>5, <3>1 DEF ServiceInv, WorkInv, OwnJobs
    <3>2. CASE v # w
      BY <2>4, <3>2 DEF ServiceInv, WorkInv, OwnJobs
    <3> QED BY <3>1, <3>2
  <2>7. UnstartedIsEmpty' /\ TrackerFollows'
    BY <2>1, <2>3, <2>4 DEF ServiceInv, WorkInv, UnstartedIsEmpty, TrackerFollows
  <2>8. TargetIsMapped' /\ MappedIsStarted' /\ StoppedWhenClosed'
    BY <2>1 DEF ServiceInv, TargetIsMapped, MappedIsStarted, StoppedWhenClosed
  <2> QED BY <2>6, <2>7, <2>8 DEF ServiceInv, WorkInv
<1>7. ASSUME NEW w \in Workers, WorkerStep(w) PROVE ServiceInv'
  <2>0. /\ UNCHANGED <<subVars, lockVars, done>>
        /\ \A i \in DOMAIN jobs[w] : jobs[w][i].printer = w[1]
        /\ Busy(w) => cur[w].printer = w[1]
    BY <1>7 DEF WorkerStep, Exit, Take, Progress, PrintCopies, Finish, Record, ServiceInv, WorkInv, OwnJobs
  <2>1. CASE Exit(w)
    <3>1. UNCHANGED <<jobs, cur, tracker>> /\ wpc' = [wpc EXCEPT ![w] = "exited"]
      BY <2>1 DEF Exit
    <3> QED BY <2>0, <3>1, ServiceWorker DEF TypeOK, Busy
  <2>2. CASE Take(w)
    <3>1. /\ wpc' = [wpc EXCEPT ![w] = "queued"] /\ tracker' = [tracker EXCEPT ![w] = "created"]
          /\ cur' = [cur EXCEPT ![w] = Head(jobs[w])] /\ jobs' = [jobs EXCEPT ![w] = Tail(jobs[w])]
          /\ jobs[w] # <<>>
      BY <2>2 DEF Take
    <3>2. jobs[w] \in Seq(Jobs)
      BY DEF TypeOK
    <3>3. Head(jobs[w]).printer = w[1] /\ \A i \in DOMAIN Tail(jobs[w]) : Tail(jobs[w])[i].printer = w[1]
      BY <2>0, <3>1, <3>2, HeadTailOwn
    <3>4. /\ wpc'[w] = "queued" /\ tracker'[w] = "created"
          /\ cur'[w] = Head(jobs[w]) /\ jobs'[w] = Tail(jobs[w])
      BY <3>1 DEF TypeOK
    <3>5. \A v \in Workers \ {w} : wpc'[v] = wpc[v] /\ jobs'[v] = jobs[v] /\ cur'[v] = cur[v]
                                   /\ tracker'[v] = tracker[v]
      BY <3>1 DEF TypeOK
    <3> QED BY <2>0, <3>3, <3>4, <3>5, ServiceWorker
  <2>3. CASE Progress(w)
    <3>1. /\ tracker' = [tracker EXCEPT ![w] = wpc[w]]
          /\ wpc' = [wpc EXCEPT ![w] = NextEmit(wpc[w])]
      BY <2>3, ProgressLegal
    <3>2. UNCHANGED <<jobs, cur>> /\ wpc[w] \in {"queued", "sent", "printing"}
      BY <2>3 DEF Progress
    <3>3. /\ wpc[w] = "queued" => NextEmit(wpc[w]) = "sent"
          /\ wpc[w] = "sent" => NextEmit(wpc[w]) = "printing"
          /\ wpc[w] = "printing" => NextEmit(wpc[w]) = "copies"
      BY DEF NextEmit
    <3>4. wpc'[w] = NextEmit(wpc[w]) /\ tracker'[w] = wpc[w]
      BY <3>1 DEF TypeOK
    <3>5. \A v \in Workers \ {w} : wpc'[v] = wpc[v] /\ jobs'[v] = jobs[v] /\ cur'[v] = cur[v]
                                   /\ tracker'[v] = tracker[v]
      BY <3>1, <3>2 DEF TypeOK
    <3>6. Busy(w)
      BY <3>2 DEF Busy
    <3> QED BY <2>0, <3>2, <3>3, <3>4, <3>5, <3>6, ServiceWorker
  <2>4. CASE PrintCopies(w)
    <3>1. PICK l \in {"finish", "copies"} : wpc' = [wpc EXCEPT ![w] = l]
      BY <2>4 DEF PrintCopies
    <3>2. UNCHANGED <<jobs, cur, tracker>> /\ wpc[w] = "copies"
      BY <2>4 DEF PrintCopies
    <3>3. tracker[w] = "printing" /\ Busy(w)
      BY <3>2 DEF ServiceInv, WorkInv, TrackerFollows, Busy
    <3> QED BY <2>0, <3>1, <3>2, <3>3, ServiceWorker DEF TypeOK
  <2>5. CASE Finish(w)
    <3>1. PICK s \in {"completed", "failed"} : tracker' = [tracker EXCEPT ![w] = s]
      BY <2>5, FinishLegal
    <3>2. wpc' = [wpc EXCEPT ![w] = "record"] /\ UNCHANGED <<jobs, cur>> /\ Busy(w)
      BY <2>5 DEF Finish, Busy
    <3> QED BY <2>0, <3>1, <3>2, ServiceWorker DEF TypeOK
  <2>6. CASE Record(w)
    <3>1. wpc' = [wpc EXCEPT ![w] = "select"] /\ UNCHANGED <<jobs, cur, tracker>>
      BY <2>6 DEF Record
    <3> QED BY <2>0, <3>1, ServiceWorker DEF TypeOK, Busy
  <2> QED BY <1>7, <2>1, <2>2, <2>3, <2>4, <2>5, <2>6 DEF WorkerStep
<1>8. ASSUME NEW p \in Printers, Stop(p) PROVE ServiceInv'
  <2>1. closed
    BY <1>8 DEF Stop, QueueInv, ClosedByCloser
  <2>2. UNCHANGED <<pc, sub, target, workers, wpc, jobs, closed, cur, tracker>>
    BY <1>8 DEF Stop, subVars, lockVars, workerVars
  <2>3. WorkInv'
    BY <2>2 DEF ServiceInv, WorkInv, OwnJobs, UnstartedIsEmpty, TrackerFollows, Busy
  <2> QED BY <2>1, <2>2, <2>3 DEF ServiceInv, TargetIsMapped, MappedIsStarted, StoppedWhenClosed
<1>9. ASSUME Close \/ CloseLock \/ CloseUnlock \/ CloseReturn \/ Tick \/ UNCHANGED vars PROVE ServiceInv'
  <2>1. /\ UNCHANGED <<pc, sub, target, workers, wpc, jobs, done, cur, tracker>>
        /\ closed => closed'
    BY <1>9 DEF Close, CloseLock, CloseUnlock, CloseReturn, Tick, vars, subVars, lockVars, workerVars
  <2>2. WorkInv'
    BY <2>1 DEF ServiceInv, WorkInv, OwnJobs, UnstartedIsEmpty, TrackerFollows, Busy
  <2> QED BY <2>1, <2>2 DEF ServiceInv, TargetIsMapped, MappedIsStarted, StoppedWhenClosed
<1> QED BY <1>1, <1>2, <1>3, <1>4, <1>5, <1>6, <1>7, <1>8, <1>9 DEF Next, SubmitStep, CloseStep

\* Initially nobody is past the look-up and no worker has been started.
LEMMA ServiceInit == Init => ServiceInv
<1> SUFFICES ASSUME Init PROVE ServiceInv
  OBVIOUS
<1>1. TargetIsMapped /\ MappedIsStarted /\ StoppedWhenClosed
  BY DEF Init, TargetIsMapped, MappedIsStarted, StoppedWhenClosed
<1>2. OwnJobs
  BY DEF Init, OwnJobs, Busy
<1>3. UnstartedIsEmpty /\ TrackerFollows
  BY DEF Init, UnstartedIsEmpty, TrackerFollows
<1> QED BY <1>1, <1>2, <1>3 DEF ServiceInv, WorkInv

InHandIsServing == \A p \in Printers : InHand(p) = IF Serving(p) THEN 1 ELSE 0

\* The worker that serves a printer is the one in the map, so a job is in hand
\* exactly when that worker is busy.
LEMMA InHandServing == TypeOK /\ QueueInv => InHandIsServing
<1> SUFFICES ASSUME TypeOK, QueueInv, NEW p \in Printers
             PROVE  InHand(p) = IF Serving(p) THEN 1 ELSE 0
  BY DEF InHandIsServing
<1>1. ASSUME NEW w \in Workers, w[1] = p, Busy(w) PROVE Serving(p)
  <2>1. PICK q \in Printers, r \in Submitters : w = <<q, r>>
    BY DEF Workers
  <2>2. q = p /\ wpc[<<p, r>>] # "none"
    BY <1>1, <2>1 DEF Busy
  <2>3. workers[p] = r
    BY <2>2 DEF QueueInv, StartedIsMapped
  <2> QED BY <1>1, <2>1, <2>2, <2>3, QueueAssumption DEF Serving, WorkerOf
<1>2. ASSUME Serving(p) PROVE \E w \in Workers : w[1] = p /\ Busy(w)
  <2>1. WorkerOf(p) \in Workers /\ WorkerOf(p)[1] = p /\ Busy(WorkerOf(p))
    BY <1>2 DEF Serving, WorkerOf, Workers, TypeOK
  <2> QED BY <2>1
<1> QED BY <1>1, <1>2 DEF InHand

\* A started worker is its printer's entry of the map.
LEMMA StartedIsOf ==
  ASSUME TypeOK, QueueInv, NEW w \in Workers, wpc[w] # "none"
  PROVE  /\ w[1] \in Printers /\ workers[w[1]] # NoOne /\ w = WorkerOf(w[1])
         /\ \A p \in Printers : p # w[1] => WorkerOf(p) # w
<1>1. PICK p \in Printers, r \in Submitters : w = <<p, r>>
  BY DEF Workers
<1>2. workers[p] = r
  BY <1>1 DEF QueueInv, StartedIsMapped
<1> QED BY <1>1, <1>2, QueueAssumption DEF WorkerOf

\* The books balance after each step, if they did before.
LEMMA LosslessStep ==
  TypeOK /\ QueueInv /\ QueueInv' /\ ServiceInv /\ NothingLost /\ [Next]_vars /\ TypeOK' => NothingLost'
<1> SUFFICES ASSUME TypeOK, QueueInv, QueueInv', ServiceInv, NothingLost, [Next]_vars, TypeOK',
                    ~ closed', NEW p \in Printers
             PROVE  (accepted[p] = finished[p] + Waiting(p) + InHand(p))'
  BY DEF NothingLost
<1> DEFINE Balanced == accepted[p] = finished[p] + Waiting(p) + InHand(p)
<1>0. ~ closed /\ Balanced
  <2>1. ~ closed
    BY DEF QueueInv, ClosedByCloser, Next, SubmitStep, WorkerStep, CloseStep, Submit, SeenRecently, Lock, Lookup,
           NewWorker, Unlock, SendJob, SendDone, Exit, Take, Progress, PrintCopies, Finish, Record,
           Close, CloseLock, Stop, CloseUnlock, CloseReturn, Tick, vars, lockVars
  <2> QED BY <2>1 DEF NothingLost
<1>1. /\ InHand(p) = IF Serving(p) THEN 1 ELSE 0
      /\ InHand(p)' = IF Serving(p)' THEN 1 ELSE 0
  <2>1. InHandIsServing /\ InHandIsServing'
    BY InHandServing, PTL
  <2> QED BY <2>1 DEF InHandIsServing
<1>2. /\ accepted[p] \in Nat /\ finished[p] \in Nat
      /\ workers[p] # NoOne => WorkerOf(p) \in Workers /\ jobs[WorkerOf(p)] \in Seq(Jobs)
  BY DEF TypeOK, WorkerOf, Workers
<1>3. ASSUME UNCHANGED <<accepted, finished, jobs, workers>>, \A w \in Workers : Busy(w)' <=> Busy(w)
      PROVE  Balanced'
  <2>1. Waiting(p)' = Waiting(p) /\ WorkerOf(p)' = WorkerOf(p)
    BY <1>3 DEF Waiting, WorkerOf
  <2>2. Serving(p)' <=> Serving(p)
    <3>1. CASE workers[p] = NoOne
      BY <1>3, <3>1 DEF Serving
    <3>2. CASE workers[p] # NoOne
      <4>1. Busy(WorkerOf(p))' <=> Busy(WorkerOf(p))
        BY <1>2, <1>3, <2>1, <3>2 DEF Busy
      <4> QED BY <1>3, <4>1 DEF Serving
    <3> QED BY <3>1, <3>2
  <2> QED BY <1>0, <1>1, <1>3, <2>1, <2>2
<1>4. ASSUME NEW r \in Submitters,
             \/ \E j \in Jobs : Submit(r, j)
             \/ SeenRecently(r) \/ Lock(r) \/ Lookup(r) \/ Unlock(r)
      PROVE  Balanced'
  <2>1. UNCHANGED <<accepted, finished, jobs, workers, wpc>>
    BY <1>4 DEF Submit, SeenRecently, Lock, Lookup, Unlock, lockVars, workerVars, histVars
  <2> QED BY <1>3, <2>1 DEF Busy
<1>5. ASSUME NEW r \in Submitters, NewWorker(r) PROVE Balanced'
  <2> DEFINE q == sub[r].printer
             w == <<q, r>>
  <2>1. q \in Printers /\ w \in Workers /\ workers[q] = NoOne /\ r # NoOne
    BY <1>5, QueueAssumption DEF NewWorker, TypeOK, QueueInv, CreatorSeesNone, Workers
  <2>2. /\ UNCHANGED <<accepted, finished, jobs>>
        /\ workers' = [workers EXCEPT ![q] = r]
        /\ \A v \in Workers : wpc'[v] = IF v = w THEN "select" ELSE wpc[v]
    BY <1>5 DEF NewWorker, histVars, TypeOK
  <2>3. wpc[w] = "none" /\ jobs[w] = <<>>
    BY <2>1 DEF QueueInv, StartedIsMapped, ServiceInv, WorkInv, UnstartedIsEmpty
  <2>4. CASE p = q
    <3>1. WorkerOf(p)' = w /\ workers'[p] = r
      BY <2>1, <2>2, <2>4 DEF WorkerOf, TypeOK
    <3>2. Waiting(p)' = 0 /\ Waiting(p) = 0
      BY <2>1, <2>2, <2>3, <2>4, <3>1 DEF Waiting
    <3>3. ~ Serving(p) /\ ~ Serving(p)'
      BY <2>1, <2>2, <2>4, <3>1 DEF Serving, Busy
    <3> QED BY <1>0, <1>1, <2>2, <3>2, <3>3
  <2>5. CASE p # q
    <3>1. WorkerOf(p)' = WorkerOf(p) /\ workers'[p] = workers[p] /\ WorkerOf(p) # w
      BY <2>2, <2>5 DEF WorkerOf, TypeOK
    <3>2. Waiting(p)' = Waiting(p)
      BY <2>2, <3>1 DEF Waiting
    <3>3. Serving(p)' <=> Serving(p)
      BY <1>2, <2>2, <3>1 DEF Serving, Busy
    <3> QED BY <1>0, <1>1, <2>2, <3>2, <3>3
  <2> QED BY <2>4, <2>5
<1>6. ASSUME NEW r \in Submitters, SendJob(r) PROVE Balanced'
  <2> DEFINE q == sub[r].printer
             w == <<q, target[r]>>
  <2>1. /\ pc[r] = "send" /\ UNCHANGED <<workers, wpc, finished>>
        /\ jobs' = [jobs EXCEPT ![w] = Append(jobs[w], sub[r])]
        /\ accepted' = [accepted EXCEPT ![q] = @ + 1]
    BY <1>6 DEF SendJob, lockVars, workerVars
  <2>2. q \in Printers /\ workers[q] = target[r] /\ target[r] # NoOne /\ sub[r] \in Jobs
    BY <2>1, QueueAssumption DEF ServiceInv, TargetIsMapped, TypeOK
  <2>3. w \in Workers /\ jobs[w] \in Seq(Jobs)
    BY <2>2 DEF TypeOK, Workers
  <2>4. Serving(p)' <=> Serving(p)
    BY <2>1 DEF Serving, WorkerOf, Busy
  <2>5. CASE p = q
    <3>1. Waiting(p)' = Waiting(p) + 1
      <4>1. Waiting(p) = Len(jobs[w])
        BY <2>2, <2>5 DEF Waiting
      <4>2. Waiting(p)' = Len(Append(jobs[w], sub[r]))
        BY <2>1, <2>2, <2>3, <2>5 DEF Waiting, TypeOK
      <4> QED BY <2>2, <2>3, <4>1, <4>2
    <3>2. accepted'[p] = accepted[p] + 1
      BY <2>1, <2>5 DEF TypeOK
    <3>3. Waiting(p) \in Nat
      BY <1>2 DEF Waiting, WorkerOf
    <3> QED BY <1>0, <1>1, <1>2, <2>1, <2>4, <3>1, <3>2, <3>3
  <2>6. CASE p # q
    <3>1. Waiting(p)' = Waiting(p)
      BY <2>1, <2>3, <2>6 DEF Waiting, TypeOK
    <3>2. accepted'[p] = accepted[p]
      BY <2>1, <2>6 DEF TypeOK
    <3> QED BY <1>0, <1>1, <2>1, <2>4, <3>1, <3>2
  <2> QED BY <2>5, <2>6
<1>7. ASSUME NEW r \in Submitters, SendDone(r) PROVE FALSE
  <2> DEFINE w == <<sub[r].printer, target[r]>>
  <2>1. w \in Workers
    BY <1>7, QueueAssumption DEF SendDone, ServiceInv, TargetIsMapped, TypeOK, Workers
  <2> QED BY <1>0, <1>7, <2>1 DEF SendDone, ServiceInv, StoppedWhenClosed
<1>8. ASSUME NEW w \in Workers, Exit(w) \/ Progress(w) \/ PrintCopies(w) \/ Finish(w) PROVE Balanced'
  <2>1. UNCHANGED <<accepted, finished, jobs, workers>>
    BY <1>8, ProgressLegal DEF Exit, Progress, PrintCopies, Finish, lockVars, histVars
  <2>2. NextEmit(wpc[w]) \in {"sent", "printing", "copies"}
    BY DEF NextEmit
  <2>3. PICK l : wpc' = [wpc EXCEPT ![w] = l] /\ l \in {"sent", "printing", "copies", "finish", "record", "exited"}
                 /\ (l = "exited" <=> wpc[w] = "select")
    BY <1>8, <2>2, ProgressLegal DEF Exit, Progress, PrintCopies, Finish
  <2>4. Busy(w) <=> wpc[w] # "select"
    BY <1>8 DEF Exit, Progress, PrintCopies, Finish, Busy
  <2>5. \A v \in Workers : Busy(v)' <=> Busy(v)
    BY <2>3, <2>4 DEF Busy, TypeOK
  <2> QED BY <1>3, <2>1, <2>5
<1>9. ASSUME NEW w \in Workers, Take(w) \/ Record(w) PROVE Balanced'
  <2> DEFINE q == w[1]
  <2>1. wpc[w] # "none" /\ UNCHANGED <<accepted, workers>>
    BY <1>9 DEF Take, Record, lockVars, histVars
  <2>2. q \in Printers /\ workers[q] # NoOne /\ w = WorkerOf(q) /\ (p # q => WorkerOf(p) # w)
    BY <2>1, StartedIsOf
  <2>3. WorkerOf(p)' = WorkerOf(p) /\ workers'[p] = workers[p]
    BY <2>1 DEF WorkerOf
  <2>4. CASE Take(w)
    <3>1. /\ wpc[w] = "select" /\ jobs[w] # <<>> /\ UNCHANGED finished
          /\ jobs' = [jobs EXCEPT ![w] = Tail(jobs[w])] /\ wpc' = [wpc EXCEPT ![w] = "queued"]
      BY <2>4 DEF Take, histVars
    <3>2. CASE p = q
      <4>1. Serving(p)' /\ ~ Serving(p)
        BY <2>2, <2>3, <3>1, <3>2 DEF Serving, Busy, TypeOK
      <4>2. Waiting(p) = Len(jobs[w]) /\ Waiting(p)' = Len(Tail(jobs[w]))
        <5>1. <<p, workers[p]>> = w /\ workers[p] # NoOne /\ workers'[p] = workers[p]
          BY <2>2, <2>3, <3>2 DEF WorkerOf
        <5>2. jobs'[w] = Tail(jobs[w])
          BY <3>1 DEF TypeOK
        <5> QED BY <5>1, <5>2 DEF Waiting
      <4>3. jobs[w] \in Seq(Jobs)
        BY DEF TypeOK
      <4>4. Waiting(p)' = Waiting(p) - 1 /\ Waiting(p) \in Nat
        BY <3>1, <4>2, <4>3
      <4> QED BY <1>0, <1>1, <1>2, <2>1, <3>1, <4>1, <4>4
    <3>3. CASE p # q
      <4>1. Waiting(p)' = Waiting(p) /\ (Serving(p)' <=> Serving(p))
        BY <1>2, <2>2, <2>3, <3>1, <3>3 DEF Waiting, Serving, WorkerOf, Busy, TypeOK
      <4> QED BY <1>0, <1>1, <2>1, <3>1, <4>1
    <3> QED BY <3>2, <3>3
  <2>5. CASE Record(w)
    <3>1. /\ wpc[w] = "record" /\ UNCHANGED jobs /\ wpc' = [wpc EXCEPT ![w] = "select"]
          /\ finished' = [finished EXCEPT ![cur[w].printer] = @ + 1]
      BY <2>5 DEF Record
    <3>2. cur[w].printer = q
      BY <3>1 DEF ServiceInv, WorkInv, OwnJobs, Busy
    <3>3. Waiting(p)' = Waiting(p) /\ Waiting(p) \in Nat
      BY <1>2, <2>3, <3>1 DEF Waiting, WorkerOf
    <3>4. CASE p = q
      <4>1. Serving(p) /\ ~ Serving(p)'
        BY <2>2, <2>3, <3>1, <3>4 DEF Serving, Busy, TypeOK
      <4>2. finished'[p] = finished[p] + 1
        BY <3>1, <3>2, <3>4 DEF TypeOK
      <4> QED BY <1>0, <1>1, <1>2, <2>1, <3>3, <4>1, <4>2
    <3>5. CASE p # q
      <4>1. Serving(p)' <=> Serving(p)
        BY <1>2, <2>2, <2>3, <3>1, <3>5 DEF Serving, WorkerOf, Busy, TypeOK
      <4>2. finished'[p] = finished[p]
        BY <3>1, <3>2, <3>5 DEF TypeOK
      <4> QED BY <1>0, <1>1, <2>1, <3>3, <4>1, <4>2
    <3> QED BY <3>4, <3>5
  <2> QED BY <1>9, <2>4, <2>5
<1>10. ASSUME \/ Close \/ CloseLock \/ (\E q \in Printers : Stop(q)) \/ CloseUnlock \/ CloseReturn
              \/ Tick \/ UNCHANGED vars
       PROVE  Balanced'
  <2>1. UNCHANGED <<accepted, finished, jobs, workers, wpc>>
    BY <1>10 DEF Close, CloseLock, Stop, CloseUnlock, CloseReturn, Tick, vars, lockVars, workerVars, histVars
  <2> QED BY <1>3, <2>1 DEF Busy
<1> QED BY <1>4, <1>5, <1>6, <1>7, <1>8, <1>9, <1>10 DEF Next, SubmitStep, WorkerStep, CloseStep

\* Whatever Submit accepted is on its printer's channel, in hand or finished, as
\* long as the queue is open: a submitter that let go of Queue.mu before it sends
\* still sends to the worker that serves its printer.
THEOREM Lossless == Spec => []NothingLost
<1>1. Init => NothingLost
  BY DEF Init, NothingLost, Waiting, InHand, Busy
<1> QED BY <1>1, LosslessStep, ServiceInit, ServiceStep, QueueInvInit, QueueInvStep, TypeCorrect, PTL DEF Spec

-----------------------------------------------------------------------------
(* The queue implements the spool.  Each step of a goroutine is a step of the    *)
(* spool or leaves what the spool shows unchanged.                               *)

\* A step that leaves the map, the channels and what the workers have in hand
\* alone cannot be seen at the spool.
LEMMA SpoolFrame ==
  ASSUME TypeOK, UNCHANGED <<workers, jobs, cur, tracker>>, \A w \in Workers : Busy(w)' <=> Busy(w),
         (closer = "returned")' = (closer = "returned")
  PROVE  UNCHANGED Spool!vars
<1>1. \A p \in Printers : WorkerOf(p)' = WorkerOf(p) /\ workers'[p] = workers[p]
  BY DEF WorkerOf
<1>2. \A p \in Printers : Serving(p)' <=> Serving(p)
  <2> SUFFICES ASSUME NEW p \in Printers PROVE Serving(p)' <=> Serving(p)
    OBVIOUS
  <2>1. CASE workers[p] = NoOne
    BY <1>1, <2>1 DEF Serving
  <2>2. CASE workers[p] # NoOne
    <3>1. WorkerOf(p) \in Workers
      BY <2>2 DEF WorkerOf, Workers, TypeOK
    <3>2. Busy(WorkerOf(p))' <=> Busy(WorkerOf(p))
      BY <1>1, <3>1 DEF Busy
    <3> QED BY <1>1, <3>2 DEF Serving
  <2> QED BY <2>1, <2>2
<1>3. spoolLine' = spoolLine
  BY <1>1 DEF spoolLine
<1>4. spoolActive' = spoolActive /\ spoolStatus' = spoolStatus
  BY <1>1, <1>2 DEF spoolActive, spoolStatus
<1> QED BY <1>3, <1>4 DEF Spool!vars

\* A function that differs from another at one argument is its update there.
LEMMA UpdateFunction ==
  ASSUME NEW A, NEW f, NEW g, f = [y \in A |-> f[y]], g = [y \in A |-> g[y]], NEW a \in A, NEW x,
         f[a] = x, \A y \in A : y # a => f[y] = g[y]
  PROVE  f = [g EXCEPT ![a] = x]
  OBVIOUS

\* A step of the worker of printer q, with w its place in the map, changes what
\* the spool shows of q only.
LEMMA SpoolWorker ==
  ASSUME TypeOK, QueueInv, NEW w \in Workers, wpc[w] # "none", UNCHANGED <<workers, closer>>,
         \A v \in Workers \ {w} : wpc'[v] = wpc[v] /\ jobs'[v] = jobs[v] /\ cur'[v] = cur[v]
                                  /\ tracker'[v] = tracker[v]
  PROVE  /\ w[1] \in Printers
         /\ spoolLine[w[1]] = jobs[w]
         /\ spoolActive[w[1]] = IF Busy(w) THEN cur[w] ELSE NoOne
         /\ spoolStatus[w[1]] = IF Busy(w) THEN tracker[w] ELSE "created"
         /\ spoolLine' = [spoolLine EXCEPT ![w[1]] = jobs'[w]]
         /\ spoolActive' = [spoolActive EXCEPT ![w[1]] = IF Busy(w)' THEN cur'[w] ELSE NoOne]
         /\ spoolStatus' = [spoolStatus EXCEPT ![w[1]] = IF Busy(w)' THEN tracker'[w] ELSE "created"]
<1> DEFINE q == w[1]
<1>1. /\ q \in Printers /\ workers[q] # NoOne /\ w = WorkerOf(q)
      /\ \A p \in Printers : p # q => WorkerOf(p) # w
  BY StartedIsOf
<1>2. \A p \in Printers : WorkerOf(p)' = WorkerOf(p) /\ workers'[p] = workers[p]
  BY DEF WorkerOf
<1>3. \A p \in Printers : workers[p] # NoOne => WorkerOf(p) \in Workers
  BY DEF WorkerOf, Workers, TypeOK
<1>4. (Serving(q) <=> Busy(w)) /\ (Serving(q)' <=> Busy(w)')
  BY <1>1, <1>2 DEF Serving, Busy
<1>5. \A p \in Printers : p # q => (Serving(p)' <=> Serving(p))
  BY <1>1, <1>2, <1>3 DEF Serving, Busy
<1>6. spoolLine[q] = jobs[w]
  BY <1>1 DEF spoolLine
<1>7. /\ spoolActive[q] = IF Busy(w) THEN cur[w] ELSE NoOne
      /\ spoolStatus[q] = IF Busy(w) THEN tracker[w] ELSE "created"
  BY <1>1, <1>4 DEF spoolActive, spoolStatus
<1>8. spoolLine' = [spoolLine EXCEPT ![q] = jobs'[w]]
  <2> DEFINE f == [p \in Printers |-> IF workers'[p] = NoOne THEN <<>> ELSE jobs'[WorkerOf(p)']]
             g == [p \in Printers |-> IF workers[p] = NoOne THEN <<>> ELSE jobs[WorkerOf(p)]]
  <2>1. \A p \in Printers : f[p] = IF p = q THEN jobs'[w] ELSE g[p]
    BY <1>1, <1>2, <1>3
  <2>2. f = [g EXCEPT ![q] = jobs'[w]]
    BY <2>1
  <2> QED BY <2>2 DEF spoolLine
<1>9. spoolActive' = [spoolActive EXCEPT ![q] = IF Busy(w)' THEN cur'[w] ELSE NoOne]
  <2> DEFINE f == [p \in Printers |-> IF Serving(p)' THEN cur'[WorkerOf(p)'] ELSE NoOne]
             g == [p \in Printers |-> IF Serving(p) THEN cur[WorkerOf(p)] ELSE NoOne]
             x == IF Busy(w)' THEN cur'[w] ELSE NoOne
  <2>1. f[q] = x
    BY <1>1, <1>2, <1>4
  <2>2. \A p \in Printers : p # q => f[p] = g[p]
    <3> SUFFICES ASSUME NEW p \in Printers, p # q PROVE f[p] = g[p]
      OBVIOUS
    <3>1. CASE Serving(p)
      <4>1. WorkerOf(p) \in Workers \ {w}
        BY <1>1, <1>3, <3>1 DEF Serving
      <4> QED BY <1>2, <1>5, <3>1, <4>1
    <3>2. CASE ~ Serving(p)
      BY <1>5, <3>2
    <3> QED BY <3>1, <3>2
  <2>3. f = [g EXCEPT ![q] = x]
    <3>1. f = [p \in Printers |-> f[p]] /\ g = [p \in Printers |-> g[p]]
      OBVIOUS
    <3> HIDE DEF f, g, x
    <3> QED BY <1>1, <2>1, <2>2, <3>1, UpdateFunction
  <2> QED BY <2>3 DEF spoolActive
<1>10. spoolStatus' = [spoolStatus EXCEPT ![q] = IF Busy(w)' THEN tracker'[w] ELSE "created"]
  <2> DEFINE f == [p \in Printers |-> IF Serving(p)' THEN tracker'[WorkerOf(p)'] ELSE "created"]
             g == [p \in Printers |-> IF Serving(p) THEN tracker[WorkerOf(p)] ELSE "created"]
             x == IF Busy(w)' THEN tracker'[w] ELSE "created"
  <2>1. f[q] = x
    BY <1>1, <1>2, <1>4
  <2>2. \A p \in Printers : p # q => f[p] = g[p]
    <3> SUFFICES ASSUME NEW p \in Printers, p # q PROVE f[p] = g[p]
      OBVIOUS
    <3>1. CASE Serving(p)
      <4>1. WorkerOf(p) \in Workers \ {w}
        BY <1>1, <1>3, <3>1 DEF Serving
      <4> QED BY <1>2, <1>5, <3>1, <4>1
    <3>2. CASE ~ Serving(p)
      BY <1>5, <3>2
    <3> QED BY <3>1, <3>2
  <2>3. f = [g EXCEPT ![q] = x]
    <3>1. f = [p \in Printers |-> f[p]] /\ g = [p \in Printers |-> g[p]]
      OBVIOUS
    <3> HIDE DEF f, g, x
    <3> QED BY <1>1, <2>1, <2>2, <3>1, UpdateFunction
  <2> QED BY <2>3 DEF spoolStatus
<1> QED BY <1>1, <1>6, <1>7, <1>8, <1>9, <1>10

\* Every step of the queue is a step of the spool, or none.
LEMMA SpoolStep == TypeOK /\ QueueInv /\ ServiceInv /\ [Next]_vars => [Spool!Next]_(Spool!vars)
<1> SUFFICES ASSUME TypeOK, QueueInv, ServiceInv, [Next]_vars PROVE [Spool!Next]_(Spool!vars)
  OBVIOUS
<1>1. ASSUME NEW r \in Submitters,
             \/ \E j \in Jobs : Submit(r, j)
             \/ SeenRecently(r) \/ Lock(r) \/ Lookup(r) \/ Unlock(r) \/ SendDone(r)
      PROVE  UNCHANGED Spool!vars
  <2>1. UNCHANGED <<workers, jobs, cur, tracker, wpc, closer>>
    BY <1>1 DEF Submit, SeenRecently, Lock, Lookup, Unlock, SendDone, lockVars, workerVars
  <2> QED BY <2>1, SpoolFrame DEF Busy
<1>2. ASSUME NEW r \in Submitters, NewWorker(r) PROVE UNCHANGED Spool!vars
  <2>0. PICK q \in Printers : q = sub[r].printer
    BY QueueAssumption DEF TypeOK
  <2> DEFINE w == <<q, r>>
  <2>1. w \in Workers /\ workers[q] = NoOne /\ r # NoOne
    BY <1>2, <2>0, QueueAssumption DEF NewWorker, QueueInv, CreatorSeesNone, Workers
  <2>2. /\ UNCHANGED <<jobs, cur, tracker, closer>>
        /\ \A p \in Printers : workers'[p] = IF p = q THEN r ELSE workers[p]
        /\ \A v \in Workers : wpc'[v] = IF v = w THEN "select" ELSE wpc[v]
    BY <1>2, <2>0 DEF NewWorker, TypeOK
  <2>3. wpc[w] = "none" /\ jobs[w] = <<>>
    BY <2>1 DEF QueueInv, StartedIsMapped, ServiceInv, WorkInv, UnstartedIsEmpty
  <2>4. WorkerOf(q)' = w /\ \A p \in Printers : p # q => WorkerOf(p)' = WorkerOf(p) /\ WorkerOf(p) # w
    BY <2>1, <2>2 DEF WorkerOf
  <2>5. ~ Serving(q) /\ ~ Serving(q)'
    BY <2>1, <2>2, <2>4 DEF Serving, Busy
  <2>6. \A p \in Printers : p # q => (Serving(p)' <=> Serving(p))
    <3> SUFFICES ASSUME NEW p \in Printers, p # q, workers[p] # NoOne PROVE Busy(WorkerOf(p))' <=> Busy(WorkerOf(p))
      BY <2>2 DEF Serving
    <3>1. WorkerOf(p) \in Workers
      BY DEF WorkerOf, Workers, TypeOK
    <3> QED BY <2>2, <2>4, <3>1 DEF Busy
  <2>7. spoolLine' = spoolLine
    <3> SUFFICES ASSUME NEW p \in Printers
                 PROVE  (IF workers[p] = NoOne THEN <<>> ELSE jobs[WorkerOf(p)])'
                          = IF workers[p] = NoOne THEN <<>> ELSE jobs[WorkerOf(p)]
      BY DEF spoolLine
    <3>1. CASE p = q
      BY <2>1, <2>2, <2>3, <2>4, <3>1
    <3>2. CASE p # q
      BY <2>2, <2>4, <3>2
    <3> QED BY <3>1, <3>2
  <2>8. spoolActive' = spoolActive /\ spoolStatus' = spoolStatus
    <3> SUFFICES ASSUME NEW p \in Printers
                 PROVE  /\ (IF Serving(p) THEN cur[WorkerOf(p)] ELSE NoOne)'
                             = IF Serving(p) THEN cur[WorkerOf(p)] ELSE NoOne
                        /\ (IF Serving(p) THEN tracker[WorkerOf(p)] ELSE "created")'
                             = IF Serving(p) THEN tracker[WorkerOf(p)] ELSE "created"
      BY DEF spoolActive, spoolStatus
    <3>1. CASE p = q
      BY <2>5, <3>1
    <3>2. CASE p # q
      BY <2>2, <2>4, <2>6, <3>2
    <3> QED BY <3>1, <3>2
  <2> QED BY <2>2, <2>7, <2>8 DEF Spool!vars
<1>3. ASSUME NEW r \in Submitters, SendJob(r) PROVE Spool!Next
  <2> DEFINE q == sub[r].printer
             w == <<q, target[r]>>
  <2>1. /\ pc[r] = "send" /\ UNCHANGED <<workers, wpc, cur, tracker, closer>>
        /\ jobs' = [jobs EXCEPT ![w] = Append(jobs[w], sub[r])]
    BY <1>3 DEF SendJob, lockVars, workerVars
  <2>2. q \in Printers /\ workers[q] = target[r] /\ target[r] # NoOne /\ sub[r] \in Jobs
    BY <2>1, QueueAssumption DEF ServiceInv, TargetIsMapped, TypeOK
  <2>3. w \in Workers /\ wpc[w] # "none"
    BY <2>2 DEF ServiceInv, MappedIsStarted, TypeOK, Workers
  <2>4. /\ jobs'[w] = Append(jobs[w], sub[r])
        /\ \A v \in Workers \ {w} : jobs'[v] = jobs[v]
    BY <2>1, <2>3 DEF TypeOK
  <2>5. w[1] = q /\ spoolLine[q] = jobs[w] /\ spoolLine' = [spoolLine EXCEPT ![q] = jobs'[w]]
    BY <2>1, <2>3, <2>4, SpoolWorker
  <2>6. spoolActive' = spoolActive /\ spoolStatus' = spoolStatus
    BY <2>1 DEF spoolActive, spoolStatus, Serving, WorkerOf, Busy
  <2>7. Spool!Enqueue(q, sub[r])
    BY <2>1, <2>4, <2>5, <2>6 DEF Spool!Enqueue
  <2> QED BY <2>2, <2>7 DEF Spool!Next
<1>4. ASSUME NEW w \in Workers, WorkerStep(w) PROVE [Spool!Next]_(Spool!vars)
  <2> DEFINE q == w[1]
  <2>1. UNCHANGED <<workers, closer>> /\ Alive(w) /\ wpc[w] # "none"
    BY <1>4 DEF WorkerStep, Exit, Take, Progress, PrintCopies, Finish, Record, lockVars, Alive, Busy
  <2>2. ~ (closer = "returned")
    BY <2>1 DEF QueueInv, QuietAfterClose
  <2>3. cur[w] # NoOne
    BY QueueAssumption DEF TypeOK
  <2>4. CASE Exit(w) \/ PrintCopies(w)
    <3>1. UNCHANGED <<jobs, cur, tracker>>
      BY <2>4 DEF Exit, PrintCopies
    <3>2. PICK l \in {"exited", "finish", "copies"} : wpc' = [wpc EXCEPT ![w] = l] /\ (l = "exited" <=> Exit(w))
      <4>1. CASE Exit(w)
        BY <4>1 DEF Exit
      <4>2. CASE PrintCopies(w)
        <5>1. PICK l \in {"finish", "copies"} : wpc' = [wpc EXCEPT ![w] = l]
          BY <4>2 DEF PrintCopies
        <5> QED BY <4>2, <5>1 DEF PrintCopies, Exit
      <4> QED BY <2>4, <4>1, <4>2
    <3>3. \A v \in Workers : Busy(v)' <=> Busy(v)
      BY <2>4, <3>2 DEF Exit, PrintCopies, Busy, TypeOK
    <3> QED BY <2>1, <3>1, <3>3, SpoolFrame
  <2>5. CASE Take(w)
    <3>1. /\ wpc[w] = "select" /\ jobs[w] # <<>>
          /\ cur' = [cur EXCEPT ![w] = Head(jobs[w])] /\ jobs' = [jobs EXCEPT ![w] = Tail(jobs[w])]
          /\ tracker' = [tracker EXCEPT ![w] = "created"] /\ wpc' = [wpc EXCEPT ![w] = "queued"]
      BY <2>5 DEF Take
    <3>2. /\ cur'[w] = Head(jobs[w]) /\ jobs'[w] = Tail(jobs[w]) /\ tracker'[w] = "created"
          /\ wpc'[w] = "queued"
          /\ \A v \in Workers \ {w} : wpc'[v] = wpc[v] /\ jobs'[v] = jobs[v] /\ cur'[v] = cur[v]
                                      /\ tracker'[v] = tracker[v]
      BY <3>1 DEF TypeOK
    <3>3. ~ Busy(w) /\ Busy(w)'
      BY <3>1, <3>2 DEF Busy
    <3>4. /\ q \in Printers /\ spoolLine[q] = jobs[w] /\ spoolActive[q] = NoOne
          /\ spoolLine' = [spoolLine EXCEPT ![q] = Tail(jobs[w])]
          /\ spoolActive' = [spoolActive EXCEPT ![q] = Head(jobs[w])]
          /\ spoolStatus' = [spoolStatus EXCEPT ![q] = "created"]
      BY <2>1, <3>2, <3>3, SpoolWorker
    <3>5. Spool!Begin(q)
      BY <2>1, <2>2, <3>1, <3>4 DEF Spool!Begin
    <3> QED BY <3>4, <3>5 DEF Spool!Next
  <2>6. ASSUME NEW s \in {"queued", "sent", "printing", "completed", "failed"},
               <<tracker[w], s>> \in Spool!Life, tracker' = [tracker EXCEPT ![w] = s],
               UNCHANGED <<jobs, cur>>, Busy(w), Busy(w)',
               \A v \in Workers \ {w} : wpc'[v] = wpc[v]
        PROVE  Spool!Next
    <3>1. /\ jobs'[w] = jobs[w] /\ cur'[w] = cur[w] /\ tracker'[w] = s
          /\ \A v \in Workers \ {w} : wpc'[v] = wpc[v] /\ jobs'[v] = jobs[v] /\ cur'[v] = cur[v]
                                      /\ tracker'[v] = tracker[v]
      BY <2>6 DEF TypeOK
    <3>2. /\ q \in Printers /\ spoolLine[q] = jobs[w] /\ spoolActive[q] = cur[w] /\ spoolStatus[q] = tracker[w]
          /\ spoolLine' = [spoolLine EXCEPT ![q] = jobs[w]]
          /\ spoolActive' = [spoolActive EXCEPT ![q] = cur[w]]
          /\ spoolStatus' = [spoolStatus EXCEPT ![q] = s]
      BY <2>1, <2>6, <3>1, SpoolWorker
    <3>3. spoolLine' = spoolLine /\ spoolActive' = spoolActive
      BY <3>2 DEF spoolLine, spoolActive
    <3>4. Spool!Report(q, s)
      BY <2>1, <2>2, <2>3, <2>6, <3>2, <3>3 DEF Spool!Report
    <3> QED BY <3>2, <3>4 DEF Spool!Next
  <2>7. CASE Progress(w)
    <3>1. /\ tracker' = [tracker EXCEPT ![w] = wpc[w]]
          /\ wpc' = [wpc EXCEPT ![w] = NextEmit(wpc[w])]
          /\ UNCHANGED <<jobs, cur>> /\ wpc[w] \in {"queued", "sent", "printing"}
      BY <2>7, ProgressLegal DEF Progress
    <3>2. NextEmit(wpc[w]) \in {"sent", "printing", "copies"}
      BY DEF NextEmit
    <3>3. Busy(w) /\ Busy(w)' /\ \A v \in Workers \ {w} : wpc'[v] = wpc[v]
      BY <3>1, <3>2 DEF Busy, TypeOK
    <3>4. <<tracker[w], wpc[w]>> \in Spool!Life
      BY <3>1 DEF ServiceInv, WorkInv, TrackerFollows, Spool!Life
    <3> QED BY <2>6, <3>1, <3>3, <3>4
  <2>8. CASE Finish(w)
    <3>1. PICK s \in {"completed", "failed"} : tracker' = [tracker EXCEPT ![w] = s]
      BY <2>8, FinishLegal
    <3>2. /\ wpc' = [wpc EXCEPT ![w] = "record"] /\ wpc[w] = "finish" /\ tracker[w] = "printing"
          /\ UNCHANGED <<jobs, cur>>
      BY <2>8, FinishLegal DEF Finish
    <3>3. Busy(w) /\ Busy(w)' /\ \A v \in Workers \ {w} : wpc'[v] = wpc[v]
      BY <3>2 DEF Busy, TypeOK
    <3>4. <<tracker[w], s>> \in Spool!Life
      BY <3>2 DEF Spool!Life
    <3> QED BY <2>6, <3>1, <3>2, <3>3, <3>4
  <2>9. CASE Record(w)
    <3>1. wpc[w] = "record" /\ wpc' = [wpc EXCEPT ![w] = "select"] /\ UNCHANGED <<jobs, cur, tracker>>
      BY <2>9 DEF Record
    <3>2. Busy(w) /\ ~ Busy(w)' /\ \A v \in Workers \ {w} : wpc'[v] = wpc[v]
      BY <3>1 DEF Busy, TypeOK
    <3>3. tracker[w] \in {"completed", "failed"}
      BY <3>1 DEF ServiceInv, WorkInv, TrackerFollows
    <3>4. /\ q \in Printers /\ spoolLine[q] = jobs[w] /\ spoolActive[q] = cur[w] /\ spoolStatus[q] = tracker[w]
          /\ spoolLine' = [spoolLine EXCEPT ![q] = jobs[w]]
          /\ spoolActive' = [spoolActive EXCEPT ![q] = NoOne]
          /\ spoolStatus' = [spoolStatus EXCEPT ![q] = "created"]
      BY <2>1, <3>1, <3>2, SpoolWorker
    <3>5. spoolLine' = spoolLine
      BY <3>4 DEF spoolLine
    <3>6. Spool!End(q)
      BY <2>1, <2>2, <2>3, <3>3, <3>4, <3>5 DEF Spool!End
    <3> QED BY <3>4, <3>6 DEF Spool!Next
  <2> QED BY <1>4, <2>4, <2>5, <2>7, <2>8, <2>9 DEF WorkerStep
<1>5. ASSUME Close \/ CloseLock \/ (\E p \in Printers : Stop(p)) \/ CloseUnlock \/ Tick \/ UNCHANGED vars
      PROVE  UNCHANGED Spool!vars
  <2>1. /\ UNCHANGED <<workers, jobs, cur, tracker, wpc>>
        /\ closer' = "returned" <=> closer = "returned"
    BY <1>5 DEF Close, CloseLock, Stop, CloseUnlock, Tick, vars, lockVars, workerVars
  <2> QED BY <2>1, SpoolFrame DEF Busy
<1>6. ASSUME CloseReturn PROVE Spool!Next
  <2>1. UNCHANGED <<workers, jobs, cur, tracker, wpc>> /\ closer' = "returned"
    BY <1>6 DEF CloseReturn, workerVars
  <2>2. UNCHANGED <<spoolLine, spoolActive, spoolStatus>>
    BY <2>1 DEF spoolLine, spoolActive, spoolStatus, Serving, WorkerOf, Busy
  <2>3. \A p \in Printers : ~ Serving(p)
    BY <1>6 DEF CloseReturn, Serving, WorkerOf, Busy, Workers, TypeOK
  <2>4. \A p \in Printers : spoolActive[p] = NoOne
    BY <2>3 DEF spoolActive
  <2>5. Spool!Shut
    BY <2>1, <2>2, <2>4 DEF Spool!Shut
  <2> QED BY <2>5 DEF Spool!Next
<1> QED BY <1>1, <1>2, <1>3, <1>4, <1>5, <1>6 DEF Next, SubmitStep, CloseStep

\* The queue serves each printer's jobs in the order in which Submit accepted them,
\* one at a time, through the whole life cycle, and not at all after Close: the
\* print queue with its mutex, its goroutines and channels implements the spool.
THEOREM Refines == Spec => ImplementsSpool
<1>1. Init => Spool!Init
  BY DEF Init, Spool!Init, spoolLine, spoolActive, spoolStatus, Serving
<1> QED BY <1>1, SpoolStep, ServiceInit, ServiceStep, QueueInvInit, QueueInvStep, TypeCorrect, PTL
        DEF Spec, ImplementsSpool, Spool!Spec
-----------------------------------------------------------------------------

Records  == [id : JobIds, state : States]
Outbound == [type : {"job_ack", "job_status", "error"}, id : JobIds, state : States \cup {"none"}]

-----------------------------------------------------------------------------
(* The queue inside the bridge *)

\* Every step of the bridge is a step of the queue, or leaves the queue alone.
LEMMA BridgeIsQueue ==
  ASSUME given \in [Submitters -> Jobs], [BridgeNext]_allVars
  PROVE  [Next]_vars
<1>1. ASSUME NEW r \in Submitters, CallSubmit(r) PROVE Next
  <2>1. given[r] \in Jobs /\ Submit(r, given[r])
    BY <1>1 DEF CallSubmit
  <2> QED
    BY <2>1 DEF Next
<1>2. ASSUME NEW r \in Submitters, InSubmit(r) PROVE Next
  BY <1>2 DEF InSubmit, Next
<1>3. ASSUME NEW w \in Workers, InWorker(w) \/ InEmit(w) PROVE Next
  <2>1. WorkerStep(w)
    BY <1>3 DEF InWorker, InEmit, WorkerStep
  <2> QED
    BY <2>1 DEF Next
<1>4. CASE InClose
  BY <1>4 DEF InClose, Next
<1>5. CASE \/ \E r \in Submitters : SubmitReturned(r) \/ \E j \in Jobs : HandleJobDeliver(r, j)
           \/ \E w \in Workers : RecordJob(w) \/ SendStatus(w)
           \/ WriteLoop
           \/ UNCHANGED allVars
  <2>1. UNCHANGED vars
    BY <1>5 DEF SubmitReturned, HandleJobDeliver, RecordJob, SendStatus, WriteLoop, allVars
  <2> QED
    BY <2>1
<1> QED
  BY <1>1, <1>2, <1>3, <1>4, <1>5 DEF BridgeNext

\* A message is offered to Client.out, which keeps its capacity.
LEMMA SendType ==
  ASSUME buffer \in Seq(Outbound), Len(buffer) <= BufferCap, NEW m \in Outbound, ClientSend(m)
  PROVE  buffer' \in Seq(Outbound) /\ Len(buffer') <= BufferCap
<1>1. Len(buffer) \in Nat /\ Append(buffer, m) \in Seq(Outbound) /\ Len(Append(buffer, m)) = Len(buffer) + 1
  BY LenProperties, AppendProperties
<1> QED
  BY <1>1, BridgeAssumption DEF ClientSend

\* An answer is booked once, as taken or as refused.
LEMMA AnswerBooked ==
  ASSUME answers \in Nat, refused \in Nat, NEW m, SendAnswer(m)
  PROVE  ClientSend(m) /\ answers' \in Nat /\ refused' \in Nat /\ answers' + refused' = answers + refused + 1
BY DEF SendAnswer

\* The last element of v is rec, the others are those of s from off on, without a
\* trailing one that has the id of rec.
Follows(v, s, rec, off) ==
  /\ v[Len(v)] = rec
  /\ \A k \in 1 .. Len(v) - 1 : k + off \in 1 .. Len(s) /\ v[k] = s[k + off]
  /\ \A m \in 1 .. Len(s) : m - off < 1 \/ m - off \in 1 .. Len(v) - 1 \/ s[m].id = rec.id

\* What recordJob makes of the ring: the new record is the last one, the records before
\* it are those of the old ring, without the oldest ones and without a trailing record
\* of the same job.
LEMMA RecordEffect ==
  ASSUME NEW s \in Seq(Records), Len(s) <= MaxJobRecords, NEW rec \in Records
  PROVE  /\ WithRecord(s, rec) \in Seq(Records) /\ Len(WithRecord(s, rec)) \in 1 .. MaxJobRecords
         /\ \E off \in Nat : Follows(WithRecord(s, rec), s, rec, off)
<1> DEFINE t == IF s # <<>> /\ s[Len(s)].id = rec.id THEN [s EXCEPT ![Len(s)] = rec] ELSE Append(s, rec)
           cut == Len(t) - MaxJobRecords
           u == SubSeq(t, cut + 1, Len(t))
<1>0. Len(s) \in Nat /\ MaxJobRecords \in Nat \ {0} /\ \A k \in 1 .. Len(s) : s[k] \in Records
  BY LenProperties, ElementOfSeq, BridgeAssumption
<1>1. /\ t \in Seq(Records) /\ Len(t) \in Nat /\ Len(t) >= 1 /\ Len(t) <= Len(s) + 1 /\ t[Len(t)] = rec
      /\ \A k \in 1 .. Len(t) - 1 : k \in 1 .. Len(s) /\ t[k] = s[k]
      /\ \A m \in 1 .. Len(s) : m \in 1 .. Len(t) - 1 \/ s[m].id = rec.id
  <2>1. CASE s # <<>> /\ s[Len(s)].id = rec.id
    <3>1. t = [s EXCEPT ![Len(s)] = rec]
      BY <2>1
    <3>2. Len(s) \in 1 .. Len(s)
      BY <1>0, <2>1, EmptySeq
    <3> HIDE DEF t
    <3>3. t \in Seq(Records) /\ Len(t) = Len(s) /\ \A j \in 1 .. Len(s) : t[j] = IF j = Len(s) THEN rec ELSE s[j]
      BY <3>1, <3>2, ExceptSeq
    <3> QED
      BY <1>0, <2>1, <3>2, <3>3
  <2>2. CASE ~ (s # <<>> /\ s[Len(s)].id = rec.id)
    <3>1. t = Append(s, rec)
      BY <2>2, Zenon
    <3> HIDE DEF t
    <3>2. /\ t \in Seq(Records) /\ Len(t) = Len(s) + 1
          /\ \A i \in 1 .. Len(s) : t[i] = s[i]
          /\ t[Len(s) + 1] = rec
      BY <3>1, AppendProperties
    <3> QED
      BY <1>0, <3>2
  <2> QED
    BY <2>1, <2>2
<1>2. WithRecord(s, rec) = IF Len(t) > MaxJobRecords THEN u ELSE t
  BY DEF WithRecord
<1> HIDE DEF t
<1>3. CASE Len(t) <= MaxJobRecords
  <2>1. WithRecord(s, rec) = t
    BY <1>0, <1>1, <1>2, <1>3
  <2>2. Follows(t, s, rec, 0)
    BY <1>0, <1>1 DEF Follows
  <2>3. 0 \in Nat
    OBVIOUS
  <2> QED
    BY <1>0, <1>1, <1>3, <2>1, <2>2, <2>3
<1>4. CASE Len(t) > MaxJobRecords
  <2>1. WithRecord(s, rec) = u
    BY <1>2, <1>4
  <2>2. cut = 1
    BY <1>0, <1>1, <1>4
  <2>3. /\ u \in Seq(Records) /\ Len(u) = Len(t) - 1
        /\ \A i \in 1 .. Len(t) - 1 : u[i] = t[i + 1]
    <3>1. \A i \in 2 .. Len(t) : t[i] \in Records
      BY <1>1, ElementOfSeq
    <3>2. u = SubSeq(t, 2, Len(t))
      BY <2>2
    <3> HIDE DEF u
    <3>3. /\ u \in Seq(Records) /\ Len(u) = IF 2 <= Len(t) THEN Len(t) - 2 + 1 ELSE 0
          /\ \A i \in 1 .. Len(t) - 2 + 1 : u[i] = t[2 + i - 1]
      BY <1>1, <3>1, <3>2, SubSeqProperties
    <3> QED
      BY <1>0, <1>1, <1>4, <3>3
  <2> HIDE DEF u, cut
  <2>4. Follows(u, s, rec, 1)
    BY <1>0, <1>1, <1>4, <2>3 DEF Follows
  <2>5. Len(u) \in 1 .. MaxJobRecords /\ 1 \in Nat
    BY <1>0, <1>1, <1>4, <2>3
  <2> QED
    BY <2>1, <2>3, <2>4, <2>5
<1>5. Len(t) <= MaxJobRecords \/ Len(t) > MaxJobRecords
  BY <1>0, <1>1
<1> QED
  BY <1>3, <1>4, <1>5, Zenon
\* The state the bridge adds to the queue has its types at the start.
LEMMA BridgeTypeInit == BridgeInit => BridgeTypeOK
<1> SUFFICES ASSUME BridgeInit PROVE BridgeTypeOK
  OBVIOUS
<1>1. given \in [Submitters -> Jobs]
  BY SomeJob DEF BridgeInit
<1>2. ring \in Seq(Records) /\ buffer \in Seq(Outbound) /\ Len(ring) = 0 /\ Len(buffer) = 0
  BY EmptySeq DEF BridgeInit
<1> QED
  BY <1>1, <1>2, BridgeAssumption DEF BridgeInit, BridgeTypeOK, Records, Outbound

\* Every step keeps the types.
LEMMA BridgeTypeStep == TypeOK /\ BridgeTypeOK /\ [BridgeNext]_allVars => BridgeTypeOK'
<1> SUFFICES ASSUME TypeOK, BridgeTypeOK, [BridgeNext]_allVars PROVE BridgeTypeOK'
  OBVIOUS
<1>a. /\ buffer \in Seq(Outbound) /\ Len(buffer) <= BufferCap
      /\ ring \in Seq(Records) /\ Len(ring) <= MaxJobRecords
      /\ \A j \in Jobs : j.id \in JobIds
      /\ cur \in [Workers -> Jobs] /\ tracker \in [Workers -> States]
  BY QueueAssumption DEF BridgeTypeOK, TypeOK, Outbound, Records
<1>1. ASSUME NEW r \in Submitters, NEW j \in Jobs, HandleJobDeliver(r, j)
      PROVE  BridgeTypeOK'
  <2>1. Ack(j.id) \in Outbound
    BY <1>a DEF Ack, Message, Outbound
  <2>2. buffer' \in Seq(Outbound) /\ Len(buffer') <= BufferCap
    BY <1>a, <1>1, <2>1, SendType DEF HandleJobDeliver
  <2> QED
    BY <1>1, <2>2 DEF HandleJobDeliver, BridgeTypeOK, Outbound
<1>2. ASSUME NEW r \in Submitters, CallSubmit(r) \/ InSubmit(r)
      PROVE  BridgeTypeOK'
  BY <1>2 DEF CallSubmit, InSubmit, bridgeVars, BridgeTypeOK
<1>3. ASSUME NEW r \in Submitters, SubmitReturned(r)
      PROVE  BridgeTypeOK'
  <2>1. Error(given[r].id) \in Outbound
    BY <1>a DEF Error, Message, Outbound, BridgeTypeOK
  <2>2. buffer' \in Seq(Outbound) /\ Len(buffer') <= BufferCap
    BY <1>a, <1>3, <2>1, SendType DEF SubmitReturned, SendAnswer
  <2>3. answers' \in Nat /\ refused' \in Nat
    BY <1>3, AnswerBooked DEF SubmitReturned, BridgeTypeOK
  <2> QED
    BY <1>3, <2>2, <2>3 DEF SubmitReturned, BridgeTypeOK, Outbound
<1>4. ASSUME NEW w \in Workers, InWorker(w) \/ InEmit(w)
      PROVE  BridgeTypeOK'
  BY <1>4 DEF InWorker, InEmit, bridgeVars, BridgeTypeOK
<1>5. ASSUME NEW w \in Workers, RecordJob(w)
      PROVE  BridgeTypeOK'
  <2> DEFINE rec == [id |-> cur[w].id, state |-> tracker[w]]
  <2>1. rec \in Records
    BY <1>a DEF Records
  <2>2. ring' = WithRecord(ring, rec)
    BY <1>5 DEF RecordJob
  <2> HIDE DEF rec
  <2>3. ring' \in Seq(Records) /\ Len(ring') \in 1 .. MaxJobRecords
    BY <1>a, <2>1, <2>2, RecordEffect
  <2>4. ring' \in Seq(Records) /\ Len(ring') <= MaxJobRecords
    BY <2>3, BridgeAssumption
  <2> QED
    BY <1>5, <2>4 DEF RecordJob, BridgeTypeOK, Records
<1>6. ASSUME NEW w \in Workers, SendStatus(w)
      PROVE  BridgeTypeOK'
  <2>1. JobStatus(cur[w].id, tracker[w]) \in Outbound
    BY <1>a DEF JobStatus, Message, Outbound
  <2>2. buffer' \in Seq(Outbound) /\ Len(buffer') <= BufferCap
    BY <1>a, <1>6, <2>1, SendType DEF SendStatus, SendAnswer
  <2>3. answers' \in Nat /\ refused' \in Nat
    BY <1>6, AnswerBooked DEF SendStatus, BridgeTypeOK
  <2> QED
    BY <1>6, <2>2, <2>3 DEF SendStatus, BridgeTypeOK, Outbound
<1>7. CASE WriteLoop
  <2>1. buffer' = Tail(buffer) /\ buffer # <<>>
    BY <1>7 DEF WriteLoop
  <2>2. buffer' \in Seq(Outbound) /\ Len(buffer') = Len(buffer) - 1 /\ Len(buffer) \in Nat
    BY <1>a, <2>1, HeadTailProperties, LenProperties
  <2>3. Len(buffer') <= BufferCap
    BY <1>a, <2>2, BridgeAssumption
  <2> QED
    BY <1>7, <2>2, <2>3 DEF WriteLoop, BridgeTypeOK, Outbound
<1>8. CASE InClose \/ UNCHANGED allVars
  BY <1>8 DEF InClose, allVars, bridgeVars, BridgeTypeOK
<1> QED
  BY <1>1, <1>2, <1>3, <1>4, <1>5, <1>6, <1>7, <1>8 DEF BridgeNext

\* The invariants of the queue, proved of JobQueue, in one piece.
LEMMA QueueInvariants == Spec => [](TypeOK /\ QueueInv /\ ServiceInv)
  BY TypeCorrect, QueueInvInit, QueueInvStep, ServiceInit, ServiceStep, PTL DEF Spec

\* The bridge runs the queue: each of its behaviours is one of JobQueue's, so that the
\* queue serves each printer in order, loses nothing, remembers what it handled and is
\* quiet after Close inside the bridge too.
THEOREM RunsQueue == BridgeSpec => Spec
<1>1. BridgeInit => Init
  BY DEF BridgeInit
<1>2. BridgeTypeOK => given \in [Submitters -> Jobs]
  BY DEF BridgeTypeOK
<1>3. BridgeTypeOK /\ [BridgeNext]_allVars => [Next]_vars
  BY <1>2, BridgeIsQueue
<1>4. TypeOK /\ BridgeTypeOK /\ [BridgeNext]_allVars => (TypeOK /\ BridgeTypeOK)'
  BY <1>3, TypeStep, BridgeTypeStep
<1> QED
  BY <1>1, <1>3, <1>4, TypeInit, BridgeTypeInit, PTL DEF BridgeSpec, Spec

\* The buffer and the ring of records keep their limits, and everything its type.
THEOREM BridgeTypeCorrect == BridgeSpec => []BridgeTypeOK
<1>1. TypeOK /\ BridgeTypeOK /\ [BridgeNext]_allVars => BridgeTypeOK'
  BY BridgeTypeStep
<1> QED
  BY <1>1, RunsQueue, TypeCorrect, BridgeTypeInit, PTL DEF BridgeSpec

-----------------------------------------------------------------------------
(* Where the read loops and the workers stand.  A read loop inside Submit is in  *)
(* handleJobDeliver, and a worker is in the sink only while it has a job.        *)

LoopsCall == \A r \in Submitters : pc[r] # "idle" => handler[r] = "called"
SinkBusy  == \A w \in Workers : sink[w] # "none" => Busy(w)

StandInv  == LoopsCall /\ SinkBusy
BridgeInv == TypeOK /\ QueueInv /\ ServiceInv /\ BridgeTypeOK /\ StandInv

\* A worker that Submit creates was not there before.
LEMMA CreatedIsNew ==
  ASSUME TypeOK, QueueInv, NEW r \in Submitters, NewWorker(r)
  PROVE  \E v \in Workers : wpc[v] = "none" /\ wpc' = [wpc EXCEPT ![v] = "select"]
<1>1. sub[r].printer \in Printers /\ <<sub[r].printer, r>> \in Workers
  BY QueueAssumption DEF TypeOK, Workers
<1>2. workers[sub[r].printer] = NoOne
  BY DEF NewWorker, QueueInv, CreatorSeesNone
<1>3. wpc[<<sub[r].printer, r>>] = "none"
  BY <1>1, <1>2, QueueAssumption DEF QueueInv, StartedIsMapped
<1> QED
  BY <1>1, <1>3 DEF NewWorker

\* What a step inside Submit does to the workers: nothing to those that have a job.
LEMMA SubmitWorkers ==
  ASSUME TypeOK, QueueInv, NEW r \in Submitters, SubmitStep(r)
  PROVE  /\ UNCHANGED <<cur, tracker>> /\ \A w \in Workers : Busy(w)' <=> Busy(w)
         /\ \A w \in Workers : wpc'[w] # wpc[w] => ~ Busy(w) /\ ~ Busy(w)'
<1>1. CASE NewWorker(r)
  <2>1. PICK v \in Workers : wpc[v] = "none" /\ wpc' = [wpc EXCEPT ![v] = "select"]
    BY <1>1, CreatedIsNew
  <2> QED
    BY <1>1, <2>1 DEF NewWorker, Busy, TypeOK
<1>2. CASE ~ NewWorker(r)
  <2>1. UNCHANGED <<wpc, cur, tracker>>
    BY <1>2 DEF SubmitStep, SeenRecently, Lock, Lookup, Unlock, SendJob, SendDone, workerVars
  <2> QED
    BY <2>1 DEF Busy
<1> QED
  BY <1>1, <1>2

\* What an emit does to the worker: its tracker moves, it keeps its job, the sink runs.
LEMMA EmitEffect ==
  ASSUME BridgeInv, NEW w \in Workers, InEmit(w)
  PROVE  /\ Busy(w) /\ Busy(w)' /\ sink[w] = "none" /\ sink' = [sink EXCEPT ![w] = "record"]
         /\ wpc[w] # "record" /\ UNCHANGED <<cur, jobs, closed, pc, result>>
         /\ \A v \in Workers : v # w => wpc'[v] = wpc[v] /\ tracker'[v] = tracker[v]
<1>a. /\ wpc \in [Workers -> WorkerPcs] /\ tracker \in [Workers -> States] /\ TypeOK /\ ServiceInv
  BY DEF BridgeInv, TypeOK
<1>b. sink[w] = "none" /\ sink' = [sink EXCEPT ![w] = IF tracker'[w] = tracker[w] THEN "none" ELSE "record"]
  BY DEF InEmit
<1>1. CASE Progress(w)
  <2>1. /\ wpc[w] \in {"queued", "sent", "printing"}
        /\ UNCHANGED <<cur, jobs, closed, pc, result>>
    BY <1>1 DEF Progress, subVars, lockVars
  <2>2. /\ CanTransition(tracker[w], wpc[w])
        /\ tracker' = [tracker EXCEPT ![w] = wpc[w]]
        /\ wpc' = [wpc EXCEPT ![w] = NextEmit(wpc[w])]
    BY <1>1, <1>a, ProgressLegal
  <2>3. tracker'[w] # tracker[w]
    BY <1>a, <2>1, <2>2 DEF CanTransition, allowed, States
  <2>4. Busy(w) /\ Busy(w)'
    BY <1>a, <2>1, <2>2 DEF Busy, NextEmit
  <2> QED
    BY <1>a, <1>b, <2>1, <2>2, <2>3, <2>4
<1>2. CASE Finish(w)
  <2>1. UNCHANGED <<cur, jobs, closed, pc, result>>
    BY <1>2 DEF Finish, subVars, lockVars
  <2>2. /\ wpc[w] = "finish" /\ tracker[w] = "printing" /\ wpc' = [wpc EXCEPT ![w] = "record"]
        /\ \E s \in {"completed", "failed"} : tracker' = [tracker EXCEPT ![w] = s]
    BY <1>2, <1>a, FinishLegal
  <2>3. Busy(w) /\ Busy(w)' /\ tracker'[w] # tracker[w]
    BY <1>a, <2>2 DEF Busy
  <2> QED
    BY <1>a, <1>b, <2>1, <2>2, <2>3
<1> QED
  BY <1>1, <1>2 DEF InEmit

\* A step of a worker outside its emits moves that worker alone.
LEMMA WorkerEffect ==
  ASSUME BridgeInv, NEW w \in Workers, InWorker(w)
  PROVE  /\ sink[w] = "none" /\ UNCHANGED bridgeVars
         /\ \A v \in Workers : v # w => wpc'[v] = wpc[v] /\ tracker'[v] = tracker[v] /\ cur'[v] = cur[v]
         /\ UNCHANGED <<closed, pc, result>>
<1>a. /\ wpc \in [Workers -> WorkerPcs] /\ tracker \in [Workers -> States] /\ cur \in [Workers -> Jobs]
  BY DEF BridgeInv, TypeOK
<1>1. CASE Exit(w)
  BY <1>a, <1>1 DEF InWorker, Exit, subVars, lockVars
<1>2. CASE Take(w)
  BY <1>a, <1>2 DEF InWorker, Take, subVars, lockVars
<1>3. CASE PrintCopies(w)
  BY <1>a, <1>3 DEF InWorker, PrintCopies, subVars, lockVars
<1>4. CASE Record(w)
  BY <1>a, <1>4 DEF InWorker, Record, subVars, lockVars
<1> QED
  BY <1>1, <1>2, <1>3, <1>4 DEF InWorker

\* A step inside Submit starts there.
LEMMA InsideSubmit ==
  ASSUME TypeOK, NEW r \in Submitters, SubmitStep(r)
  PROVE  pc[r] # "idle" /\ \A q \in Submitters : q # r => pc'[q] = pc[q] /\ result'[q] = result[q]
<1>1. CASE SeenRecently(r) \/ SendJob(r) \/ SendDone(r)
  BY <1>1 DEF SeenRecently, SendJob, SendDone, Return, TypeOK
<1>2. CASE Lookup(r)
  BY <1>2 DEF Lookup, Return, TypeOK
<1>3. CASE Lock(r) \/ NewWorker(r) \/ Unlock(r)
  BY <1>3 DEF Lock, NewWorker, Unlock, TypeOK
<1> QED
  BY <1>1, <1>2, <1>3 DEF SubmitStep

\* Every step keeps them where they may stand.
LEMMA StandStep == BridgeInv /\ [BridgeNext]_allVars => StandInv'
<1> SUFFICES ASSUME BridgeInv, [BridgeNext]_allVars PROVE StandInv'
  OBVIOUS
<1>a. /\ TypeOK /\ QueueInv /\ ServiceInv /\ LoopsCall /\ SinkBusy
      /\ handler \in [Submitters -> {"idle", "submit", "called"}]
      /\ sink \in [Workers -> {"none", "record", "send"}]
      /\ pc \in [Submitters -> SubmitPcs]
  BY DEF BridgeInv, BridgeTypeOK, StandInv, TypeOK
<1>1. ASSUME NEW r \in Submitters, NEW j \in Jobs, HandleJobDeliver(r, j)
      PROVE  StandInv'
  <2>1. handler[r] = "idle" /\ handler' = [handler EXCEPT ![r] = "submit"] /\ UNCHANGED <<pc, wpc, sink>>
    BY <1>1 DEF HandleJobDeliver, vars, subVars, workerVars
  <2> QED
    BY <1>a, <2>1 DEF StandInv, LoopsCall, SinkBusy, Busy
<1>2. ASSUME NEW r \in Submitters, CallSubmit(r)
      PROVE  StandInv'
  <2>1. /\ handler' = [handler EXCEPT ![r] = "called"] /\ UNCHANGED <<wpc, sink>>
        /\ \A q \in Submitters : q # r => pc'[q] = pc[q]
    BY <1>a, <1>2 DEF CallSubmit, Submit, Return, workerVars
  <2> QED
    BY <1>a, <2>1 DEF StandInv, LoopsCall, SinkBusy, Busy
<1>3. ASSUME NEW r \in Submitters, InSubmit(r)
      PROVE  StandInv'
  <2>1. SubmitStep(r) /\ UNCHANGED <<handler, sink>>
    BY <1>3 DEF InSubmit, bridgeVars
  <2>2. \A w \in Workers : Busy(w)' <=> Busy(w)
    BY <1>a, <2>1, SubmitWorkers
  <2>3. pc[r] # "idle" /\ \A q \in Submitters : q # r => pc'[q] = pc[q]
    BY <1>a, <2>1, InsideSubmit
  <2> QED
    BY <1>a, <2>1, <2>2, <2>3 DEF StandInv, LoopsCall, SinkBusy
<1>4. ASSUME NEW r \in Submitters, SubmitReturned(r)
      PROVE  StandInv'
  <2>1. pc[r] = "idle" /\ handler' = [handler EXCEPT ![r] = "idle"] /\ UNCHANGED <<pc, wpc, sink>>
    BY <1>4 DEF SubmitReturned, vars, subVars, workerVars
  <2> QED
    BY <1>a, <2>1 DEF StandInv, LoopsCall, SinkBusy, Busy
<1>5. ASSUME NEW w \in Workers, InWorker(w)
      PROVE  StandInv'
  <2>1. /\ sink[w] = "none" /\ UNCHANGED <<handler, sink, pc>>
        /\ \A v \in Workers : v # w => wpc'[v] = wpc[v]
    BY <1>5, WorkerEffect DEF bridgeVars
  <2> QED
    BY <1>a, <2>1 DEF StandInv, LoopsCall, SinkBusy, Busy
<1>6. ASSUME NEW w \in Workers, InEmit(w)
      PROVE  StandInv'
  <2>1. /\ Busy(w)' /\ sink' = [sink EXCEPT ![w] = "record"] /\ UNCHANGED pc
        /\ \A v \in Workers : v # w => wpc'[v] = wpc[v]
    BY <1>6, EmitEffect
  <2>2. UNCHANGED handler
    BY <1>6 DEF InEmit
  <2> QED
    BY <1>a, <2>1, <2>2 DEF StandInv, LoopsCall, SinkBusy, Busy
<1>7. ASSUME NEW w \in Workers, RecordJob(w) \/ SendStatus(w)
      PROVE  StandInv'
  <2>1. /\ sink[w] # "none" /\ UNCHANGED <<handler, pc, wpc>>
        /\ \A v \in Workers : v # w => sink'[v] = sink[v]
    BY <1>a, <1>7 DEF RecordJob, SendStatus, vars, subVars, workerVars
  <2> QED
    BY <1>a, <2>1 DEF StandInv, LoopsCall, SinkBusy, Busy
<1>8. CASE WriteLoop \/ InClose \/ UNCHANGED allVars
  <2>1. UNCHANGED <<handler, pc, wpc, sink>>
    BY <1>8 DEF WriteLoop, InClose, Close, CloseStep, CloseLock, Stop, CloseUnlock, CloseReturn, allVars, vars,
                bridgeVars, subVars, workerVars
  <2> QED
    BY <1>a, <2>1 DEF StandInv, LoopsCall, SinkBusy, Busy
<1> QED
  BY <1>1, <1>2, <1>3, <1>4, <1>5, <1>6, <1>7, <1>8 DEF BridgeNext

\* These hold throughout.
LEMMA BridgeInvariant == BridgeSpec => []BridgeInv
<1>1. BridgeInit => StandInv
  BY DEF BridgeInit, Init, StandInv, LoopsCall, SinkBusy
<1>2. BridgeInv /\ [BridgeNext]_allVars => StandInv'
  BY StandStep
<1>3. BridgeInv <=> TypeOK /\ QueueInv /\ ServiceInv /\ BridgeTypeOK /\ StandInv
  BY DEF BridgeInv
<1> QED
  BY <1>1, <1>2, <1>3, RunsQueue, QueueInvariants, BridgeTypeCorrect, PTL DEF BridgeSpec

-----------------------------------------------------------------------------
(* The newest row of a job is true: whoever wrote it is the worker that still    *)
(* has the job, and that worker cannot leave a state, nor the job, without       *)
(* passing through the sink.  Nothing of the kind holds of older rows.           *)

Newest(k) == \A m \in k + 1 .. Len(ring) : ring[m].id # ring[k].id

RingInv == \A k \in 1 .. Len(ring) : Newest(k) => RowHolds(ring[k])

\* A step that writes no record: each worker with a job keeps it, in its state or with
\* the sink ahead, unless the state is terminal.
LEMMA RingFrame ==
  ASSUME RingInv, UNCHANGED ring,
         \A w \in Workers : Busy(w) =>
           \/ Terminal(tracker[w]) /\ sink[w] # "record"
           \/ /\ Busy(w)' /\ cur'[w] = cur[w]
              /\ sink'[w] = "record" \/ (tracker'[w] = tracker[w] /\ sink[w] # "record")
  PROVE  RingInv'
<1> SUFFICES ASSUME NEW k \in 1 .. Len(ring), Newest(k)'
             PROVE  RowHolds(ring[k])'
  BY DEF RingInv
<1>1. Newest(k)
  BY DEF Newest
<1>2. RowHolds(ring[k])
  BY <1>1 DEF RingInv
<1>3. CASE Terminal(ring[k].state)
  BY <1>3 DEF RowHolds
<1>4. ASSUME NEW w \in Workers, Busy(w), cur[w].id = ring[k].id, tracker[w] = ring[k].state \/ sink[w] = "record"
      PROVE  RowHolds(ring[k])'
  BY <1>4 DEF RowHolds
<1> QED
  BY <1>2, <1>3, <1>4 DEF RowHolds

\* recordJob shows the state of its own worker and leaves what other jobs show.
LEMMA RingRecord ==
  ASSUME BridgeInv, RingInv, NEW w \in Workers, RecordJob(w)
  PROVE  RingInv'
<1> DEFINE rec == [id |-> cur[w].id, state |-> tracker[w]]
<1>1. rec \in Records /\ rec.id = cur[w].id /\ rec.state = tracker[w] /\ Busy(w)
  BY QueueAssumption DEF BridgeInv, TypeOK, Records, StandInv, SinkBusy, RecordJob
<1>2. ring' = WithRecord(ring, rec) /\ UNCHANGED <<wpc, cur, tracker>> /\ sink' = [sink EXCEPT ![w] = "send"]
  BY DEF RecordJob, vars, workerVars
<1>3. ring \in Seq(Records) /\ Len(ring) <= MaxJobRecords /\ sink \in [Workers -> {"none", "record", "send"}]
  BY DEF BridgeInv, BridgeTypeOK, Records
<1> HIDE DEF rec
<1>4. ring' \in Seq(Records) /\ Len(ring') \in 1 .. MaxJobRecords
  BY <1>1, <1>2, <1>3, RecordEffect
<1>5. PICK off \in Nat : Follows(ring', ring, rec, off)
  BY <1>1, <1>2, <1>3, RecordEffect
<1>6. Len(ring) \in Nat /\ Len(ring') \in Nat /\ Len(ring') >= 1
  BY <1>3, <1>4, LenProperties, BridgeAssumption
<1> SUFFICES ASSUME NEW k \in 1 .. Len(ring'), Newest(k)'
             PROVE  RowHolds(ring[k])'
  BY DEF RingInv
<1>7. CASE k = Len(ring')
  <2>1. ring'[k] = rec
    BY <1>5, <1>7 DEF Follows
  <2> QED
    BY <1>1, <1>2, <2>1 DEF RowHolds, Busy
<1>8. CASE k < Len(ring')
  <2>1. ring'[k].id # rec.id
    <3>1. Len(ring') \in k + 1 .. Len(ring') /\ ring'[Len(ring')] = rec
      BY <1>5, <1>6, <1>8 DEF Follows
    <3> QED
      BY <3>1 DEF Newest
  <2>2. k + off \in 1 .. Len(ring) /\ ring'[k] = ring[k + off]
    BY <1>5, <1>6, <1>8 DEF Follows
  <2>3. ASSUME NEW m \in (k + off) + 1 .. Len(ring) PROVE ring[m].id # ring[k + off].id
    <3>1. m \in 1 .. Len(ring) /\ m - off > k /\ m - off \in Int /\ m - off + off = m
      BY <1>6, <2>2
    <3>2. CASE ring[m].id = rec.id
      BY <2>1, <2>2, <3>2
    <3>3. CASE m - off \in 1 .. Len(ring') - 1
      <4>1. ring'[m - off] = ring[m]
        BY <1>5, <3>1, <3>3 DEF Follows
      <4>2. m - off \in k + 1 .. Len(ring')
        BY <1>6, <3>1, <3>3
      <4> QED
        BY <2>2, <4>1, <4>2 DEF Newest
    <3>4. ~ (m - off < 1)
      BY <3>1
    <3> QED
      BY <1>5, <3>1, <3>2, <3>3, <3>4 DEF Follows
  <2>4. Newest(k + off)
    BY <2>3 DEF Newest
  <2>5. RowHolds(ring'[k])
    BY <2>2, <2>4 DEF RingInv
  <2>6. \A v \in Workers : cur[v].id = ring'[k].id => v # w
    BY <1>1, <2>1
  <2> QED
    BY <1>2, <1>3, <2>5, <2>6 DEF RowHolds, Busy
<1> QED
  BY <1>6, <1>7, <1>8

\* Every step keeps it.
LEMMA RingStep == BridgeInv /\ RingInv /\ [BridgeNext]_allVars => RingInv'
<1> SUFFICES ASSUME BridgeInv, RingInv, [BridgeNext]_allVars PROVE RingInv'
  OBVIOUS
<1>a. /\ TypeOK /\ QueueInv /\ ServiceInv /\ SinkBusy
      /\ sink \in [Workers -> {"none", "record", "send"}]
  BY DEF BridgeInv, BridgeTypeOK, StandInv
<1>1. ASSUME NEW r \in Submitters, InSubmit(r)
      PROVE  RingInv'
  <2>1. SubmitStep(r) /\ UNCHANGED <<sink, ring>>
    BY <1>1 DEF InSubmit, bridgeVars
  <2>2. UNCHANGED <<cur, tracker>> /\ \A w \in Workers : Busy(w)' <=> Busy(w)
    BY <1>a, <2>1, SubmitWorkers
  <2> QED
    BY <2>1, <2>2, RingFrame
<1>2. ASSUME NEW w \in Workers, InWorker(w)
      PROVE  RingInv'
  <2>1. /\ sink[w] = "none" /\ UNCHANGED <<sink, ring>>
        /\ \A v \in Workers : v # w => wpc'[v] = wpc[v] /\ tracker'[v] = tracker[v] /\ cur'[v] = cur[v]
    BY <1>2, WorkerEffect DEF bridgeVars
  <2>2. Busy(w) => Terminal(tracker[w]) \/ (Busy(w)' /\ cur'[w] = cur[w] /\ tracker'[w] = tracker[w])
    <3>1. CASE Exit(w) \/ Take(w)
      BY <3>1 DEF Exit, Take, Busy
    <3>2. CASE PrintCopies(w)
      BY <1>a, <3>2 DEF PrintCopies, Busy, TypeOK
    <3>3. CASE Record(w)
      BY <1>a, <3>3 DEF Record, ServiceInv, WorkInv, TrackerFollows, Terminal
    <3> QED
      BY <1>2, <3>1, <3>2, <3>3 DEF InWorker
  <2>3. \A v \in Workers : v # w => (Busy(v) => Busy(v)')
    BY <2>1 DEF Busy
  <2> QED
    BY <2>1, <2>2, <2>3, RingFrame
<1>3. ASSUME NEW w \in Workers, InEmit(w)
      PROVE  RingInv'
  <2>1. /\ Busy(w)' /\ sink' = [sink EXCEPT ![w] = "record"] /\ UNCHANGED <<cur, ring>>
        /\ \A v \in Workers : v # w => wpc'[v] = wpc[v] /\ tracker'[v] = tracker[v]
    BY <1>3, EmitEffect DEF InEmit
  <2>2. \A v \in Workers : v # w => (Busy(v) => Busy(v)') /\ sink'[v] = sink[v]
    BY <1>a, <2>1 DEF Busy
  <2>3. sink'[w] = "record"
    BY <1>a, <2>1
  <2> QED
    BY <2>1, <2>2, <2>3, RingFrame
<1>4. ASSUME NEW w \in Workers, RecordJob(w)
      PROVE  RingInv'
  BY <1>4, RingRecord
<1>5. ASSUME NEW w \in Workers, SendStatus(w)
      PROVE  RingInv'
  <2>1. /\ sink[w] = "send" /\ sink' = [sink EXCEPT ![w] = "none"] /\ UNCHANGED <<cur, tracker, wpc, ring>>
    BY <1>5 DEF SendStatus, vars, workerVars
  <2>2. \A v \in Workers : (sink[v] = "record" => sink'[v] = "record") /\ (Busy(v) => Busy(v)')
    BY <1>a, <2>1 DEF Busy
  <2> QED
    BY <2>1, <2>2, RingFrame
<1>6. CASE \/ \E r \in Submitters : CallSubmit(r) \/ SubmitReturned(r) \/ \E j \in Jobs : HandleJobDeliver(r, j)
           \/ WriteLoop \/ InClose \/ UNCHANGED allVars
  <2>1. UNCHANGED <<cur, tracker, wpc, sink, ring>>
    BY <1>6 DEF CallSubmit, Submit, SubmitReturned, HandleJobDeliver, WriteLoop, InClose, Close, CloseStep,
                CloseLock, Stop, CloseUnlock, CloseReturn, allVars, vars, bridgeVars, workerVars
  <2>2. \A v \in Workers : Busy(v)' <=> Busy(v)
    BY <2>1 DEF Busy
  <2> QED
    BY <2>1, <2>2, RingFrame
<1> QED
  BY <1>1, <1>2, <1>3, <1>4, <1>5, <1>6 DEF BridgeNext

\* The newest row of each job is true of it: the UI shows no job as unfinished there that
\* no worker is working on, nor a state it has left but for the moment before the sink
\* runs, for any number of printers whose workers interleave and any length of the ring.
THEOREM RingTruthful == BridgeSpec => []NewestRowTruthful
<1>1. BridgeInit => RingInv
  BY EmptySeq DEF BridgeInit, RingInv
<1>2. RingInv <=> NewestRowTruthful
  BY DEF RingInv, Newest, NewestRowTruthful
<1> QED
  BY <1>1, <1>2, BridgeInvariant, RingStep, PTL DEF BridgeSpec

-----------------------------------------------------------------------------
(* Every acknowledged delivery has one outcome.  The deliveries that are open   *)
(* are counted; each step moves at most one of them, from the handler to a       *)
(* channel, from there to a worker, or out with an answer, taken or refused.     *)

Finite == IsFiniteSet(InHandler) /\ IsFiniteSet(AtWorker) /\ IsFiniteSet(OnChannel)
AckInv == ~ closed => Finite /\ acks = answers + refused + Open

\* What a step that keeps the three places as they are does to the books.
LEMMA AckSame ==
  ASSUME Finite, acks = answers + refused + Open, UNCHANGED <<acks, answers, refused>>,
         InHandler' = InHandler, AtWorker' = AtWorker, OnChannel' = OnChannel
  PROVE  Finite' /\ (acks = answers + refused + Open)'
BY DEF Finite, Open

\* What a step that ends one delivery does to them.
LEMMA AckOut ==
  ASSUME acks = answers + refused + Open, UNCHANGED acks, Open \in Int, Open' = Open - 1,
         answers \in Nat, refused \in Nat, answers' \in Nat, refused' \in Nat,
         answers' + refused' = answers + refused + 1
  PROVE  (acks = answers + refused + Open)'
<1>1. PICK o \in Int : o = Open
  OBVIOUS
<1>2. PICK a \in Nat, b \in Nat : a = answers /\ b = refused
  OBVIOUS
<1>3. PICK c \in Nat, d \in Nat : c = answers' /\ d = refused'
  OBVIOUS
<1>4. c + d = a + b + 1 /\ Open' = o - 1 /\ acks' = a + b + o
  BY <1>1, <1>2, <1>3
<1>5. a + b + o = c + d + (o - 1)
  BY <1>4
<1> QED
  BY <1>3, <1>4, <1>5

\* The place of a read loop depends on where it stands and what it was told.
LEMMA HandlerSame ==
  ASSUME \A r \in Submitters : (r \in InHandler') <=> (r \in InHandler)
  PROVE  InHandler' = InHandler
BY DEF InHandler

\* The place of a job with a worker depends on where the worker stands and its sink.
LEMMA WorkerSame ==
  ASSUME \A w \in Workers : (w \in AtWorker') <=> (w \in AtWorker)
  PROVE  AtWorker' = AtWorker
BY DEF AtWorker

\* A job goes on a channel.
LEMMA ChannelMore ==
  ASSUME TypeOK, NEW v \in Workers, NEW j \in Jobs, jobs' = [jobs EXCEPT ![v] = Append(@, j)]
  PROVE  \E e : e \notin OnChannel /\ OnChannel' = OnChannel \cup {e}
<1>1. jobs[v] \in Seq(Jobs) /\ Len(jobs[v]) \in Nat
  BY LenProperties DEF TypeOK
<1>2. jobs'[v] = Append(jobs[v], j) /\ \A w \in Workers : w # v => jobs'[w] = jobs[w]
  BY DEF TypeOK
<1>3. Len(jobs'[v]) = Len(jobs[v]) + 1
  BY <1>1, <1>2, AppendProperties
<1> DEFINE e == <<v, Len(jobs[v]) + 1>>
<1>4. 1 .. Len(jobs'[v]) = (1 .. Len(jobs[v])) \cup {Len(jobs[v]) + 1}
  BY <1>1, <1>3
<1>5. e \notin OnChannel
  BY <1>1 DEF OnChannel
<1>6. ASSUME NEW x \in OnChannel' PROVE x \in OnChannel \cup {e}
  <2>1. PICK w \in Workers : x \in {w} \X (1 .. Len(jobs'[w]))
    BY DEF OnChannel
  <2>2. PICK n \in 1 .. Len(jobs'[w]) : x = <<w, n>>
    BY <2>1
  <2>3. CASE w = v
    BY <1>4, <2>2, <2>3 DEF OnChannel
  <2>4. CASE w # v
    BY <1>2, <2>2, <2>4 DEF OnChannel
  <2> QED
    BY <2>3, <2>4
<1>7. ASSUME NEW x \in OnChannel \cup {e} PROVE x \in OnChannel'
  <2>1. CASE x = e
    <3>1. e \in {v} \X (1 .. Len(jobs'[v]))
      BY <1>4
    <3> QED
      BY <2>1, <3>1 DEF OnChannel
  <2>2. CASE x \in OnChannel
    <3>1. PICK w \in Workers : x \in {w} \X (1 .. Len(jobs[w]))
      BY <2>2 DEF OnChannel
    <3>2. x \in {w} \X (1 .. Len(jobs'[w]))
      BY <1>2, <1>4, <3>1
    <3> QED
      BY <3>2 DEF OnChannel
  <2> QED
    BY <2>1, <2>2
<1> QED
  BY <1>5, <1>6, <1>7

\* A job leaves a channel.
LEMMA ChannelLess ==
  ASSUME TypeOK, NEW v \in Workers, jobs[v] # <<>>, jobs' = [jobs EXCEPT ![v] = Tail(@)]
  PROVE  \E e : e \in OnChannel /\ OnChannel' = OnChannel \ {e}
<1>1. jobs[v] \in Seq(Jobs) /\ Len(jobs[v]) \in Nat /\ Len(jobs[v]) # 0
  BY LenProperties, EmptySeq DEF TypeOK
<1>2. jobs'[v] = Tail(jobs[v]) /\ \A w \in Workers : w # v => jobs'[w] = jobs[w]
  BY DEF TypeOK
<1>3. Len(jobs'[v]) = Len(jobs[v]) - 1
  BY <1>1, <1>2, HeadTailProperties
<1> DEFINE e == <<v, Len(jobs[v])>>
<1>4. 1 .. Len(jobs'[v]) = (1 .. Len(jobs[v])) \ {Len(jobs[v])} /\ Len(jobs[v]) \in 1 .. Len(jobs[v])
  BY <1>1, <1>3
<1>5. e \in OnChannel
  <2>1. e \in {v} \X (1 .. Len(jobs[v]))
    BY <1>4
  <2> QED
    BY <2>1 DEF OnChannel
<1>6. ASSUME NEW x \in OnChannel' PROVE x \in OnChannel \ {e}
  <2>1. PICK w \in Workers : x \in {w} \X (1 .. Len(jobs'[w]))
    BY DEF OnChannel
  <2>2. x # e /\ x \in {w} \X (1 .. Len(jobs[w]))
    BY <1>2, <1>4, <2>1
  <2> QED
    BY <2>2 DEF OnChannel
<1>7. ASSUME NEW x \in OnChannel \ {e} PROVE x \in OnChannel'
  <2>1. PICK w \in Workers : x \in {w} \X (1 .. Len(jobs[w]))
    BY DEF OnChannel
  <2>2. x \in {w} \X (1 .. Len(jobs'[w]))
    BY <1>2, <1>4, <1>7, <2>1
  <2> QED
    BY <2>2 DEF OnChannel
<1> QED
  BY <1>5, <1>6, <1>7

\* The channels are as they were.
LEMMA ChannelSame == ASSUME UNCHANGED jobs PROVE OnChannel' = OnChannel
BY DEF OnChannel
\* A set with one more element, and one less.
LEMMA OneMore ==
  ASSUME NEW S, NEW T, NEW x, IsFiniteSet(S), x \notin S, T = S \cup {x}
  PROVE  IsFiniteSet(T) /\ Cardinality(T) = Cardinality(S) + 1
BY FS_AddElement

\* A set with one element less.
LEMMA OneLess ==
  ASSUME NEW S, NEW T, NEW x, IsFiniteSet(S), x \in S, T = S \ {x}
  PROVE  IsFiniteSet(T) /\ Cardinality(T) = Cardinality(S) - 1
BY FS_RemoveElement

\* The books balance after each step, if they did before.
LEMMA AckStep == BridgeInv /\ AckInv /\ [BridgeNext]_allVars => AckInv'
<1> SUFFICES ASSUME BridgeInv, AckInv, [BridgeNext]_allVars, ~ closed'
             PROVE  Finite' /\ (acks = answers + refused + Open)'
  BY DEF AckInv
<1>a. /\ TypeOK /\ QueueInv /\ ServiceInv /\ LoopsCall /\ SinkBusy
      /\ handler \in [Submitters -> {"idle", "submit", "called"}]
      /\ sink \in [Workers -> {"none", "record", "send"}]
      /\ pc \in [Submitters -> SubmitPcs] /\ wpc \in [Workers -> WorkerPcs]
      /\ result \in [Submitters -> {"none", "Accepted", "Duplicate", "Rejected"}]
      /\ acks \in Nat /\ answers \in Nat /\ refused \in Nat
  BY DEF BridgeInv, BridgeTypeOK, StandInv, TypeOK
<1>b. ~ closed
  <2>1. [Next]_vars
    BY BridgeIsQueue DEF BridgeInv, BridgeTypeOK
  <2> QED
    BY <1>a, <2>1 DEF QueueInv, ClosedByCloser, Next, SubmitStep, WorkerStep, CloseStep, Submit, SeenRecently, Lock,
           Lookup, NewWorker, Unlock, SendJob, SendDone, Exit, Take, Progress, PrintCopies, Finish, Record,
           Close, CloseLock, Stop, CloseUnlock, CloseReturn, Tick, vars, lockVars
<1>c. Finite /\ acks = answers + refused + Open
  BY <1>b DEF AckInv
<1>d. Cardinality(InHandler) \in Nat /\ Cardinality(AtWorker) \in Nat /\ Cardinality(OnChannel) \in Nat
  BY <1>c, FS_CardinalityType DEF Finite
<1>1. ASSUME NEW r \in Submitters, NEW j \in Jobs, HandleJobDeliver(r, j)
      PROVE  Finite' /\ (acks = answers + refused + Open)'
  <2>1. /\ handler[r] = "idle" /\ handler' = [handler EXCEPT ![r] = "submit"] /\ acks' = acks + 1
        /\ UNCHANGED <<pc, result, wpc, sink, jobs, answers, refused>>
    BY <1>1 DEF HandleJobDeliver, vars, subVars, workerVars
  <2>2. r \notin InHandler /\ InHandler' = InHandler \cup {r}
    BY <1>a, <2>1 DEF InHandler
  <2>3. IsFiniteSet(InHandler') /\ Cardinality(InHandler') = Cardinality(InHandler) + 1
    BY <1>c, <2>2, OneMore DEF Finite
  <2>4. AtWorker' = AtWorker /\ OnChannel' = OnChannel
    BY <2>1 DEF AtWorker, OnChannel, Busy
  <2>5. Cardinality(AtWorker') = Cardinality(AtWorker) /\ Cardinality(OnChannel') = Cardinality(OnChannel)
    BY <2>4
  <2> QED
    BY <1>a, <1>c, <1>d, <2>1, <2>3, <2>4, <2>5 DEF Finite, Open
<1>2. ASSUME NEW r \in Submitters, CallSubmit(r)
      PROVE  Finite' /\ (acks = answers + refused + Open)'
  <2>1. /\ handler[r] = "submit" /\ handler' = [handler EXCEPT ![r] = "called"] /\ Submit(r, given[r])
        /\ UNCHANGED <<wpc, sink, jobs, acks, answers, refused>>
    BY <1>2 DEF CallSubmit, Submit, workerVars
  <2>2. pc'[r] # "idle" \/ result'[r] # "Accepted"
    BY <1>a, <2>1 DEF Submit, Return
  <2>3. \A q \in Submitters : q # r => pc'[q] = pc[q] /\ result'[q] = result[q]
    BY <1>a, <2>1 DEF Submit, Return
  <2>4. \A q \in Submitters : (q \in InHandler') <=> (q \in InHandler)
    BY <1>a, <2>1, <2>2, <2>3 DEF InHandler
  <2>5. AtWorker' = AtWorker /\ OnChannel' = OnChannel
    BY <2>1 DEF AtWorker, OnChannel, Busy
  <2> QED
    BY <1>c, <2>1, <2>4, <2>5, HandlerSame, AckSame
<1>3. ASSUME NEW r \in Submitters, InSubmit(r)
      PROVE  Finite' /\ (acks = answers + refused + Open)'
  <2>1. SubmitStep(r) /\ UNCHANGED <<handler, sink, acks, answers, refused>>
    BY <1>3 DEF InSubmit, bridgeVars
  <2>2. /\ pc[r] # "idle" /\ handler[r] = "called" /\ r \in InHandler
        /\ \A q \in Submitters : q # r => pc'[q] = pc[q] /\ result'[q] = result[q]
    BY <1>a, <2>1, InsideSubmit DEF LoopsCall, InHandler
  <2>3. AtWorker' = AtWorker
    <3>1. \A w \in Workers : wpc'[w] = wpc[w] \/ (~ Busy(w) /\ ~ Busy(w)')
      BY <1>a, <2>1, SubmitWorkers
    <3>2. \A w \in Workers : (w \in AtWorker') <=> (w \in AtWorker)
      BY <2>1, <3>1 DEF AtWorker, Busy
    <3> QED
      BY <3>2, WorkerSame
  <2>4. \A q \in Submitters : q # r => ((q \in InHandler') <=> (q \in InHandler))
    BY <2>1, <2>2 DEF InHandler
  <2>5. CASE SendJob(r)
    <3> DEFINE v == <<sub[r].printer, target[r]>>
    <3>1. jobs' = [jobs EXCEPT ![v] = Append(@, sub[r])] /\ pc'[r] = "idle" /\ result'[r] = "Accepted"
      BY <1>a, <2>5 DEF SendJob, Return
    <3>2. v \in Workers /\ sub[r] \in Jobs
      <4>1. target[r] # NoOne
        BY <1>a, <2>5 DEF SendJob, ServiceInv, TargetIsMapped
      <4> QED
        BY <1>a, <4>1, QueueAssumption DEF TypeOK, Workers
    <3> HIDE DEF v
    <3>3. PICK e : e \notin OnChannel /\ OnChannel' = OnChannel \cup {e}
      BY <1>a, <3>1, <3>2, ChannelMore
    <3>4. IsFiniteSet(OnChannel') /\ Cardinality(OnChannel') = Cardinality(OnChannel) + 1
      BY <1>c, <3>3, OneMore DEF Finite
    <3>5. r \notin InHandler'
      BY <2>1, <2>2, <3>1 DEF InHandler
    <3>6. InHandler' = InHandler \ {r}
      BY <2>4, <3>5 DEF InHandler
    <3>7. IsFiniteSet(InHandler') /\ Cardinality(InHandler') = Cardinality(InHandler) - 1
      BY <1>c, <2>2, <3>6, OneLess DEF Finite
    <3>8. Cardinality(AtWorker') = Cardinality(AtWorker)
      BY <2>3
    <3> QED
      BY <1>a, <1>c, <1>d, <2>1, <2>3, <3>4, <3>7, <3>8 DEF Finite, Open
  <2>6. CASE ~ SendJob(r)
    <3>1. ~ SendDone(r)
      <4>1. ASSUME SendDone(r) PROVE FALSE
        <5>1. done[<<sub[r].printer, target[r]>>] /\ target[r] # NoOne
          BY <1>a, <4>1 DEF SendDone, ServiceInv, TargetIsMapped
        <5>2. <<sub[r].printer, target[r]>> \in Workers
          BY <1>a, <5>1, QueueAssumption DEF TypeOK, Workers
        <5> QED
          BY <1>a, <1>b, <5>1, <5>2 DEF ServiceInv, StoppedWhenClosed
      <4> QED
        BY <4>1
    <3>2. UNCHANGED jobs
      BY <2>1, <2>6, <3>1 DEF SubmitStep, SeenRecently, Lock, Lookup, NewWorker, Unlock
    <3>3. pc'[r] # "idle" \/ result'[r] # "Accepted"
      <4>1. CASE SeenRecently(r)
        BY <1>a, <4>1 DEF SeenRecently, Return
      <4>2. CASE Lookup(r)
        BY <1>a, <1>b, <4>2 DEF Lookup
      <4>3. CASE Lock(r) \/ NewWorker(r) \/ Unlock(r)
        BY <1>a, <4>3 DEF Lock, NewWorker, Unlock
      <4> QED
        BY <2>1, <2>6, <3>1, <4>1, <4>2, <4>3 DEF SubmitStep
    <3>4. r \in InHandler'
      BY <2>1, <2>2, <3>3 DEF InHandler
    <3>5. InHandler' = InHandler
      BY <2>2, <2>4, <3>4, HandlerSame
    <3>6. OnChannel' = OnChannel
      BY <3>2, ChannelSame
    <3> QED
      BY <1>c, <2>1, <2>3, <3>5, <3>6, AckSame
  <2> QED
    BY <2>5, <2>6
<1>4. ASSUME NEW r \in Submitters, SubmitReturned(r)
      PROVE  Finite' /\ (acks = answers + refused + Open)'
  <2>1. /\ handler[r] = "called" /\ pc[r] = "idle" /\ handler' = [handler EXCEPT ![r] = "idle"]
        /\ UNCHANGED <<pc, result, wpc, sink, jobs, acks>>
    BY <1>4 DEF SubmitReturned, vars, subVars, workerVars
  <2>2. AtWorker' = AtWorker /\ OnChannel' = OnChannel
    BY <2>1 DEF AtWorker, OnChannel, Busy
  <2>3. r \notin InHandler' /\ \A q \in Submitters : q # r => ((q \in InHandler') <=> (q \in InHandler))
    BY <1>a, <2>1 DEF InHandler
  <2>4. CASE result[r] = "Accepted"
    <3>1. r \notin InHandler /\ UNCHANGED <<answers, refused>>
      BY <1>4, <2>1, <2>4 DEF InHandler, SubmitReturned
    <3>2. InHandler' = InHandler
      BY <2>3, <3>1, HandlerSame
    <3> QED
      BY <1>c, <2>1, <2>2, <3>1, <3>2, AckSame
  <2>5. CASE result[r] # "Accepted"
    <3>1. r \in InHandler /\ answers' + refused' = answers + refused + 1 /\ answers' \in Nat /\ refused' \in Nat
      <4>1. r \in InHandler
        BY <2>1, <2>5 DEF InHandler
      <4>2. CASE result[r] = "Rejected"
        BY <1>4, <1>a, <4>1, <4>2, AnswerBooked DEF SubmitReturned
      <4>3. CASE result[r] = "Duplicate"
        BY <1>4, <1>a, <4>1, <4>3 DEF SubmitReturned
      <4> QED
        BY <1>4, <2>5, <4>2, <4>3 DEF SubmitReturned
    <3>2. InHandler' = InHandler \ {r}
      BY <2>3 DEF InHandler
    <3>3. IsFiniteSet(InHandler') /\ Cardinality(InHandler') = Cardinality(InHandler) - 1
      BY <1>c, <3>1, <3>2, OneLess DEF Finite
    <3>4. Cardinality(AtWorker') = Cardinality(AtWorker) /\ Cardinality(OnChannel') = Cardinality(OnChannel)
      BY <2>2
    <3>5. Open \in Int /\ Open' = Open - 1
      BY <1>d, <3>3, <3>4 DEF Open
    <3>6. Finite'
      BY <1>c, <2>2, <3>3 DEF Finite
    <3> QED
      BY <1>a, <1>c, <2>1, <3>1, <3>5, <3>6, AckOut
  <2> QED
    BY <2>4, <2>5
<1>5. ASSUME NEW w \in Workers, InWorker(w)
      PROVE  Finite' /\ (acks = answers + refused + Open)'
  <2>1. /\ sink[w] = "none" /\ UNCHANGED <<handler, sink, pc, result, acks, answers, refused>>
        /\ \A v \in Workers : v # w => wpc'[v] = wpc[v]
    BY <1>5, WorkerEffect DEF bridgeVars
  <2>2. InHandler' = InHandler
    BY <2>1 DEF InHandler
  <2>3. \A v \in Workers : v # w => ((v \in AtWorker') <=> (v \in AtWorker))
    BY <2>1 DEF AtWorker, Busy
  <2>4. CASE Take(w)
    <3>1. /\ wpc[w] = "select" /\ wpc'[w] = "queued" /\ jobs[w] # <<>>
          /\ jobs' = [jobs EXCEPT ![w] = Tail(@)]
      BY <1>a, <2>4 DEF Take
    <3>2. w \notin AtWorker /\ w \in AtWorker'
      BY <3>1 DEF AtWorker, Busy
    <3>3. AtWorker' = AtWorker \cup {w}
      BY <2>3, <3>2 DEF AtWorker
    <3>4. IsFiniteSet(AtWorker') /\ Cardinality(AtWorker') = Cardinality(AtWorker) + 1
      BY <1>c, <3>2, <3>3, OneMore DEF Finite
    <3>5. PICK e : e \in OnChannel /\ OnChannel' = OnChannel \ {e}
      BY <1>a, <3>1, ChannelLess
    <3>6. IsFiniteSet(OnChannel') /\ Cardinality(OnChannel') = Cardinality(OnChannel) - 1
      BY <1>c, <3>5, OneLess DEF Finite
    <3>7. Cardinality(InHandler') = Cardinality(InHandler)
      BY <2>2
    <3> QED
      BY <1>a, <1>c, <1>d, <2>1, <2>2, <3>4, <3>6, <3>7 DEF Finite, Open
  <2>5. CASE ~ Take(w)
    <3>1. UNCHANGED jobs /\ ((w \in AtWorker') <=> (w \in AtWorker))
      <4>1. CASE Exit(w)
        BY <1>a, <4>1 DEF Exit, AtWorker, Busy
      <4>2. CASE PrintCopies(w)
        BY <1>a, <4>2 DEF PrintCopies, AtWorker, Busy
      <4>3. CASE Record(w)
        BY <1>a, <2>1, <4>3 DEF Record, AtWorker, Busy
      <4> QED
        BY <1>5, <2>5, <4>1, <4>2, <4>3 DEF InWorker
    <3>2. AtWorker' = AtWorker /\ OnChannel' = OnChannel
      BY <2>3, <3>1, WorkerSame, ChannelSame
    <3> QED
      BY <1>c, <2>1, <2>2, <3>2, AckSame
  <2> QED
    BY <2>4, <2>5
<1>6. ASSUME NEW w \in Workers, InEmit(w)
      PROVE  Finite' /\ (acks = answers + refused + Open)'
  <2>1. /\ Busy(w) /\ Busy(w)' /\ sink[w] = "none" /\ sink' = [sink EXCEPT ![w] = "record"]
        /\ wpc[w] # "record" /\ UNCHANGED <<jobs, pc, result>>
        /\ \A v \in Workers : v # w => wpc'[v] = wpc[v]
    BY <1>6, EmitEffect
  <2>2. UNCHANGED <<handler, acks, answers, refused>>
    BY <1>6 DEF InEmit
  <2>3. InHandler' = InHandler /\ OnChannel' = OnChannel
    BY <2>1, <2>2, ChannelSame DEF InHandler
  <2>4. \A v \in Workers : (v \in AtWorker') <=> (v \in AtWorker)
    BY <1>a, <2>1 DEF AtWorker, Busy
  <2> QED
    BY <1>c, <2>2, <2>3, <2>4, WorkerSame, AckSame
<1>7. ASSUME NEW w \in Workers, RecordJob(w)
      PROVE  Finite' /\ (acks = answers + refused + Open)'
  <2>1. /\ sink[w] = "record" /\ sink' = [sink EXCEPT ![w] = "send"]
        /\ UNCHANGED <<handler, pc, result, wpc, jobs, acks, answers, refused>>
    BY <1>7 DEF RecordJob, vars, subVars, workerVars
  <2>2. InHandler' = InHandler /\ OnChannel' = OnChannel
    BY <2>1, ChannelSame DEF InHandler
  <2>3. \A v \in Workers : (v \in AtWorker') <=> (v \in AtWorker)
    BY <1>a, <2>1 DEF AtWorker, Busy
  <2> QED
    BY <1>c, <2>1, <2>2, <2>3, WorkerSame, AckSame
<1>8. ASSUME NEW w \in Workers, SendStatus(w)
      PROVE  Finite' /\ (acks = answers + refused + Open)'
  <2>1. /\ sink[w] = "send" /\ sink' = [sink EXCEPT ![w] = "none"]
        /\ UNCHANGED <<handler, pc, result, wpc, jobs, acks>>
    BY <1>8 DEF SendStatus, vars, subVars, workerVars
  <2>2. InHandler' = InHandler /\ OnChannel' = OnChannel
    BY <2>1, ChannelSame DEF InHandler
  <2>3. \A v \in Workers : v # w => ((v \in AtWorker') <=> (v \in AtWorker))
    BY <1>a, <2>1 DEF AtWorker, Busy
  <2>4. Busy(w) /\ w \in AtWorker
    BY <1>a, <2>1 DEF SinkBusy, AtWorker
  <2>5. Terminal(tracker[w]) <=> wpc[w] = "record"
    BY <1>a, <2>4 DEF Busy, ServiceInv, WorkInv, TrackerFollows, Terminal
  <2>6. CASE wpc[w] = "record"
    <3>0. answers' + refused' = answers + refused + 1 /\ answers' \in Nat /\ refused' \in Nat
      BY <1>8, <1>a, <2>5, <2>6, AnswerBooked DEF SendStatus
    <3>1. w \notin AtWorker'
      BY <1>a, <2>1, <2>5, <2>6 DEF AtWorker
    <3>2. AtWorker' = AtWorker \ {w}
      BY <2>3, <3>1 DEF AtWorker
    <3>3. IsFiniteSet(AtWorker') /\ Cardinality(AtWorker') = Cardinality(AtWorker) - 1
      BY <1>c, <2>4, <3>2, OneLess DEF Finite
    <3>4. Cardinality(InHandler') = Cardinality(InHandler) /\ Cardinality(OnChannel') = Cardinality(OnChannel)
      BY <2>2
    <3>5. Open \in Int /\ Open' = Open - 1
      BY <1>d, <3>3, <3>4 DEF Open
    <3>6. Finite'
      BY <1>c, <2>2, <3>3 DEF Finite
    <3> QED
      BY <1>a, <1>c, <2>1, <3>0, <3>5, <3>6, AckOut
  <2>7. CASE wpc[w] # "record"
    <3>1. w \in AtWorker' /\ UNCHANGED <<answers, refused>>
      BY <1>8, <1>a, <2>1, <2>4, <2>5, <2>7 DEF AtWorker, Busy, SendStatus
    <3>2. AtWorker' = AtWorker
      BY <2>3, <2>4, <3>1, WorkerSame
    <3> QED
      BY <1>c, <2>1, <2>2, <3>1, <3>2, AckSame
  <2> QED
    BY <2>6, <2>7
<1>9. CASE WriteLoop \/ InClose \/ UNCHANGED allVars
  <2>1. UNCHANGED <<handler, pc, result, wpc, sink, jobs, acks, answers, refused>>
    BY <1>9 DEF WriteLoop, InClose, Close, CloseStep, CloseLock, Stop, CloseUnlock, CloseReturn, allVars, vars,
                bridgeVars, subVars, workerVars
  <2>2. InHandler' = InHandler /\ AtWorker' = AtWorker /\ OnChannel' = OnChannel
    BY <2>1 DEF InHandler, AtWorker, OnChannel, Busy
  <2> QED
    BY <1>c, <2>1, <2>2, AckSame
<1> QED
  BY <1>1, <1>2, <1>3, <1>4, <1>5, <1>6, <1>7, <1>8, <1>9 DEF BridgeNext

\* While the queue is open every acknowledged delivery comes to exactly one outcome, an
\* answer that Send took or refused or a duplicate's silence, for any number of read
\* loops and printers and however full the channels and the buffer are.
THEOREM AcksAnswered == BridgeSpec => []EveryAckAnswered
<1>1. BridgeInit => AckInv
  <2> SUFFICES ASSUME BridgeInit PROVE Finite /\ acks = answers + refused + Open
    BY DEF AckInv
  <2>1. InHandler = {} /\ AtWorker = {}
    BY DEF BridgeInit, Init, InHandler, AtWorker, Busy
  <2>2. OnChannel = {}
    <3>1. \A w \in Workers : 1 .. Len(jobs[w]) = {}
      BY EmptySeq DEF BridgeInit, Init
    <3> QED
      BY <3>1 DEF OnChannel
  <2>3. Finite /\ Cardinality(InHandler) = 0 /\ Cardinality(AtWorker) = 0 /\ Cardinality(OnChannel) = 0
    BY <2>1, <2>2, FS_EmptySet DEF Finite
  <2> QED
    BY <2>3 DEF BridgeInit, Open
<1>2. AckInv => EveryAckAnswered
  BY DEF AckInv, EveryAckAnswered
<1> QED
  BY <1>1, <1>2, BridgeInvariant, AckStep, PTL DEF BridgeSpec
=============================================================================
