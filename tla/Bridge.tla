------------------------------- MODULE Bridge -------------------------------
(***************************************************************************)
(* The bridge around the queue: internal/bridge/bridge.go.  It composes    *)
(* JobQueue with the message handler of the read loops (onMessage,         *)
(* handleJobDeliver), the queue's status sink (onJobTransition, recordJob) *)
(* and the outbound buffer of the transport.                               *)
(*                                                                         *)
(* A submitter of JobQueue is a read loop in handleJobDeliver: it offers   *)
(* the acknowledgement, calls Submit, and answers a rejection.  A worker's *)
(* emit calls the sink before process goes on: two steps of the worker,    *)
(* the record for the status UI and the message to the server.             *)
(***************************************************************************)
EXTENDS JobQueue

CONSTANTS
  BufferCap,     \* capacity of Client.out (128 in the code)
  MaxJobRecords  \* maxJobRecords (20 in the code)

ASSUME BridgeAssumption ==
  /\ BufferCap \in Nat \ {0}
  /\ MaxJobRecords \in Nat \ {0}

VARIABLES
  handler,  \* where each read loop stands in handleJobDeliver
  given,    \* the job it was given
  sink,     \* where each worker stands in onJobTransition
  ring,     \* Bridge.jobs, the recent jobs of the status UI
  buffer,   \* Client.out
  acks,     \* history: deliveries whose acknowledgement was offered to Send
  answers,  \* history: errors and terminal statuses that Send took, and silent duplicates
  refused   \* history: errors and terminal statuses that Send refused, on a full buffer

bridgeVars == <<handler, given, sink, ring, buffer, acks, answers, refused>>
allVars == <<vars, bridgeVars>>

BridgeInit ==
  /\ Init
  /\ handler = [r \in Submitters |-> "idle"]
  /\ given \in [Submitters -> {CHOOSE j \in Jobs : TRUE}]
  /\ sink = [w \in Workers |-> "none"]
  /\ ring = <<>> /\ buffer = <<>>
  /\ acks = 0 /\ answers = 0 /\ refused = 0

-----------------------------------------------------------------------------
Message(type, i, s) == [type |-> type, id |-> i, state |-> s]
Ack(i)       == Message("job_ack", i, "none")
JobStatus(i, s) == Message("job_status", i, s)
Error(i)     == Message("error", i, "none")

\* Client.Send does not block: on a full buffer it refuses the message, and its error
\* is logged or ignored, so that the message is gone.
ClientSend(m) == buffer' = IF Len(buffer) < BufferCap THEN Append(buffer, m) ELSE buffer

\* Send of a message that answers a delivery: the books say what Send made of it.
SendAnswer(m) ==
  /\ ClientSend(m)
  /\ IF Len(buffer) < BufferCap
     THEN answers' = answers + 1 /\ UNCHANGED refused
     ELSE refused' = refused + 1 /\ UNCHANGED answers

\* handleJobDeliver: the acknowledgement comes first.  (A payload that does not
\* decode is only logged.)
HandleJobDeliver(r, j) ==
  /\ handler[r] = "idle"
  /\ submits + Cardinality({q \in Submitters : handler[q] = "submit"}) < MaxSubmits
  /\ ClientSend(Ack(j.id))
  /\ acks' = acks + 1
  /\ given' = [given EXCEPT ![r] = j]
  /\ handler' = [handler EXCEPT ![r] = "submit"]
  /\ UNCHANGED <<vars, sink, ring, answers, refused>>

CallSubmit(r) ==
  /\ handler[r] = "submit"
  /\ Submit(r, given[r])
  /\ handler' = [handler EXCEPT ![r] = "called"]
  /\ UNCHANGED <<given, sink, ring, buffer, acks, answers, refused>>

InSubmit(r) == SubmitStep(r) /\ UNCHANGED bridgeVars

\* Mutant of SubmitReturned: a rejected job is not answered.
SubmitReturnedSilently(r) ==
  /\ handler[r] = "called" /\ pc[r] = "idle"
  /\ handler' = [handler EXCEPT ![r] = "idle"]
  /\ answers' = IF result[r] = "Duplicate" THEN answers + 1 ELSE answers
  /\ UNCHANGED <<vars, given, sink, ring, buffer, acks, refused>>

\* The switch over Submit's result: a rejection is sent, a duplicate only logged, and
\* an accepted job left to its worker.
SubmitReturned(r) ==
  /\ handler[r] = "called" /\ pc[r] = "idle"
  /\ handler' = [handler EXCEPT ![r] = "idle"]
  /\ \/ result[r] = "Rejected" /\ SendAnswer(Error(given[r].id))
     \/ result[r] = "Duplicate" /\ answers' = answers + 1 /\ UNCHANGED <<buffer, refused>>
     \/ result[r] = "Accepted" /\ UNCHANGED <<buffer, answers, refused>>
  /\ UNCHANGED <<vars, given, sink, ring, acks>>

-----------------------------------------------------------------------------
(* The workers and their sink *)

\* A worker outside its emits.
InWorker(w) ==
  /\ sink[w] = "none"
  /\ Exit(w) \/ Take(w) \/ PrintCopies(w) \/ Record(w)
  /\ UNCHANGED bridgeVars

\* A transition calls the sink.
InEmit(w) ==
  /\ sink[w] = "none"
  /\ Progress(w) \/ Finish(w)
  /\ sink' = [sink EXCEPT ![w] = IF tracker'[w] = tracker[w] THEN "none" ELSE "record"]
  /\ UNCHANGED <<handler, given, ring, buffer, acks, answers, refused>>

\* Mutant of WithRecord: a full ring keeps its oldest records.
WithRecordKeepsOldest(s, rec) ==
  LET t == IF s # <<>> /\ s[Len(s)].id = rec.id
           THEN [s EXCEPT ![Len(s)] = rec]
           ELSE Append(s, rec)
  IN  IF Len(t) > MaxJobRecords THEN SubSeq(t, 1, MaxJobRecords) ELSE t

\* recordJob: replace the trailing record of the same job, else append; keep the
\* most recent ones.  (The sink gives no printer ID.)
WithRecord(s, rec) ==
  LET t == IF s # <<>> /\ s[Len(s)].id = rec.id
           THEN [s EXCEPT ![Len(s)] = rec]
           ELSE Append(s, rec)
  IN  IF Len(t) > MaxJobRecords THEN SubSeq(t, Len(t) - MaxJobRecords + 1, Len(t)) ELSE t

RecordJob(w) ==
  /\ sink[w] = "record"
  /\ ring' = WithRecord(ring, [id |-> cur[w].id, state |-> tracker[w]])
  /\ sink' = [sink EXCEPT ![w] = "send"]
  /\ UNCHANGED <<vars, handler, given, buffer, acks, answers, refused>>

\* onJobTransition: the status goes to the server; a terminal one answers the delivery.
SendStatus(w) ==
  /\ sink[w] = "send"
  /\ LET m == JobStatus(cur[w].id, tracker[w])
     IN  \/ Terminal(tracker[w]) /\ SendAnswer(m)
         \/ ~ Terminal(tracker[w]) /\ ClientSend(m) /\ UNCHANGED <<answers, refused>>
  /\ sink' = [sink EXCEPT ![w] = "none"]
  /\ UNCHANGED <<vars, handler, given, ring, acks>>

-----------------------------------------------------------------------------
\* The write loop takes a message (Transport says what becomes of it).
WriteLoop ==
  /\ buffer # <<>>
  /\ buffer' = Tail(buffer)
  /\ UNCHANGED <<vars, handler, given, sink, ring, acks, answers, refused>>

\* Run: the deferred queue.Close, once client.Run has returned.
InClose == (Close \/ CloseStep) /\ UNCHANGED bridgeVars

BridgeNext ==
  \/ \E r \in Submitters : \/ \E j \in Jobs : HandleJobDeliver(r, j)
                           \/ CallSubmit(r) \/ InSubmit(r) \/ SubmitReturned(r)
  \/ \E w \in Workers : InWorker(w) \/ InEmit(w) \/ RecordJob(w) \/ SendStatus(w)
  \/ WriteLoop
  \/ InClose

BridgeSpec == BridgeInit /\ [][BridgeNext]_allVars

(* As in JobQueue: what can run does run, a waiter for the mutex or a channel gets *)
(* its turn, and driver.Print returns.                                             *)
BridgeFairness ==
  /\ \A r \in Submitters :
       /\ WF_allVars(CallSubmit(r) \/ InSubmit(r) \/ SubmitReturned(r))
       /\ SF_allVars(Lock(r) /\ UNCHANGED bridgeVars)
       /\ SF_allVars((SendJob(r) \/ SendDone(r)) /\ UNCHANGED bridgeVars)
  /\ \A w \in Workers : WF_allVars(InWorker(w) \/ InEmit(w) \/ RecordJob(w) \/ SendStatus(w))
  /\ WF_allVars(CloseStep /\ UNCHANGED bridgeVars)
  /\ SF_allVars(CloseLock /\ UNCHANGED bridgeVars)

FairBridgeSpec == BridgeSpec /\ BridgeFairness

-----------------------------------------------------------------------------
(* Properties *)

\* The type invariant: among it, the buffer and the ring of records keep their limits.
BridgeTypeOK ==
  /\ handler \in [Submitters -> {"idle", "submit", "called"}]
  /\ given \in [Submitters -> Jobs]
  /\ sink \in [Workers -> {"none", "record", "send"}]
  /\ ring \in Seq([id : JobIds, state : States]) /\ Len(ring) <= MaxJobRecords
  /\ buffer \in Seq([type : {"job_ack", "job_status", "error"}, id : JobIds, state : States \cup {"none"}])
  /\ Len(buffer) <= BufferCap
  /\ acks \in Nat /\ answers \in Nat /\ refused \in Nat

\* The number of deliveries that are acknowledged and have no outcome yet: in the
\* handler, on a channel, or with a worker that has not offered the terminal status.
InHandler == {r \in Submitters : \/ handler[r] = "submit"
                                 \/ handler[r] = "called" /\ (pc[r] # "idle" \/ result[r] # "Accepted")}
AtWorker  == {w \in Workers : Busy(w) /\ ~ (wpc[w] = "record" /\ sink[w] = "none")}
OnChannel == UNION {{w} \X (1 .. Len(jobs[w])) : w \in Workers}
Open      == Cardinality(InHandler) + Cardinality(AtWorker) + Cardinality(OnChannel)

\* While the queue is open, every delivery the handler took comes to exactly one
\* outcome: one error or terminal status in the outbound buffer, one that Send refused
\* because the buffer was full (no answer leaves then), or silence because it is a
\* duplicate.  None is answered twice and none is forgotten between the read loops, the
\* channels and the workers.
EveryAckAnswered == ~ closed => acks = answers + refused + Open

\* What a row of the ring may say of its job: that it has ended, or the state it is in
\* (for a moment, until the sink has run, the state it was in before).
RowHolds(rec) ==
  \/ Terminal(rec.state)
  \/ \E w \in Workers : Busy(w) /\ cur[w].id = rec.id /\ (tracker[w] = rec.state \/ sink[w] = "record")

\* The newest row of each job in the ring of the status UI is true: it never shows as
\* unfinished a job that no worker is working on, nor a state the job has left (but for
\* the moment before the sink runs), however the workers of several printers interleave
\* and whatever the ring drops.  It says nothing of older rows of the same job.
NewestRowTruthful ==
  \A k \in 1 .. Len(ring) :
    (\A m \in k + 1 .. Len(ring) : ring[m].id # ring[k].id) => RowHolds(ring[k])

\* "JobRecord is a compact record of a job's latest state for the status UI"
\* (bridge.go:41): every row the UI lists is true of its job.  recordJob replaces only
\* the last row, so that a row of another printer's job in between leaves an older one.
EveryRowTruthful == \A k \in 1 .. Len(ring) : RowHolds(ring[k])

\* Every delivery the handler acknowledges comes to its outcome, an answer, a refused
\* answer or a duplicate's silence, unless the queue is closed first.
AckedIsAnswered == <>[](acks = answers + refused \/ closed)
=============================================================================
