----------------------------- MODULE PrintSpool -----------------------------
(***************************************************************************)
(* What the print queue promises, without mutexes, goroutines, channels or *)
(* the dedup store: every printer serves its own line of jobs in order and *)
(* one at a time, each job is reported through its whole life cycle before *)
(* the next one begins, and nothing happens once the spool is shut.  Jobs  *)
(* that are still in line then are never served.                           *)
(***************************************************************************)
EXTENDS Sequences

CONSTANTS Printers, Jobs, Idle

VARIABLES
  line,    \* the jobs waiting for each printer
  active,  \* the job each printer serves, or Idle
  status,  \* its reported state
  shut     \* the spool has been shut

vars == <<line, active, status, shut>>

Life == {<<"created", "queued">>, <<"queued", "sent">>, <<"sent", "printing">>,
         <<"printing", "completed">>, <<"printing", "failed">>}

Init ==
  /\ line = [p \in Printers |-> <<>>]
  /\ active = [p \in Printers |-> Idle]
  /\ status = [p \in Printers |-> "created"]
  /\ shut = FALSE

\* A job may still get in line while the spool shuts down, or afterwards.
Enqueue(p, j) ==
  /\ line' = [line EXCEPT ![p] = Append(@, j)]
  /\ UNCHANGED <<active, status, shut>>

Begin(p) ==
  /\ ~ shut
  /\ active[p] = Idle
  /\ line[p] # <<>>
  /\ active' = [active EXCEPT ![p] = Head(line[p])]
  /\ line' = [line EXCEPT ![p] = Tail(@)]
  /\ status' = [status EXCEPT ![p] = "created"]
  /\ UNCHANGED shut

Report(p, s) ==
  /\ ~ shut
  /\ active[p] # Idle
  /\ <<status[p], s>> \in Life
  /\ status' = [status EXCEPT ![p] = s]
  /\ UNCHANGED <<line, active, shut>>

\* A job leaves its printer only in a terminal state.
End(p) ==
  /\ ~ shut
  /\ active[p] # Idle
  /\ status[p] \in {"completed", "failed"}
  /\ active' = [active EXCEPT ![p] = Idle]
  /\ status' = [status EXCEPT ![p] = "created"]
  /\ UNCHANGED <<line, shut>>

Shut ==
  /\ \A p \in Printers : active[p] = Idle
  /\ shut' = TRUE
  /\ UNCHANGED <<line, active, status>>

Next ==
  \/ \E p \in Printers : \/ \E j \in Jobs : Enqueue(p, j)
                         \/ Begin(p)
                         \/ \E s \in {"queued", "sent", "printing", "completed", "failed"} : Report(p, s)
                         \/ End(p)
  \/ Shut

Spec == Init /\ [][Next]_vars
=============================================================================
