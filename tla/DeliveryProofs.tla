--------------------------- MODULE DeliveryProofs ---------------------------
(***************************************************************************)
(* Proofs about Delivery for any number of jobs, any capacity of the       *)
(* outbound buffer and any number of lost connections and process deaths.  *)
(***************************************************************************)
EXTENDS Delivery, SequenceTheorems, FiniteSetTheorems, TLAPS

(* Type correctness.  A process that is closing has died less often than the     *)
(* bound allows, every write loop belongs to a connection there has been, and    *)
(* the worker has a job exactly when it is not in its select.                    *)

Updates == [about : {Nobody}, says : {"available", "unavailable"}, n : Nat, life : Lives]

Todo == {"queued", "sent", "printing", "print"}

HistoryOK ==
  /\ handed \in [JobIds -> [Lives -> Nat]]
  /\ extra \in [JobIds -> [Lives -> Nat]]

Standing ==
  /\ wpc \in Todo \cup Terminal \cup {"select", "record"}
  /\ wpc = "select" <=> cur = Nobody

Loops ==
  /\ stale <= conns /\ (link # "down" => stale < conns)
  /\ process = "closing" => crashes < MaxCrashes
  /\ IsFiniteSet(hands)

TypeInv == TypeOK /\ HistoryOK /\ Standing /\ Loops /\ last \in Updates

\* The messages about jobs and about the printer.
LEMMA MessageTypes ==
  ASSUME crashes \in Lives
  PROVE  /\ \A j \in JobIds, s \in JobStates \cup {"ack"} : Job(j, s) \in Messages
         /\ \A on \in BOOLEAN, n \in Nat : Update(on, n) \in Updates
         /\ Updates \subseteq Messages
BY DEF Job, Update, Messages, Updates

\* Send appends, or drops a message that finds the buffer full.
LEMMA SendEffect ==
  ASSUME TypeOK, NEW m \in Messages, Send(m)
  PROVE  /\ \/ buffer' = Append(buffer, m) /\ gone' = gone
            \/ buffer' = buffer /\ gone' = Lost({m})
         /\ buffer' \in Seq(Messages) /\ Len(buffer') <= BufferCap
         /\ gone' \subseteq Messages /\ gone \subseteq gone'
<1>1. CASE Len(buffer) < BufferCap
  <2>1. buffer' = Append(buffer, m) /\ gone' = gone
    BY <1>1 DEF Send
  <2>2. Append(buffer, m) \in Seq(Messages) /\ Len(Append(buffer, m)) = Len(buffer) + 1
    BY AppendProperties DEF TypeOK
  <2>3. Len(buffer) \in Nat
    BY LenProperties DEF TypeOK
  <2> QED
    BY <1>1, <2>1, <2>2, <2>3, DeliveryAssumption DEF TypeOK
<1>2. CASE ~ (Len(buffer) < BufferCap)
  BY <1>2 DEF Send, Lost, TypeOK
<1> QED
  BY <1>1, <1>2

\* The buffer after a message more or less.
LEMMA BufferGrows ==
  ASSUME TypeOK, NEW m \in Messages, buffer' = Append(buffer, m)
  PROVE  /\ Len(buffer) \in Nat /\ Len(buffer') = Len(buffer) + 1
         /\ \A i \in 1 .. Len(buffer) : buffer'[i] = buffer[i]
         /\ buffer'[Len(buffer) + 1] = m
BY AppendProperties, LenProperties DEF TypeOK

\* A receive from Client.out takes the first message and moves the others up.
LEMMA BufferShrinks ==
  ASSUME TypeOK, buffer # <<>>, buffer' = Tail(buffer)
  PROVE  /\ Len(buffer) \in Nat \ {0} /\ Len(buffer') = Len(buffer) - 1
         /\ \A i \in 1 .. Len(buffer') : buffer'[i] = buffer[i + 1]
         /\ Head(buffer) = buffer[1] /\ Head(buffer) \in Messages
         /\ buffer' \in Seq(Messages) /\ Len(buffer') <= BufferCap
BY HeadTailProperties, LenProperties, EmptySeq, DeliveryAssumption DEF TypeOK

\* What the worker may stand at after a report.
LEMMA AfterReport ==
  ASSUME NEW s \in {"queued", "sent", "printing"} \cup Terminal
  PROVE  /\ After(s) \in Todo \cup {"record"}
         /\ s \in Terminal <=> After(s) = "record"
         /\ s \in JobStates
BY DEF After, Todo, Terminal, JobStates

\* The initial state has the types.
LEMMA TypeInit == Init => TypeInv
<1> SUFFICES ASSUME Init PROVE TypeInv
  OBVIOUS
<1> USE DeliveryAssumption
<1>1. 0 \in Lives
  BY DEF Lives
<1>2. <<>> \in Seq(Messages) /\ <<>> \in Seq(JobIds) /\ Len(<<>>) = 0
  BY EmptySeq
<1>3. last \in Updates /\ Updates \subseteq Messages
  BY <1>1 DEF Init, Updates, Messages
<1>4. HistoryOK
  BY DEF Init, HistoryOK
<1>5. Standing /\ Loops
  BY FS_EmptySet DEF Init, Standing, Loops
<1>6. known \in [JobIds -> JobStates]
  BY DEF Init, JobStates
<1>7. /\ conns \in 0 .. MaxConns /\ stale \in 0 .. MaxConns /\ changes \in 0 .. MaxChanges
      /\ buffer \in Seq(Messages) /\ toBridge \in Seq(JobIds) /\ waiting \in Seq(JobIds)
      /\ Len(buffer) <= BufferCap
  BY <1>2 DEF Init
<1>8. TypeOK
  BY <1>1, <1>3, <1>6, <1>7 DEF Init, TypeOK
<1> QED
  BY <1>3, <1>4, <1>5, <1>8 DEF TypeInv

\* Every step keeps the types.
LEMMA TypeStep == TypeInv /\ [Next]_vars => TypeInv'
<1> SUFFICES ASSUME TypeInv, [Next]_vars PROVE TypeInv'
  OBVIOUS
<1> USE DeliveryAssumption
<1>a. TypeOK /\ HistoryOK /\ Standing /\ Loops /\ last \in Updates
  BY DEF TypeInv
<1>b. /\ crashes \in Lives /\ Lives \subseteq Nat /\ conns \in Nat /\ stale \in Nat
      /\ Updates \subseteq Messages
  BY <1>a, MessageTypes DEF TypeOK, Lives
<1>1. CASE Connect
  <2>1. PICK order \in SetToSeqs(Unfinished) : toBridge' = order
    BY <1>1 DEF Connect
  <2>2. order \in Seq(JobIds)
    <3>1. Unfinished \subseteq JobIds
      BY DEF Unfinished
    <3>2. IsFiniteSet(Unfinished) /\ Cardinality(Unfinished) \in Nat
      BY <3>1, FS_Subset, FS_CardinalityType
    <3>3. order \in [1 .. Cardinality(Unfinished) -> Unfinished]
      BY <2>1 DEF SetToSeqs
    <3>4. order \in Seq(Unfinished)
      BY <3>2, <3>3, SeqDef
    <3> QED
      BY <3>1, <3>4, SeqMonotonic
  <2> QED
    BY <1>1, <1>a, <1>b, <2>1, <2>2
    DEF Connect, TypeInv, TypeOK, HistoryOK, Standing, Loops, serverVars, queueVars, printerVars, histVars
<1>2. CASE ConnDies
  <2>1. toBridge' \in Seq(JobIds)
    BY <1>2, EmptySeq DEF ConnDies
  <2> QED
    BY <1>2, <1>a, <1>b, <2>1
    DEF ConnDies, TypeInv, TypeOK, HistoryOK, Standing, Loops, serverVars, queueVars, printerVars, histVars
<1>3. CASE NoticeLoss \/ StaleStops \/ WriteTimesOut \/ Restart
  <2>1. UNCHANGED <<known, view, conns, toBridge, crashes, buffer, hands, waiting, wpc, cur, seen, present,
                    announced, ready, changes, turned, last, handed, extra, gone>>
    BY <1>3 DEF NoticeLoss, StaleStops, WriteTimesOut, Restart, serverVars, linkVars, queueVars, printerVars,
                histVars
  <2>2. /\ link' \in {link, "down"} /\ process' \in {process, "closing", "running"}
        /\ stale' \in Nat /\ stale' <= conns /\ (link' # "down" => stale' < conns)
        /\ process' = "closing" => crashes < MaxCrashes
    BY <1>3, <1>a, <1>b DEF NoticeLoss, StaleStops, WriteTimesOut, Restart, linkVars, Loops, TypeOK
  <2>3. stale' \in 0 .. MaxConns
    BY <1>a, <2>2 DEF TypeOK
  <2>4. TypeOK'
    BY <1>a, <2>1, <2>2, <2>3 DEF TypeOK
  <2>5. Loops'
    BY <1>a, <2>1, <2>2 DEF Loops
  <2> QED
    BY <1>a, <2>1, <2>4, <2>5 DEF TypeInv, HistoryOK, Standing
<1>4. CASE Plug
  <2>1. /\ changes' \in 0 .. MaxChanges /\ present' \in BOOLEAN
        /\ UNCHANGED <<known, view, link, conns, toBridge, stale, process, crashes, buffer, hands, waiting, wpc,
                       cur, seen, ready, announced, turned, last, handed, extra, gone>>
    BY <1>4, <1>a, DeliveryAssumption DEF Plug, TypeOK, serverVars, linkVars, queueVars, histVars
  <2> QED
    BY <1>a, <2>1 DEF TypeInv, TypeOK, HistoryOK, Standing, Loops
<1>17. CASE StatusTurns
  <2>1. /\ changes' \in 0 .. MaxChanges /\ ready' \in BOOLEAN /\ turned' \in BOOLEAN
        /\ UNCHANGED <<known, view, link, conns, toBridge, stale, process, crashes, buffer, hands, waiting, wpc,
                       cur, seen, present, announced, last, handed, extra, gone>>
    BY <1>17, <1>a, DeliveryAssumption DEF StatusTurns, TypeOK, serverVars, linkVars, queueVars, histVars
  <2> QED
    BY <1>a, <2>1 DEF TypeInv, TypeOK, HistoryOK, Standing, Loops
<1>5. CASE Write
  <2>1. /\ Head(buffer) \in Messages /\ buffer' \in Seq(Messages) /\ Len(buffer') <= BufferCap
    BY <1>5, <1>a, BufferShrinks DEF Write
  <2>2. known' \in [JobIds -> JobStates] /\ view' \in BOOLEAN
    <3>1. CASE Head(buffer).about = Nobody
      BY <1>5, <1>a, <3>1 DEF Write, ServerReceive, TypeOK
    <3>2. CASE Head(buffer).about # Nobody
      <4>1. Head(buffer).about \in JobIds /\ Head(buffer).says \in JobStates \cup {"ack"}
        BY <2>1, <3>2 DEF Messages
      <4>2. /\ known' = [known EXCEPT ![Head(buffer).about] =
                           IF Head(buffer).says = "ack" THEN @ ELSE Head(buffer).says]
            /\ view' = view
        BY <1>5, <3>2 DEF Write, ServerReceive
      <4> QED
        BY <1>a, <4>1, <4>2 DEF TypeOK
    <3> QED
      BY <3>1, <3>2
  <2> QED
    BY <1>5, <1>a, <2>1, <2>2
    DEF Write, TypeInv, TypeOK, HistoryOK, Standing, Loops, linkVars, queueVars, printerVars, histVars
<1>6. CASE WriteInVain
  <2>1. Head(buffer) \in Messages /\ buffer' \in Seq(Messages) /\ Len(buffer') <= BufferCap
    BY <1>6, <1>a, BufferShrinks DEF WriteInVain
  <2>2. gone' \subseteq Messages
    BY <1>6, <1>a, <2>1 DEF WriteInVain, Lost, TypeOK
  <2>3. stale' \in {stale, stale - 1} /\ stale' \in 0 .. MaxConns
    BY <1>6, <1>a DEF WriteInVain, TypeOK
  <2>4. UNCHANGED <<known, view, link, conns, toBridge, process, crashes, hands, waiting, wpc, cur, seen,
                    present, announced, ready, changes, turned, last, handed, extra>>
    BY <1>6 DEF WriteInVain, serverVars, queueVars, printerVars, histVars
  <2>5. TypeOK'
    BY <1>a, <2>1, <2>2, <2>3, <2>4 DEF TypeOK
  <2>6. Loops'
    BY <1>a, <1>b, <2>3, <2>4 DEF Loops
  <2> QED
    BY <1>a, <2>4, <2>5, <2>6 DEF TypeInv, HistoryOK, Standing
<1>7. CASE Deliver
  <2>1. Head(toBridge) \in JobIds /\ toBridge' \in Seq(JobIds)
    BY <1>7, <1>a, HeadTailProperties DEF Deliver, TypeOK
  <2>2. Job(Head(toBridge), "ack") \in Messages
    BY <1>b, <2>1, MessageTypes
  <2>3. buffer' \in Seq(Messages) /\ Len(buffer') <= BufferCap /\ gone' \subseteq Messages
    BY <1>7, <1>a, <2>2, SendEffect DEF Deliver
  <2>4. conns \in 1 .. MaxConns
    BY <1>7, <1>a, <1>b DEF Deliver, Loops, TypeOK
  <2>5. /\ hands' \subseteq [conn : 1 .. MaxConns, job : JobIds, at : {"check", "send"}]
        /\ IsFiniteSet(hands')
    <3>1. hands' = hands \cup {[conn |-> conns, job |-> Head(toBridge), at |-> "check"]}
      BY <1>7 DEF Deliver
    <3>2. IsFiniteSet(hands')
      BY <1>a, <3>1, FS_AddElement DEF Loops
    <3> QED
      BY <1>a, <2>1, <2>4, <3>1, <3>2 DEF TypeOK
  <2> QED
    BY <1>7, <1>a, <2>1, <2>3, <2>5
    DEF Deliver, TypeInv, TypeOK, HistoryOK, Standing, Loops, serverVars, queueVars, printerVars, histVars
<1>8. ASSUME NEW h \in hands, Submit(h)
      PROVE  TypeInv'
  <2>1. h \in [conn : 1 .. MaxConns, job : JobIds, at : {"check", "send"}]
    BY <1>a DEF TypeOK
  <2>2. \/ hands' = hands \ {h} /\ extra' = extra
        \/ Passes(h)
    BY <1>8 DEF Submit
  <2>3. [h EXCEPT !.at = "send"] \in [conn : 1 .. MaxConns, job : JobIds, at : {"check", "send"}]
    BY <2>1
  <2>4. \/ hands' = hands \ {h}
        \/ hands' = (hands \ {h}) \cup {[h EXCEPT !.at = "send"]}
    BY <2>2 DEF Passes
  <2>5. IsFiniteSet(hands \ {h}) /\ IsFiniteSet((hands \ {h}) \cup {[h EXCEPT !.at = "send"]})
    <3>1. IsFiniteSet(hands \ {h})
      BY <1>a, FS_RemoveElement DEF Loops
    <3> QED
      BY <3>1, FS_AddElement
  <2>6. /\ hands' \subseteq [conn : 1 .. MaxConns, job : JobIds, at : {"check", "send"}]
        /\ IsFiniteSet(hands')
    BY <1>a, <2>3, <2>4, <2>5 DEF TypeOK
  <2>7. extra' \in {extra, [extra EXCEPT ![h.job][crashes] = @ + 1]}
    BY <2>2 DEF Passes
  <2>8. extra' \in [JobIds -> [Lives -> Nat]]
    BY <1>a, <1>b, <2>1, <2>7 DEF HistoryOK
  <2> QED
    BY <1>8, <1>a, <2>6, <2>8
    DEF Submit, TypeInv, TypeOK, HistoryOK, Standing, Loops, serverVars, linkVars, queueVars, printerVars
<1>9. ASSUME NEW h \in hands, Accept(h)
      PROVE  TypeInv'
  <2>1. h.job \in JobIds
    BY <1>a DEF TypeOK
  <2>2. waiting' \in Seq(JobIds)
    BY <1>9, <1>a, <2>1, AppendProperties DEF Accept, TypeOK
  <2>3. IsFiniteSet(hands')
    BY <1>9, <1>a, FS_RemoveElement DEF Accept, Loops
  <2> QED
    BY <1>9, <1>a, <2>2, <2>3
    DEF Accept, TypeInv, TypeOK, HistoryOK, Standing, Loops, serverVars, linkVars, printerVars, histVars
<1>10. CASE Take
  <2>1. cur' \in JobIds /\ waiting' \in Seq(JobIds)
    BY <1>10, <1>a, HeadTailProperties DEF Take, TypeOK
  <2> QED
    BY <1>10, <1>a, <2>1
    DEF Take, TypeInv, TypeOK, HistoryOK, Standing, Todo, JobStates, Loops, serverVars, linkVars, printerVars,
        histVars
<1>11. CASE Report
  <2>1. wpc \in {"queued", "sent", "printing"} \cup Terminal
    BY <1>11 DEF Report
  <2>2. cur \in JobIds
    BY <1>a, <2>1 DEF Standing, Terminal, TypeOK
  <2>3. Job(cur, wpc) \in Messages
    BY <1>b, <2>1, <2>2, AfterReport, MessageTypes
  <2>4. buffer' \in Seq(Messages) /\ Len(buffer') <= BufferCap /\ gone' \subseteq Messages
    BY <1>11, <1>a, <2>3, SendEffect DEF Report
  <2>5. wpc' \in Todo \cup {"record"}
    BY <1>11, <2>1, AfterReport DEF Report
  <2>6. wpc' \in {"select", "print", "record"} \cup JobStates
    BY <2>5 DEF Todo, JobStates
  <2>7. Standing'
    BY <1>11, <2>2, <2>5 DEF Report, Standing, Todo
  <2> QED
    BY <1>11, <1>a, <2>4, <2>6, <2>7
    DEF Report, TypeInv, TypeOK, HistoryOK, Loops, serverVars, linkVars, printerVars, histVars
<1>12. CASE DriverPrint
  <2>1. cur \in JobIds
    BY <1>12, <1>a DEF DriverPrint, Standing, TypeOK
  <2>2. PICK taken \in {0, 1} : handed' = [handed EXCEPT ![cur][crashes] = @ + taken]
    BY <1>12 DEF DriverPrint, Passed
  <2>3. handed' \in [JobIds -> [Lives -> Nat]]
    BY <1>a, <1>b, <2>1, <2>2 DEF HistoryOK
  <2>4. wpc' \in Terminal
    BY <1>12 DEF DriverPrint, Terminal
  <2> QED
    BY <1>12, <1>a, <2>1, <2>3, <2>4
    DEF DriverPrint, TypeInv, TypeOK, HistoryOK, Standing, Terminal, JobStates, Loops, serverVars, linkVars,
        printerVars
<1>13. CASE Record
  <2>1. cur \in JobIds
    BY <1>13, <1>a DEF Record, Standing, TypeOK
  <2> QED
    BY <1>13, <1>a, <2>1
    DEF Record, TypeInv, TypeOK, HistoryOK, Standing, Loops, serverVars, linkVars, printerVars, histVars
<1>14. CASE WatchPrinters \/ StatusEvent
  <2>1. last' = Update(Available, last.n + 1) /\ Send(last') /\ announced' \in BOOLEAN
    BY <1>14, <1>a DEF WatchPrinters, StatusEvent, SendUpdate, TypeOK
  <2>2. last' \in Updates
    <3>1. Available \in BOOLEAN /\ last.n + 1 \in Nat
      BY <1>a DEF Available, TypeOK, Updates
    <3> QED
      BY <1>b, <2>1, <3>1, MessageTypes
  <2>3. buffer' \in Seq(Messages) /\ Len(buffer') <= BufferCap /\ gone' \subseteq Messages
    BY <1>a, <1>b, <2>1, <2>2, SendEffect
  <2>4. /\ turned' = FALSE
        /\ UNCHANGED <<serverVars, linkVars, process, crashes, hands, queueVars, present, ready, changes, histVars>>
    BY <1>14 DEF WatchPrinters, StatusEvent, SendUpdate
  <2> QED
    BY <1>a, <1>b, <2>1, <2>2, <2>3, <2>4
    DEF TypeInv, TypeOK, HistoryOK, Standing, Loops, serverVars, linkVars, queueVars, histVars
<1>15. CASE Crash \/ Exit
  <2>1. Die /\ crashes < MaxCrashes
    BY <1>15, <1>a DEF Crash, Exit, Loops
  <2>2. crashes' \in Lives
    BY <1>b, <2>1 DEF Die, Lives
  <2>3. buffer' \in Seq(Messages) /\ Len(buffer') <= BufferCap
        /\ toBridge' \in Seq(JobIds) /\ waiting' \in Seq(JobIds)
    BY <2>1, EmptySeq DEF Die
  <2>4. gone' \subseteq Messages
    <3>1. \A m \in ToSet(buffer) : m \in Messages
      BY <1>a, LenProperties, ElementOfSeq DEF ToSet, TypeOK
    <3> QED
      BY <1>a, <2>1, <3>1 DEF Die, Lost, TypeOK
  <2>5. IsFiniteSet(hands') /\ hands' = {}
    BY <2>1, FS_EmptySet DEF Die
  <2>6. TypeOK'
    <3>1. /\ process' = "dead" /\ link' = "down" /\ wpc' = "select" /\ cur' = Nobody /\ seen' = {}
          /\ announced' = FALSE /\ stale' \in 0 .. MaxConns
          /\ UNCHANGED <<known, view, conns, present, ready, changes, turned, last>>
      BY <2>1 DEF Die, serverVars
    <3> QED
      BY <1>a, <2>2, <2>3, <2>4, <2>5, <3>1 DEF TypeOK
  <2>7. Standing' /\ Loops'
    BY <1>b, <2>1, <2>5 DEF Die, Standing, Loops
  <2> QED
    BY <1>a, <2>1, <2>6, <2>7 DEF Die, TypeInv, HistoryOK, histVars
<1>16. CASE UNCHANGED vars
  BY <1>16, <1>a
  DEF vars, TypeInv, TypeOK, HistoryOK, Standing, Loops, serverVars, linkVars, queueVars, printerVars, histVars
<1> QED
  BY <1>1, <1>2, <1>3, <1>4, <1>5, <1>6, <1>7, <1>8, <1>9, <1>10, <1>11, <1>12, <1>13, <1>14,
     <1>15, <1>16, <1>17 DEF Next, ReadLoops, Worker, Printer, Losses

\* The type invariant: among it, the outbound buffer keeps its capacity whatever is lost.
THEOREM TypeCorrect == Spec => []TypeOK
<1>1. TypeInv => TypeOK
  BY DEF TypeInv
<1> QED
  BY <1>1, TypeInit, TypeStep, PTL DEF Spec

-----------------------------------------------------------------------------
(* Completed means taken *)

Taken(j) == \E l \in Lives : handed[j][l] > 0

\* The report of a print without an error, from the worker through the buffer to the
\* server, is about a job that came out of the printer.
CompletedInv ==
  /\ CompletedWasTaken
  /\ wpc = "completed" => Taken(cur)
  /\ \A i \in 1 .. Len(buffer) : buffer[i].says = "completed" => Taken(buffer[i].about)

\* Labels are never taken back.
LEMMA PaperStays ==
  ASSUME TypeInv, [Next]_vars
  PROVE  \A j \in JobIds : Taken(j) => Taken(j)'
<1>1. CASE DriverPrint
  <2>1. cur \in JobIds /\ crashes \in Lives /\ handed \in [JobIds -> [Lives -> Nat]]
    BY <1>1 DEF DriverPrint, TypeInv, TypeOK, HistoryOK, Standing
  <2>2. PICK taken \in {0, 1} : handed' = [handed EXCEPT ![cur][crashes] = @ + taken]
    BY <1>1 DEF DriverPrint, Passed
  <2>3. \A j \in JobIds, l \in Lives : handed'[j][l] >= handed[j][l]
    BY <2>1, <2>2
  <2>4. \A j \in JobIds, l \in Lives : handed[j][l] \in Nat /\ handed'[j][l] \in Int
    BY <2>1, <2>2
  <2> QED
    BY <2>3, <2>4 DEF Taken
<1>2. CASE ~ DriverPrint
  <2>1. handed' = handed
    BY <1>2 DEF Next, vars, ReadLoops, Worker, Printer, Losses, Connect, Write, NoticeLoss, StaleStops, Deliver, Submit,
                Accept, Take, Report, Record, WatchPrinters, StatusEvent, StatusTurns, ConnDies, WriteInVain,
                WriteTimesOut, Crash, Plug,
                Exit, Restart, Die, histVars
  <2> QED
    BY <2>1 DEF Taken
<1> QED
  BY <1>1, <1>2

\* A step that moves neither the server's state nor the buffer, nor the worker to
\* "completed".
LEMMA CompletedFrame ==
  ASSUME TypeInv, CompletedInv, [Next]_vars, UNCHANGED <<known, buffer>>,
         wpc' = "completed" => wpc = "completed" /\ cur' = cur
  PROVE  CompletedInv'
<1>1. \A j \in JobIds : Taken(j) => Taken(j)'
  BY PaperStays
<1>2. \A i \in 1 .. Len(buffer) : buffer[i].says = "completed" => buffer[i].about \in JobIds
  <2>1. \A m \in Messages : m.says = "completed" => m.about \in JobIds
    BY DEF Messages, JobStates, Terminal
  <2> QED
    BY <2>1, ElementOfSeq DEF TypeInv, TypeOK
<1>3. wpc = "completed" => cur \in JobIds
  BY DEF TypeInv, Standing, TypeOK
<1>4. CompletedWasTaken'
  BY <1>1 DEF CompletedInv, CompletedWasTaken, Taken
<1>5. wpc' = "completed" => Taken(cur)'
  <2> SUFFICES ASSUME wpc' = "completed" PROVE Taken(cur)'
    OBVIOUS
  <2>1. PICK j \in JobIds : j = cur
    BY <1>3
  <2>2. Taken(j)' /\ cur' = j
    BY <1>1, <2>1 DEF CompletedInv
  <2> QED
    BY <2>2 DEF Taken
<1>6. ASSUME NEW i \in 1 .. Len(buffer), buffer[i].says = "completed"
      PROVE  Taken(buffer[i].about)'
  <2>1. PICK j \in JobIds : j = buffer[i].about
    BY <1>2, <1>6
  <2>2. Taken(j)' /\ buffer'[i].about = j
    BY <1>1, <1>6, <2>1 DEF CompletedInv
  <2> QED
    BY <2>2 DEF Taken
<1> QED
  BY <1>4, <1>5, <1>6 DEF CompletedInv

\* A step that sends a message and takes no job.
LEMMA CompletedSend ==
  ASSUME TypeInv, CompletedInv, NEW m \in Messages, Send(m), UNCHANGED <<known, handed>>,
         m.says = "completed" => Taken(m.about),
         wpc' = "completed" => wpc = "completed" /\ cur' = cur
  PROVE  CompletedInv'
<1>1. buffer' = buffer \/ buffer' = Append(buffer, m)
  BY SendEffect DEF TypeInv
<1>2. \A j : Taken(j)' <=> Taken(j)
  BY DEF Taken
<1>3. \A i \in 1 .. Len(buffer') : buffer'[i].says = "completed" => Taken(buffer'[i].about)
  <2>1. CASE buffer' = buffer
    BY <2>1 DEF CompletedInv
  <2>2. CASE buffer' = Append(buffer, m)
    BY <2>2, BufferGrows DEF CompletedInv, TypeInv
  <2> QED
    BY <1>1, <2>1, <2>2
<1> QED
  BY <1>2, <1>3 DEF CompletedInv, CompletedWasTaken, Taken

\* Every step keeps it.
LEMMA CompletedStep ==
  ASSUME TypeInv, CompletedInv, [Next]_vars
  PROVE  CompletedInv'
<1>a. TypeOK /\ Standing /\ crashes \in Lives
  BY DEF TypeInv, TypeOK
<1>1. CASE Write
  <2>1. UNCHANGED <<handed, wpc, cur>> /\ buffer # <<>> /\ buffer' = Tail(buffer)
    BY <1>1 DEF Write, queueVars, histVars
  <2>2. /\ Len(buffer) \in Nat \ {0} /\ Len(buffer') = Len(buffer) - 1
        /\ \A i \in 1 .. Len(buffer') : buffer'[i] = buffer[i + 1]
        /\ Head(buffer) = buffer[1] /\ Head(buffer) \in Messages
    BY <1>a, <2>1, BufferShrinks
  <2>3. \A i \in 1 .. Len(buffer') : buffer'[i].says = "completed" => Taken(buffer'[i].about)
    BY <2>2 DEF CompletedInv
  <2>4. ASSUME NEW j \in JobIds, known'[j] = "completed" PROVE Taken(j)
    <3>1. CASE known[j] = "completed"
      BY <3>1 DEF CompletedInv, CompletedWasTaken, Taken
    <3>2. CASE known[j] # "completed"
      <4>1. Head(buffer).about = j /\ Head(buffer).says = "completed"
        BY <1>1, <1>a, <2>4, <3>2 DEF Write, ServerReceive, TypeOK
      <4> QED
        BY <2>2, <4>1 DEF CompletedInv
    <3> QED
      BY <3>1, <3>2
  <2> QED
    BY <2>1, <2>3, <2>4 DEF CompletedInv, CompletedWasTaken, Taken
<1>2. CASE WriteInVain
  <2>1. UNCHANGED <<known, handed, wpc, cur>> /\ buffer # <<>> /\ buffer' = Tail(buffer)
    BY <1>2 DEF WriteInVain, serverVars, queueVars, histVars
  <2>2. /\ Len(buffer) \in Nat \ {0} /\ Len(buffer') = Len(buffer) - 1
        /\ \A i \in 1 .. Len(buffer') : buffer'[i] = buffer[i + 1]
    BY <1>a, <2>1, BufferShrinks
  <2>3. \A i \in 1 .. Len(buffer') : buffer'[i].says = "completed" => Taken(buffer'[i].about)
    BY <2>2 DEF CompletedInv
  <2> QED
    BY <2>1, <2>3 DEF CompletedInv, CompletedWasTaken, Taken
<1>3. CASE Deliver
  <2>1. Head(toBridge) \in JobIds
    BY <1>3, <1>a, HeadTailProperties DEF Deliver, TypeOK
  <2>2. Job(Head(toBridge), "ack") \in Messages /\ Job(Head(toBridge), "ack").says # "completed"
    BY <1>a, <2>1, MessageTypes DEF Job
  <2>3. Send(Job(Head(toBridge), "ack")) /\ UNCHANGED <<known, handed, wpc, cur>>
    BY <1>3 DEF Deliver, serverVars, queueVars, histVars
  <2> QED
    BY <2>2, <2>3, CompletedSend
<1>4. CASE Report
  <2>1. wpc \in {"queued", "sent", "printing"} \cup Terminal
    BY <1>4 DEF Report
  <2>2. cur \in JobIds
    BY <1>a, <2>1 DEF Standing, Terminal, TypeOK
  <2>3. Job(cur, wpc) \in Messages /\ Job(cur, wpc).says = wpc /\ Job(cur, wpc).about = cur
    BY <1>a, <2>1, <2>2, AfterReport, MessageTypes DEF Job
  <2>4. Send(Job(cur, wpc)) /\ UNCHANGED <<known, handed>> /\ wpc' # "completed"
    BY <1>4, <2>1, AfterReport DEF Report, serverVars, histVars, Todo
  <2>5. Job(cur, wpc).says = "completed" => Taken(Job(cur, wpc).about)
    BY <2>3 DEF CompletedInv
  <2> QED
    BY <2>3, <2>4, <2>5, CompletedSend
<1>5. CASE WatchPrinters \/ StatusEvent
  <2>1. last' = Update(Available, last.n + 1) /\ Send(last')
    BY <1>5 DEF WatchPrinters, StatusEvent, SendUpdate
  <2> DEFINE u == Update(Available, last.n + 1)
  <2>2. u \in Messages /\ u.says # "completed"
    <3>1. Available \in BOOLEAN /\ last.n + 1 \in Nat
      BY DEF Available, TypeInv, TypeOK, Updates
    <3> QED
      BY <1>a, <3>1, MessageTypes DEF Update
  <2>3. Send(u) /\ UNCHANGED <<known, handed, wpc, cur>>
    BY <1>5, <2>1 DEF WatchPrinters, StatusEvent, serverVars, queueVars, histVars
  <2> HIDE DEF u
  <2> QED
    BY <2>2, <2>3, CompletedSend
<1>6. CASE DriverPrint
  <2>1. cur \in JobIds /\ handed \in [JobIds -> [Lives -> Nat]]
    BY <1>6, <1>a DEF DriverPrint, Standing, TypeInv, TypeOK, HistoryOK
  <2>2. PICK taken \in {0, 1}, err \in BOOLEAN :
          /\ taken = 0 => err
          /\ wpc' = IF err THEN "failed" ELSE "completed"
          /\ handed' = [handed EXCEPT ![cur][crashes] = @ + taken]
    BY <1>6 DEF DriverPrint, Passed
  <2>3. UNCHANGED <<known, buffer, cur>>
    BY <1>6 DEF DriverPrint, serverVars
  <2>4. wpc' = "completed" => handed'[cur][crashes] > 0
    BY <1>a, <2>1, <2>2
  <2>5. wpc' = "completed" => Taken(cur)'
    BY <1>a, <2>3, <2>4 DEF Taken
  <2>6. \A j \in JobIds : Taken(j) => Taken(j)'
    BY PaperStays
  <2>7. CompletedWasTaken'
    BY <2>3, <2>6 DEF CompletedInv, CompletedWasTaken, Taken
  <2>8. ASSUME NEW i \in 1 .. Len(buffer), buffer[i].says = "completed"
        PROVE  Taken(buffer[i].about)'
    <3>1. buffer[i] \in Messages
      BY <1>a, ElementOfSeq DEF TypeOK
    <3>2. buffer[i].about \in JobIds
      BY <2>8, <3>1 DEF Messages, JobStates, Terminal
    <3>3. PICK j \in JobIds : j = buffer[i].about
      BY <3>2
    <3>4. Taken(j)' /\ buffer'[i].about = j
      BY <2>3, <2>6, <2>8, <3>3 DEF CompletedInv
    <3> QED
      BY <3>4 DEF Taken
  <2> QED
    BY <2>3, <2>5, <2>7, <2>8 DEF CompletedInv
<1>7. CASE Crash \/ Exit
  <2>1. UNCHANGED <<known, handed>> /\ buffer' = <<>> /\ wpc' = "select"
    BY <1>7 DEF Crash, Exit, Die, serverVars, histVars
  <2>2. Len(buffer') = 0
    BY <2>1, EmptySeq
  <2> QED
    BY <2>1, <2>2 DEF CompletedInv, CompletedWasTaken, Taken
<1>8. CASE Take \/ Record
  <2>1. UNCHANGED <<known, buffer>> /\ wpc' # "completed"
    BY <1>8 DEF Take, Record, serverVars
  <2> QED
    BY <2>1, CompletedFrame
<1>9. CASE \/ Connect \/ NoticeLoss \/ StaleStops \/ ConnDies \/ WriteTimesOut \/ Plug \/ StatusTurns \/ Restart
           \/ (\E h \in hands : Submit(h) \/ Accept(h)) \/ UNCHANGED vars
  <2>1. UNCHANGED <<known, buffer, wpc, cur>>
    BY <1>9 DEF Connect, NoticeLoss, StaleStops, ConnDies, WriteTimesOut, Plug, StatusTurns, Restart, Submit, Accept, vars,
                serverVars, queueVars
  <2> QED
    BY <2>1, CompletedFrame
<1> QED
  BY <1>1, <1>2, <1>3, <1>4, <1>5, <1>6, <1>7, <1>8, <1>9 DEF Next, ReadLoops, Worker, Printer, Losses

\* What the server believes completed was taken by the printer or by lp: through lost connections, restarts and
\* reprints, a "completed" that reaches the server is about a job that left the printer.
THEOREM CompletedTrue == Spec => []CompletedWasTaken
<1>1. Init => CompletedInv
  <2> SUFFICES ASSUME Init PROVE CompletedInv
    OBVIOUS
  <2>1. Len(buffer) = 0 /\ wpc # "completed" /\ \A j \in JobIds : known[j] # "completed"
    BY EmptySeq DEF Init
  <2> QED
    BY <2>1 DEF CompletedInv, CompletedWasTaken
<1>2. TypeInv /\ CompletedInv /\ [Next]_vars => (TypeInv /\ CompletedInv)'
  BY TypeStep, CompletedStep
<1>3. CompletedInv => CompletedWasTaken
  BY DEF CompletedInv
<1> QED
  BY <1>1, <1>2, <1>3, TypeInit, PTL DEF Spec

-----------------------------------------------------------------------------
(* How often a job is on its way through the process, and how often it is taken  *)

\* How often j stands in a sequence.
Occurs(q, j) == Cardinality({i \in 1 .. Len(q) : q[i] = j})

\* Deliveries of j that have passed Submit's check and wait for room on the channel.
Sending(j) == Cardinality({h \in hands : h.at = "send" /\ h.job = j})

One(b) == IF b THEN 1 ELSE 0

\* A job that was let through is in one place: on its way to the worker, with the worker,
\* or recorded.  Only the deliveries that extra counts add to that.
OnePlace ==
  \A j \in JobIds :
    Occurs(waiting, j) + Sending(j) + One(cur = j) + One(j \in seen) <= 1 + extra[j][crashes]

\* Each of its ways through the worker prints it at most once.
PrintCount ==
  \A j \in JobIds :
    handed[j][crashes] + Occurs(waiting, j) + Sending(j) + One(cur = j /\ wpc \in Todo)
      <= 1 + extra[j][crashes]

\* A job taken in this life is with the worker or recorded.
PrintedKnown == \A j \in JobIds : handed[j][crashes] > 0 => j \in seen \/ cur = j

\* Nothing has happened yet in the lives to come.
FutureEmpty == \A j \in JobIds, l \in Lives : l > crashes => handed[j][l] = 0 /\ extra[j][l] = 0

CountInv == OnePlace /\ PrintCount /\ PrintedKnown /\ FutureEmpty /\ ReprintExplained

\* Counting in sequences.
LEMMA OccursType ==
  ASSUME NEW q \in Seq(JobIds), NEW j
  PROVE  /\ IsFiniteSet({i \in 1 .. Len(q) : q[i] = j}) /\ Occurs(q, j) \in Nat
         /\ (\A i \in 1 .. Len(q) : q[i] # j) => Occurs(q, j) = 0
<1> DEFINE S == {i \in 1 .. Len(q) : q[i] = j}
<1>1. IsFiniteSet(1 .. Len(q))
  BY LenProperties, FS_Interval
<1>2. IsFiniteSet(S)
  BY <1>1, FS_Subset
<1>3. Cardinality(S) \in Nat
  BY <1>2, FS_CardinalityType
<1>4. (\A i \in 1 .. Len(q) : q[i] # j) => S = {}
  OBVIOUS
<1> QED
  BY <1>2, <1>3, <1>4, FS_EmptySet DEF Occurs

\* No job occurs on an empty channel.
LEMMA OccursEmpty == \A j : Occurs(<<>>, j) = 0
<1> TAKE j
<1>1. {i \in 1 .. Len(<<>>) : <<>>[i] = j} = {}
  BY EmptySeq
<1> QED
  BY <1>1, FS_EmptySet DEF Occurs

\* A send on the channel adds one occurrence, of the job sent.
LEMMA OccursAppend ==
  ASSUME NEW q \in Seq(JobIds), NEW e \in JobIds, NEW j
  PROVE  Occurs(Append(q, e), j) = Occurs(q, j) + One(e = j)
<1> DEFINE r == Append(q, e)
           S == {i \in 1 .. Len(q) : q[i] = j}
           T == {i \in 1 .. Len(r) : r[i] = j}
<1> SUFFICES Occurs(r, j) = Occurs(q, j) + One(e = j)
  OBVIOUS
<1>1. /\ Len(q) \in Nat /\ Len(r) = Len(q) + 1
      /\ \A i \in 1 .. Len(q) : r[i] = q[i]
      /\ r[Len(q) + 1] = e
  BY AppendProperties, LenProperties
<1>2. IsFiniteSet(S) /\ Cardinality(S) \in Nat
  BY OccursType DEF Occurs
<1> HIDE DEF r
<1>3. CASE e = j
  <2>1. T = S \cup {Len(q) + 1} /\ Len(q) + 1 \notin S
    BY <1>1, <1>3
  <2>2. Cardinality(T) = Cardinality(S) + 1
    BY <1>2, <2>1, FS_AddElement
  <2> QED
    BY <1>3, <2>2 DEF Occurs, One
<1>4. CASE e # j
  <2>1. T = S
    BY <1>1, <1>4
  <2>2. Cardinality(T) = Cardinality(S)
    BY <2>1
  <2> QED
    BY <1>2, <1>4, <2>2 DEF Occurs, One
<1> QED
  BY <1>3, <1>4

\* A receive takes one occurrence away, of the job received.
LEMMA OccursTail ==
  ASSUME NEW q \in Seq(JobIds), q # <<>>, NEW j
  PROVE  Occurs(q, j) = Occurs(Tail(q), j) + One(Head(q) = j)
<1> DEFINE r == Tail(q)
           S == {i \in 1 .. Len(r) : r[i] = j}
           U == {i \in 2 .. Len(q) : q[i] = j}
           T == {i \in 1 .. Len(q) : q[i] = j}
<1> SUFFICES Occurs(q, j) = Occurs(r, j) + One(Head(q) = j)
  OBVIOUS
<1>1. /\ Len(q) \in Nat \ {0} /\ Len(r) = Len(q) - 1 /\ Head(q) = q[1] /\ r \in Seq(JobIds)
      /\ \A i \in 1 .. Len(r) : r[i] = q[i + 1]
  BY HeadTailProperties, LenProperties, EmptySeq
<1>2. IsFiniteSet(S) /\ Cardinality(S) \in Nat
  BY <1>1, OccursType DEF Occurs
<1> HIDE DEF r
<1>3. IsFiniteSet(U) /\ Cardinality(U) = Cardinality(S)
  <2> DEFINE f == [i \in S |-> i + 1]
  <2>1. \A i \in S : i \in Int /\ i + 1 \in U
    BY <1>1
  <2>2. f \in [S -> U]
    BY <2>1
  <2>3. \A a, b \in S : f[a] = f[b] => a = b
    BY <2>1
  <2>4. \A k \in U : k - 1 \in S /\ f[k - 1] = k
    BY <1>1
  <2>5. f \in Bijection(S, U)
    <3> HIDE DEF f, S, U
    <3> QED
      BY <2>2, <2>3, <2>4 DEF Bijection, Injection, Surjection, IsInjective
  <2>6. ExistsBijection(S, U)
    BY <2>5 DEF ExistsBijection
  <2> QED
    BY <1>2, <2>6, FS_Bijection
<1>4. CASE Head(q) = j
  <2>1. T = U \cup {1} /\ 1 \notin U
    BY <1>1, <1>4
  <2>2. Cardinality(T) = Cardinality(S) + 1
    BY <1>2, <1>3, <2>1, FS_AddElement
  <2> QED
    BY <1>4, <2>2 DEF Occurs, One
<1>5. CASE Head(q) # j
  <2>1. T = U
    BY <1>1, <1>5
  <2>2. Cardinality(T) = Cardinality(S)
    BY <1>3, <2>1
  <2> QED
    BY <1>2, <1>5, <2>2 DEF Occurs, One
<1> QED
  BY <1>4, <1>5

\* Counting deliveries: only those at "send" count.
LEMMA SendingType ==
  ASSUME TypeInv, NEW j
  PROVE  /\ IsFiniteSet({h \in hands : h.at = "send" /\ h.job = j}) /\ Sending(j) \in Nat
         /\ (\A h \in hands : ~ (h.at = "send" /\ h.job = j)) => Sending(j) = 0
<1> DEFINE S == {h \in hands : h.at = "send" /\ h.job = j}
<1>1. IsFiniteSet(S)
  BY FS_Subset DEF TypeInv, Loops
<1>2. Cardinality(S) \in Nat
  BY <1>1, FS_CardinalityType
<1>3. (\A h \in hands : ~ (h.at = "send" /\ h.job = j)) => S = {}
  OBVIOUS
<1> QED
  BY <1>1, <1>2, <1>3, FS_EmptySet DEF Sending

\* The count of sends under way depends on the read loops at the send alone.
LEMMA SendingSame ==
  ASSUME {h \in hands' : h.at = "send"} = {h \in hands : h.at = "send"}
  PROVE  \A j : Sending(j)' = Sending(j)
<1> TAKE j
<1>1. {h \in hands' : h.at = "send" /\ h.job = j} = {h \in hands : h.at = "send" /\ h.job = j}
  OBVIOUS
<1> QED
  BY <1>1 DEF Sending

\* When the send of a read loop succeeds, one fewer is under way for its job.
LEMMA SendingLess ==
  ASSUME TypeInv, NEW h \in hands, h.at = "send", hands' = hands \ {h}, NEW j
  PROVE  Sending(j)' \in Nat /\ Sending(j) = Sending(j)' + One(h.job = j)
<1> DEFINE S == {g \in hands : g.at = "send" /\ g.job = j}
           T == {g \in hands' : g.at = "send" /\ g.job = j}
<1>1. IsFiniteSet(S) /\ Cardinality(S) \in Nat
  BY SendingType DEF Sending
<1>2. CASE h.job = j
  <2>1. T = S \ {h} /\ h \in S
    BY <1>2
  <2>2. Cardinality(T) = Cardinality(S) - 1 /\ IsFiniteSet(T)
    BY <1>1, <2>1, FS_RemoveElement
  <2>3. Cardinality(T) \in Nat
    BY <2>2, FS_CardinalityType
  <2> QED
    BY <1>1, <1>2, <2>2, <2>3 DEF Sending, One
<1>3. CASE h.job # j
  <2>1. T = S
    BY <1>3
  <2>2. Cardinality(T) = Cardinality(S)
    BY <2>1
  <2> QED
    BY <1>1, <1>3, <2>2 DEF Sending, One
<1> QED
  BY <1>2, <1>3

\* A delivery that passes Submit adds at most one send, for its own job.
LEMMA SendingMore ==
  ASSUME TypeInv, NEW h \in hands, h.at = "check",
         hands' = (hands \ {h}) \cup {[h EXCEPT !.at = "send"]}, NEW j
  PROVE  Sending(j)' \in Nat /\ Sending(j)' <= Sending(j) + One(h.job = j)
<1> DEFINE g == [h EXCEPT !.at = "send"]
           S == {x \in hands : x.at = "send" /\ x.job = j}
           T == {x \in hands' : x.at = "send" /\ x.job = j}
<1>1. IsFiniteSet(S) /\ Cardinality(S) \in Nat
  BY SendingType DEF Sending
<1>2. h \in [conn : 1 .. MaxConns, job : JobIds, at : {"check", "send"}]
  BY DEF TypeInv, TypeOK
<1>3. g.at = "send" /\ g.job = h.job
  BY <1>2
<1>4. hands' = (hands \ {h}) \cup {g}
  OBVIOUS
<1> HIDE DEF g
<1>5. CASE h.job = j
  <2>1. T = S \cup {g}
    BY <1>3, <1>4, <1>5
  <2>2. Cardinality(T) = IF g \in S THEN Cardinality(S) ELSE Cardinality(S) + 1
    BY <1>1, <2>1, FS_AddElement
  <2> QED
    BY <1>1, <1>5, <2>2 DEF Sending, One
<1>6. CASE h.job # j
  <2>1. T = S
    BY <1>3, <1>4, <1>6
  <2>2. Cardinality(T) = Cardinality(S)
    BY <2>1
  <2> QED
    BY <1>1, <1>6, <2>2 DEF Sending, One
<1> QED
  BY <1>5, <1>6

\* The numbers involved.
LEMMA CountTypes ==
  ASSUME TypeInv, NEW j \in JobIds
  PROVE  /\ Occurs(waiting, j) \in Nat /\ Sending(j) \in Nat
         /\ \A l \in Lives : handed[j][l] \in Nat /\ extra[j][l] \in Nat
         /\ crashes \in Lives /\ crashes \in Nat /\ Lives \subseteq Nat /\ j # Nobody
<1>1. Occurs(waiting, j) \in Nat
  BY OccursType DEF TypeInv, TypeOK
<1>2. Sending(j) \in Nat
  BY SendingType
<1> QED
  BY <1>1, <1>2, DeliveryAssumption DEF TypeInv, TypeOK, HistoryOK, Lives

\* A step that keeps all places and does not send the worker back.
LEMMA CountFrame ==
  ASSUME TypeInv, CountInv, UNCHANGED <<waiting, cur, seen, handed, extra, crashes>>,
         {h \in hands' : h.at = "send"} = {h \in hands : h.at = "send"},
         wpc' \in Todo => wpc \in Todo
  PROVE  CountInv'
<1>1. ASSUME NEW j \in JobIds
      PROVE  /\ Occurs(waiting, j)' + Sending(j)' + One(cur' = j) + One(j \in seen') <= 1 + extra'[j][crashes']
             /\ handed'[j][crashes'] + Occurs(waiting, j)' + Sending(j)' + One(cur' = j /\ wpc' \in Todo)
                  <= 1 + extra'[j][crashes']
  <2>1. Occurs(waiting, j)' = Occurs(waiting, j) /\ Sending(j)' = Sending(j)
    BY SendingSame DEF Occurs
  <2>2. /\ Occurs(waiting, j) + Sending(j) + One(cur = j) + One(j \in seen) <= 1 + extra[j][crashes]
        /\ handed[j][crashes] + Occurs(waiting, j) + Sending(j) + One(cur = j /\ wpc \in Todo)
             <= 1 + extra[j][crashes]
    BY DEF CountInv, OnePlace, PrintCount
  <2>3. /\ Occurs(waiting, j) \in Nat /\ Sending(j) \in Nat
        /\ handed[j][crashes] \in Nat /\ extra[j][crashes] \in Nat
    BY CountTypes
  <2> QED
    BY <2>1, <2>2, <2>3 DEF One
<1>2. OnePlace' /\ PrintCount'
  BY <1>1 DEF OnePlace, PrintCount
<1> QED
  BY <1>2 DEF CountInv, PrintedKnown, FutureEmpty, ReprintExplained

\* A delivery that passes Submit's check is new to this process, or is counted as extra.
LEMMA CountPasses ==
  ASSUME TypeInv, CountInv, NEW h \in hands, h.at = "check", h.job \notin seen, Passes(h),
         UNCHANGED <<waiting, cur, wpc, seen, handed, crashes>>
  PROVE  CountInv'
<1>a. /\ h.job \in JobIds /\ crashes \in Lives /\ Lives \subseteq Nat /\ MaxCrashes \in Nat
      /\ extra \in [JobIds -> [Lives -> Nat]] /\ waiting \in Seq(JobIds)
  BY DeliveryAssumption DEF TypeInv, TypeOK, HistoryOK, Lives
<1> DEFINE Again == h.job \in ToSet(waiting) \cup {cur} \cup {g.job : g \in {g \in hands : g.at = "send"}}
<1>1. extra' = IF Again THEN [extra EXCEPT ![h.job][crashes] = @ + 1] ELSE extra
  BY DEF Passes
<1>2. \A j \in JobIds, l \in Lives :
        extra'[j][l] = IF Again /\ j = h.job /\ l = crashes THEN extra[j][l] + 1 ELSE extra[j][l]
  BY <1>1, <1>a
<1>3. ASSUME ~ Again
      PROVE  Occurs(waiting, h.job) = 0 /\ Sending(h.job) = 0 /\ cur # h.job
  <2>1. \A i \in 1 .. Len(waiting) : waiting[i] # h.job
    BY <1>3, <1>a, LenProperties DEF ToSet
  <2>2. \A g \in hands : ~ (g.at = "send" /\ g.job = h.job)
    BY <1>3
  <2> QED
    BY <1>3, <1>a, <2>1, <2>2, OccursType, SendingType
<1>4. ASSUME NEW j \in JobIds
      PROVE  /\ Occurs(waiting, j)' + Sending(j)' + One(cur' = j) + One(j \in seen') <= 1 + extra'[j][crashes']
             /\ handed'[j][crashes'] + Occurs(waiting, j)' + Sending(j)' + One(cur' = j /\ wpc' \in Todo)
                  <= 1 + extra'[j][crashes']
  <2>1. Occurs(waiting, j)' = Occurs(waiting, j)
    BY DEF Occurs
  <2>2. Sending(j)' \in Nat /\ Sending(j)' <= Sending(j) + One(h.job = j)
    BY SendingMore DEF Passes
  <2>3. /\ Occurs(waiting, j) \in Nat /\ Sending(j) \in Nat
        /\ handed[j][crashes] \in Nat /\ extra[j][crashes] \in Nat
    BY CountTypes
  <2>4. /\ Occurs(waiting, j) + Sending(j) + One(cur = j) + One(j \in seen) <= 1 + extra[j][crashes]
        /\ handed[j][crashes] + Occurs(waiting, j) + Sending(j) + One(cur = j /\ wpc \in Todo)
             <= 1 + extra[j][crashes]
        /\ handed[j][crashes] > 0 => j \in seen \/ cur = j
    BY DEF CountInv, OnePlace, PrintCount, PrintedKnown
  <2>5. extra'[j][crashes'] = IF Again /\ j = h.job THEN extra[j][crashes] + 1 ELSE extra[j][crashes]
    BY <1>2, <1>a
  <2> HIDE DEF Again
  <2>6. CASE j # h.job
    BY <2>1, <2>2, <2>3, <2>4, <2>5, <2>6 DEF One
  <2>7. CASE j = h.job /\ Again
    BY <2>1, <2>2, <2>3, <2>4, <2>5, <2>7 DEF One
  <2>8. CASE j = h.job /\ ~ Again
    <3>1. Occurs(waiting, j) = 0 /\ Sending(j) = 0 /\ cur # j /\ j \notin seen
      BY <1>3, <2>8
    <3>2. handed[j][crashes] = 0
      BY <2>3, <2>4, <3>1
    <3> QED
      BY <2>1, <2>2, <2>3, <2>5, <2>8, <3>1, <3>2 DEF One
  <2> QED
    BY <2>6, <2>7, <2>8
<1>5. OnePlace' /\ PrintCount'
  BY <1>4 DEF OnePlace, PrintCount
<1>6. FutureEmpty'
  BY <1>2, <1>a DEF CountInv, FutureEmpty
<1>7. ReprintExplained'
  <2> SUFFICES ASSUME NEW j \in JobIds, NEW l \in Lives PROVE handed'[j][l] <= 1 + extra'[j][l]
    BY DEF ReprintExplained
  <2>1. handed[j][l] \in Nat /\ extra[j][l] \in Nat /\ handed[j][l] <= 1 + extra[j][l]
    BY CountTypes DEF CountInv, ReprintExplained
  <2>2. extra'[j][l] \in {extra[j][l], extra[j][l] + 1}
    BY <1>2
  <2> QED
    BY <2>1, <2>2
<1> QED
  BY <1>5, <1>6, <1>7 DEF CountInv, PrintedKnown

\* Every step keeps the count.
LEMMA CountStep ==
  ASSUME TypeInv, TypeInv', CountInv, [Next]_vars
  PROVE  CountInv'
<1>a. /\ crashes \in Lives /\ Lives \subseteq Nat /\ MaxCrashes \in Nat
      /\ waiting \in Seq(JobIds) /\ Standing
      /\ handed \in [JobIds -> [Lives -> Nat]] /\ extra \in [JobIds -> [Lives -> Nat]]
  <2>1. crashes \in Lives /\ waiting \in Seq(JobIds) /\ Standing
    BY DEF TypeInv, TypeOK
  <2>2. handed \in [JobIds -> [Lives -> Nat]] /\ extra \in [JobIds -> [Lives -> Nat]]
    BY DEF TypeInv, HistoryOK
  <2> QED
    BY <2>1, <2>2, DeliveryAssumption DEF Lives
<1>b. ASSUME NEW j \in JobIds
      PROVE  /\ Occurs(waiting, j) \in Nat /\ Sending(j) \in Nat /\ j # Nobody
             /\ handed[j][crashes] \in Nat /\ extra[j][crashes] \in Nat
             /\ Occurs(waiting, j) + Sending(j) + One(cur = j) + One(j \in seen) <= 1 + extra[j][crashes]
             /\ handed[j][crashes] + Occurs(waiting, j) + Sending(j) + One(cur = j /\ wpc \in Todo)
                  <= 1 + extra[j][crashes]
  BY CountTypes DEF CountInv, OnePlace, PrintCount
<1>1. ASSUME NEW h \in hands, Submit(h)
      PROVE  CountInv'
  <2>1. h.at = "check" /\ UNCHANGED <<waiting, cur, wpc, seen, handed, crashes>>
    BY <1>1 DEF Submit, queueVars
  <2>2. CASE h.job \in seen \/ process = "closing"
    <3>1. hands' = hands \ {h} /\ extra' = extra
      BY <1>1, <2>2 DEF Submit
    <3>2. {g \in hands' : g.at = "send"} = {g \in hands : g.at = "send"}
      BY <2>1, <3>1
    <3> QED
      BY <2>1, <3>1, <3>2, CountFrame
  <2>3. CASE ~ (h.job \in seen \/ process = "closing")
    <3>1. Passes(h) /\ h.job \notin seen
      BY <1>1, <2>3 DEF Submit
    <3> QED
      BY <2>1, <3>1, CountPasses
  <2> QED
    BY <2>2, <2>3
<1>2. ASSUME NEW h \in hands, Accept(h)
      PROVE  CountInv'
  <2>1. /\ h.at = "send" /\ hands' = hands \ {h} /\ waiting' = Append(waiting, h.job)
        /\ UNCHANGED <<cur, wpc, seen, handed, extra, crashes>>
    BY <1>2 DEF Accept, histVars
  <2>2. h.job \in JobIds
    BY DEF TypeInv, TypeOK
  <2>3. ASSUME NEW j \in JobIds
        PROVE  /\ Occurs(waiting', j) + Sending(j)' + One(cur' = j) + One(j \in seen') <= 1 + extra'[j][crashes']
               /\ handed'[j][crashes'] + Occurs(waiting', j) + Sending(j)' + One(cur' = j /\ wpc' \in Todo)
                    <= 1 + extra'[j][crashes']
    <3>1. Occurs(waiting', j) = Occurs(waiting, j) + One(h.job = j)
      BY <1>a, <2>1, <2>2, OccursAppend
    <3>2. Sending(j) = Sending(j)' + One(h.job = j)
      BY <2>1, SendingLess
    <3>3. Sending(j)' \in Nat /\ Occurs(waiting', j) \in Nat
      BY <1>b, <2>1, <3>1, SendingLess DEF One
    <3>4. Occurs(waiting', j) + Sending(j)' = Occurs(waiting, j) + Sending(j)
      BY <1>b, <3>1, <3>2, <3>3 DEF One
    <3>5. /\ One(cur' = j) = One(cur = j) /\ One(j \in seen') = One(j \in seen)
          /\ One(cur' = j /\ wpc' \in Todo) = One(cur = j /\ wpc \in Todo)
          /\ extra'[j][crashes'] = extra[j][crashes] /\ handed'[j][crashes'] = handed[j][crashes]
      BY <2>1
    <3>6. /\ One(cur = j) \in Nat /\ One(j \in seen) \in Nat
          /\ One(cur = j /\ wpc \in Todo) \in Nat
      BY DEF One
    <3> QED
      BY <1>b, <3>3, <3>4, <3>5, <3>6
  <2>4. OnePlace' /\ PrintCount'
    BY <2>3 DEF OnePlace, PrintCount
  <2> QED
    BY <2>1, <2>4 DEF CountInv, PrintedKnown, FutureEmpty, ReprintExplained
<1>3. CASE Take
  <2>1. /\ wpc = "select" /\ waiting # <<>> /\ cur' = Head(waiting) /\ waiting' = Tail(waiting)
        /\ wpc' = "queued" /\ UNCHANGED <<hands, seen, handed, extra, crashes>>
    BY <1>3 DEF Take, histVars
  <2>2. cur = Nobody
    BY <1>a, <2>1 DEF Standing
  <2>3. ASSUME NEW j \in JobIds
        PROVE  /\ Occurs(waiting', j) + Sending(j)' + One(cur' = j) + One(j \in seen') <= 1 + extra'[j][crashes']
               /\ handed'[j][crashes'] + Occurs(waiting', j) + Sending(j)' + One(cur' = j /\ wpc' \in Todo)
                    <= 1 + extra'[j][crashes']
    <3>1. Occurs(waiting, j) = Occurs(waiting', j) + One(cur' = j)
      BY <1>a, <2>1, OccursTail
    <3>2. Sending(j)' = Sending(j)
      BY <2>1 DEF Sending
    <3>3. Occurs(waiting', j) \in Nat
      BY <1>a, <2>1, HeadTailProperties, OccursType
    <3>4. /\ One(cur = j) = 0 /\ One(cur = j /\ wpc \in Todo) = 0
          /\ One(cur' = j /\ wpc' \in Todo) = One(cur' = j)
      BY <1>b, <2>1, <2>2 DEF One, Todo
    <3>5. /\ One(j \in seen') = One(j \in seen) /\ extra'[j][crashes'] = extra[j][crashes]
          /\ handed'[j][crashes'] = handed[j][crashes]
      BY <2>1
    <3>6. One(cur' = j) \in Nat /\ One(j \in seen) \in Nat
      BY DEF One
    <3> QED
      BY <1>b, <3>1, <3>2, <3>3, <3>4, <3>5, <3>6
  <2>4. OnePlace' /\ PrintCount'
    BY <2>3 DEF OnePlace, PrintCount
  <2>5. PrintedKnown'
    BY <1>b, <2>1, <2>2 DEF CountInv, PrintedKnown
  <2> QED
    BY <2>1, <2>4, <2>5 DEF CountInv, FutureEmpty, ReprintExplained
<1>4. CASE DriverPrint
  <2>1. cur \in JobIds /\ wpc = "print" /\ wpc' \notin Todo
        /\ UNCHANGED <<hands, waiting, cur, seen, extra, crashes>>
    BY <1>4, <1>a DEF DriverPrint, Standing, TypeInv, TypeOK, Todo
  <2>2. PICK taken \in {0, 1} : handed' = [handed EXCEPT ![cur][crashes] = @ + taken]
    BY <1>4 DEF DriverPrint, Passed
  <2>3. \A j \in JobIds, l \in Lives :
          handed'[j][l] = IF j = cur /\ l = crashes THEN handed[j][l] + taken ELSE handed[j][l]
    BY <1>a, <2>1, <2>2
  <2>4. ASSUME NEW j \in JobIds
        PROVE  /\ Occurs(waiting, j)' + Sending(j)' + One(cur' = j) + One(j \in seen') <= 1 + extra'[j][crashes']
               /\ handed'[j][crashes'] + Occurs(waiting, j)' + Sending(j)' + One(cur' = j /\ wpc' \in Todo)
                    <= 1 + extra'[j][crashes']
    <3>1. Occurs(waiting, j)' = Occurs(waiting, j) /\ Sending(j)' = Sending(j)
      BY <2>1 DEF Occurs, Sending
    <3>2. handed'[j][crashes'] = IF j = cur THEN handed[j][crashes] + taken ELSE handed[j][crashes]
      BY <1>a, <2>1, <2>3
    <3>3. wpc \in Todo
      BY <2>1 DEF Todo
    <3> QED
      BY <1>b, <2>1, <3>1, <3>2, <3>3 DEF One
  <2>5. OnePlace' /\ PrintCount'
    BY <2>4 DEF OnePlace, PrintCount
  <2>6. PrintedKnown' /\ FutureEmpty'
    <3>1. PrintedKnown'
      BY <1>a, <2>1, <2>3 DEF CountInv, PrintedKnown
    <3>2. FutureEmpty'
      <4> SUFFICES ASSUME NEW j \in JobIds, NEW l \in Lives, l > crashes
                   PROVE  handed'[j][l] = 0 /\ extra'[j][l] = 0
        BY <2>1 DEF FutureEmpty
      <4>1. l # crashes
        BY <1>a
      <4> QED
        BY <2>1, <2>3, <4>1 DEF CountInv, FutureEmpty
    <3> QED
      BY <3>1, <3>2
  <2>7. ASSUME NEW j \in JobIds, NEW l \in Lives
        PROVE  handed'[j][l] <= 1 + extra'[j][l]
    <3>1. CASE l = crashes
      <4>1. Occurs(waiting, j)' = Occurs(waiting, j) /\ Sending(j)' = Sending(j)
        BY <2>1 DEF Occurs, Sending
      <4>2. handed'[j][l] \in Nat /\ extra'[j][l] \in Nat
        BY <1>a, <2>1, <2>3
      <4> QED
        BY <1>b, <2>1, <2>4, <3>1, <4>1, <4>2 DEF One
    <3>2. CASE l # crashes
      BY <2>1, <2>3, <3>2 DEF CountInv, ReprintExplained
    <3> QED
      BY <3>1, <3>2
  <2> QED
    BY <2>5, <2>6, <2>7 DEF CountInv, ReprintExplained
<1>5. CASE Record
  <2>1. /\ wpc = "record" /\ wpc' = "select" /\ cur' = Nobody /\ seen' = seen \cup {cur}
        /\ UNCHANGED <<hands, waiting, handed, extra, crashes>>
    BY <1>5 DEF Record, histVars
  <2>2. ASSUME NEW j \in JobIds
        PROVE  /\ Occurs(waiting, j)' + Sending(j)' + One(cur' = j) + One(j \in seen') <= 1 + extra'[j][crashes']
               /\ handed'[j][crashes'] + Occurs(waiting, j)' + Sending(j)' + One(cur' = j /\ wpc' \in Todo)
                    <= 1 + extra'[j][crashes']
    <3>1. Occurs(waiting, j)' = Occurs(waiting, j) /\ Sending(j)' = Sending(j)
      BY <2>1 DEF Occurs, Sending
    <3>2. cur' # j /\ (j \in seen' <=> j \in seen \/ cur = j)
      BY <1>b, <2>1
    <3> QED
      BY <1>b, <2>1, <3>1, <3>2 DEF One
  <2>3. OnePlace' /\ PrintCount'
    BY <2>2 DEF OnePlace, PrintCount
  <2>4. PrintedKnown'
    BY <2>1 DEF CountInv, PrintedKnown
  <2> QED
    BY <2>1, <2>3, <2>4 DEF CountInv, FutureEmpty, ReprintExplained
<1>6. CASE Crash \/ Exit
  <2>1. /\ crashes' = crashes + 1 /\ hands' = {} /\ waiting' = <<>> /\ wpc' = "select"
        /\ cur' = Nobody /\ seen' = {} /\ UNCHANGED <<handed, extra>>
    BY <1>6 DEF Crash, Exit, Die, histVars
  <2>2. crashes' \in Lives
    BY DEF TypeInv, TypeOK
  <2>3. ASSUME NEW j \in JobIds
        PROVE  /\ Occurs(waiting', j) + Sending(j)' + One(cur' = j) + One(j \in seen') <= 1 + extra'[j][crashes']
               /\ handed'[j][crashes'] + Occurs(waiting', j) + Sending(j)' + One(cur' = j /\ wpc' \in Todo)
                    <= 1 + extra'[j][crashes']
               /\ handed'[j][crashes'] = 0
    <3>1. Occurs(waiting', j) = 0
      BY <2>1, OccursEmpty
    <3>2. Sending(j)' = 0
      BY <2>1, FS_EmptySet DEF Sending
    <3>3. handed'[j][crashes'] = 0 /\ extra'[j][crashes'] = 0
      BY <1>a, <2>1, <2>2 DEF CountInv, FutureEmpty
    <3>4. cur' # j /\ j \notin seen'
      BY <1>b, <2>1
    <3> QED
      BY <3>1, <3>2, <3>3, <3>4 DEF One
  <2>4. OnePlace' /\ PrintCount' /\ PrintedKnown'
    BY <2>3 DEF OnePlace, PrintCount, PrintedKnown
  <2>5. FutureEmpty'
    BY <1>a, <2>1, <2>2 DEF CountInv, FutureEmpty
  <2> QED
    BY <2>1, <2>4, <2>5 DEF CountInv, ReprintExplained
<1>7. CASE Deliver
  <2>1. /\ UNCHANGED <<waiting, cur, wpc, seen, handed, extra, crashes>>
        /\ hands' = hands \cup {[conn |-> conns, job |-> Head(toBridge), at |-> "check"]}
    BY <1>7 DEF Deliver, queueVars, histVars
  <2>2. {h \in hands' : h.at = "send"} = {h \in hands : h.at = "send"}
    BY <2>1
  <2> QED
    BY <2>1, <2>2, CountFrame
<1>8. CASE Report
  <2>1. UNCHANGED <<hands, waiting, cur, seen, handed, extra, crashes>>
        /\ wpc \in {"queued", "sent", "printing"} \cup Terminal /\ wpc' = After(wpc)
    BY <1>8 DEF Report, histVars
  <2>2. wpc' \in Todo => wpc \in Todo
    BY <2>1 DEF After, Todo, Terminal
  <2> QED
    BY <2>1, <2>2, CountFrame
<1>9. CASE \/ Connect \/ Write \/ WriteInVain \/ NoticeLoss \/ StaleStops \/ ConnDies \/ WriteTimesOut
           \/ WatchPrinters \/ StatusEvent \/ Plug \/ StatusTurns \/ Restart \/ UNCHANGED vars
  <2>1. UNCHANGED <<hands, waiting, cur, wpc, seen, handed, extra, crashes>>
    BY <1>9 DEF Connect, Write, WriteInVain, NoticeLoss, StaleStops, ConnDies, WriteTimesOut, WatchPrinters,
                StatusEvent, Plug, StatusTurns, Restart, vars, queueVars, histVars
  <2> QED
    BY <2>1, CountFrame
<1> QED
  BY <1>1, <1>2, <1>3, <1>4, <1>5, <1>6, <1>7, <1>8, <1>9 DEF Next, ReadLoops, Worker, Printer, Losses

\* At first nothing is on its way and nothing taken.
LEMMA CountInit == Init => CountInv
<1> SUFFICES ASSUME Init PROVE CountInv
  OBVIOUS
<1>1. 0 \in Lives
  BY DeliveryAssumption DEF Lives
<1>2. ASSUME NEW j \in JobIds
      PROVE  /\ Occurs(waiting, j) = 0 /\ Sending(j) = 0 /\ cur # j /\ j \notin seen
             /\ \A l \in Lives : handed[j][l] = 0 /\ extra[j][l] = 0
  BY OccursEmpty, FS_EmptySet, DeliveryAssumption DEF Init, Sending
<1>3. crashes = 0
  BY DEF Init
<1>4. OnePlace /\ PrintCount
  BY <1>1, <1>2, <1>3 DEF OnePlace, PrintCount, One
<1> QED
  BY <1>1, <1>2, <1>3, <1>4 DEF CountInv, PrintedKnown, FutureEmpty, ReprintExplained

\* However often connections are lost and jobs delivered again, a life of the process
\* prints a job at most once, plus once for each delivery that got past Submit before the
\* terminal record of the one before it.
THEOREM ReprintsCounted == Spec => []ReprintExplained
<1>1. TypeInv /\ CountInv /\ [Next]_vars => (TypeInv /\ CountInv)'
  BY TypeStep, CountStep
<1>2. CountInv => ReprintExplained
  BY DEF CountInv
<1> QED
  BY <1>1, <1>2, TypeInit, CountInit, PTL DEF Spec

-----------------------------------------------------------------------------
(* The server's view of the printer *)

InBuffer(m) == \E i \in 1 .. Len(buffer) : buffer[i] = m

\* The last update of this life says what the printer is, unless it has turned since.
SaysInv ==
  last.life = crashes =>
    /\ ~ announced => last.says = "unavailable"
    /\ announced /\ ~ turned => (last.says = "available" <=> ready)

\* The updates in the buffer are in their order and none is newer than the last, and one
\* that is neither in the buffer nor lost has been received after all the others.
ViewInv ==
  /\ last.life <= crashes
  /\ \A i \in 1 .. Len(buffer) :
       buffer[i].about = Nobody =>
         /\ last.life = crashes /\ buffer[i].n <= last.n
         /\ buffer[i].n = last.n => buffer[i] = last
  /\ \A i, k \in 1 .. Len(buffer) :
       i < k /\ buffer[i].about = Nobody /\ buffer[k].about = Nobody => buffer[i].n < buffer[k].n
  /\ last.life = crashes /\ ~ InBuffer(last) /\ last \notin gone =>
       /\ view <=> last.says = "available"
       /\ \A i \in 1 .. Len(buffer) : buffer[i].about # Nobody

\* The types the argument needs.
LEMMA ViewTypes ==
  ASSUME TypeInv
  PROVE  /\ last.about = Nobody /\ last.n \in Nat /\ last.life \in Nat /\ crashes \in Nat
         /\ Len(buffer) \in Nat
         /\ \A i \in 1 .. Len(buffer) : buffer[i] \in Messages
         /\ \A m \in Messages : m.n \in Nat
<1>1. last \in Updates /\ crashes \in Lives /\ buffer \in Seq(Messages)
  BY DEF TypeInv, TypeOK
<1>2. Lives \subseteq Nat
  BY DeliveryAssumption DEF Lives
<1>3. Len(buffer) \in Nat /\ \A i \in 1 .. Len(buffer) : buffer[i] \in Messages
  BY <1>1, LenProperties, ElementOfSeq
<1>4. \A m \in Messages : m.n \in Nat
  BY DEF Messages
<1> QED
  BY <1>1, <1>2, <1>3, <1>4 DEF Updates

\* A step that leaves the updates alone.
LEMMA ViewFrame ==
  ASSUME ViewInv, UNCHANGED <<buffer, last, crashes, view>>, gone \subseteq gone'
  PROVE  ViewInv'
BY DEF ViewInv, InBuffer

\* A message about a job joins the buffer or is lost.
LEMMA ViewSendJob ==
  ASSUME TypeInv, ViewInv, NEW m \in Messages, m.about # Nobody, Send(m),
         UNCHANGED <<last, crashes, view>>
  PROVE  ViewInv'
<1>1. /\ buffer' = buffer \/ buffer' = Append(buffer, m)
      /\ gone \subseteq gone'
  BY SendEffect DEF TypeInv
<1>2. CASE buffer' = buffer
  BY <1>1, <1>2, ViewFrame
<1>3. CASE buffer' = Append(buffer, m)
  <2>1. /\ Len(buffer) \in Nat /\ Len(buffer') = Len(buffer) + 1
        /\ \A i \in 1 .. Len(buffer) : buffer'[i] = buffer[i]
        /\ buffer'[Len(buffer) + 1] = m
    BY <1>3, BufferGrows DEF TypeInv
  <2>2. last.about = Nobody
    BY ViewTypes
  <2>3. \A i \in 1 .. Len(buffer') : buffer'[i].about = Nobody => i \in 1 .. Len(buffer)
    BY <2>1
  <2>4. InBuffer(last)' <=> InBuffer(last)
    BY <2>1, <2>2 DEF InBuffer
  <2> QED
    BY <1>1, <2>1, <2>3, <2>4 DEF ViewInv
<1> QED
  BY <1>1, <1>2, <1>3

\* The first message leaves the buffer: the server receives it, or it is lost.
LEMMA ViewTail ==
  ASSUME TypeInv, ViewInv, buffer # <<>>, buffer' = Tail(buffer),
         UNCHANGED <<last, crashes>>, gone \subseteq gone',
         \/ view' = view /\ (Head(buffer).about = Nobody => Head(buffer) \in gone')
         \/ Head(buffer).about = Nobody /\ (view' <=> Head(buffer).says = "available")
  PROVE  ViewInv'
<1>1. /\ Len(buffer) \in Nat \ {0} /\ Len(buffer') = Len(buffer) - 1
      /\ \A i \in 1 .. Len(buffer') : buffer'[i] = buffer[i + 1]
      /\ Head(buffer) = buffer[1]
  BY BufferShrinks DEF TypeInv
<1>2. \A i \in 1 .. Len(buffer') : i + 1 \in 1 .. Len(buffer) /\ i \in Int
  BY <1>1
<1>3. last.life' <= crashes'
  BY DEF ViewInv
<1>4. \A i \in 1 .. Len(buffer') :
        buffer'[i].about = Nobody =>
          /\ last.life = crashes /\ buffer'[i].n <= last.n
          /\ buffer'[i].n = last.n => buffer'[i] = last
  BY <1>1, <1>2 DEF ViewInv
<1>5. \A i, k \in 1 .. Len(buffer') :
        i < k /\ buffer'[i].about = Nobody /\ buffer'[k].about = Nobody => buffer'[i].n < buffer'[k].n
  <2> SUFFICES ASSUME NEW i \in 1 .. Len(buffer'), NEW k \in 1 .. Len(buffer'), i < k,
                      buffer'[i].about = Nobody, buffer'[k].about = Nobody
               PROVE  buffer'[i].n < buffer'[k].n
    OBVIOUS
  <2>1. i + 1 < k + 1 /\ buffer'[i] = buffer[i + 1] /\ buffer'[k] = buffer[k + 1]
    BY <1>1, <1>2
  <2> QED
    BY <1>2, <2>1 DEF ViewInv
<1>6. ASSUME last.life = crashes, ~ InBuffer(last)', last \notin gone'
      PROVE  /\ view' <=> last.says = "available"
             /\ \A i \in 1 .. Len(buffer') : buffer'[i].about # Nobody
  <2>1. \A i \in 1 .. Len(buffer') : buffer'[i] # last
    BY <1>6 DEF InBuffer
  <2>2. CASE Head(buffer) = last
    <3>1. Head(buffer).about = Nobody /\ (view' <=> last.says = "available")
      BY <1>6, <2>2, ViewTypes
    <3>2. ASSUME NEW i \in 1 .. Len(buffer'), buffer'[i].about = Nobody PROVE FALSE
      <4>1. buffer'[i] = buffer[i + 1] /\ i + 1 \in 1 .. Len(buffer) /\ 1 < i + 1 /\ 1 \in 1 .. Len(buffer)
        BY <1>1, <1>2
      <4>2. buffer[1].n < buffer[i + 1].n
        BY <1>1, <3>1, <3>2, <4>1 DEF ViewInv
      <4>3. buffer[i + 1].n <= last.n
        BY <3>2, <4>1 DEF ViewInv
      <4>4. buffer[i + 1].n \in Nat /\ last.n \in Nat
        BY <4>1, ViewTypes
      <4> QED
        BY <1>1, <2>2, <4>2, <4>3, <4>4
    <3> QED
      BY <3>1, <3>2
  <2>3. CASE Head(buffer) # last
    <3>1. ~ InBuffer(last)
      <4> SUFFICES ASSUME NEW i \in 1 .. Len(buffer), buffer[i] = last PROVE FALSE
        BY DEF InBuffer
      <4>1. i # 1
        BY <1>1, <2>3
      <4>2. i - 1 \in 1 .. Len(buffer') /\ buffer'[i - 1] = buffer[i]
        BY <1>1, <4>1
      <4> QED
        BY <2>1, <4>2
    <3>2. (view <=> last.says = "available") /\ \A i \in 1 .. Len(buffer) : buffer[i].about # Nobody
      BY <1>6, <3>1 DEF ViewInv
    <3>3. Head(buffer).about # Nobody
      BY <1>1, <3>2
    <3>4. view' = view
      BY <3>3
    <3> QED
      BY <1>1, <1>2, <3>2, <3>4
  <2> QED
    BY <2>2, <2>3
<1> QED
  BY <1>3, <1>4, <1>5, <1>6 DEF ViewInv

\* The bridge sends an update.
LEMMA ViewUpdate ==
  ASSUME TypeInv, TypeInv', ViewInv, SendUpdate, UNCHANGED <<view, crashes>>
  PROVE  ViewInv'
<1>1. last' = Update(Available, last.n + 1) /\ Send(last')
  BY DEF SendUpdate
<1>2. /\ last'.life = crashes /\ last'.n = last.n + 1 /\ last'.about = Nobody
      /\ last'.says \in {"available", "unavailable"}
  BY <1>1 DEF Update
<1>3. last' \in Messages
  BY DEF TypeInv, TypeOK
<1>4. /\ last.n \in Nat /\ crashes \in Nat /\ Len(buffer) \in Nat
      /\ \A i \in 1 .. Len(buffer) : buffer[i] \in Messages
      /\ \A m \in Messages : m.n \in Nat
  BY ViewTypes
<1>5. \/ buffer' = Append(buffer, last') /\ gone' = gone
      \/ buffer' = buffer /\ gone' = Lost({last'})
  BY <1>1, <1>3, SendEffect DEF TypeInv
<1>6. last'.life <= crashes'
  BY <1>1, <1>2, <1>4
<1>7. ASSUME NEW i \in 1 .. Len(buffer), buffer[i].about = Nobody
      PROVE  buffer[i].n < last'.n
  <2>1. buffer[i].n <= last.n /\ buffer[i].n \in Nat
    BY <1>4, <1>7 DEF ViewInv
  <2> QED
    BY <1>2, <1>4, <2>1
<1>8. CASE buffer' = Append(buffer, last')
  <2>1. /\ Len(buffer') = Len(buffer) + 1
        /\ \A i \in 1 .. Len(buffer) : buffer'[i] = buffer[i]
        /\ buffer'[Len(buffer) + 1] = last'
    BY <1>3, <1>8, BufferGrows DEF TypeInv
  <2>2. InBuffer(last)'
    BY <1>4, <2>1 DEF InBuffer
  <2>3. \A i \in 1 .. Len(buffer') :
          buffer'[i].about = Nobody =>
            /\ last'.life = crashes' /\ buffer'[i].n <= last'.n
            /\ buffer'[i].n = last'.n => buffer'[i] = last'
    <3> SUFFICES ASSUME NEW i \in 1 .. Len(buffer'), buffer'[i].about = Nobody
                 PROVE  /\ last'.life = crashes' /\ buffer'[i].n <= last'.n
                        /\ buffer'[i].n = last'.n => buffer'[i] = last'
      OBVIOUS
    <3>1. CASE i \in 1 .. Len(buffer)
      <4>1. buffer'[i] = buffer[i] /\ buffer[i].n < last'.n /\ buffer[i].n \in Nat /\ last'.n \in Nat
        BY <1>2, <1>4, <1>7, <2>1, <3>1
      <4> QED
        BY <1>1, <1>2, <4>1
    <3>2. CASE i = Len(buffer) + 1
      BY <1>1, <1>2, <1>4, <2>1, <3>2
    <3> QED
      BY <1>4, <2>1, <3>1, <3>2
  <2>4. \A i, k \in 1 .. Len(buffer') :
          i < k /\ buffer'[i].about = Nobody /\ buffer'[k].about = Nobody => buffer'[i].n < buffer'[k].n
    <3> SUFFICES ASSUME NEW i \in 1 .. Len(buffer'), NEW k \in 1 .. Len(buffer'), i < k,
                        buffer'[i].about = Nobody, buffer'[k].about = Nobody
                 PROVE  buffer'[i].n < buffer'[k].n
      OBVIOUS
    <3>1. i \in 1 .. Len(buffer) /\ buffer'[i] = buffer[i]
      BY <1>4, <2>1
    <3>2. CASE k \in 1 .. Len(buffer)
      BY <2>1, <3>1, <3>2 DEF ViewInv
    <3>3. CASE k = Len(buffer) + 1
      BY <1>7, <2>1, <3>1, <3>3
    <3> QED
      BY <1>4, <2>1, <3>2, <3>3
  <2> QED
    BY <1>6, <2>2, <2>3, <2>4 DEF ViewInv
<1>9. CASE buffer' = buffer /\ gone' = Lost({last'})
  <2>1. last' \in gone'
    BY <1>2, <1>9 DEF Lost
  <2>2. \A i \in 1 .. Len(buffer') :
          buffer'[i].about = Nobody =>
            /\ last'.life = crashes' /\ buffer'[i].n <= last'.n
            /\ buffer'[i].n = last'.n => buffer'[i] = last'
    <3> SUFFICES ASSUME NEW i \in 1 .. Len(buffer), buffer[i].about = Nobody
                 PROVE  /\ last'.life = crashes' /\ buffer[i].n <= last'.n
                        /\ buffer[i].n # last'.n
      BY <1>9
    <3>1. buffer[i].n < last'.n /\ buffer[i].n \in Nat /\ last'.n \in Nat
      BY <1>2, <1>4, <1>7
    <3> QED
      BY <1>1, <1>2, <3>1
  <2> QED
    BY <1>6, <1>9, <2>1, <2>2 DEF ViewInv
<1> QED
  BY <1>5, <1>8, <1>9

\* Every step keeps it.
LEMMA ViewStep ==
  ASSUME TypeInv, TypeInv', ViewInv, [Next]_vars
  PROVE  ViewInv'
<1>a. TypeOK /\ Standing /\ crashes \in Lives
  BY DEF TypeInv, TypeOK
<1>1. CASE Write
  <2>1. /\ buffer # <<>> /\ buffer' = Tail(buffer) /\ ServerReceive(Head(buffer))
        /\ UNCHANGED <<last, crashes, gone>>
    BY <1>1 DEF Write, printerVars
  <2>2. \/ Head(buffer).about = Nobody /\ (view' <=> Head(buffer).says = "available")
        \/ Head(buffer).about # Nobody /\ view' = view
    BY <2>1 DEF ServerReceive
  <2> QED
    BY <2>1, <2>2, ViewTail
<1>2. CASE WriteInVain
  <2>1. /\ buffer # <<>> /\ buffer' = Tail(buffer) /\ gone' = Lost({Head(buffer)})
        /\ UNCHANGED <<last, crashes, view>>
    BY <1>2 DEF WriteInVain, serverVars, printerVars
  <2>2. Head(buffer) \in Messages
    BY <1>a, <2>1, BufferShrinks
  <2>3. gone \subseteq gone' /\ (Head(buffer).about = Nobody => Head(buffer) \in gone')
    BY <2>1, <2>2, DeliveryAssumption DEF Lost, Messages
  <2> QED
    BY <2>1, <2>3, ViewTail
<1>3. CASE Deliver
  <2>1. Head(toBridge) \in JobIds
    BY <1>3, <1>a, HeadTailProperties DEF Deliver, TypeOK
  <2> DEFINE m == Job(Head(toBridge), "ack")
  <2>2. m \in Messages /\ m.about # Nobody
    BY <1>a, <2>1, MessageTypes, DeliveryAssumption DEF Job
  <2>3. Send(m) /\ UNCHANGED <<last, crashes, view>>
    BY <1>3 DEF Deliver, serverVars, printerVars
  <2> HIDE DEF m
  <2> QED
    BY <2>2, <2>3, ViewSendJob
<1>4. CASE Report
  <2>1. wpc \in {"queued", "sent", "printing"} \cup Terminal
    BY <1>4 DEF Report
  <2>2. cur \in JobIds
    BY <1>a, <2>1 DEF Standing, Terminal, TypeOK
  <2> DEFINE m == Job(cur, wpc)
  <2>3. m \in Messages /\ m.about # Nobody
    BY <1>a, <2>1, <2>2, AfterReport, MessageTypes, DeliveryAssumption DEF Job
  <2>4. Send(m) /\ UNCHANGED <<last, crashes, view>>
    BY <1>4 DEF Report, serverVars, printerVars
  <2> HIDE DEF m
  <2> QED
    BY <2>3, <2>4, ViewSendJob
<1>5. CASE WatchPrinters \/ StatusEvent
  <2>1. SendUpdate /\ UNCHANGED <<view, crashes>>
    BY <1>5 DEF WatchPrinters, StatusEvent, serverVars
  <2> QED
    BY <2>1, ViewUpdate
<1>6. CASE Crash \/ Exit
  <2>1. buffer' = <<>> /\ crashes' = crashes + 1 /\ last' = last
    BY <1>6 DEF Crash, Exit, Die
  <2>2. Len(buffer') = 0
    BY <2>1, EmptySeq
  <2>3. last.life' < crashes'
    BY <2>1, ViewTypes DEF ViewInv
  <2>4. last.life' # crashes' /\ last.life' <= crashes'
    BY <2>1, <2>3, ViewTypes
  <2> QED
    BY <2>2, <2>4 DEF ViewInv
<1>7. CASE \/ Connect \/ NoticeLoss \/ StaleStops \/ ConnDies \/ WriteTimesOut \/ Plug \/ StatusTurns \/ Restart
           \/ (\E h \in hands : Submit(h) \/ Accept(h)) \/ Take \/ DriverPrint \/ Record \/ UNCHANGED vars
  <2>1. UNCHANGED <<buffer, last, crashes, view, gone>>
    BY <1>7 DEF Connect, NoticeLoss, StaleStops, ConnDies, WriteTimesOut, Plug, StatusTurns, Restart, Submit, Accept, Take,
                DriverPrint, Record, vars, serverVars, printerVars
  <2> QED
    BY <2>1, ViewFrame
<1> QED
  BY <1>1, <1>2, <1>3, <1>4, <1>5, <1>6, <1>7 DEF Next, ReadLoops, Worker, Printer, Losses

\* Every update says what is true when it is made.
LEMMA SaysStep ==
  ASSUME TypeInv, ViewInv, SaysInv, [Next]_vars
  PROVE  SaysInv'
<1>a. present \in BOOLEAN /\ ready \in BOOLEAN /\ announced \in BOOLEAN
  BY DEF TypeInv, TypeOK
<1>1. CASE WatchPrinters \/ StatusEvent
  <2>1. last' = Update(Available, last.n + 1) /\ announced' = present /\ ready' = ready
    BY <1>1, <1>a DEF WatchPrinters, StatusEvent, SendUpdate
  <2>2. last'.says = IF Available THEN "available" ELSE "unavailable"
    BY <2>1 DEF Update
  <2> QED
    BY <1>a, <2>1, <2>2 DEF SaysInv, Available
<1>2. CASE StatusTurns
  BY <1>2 DEF StatusTurns, SaysInv
<1>3. CASE Crash \/ Exit
  <2>1. crashes' = crashes + 1 /\ last' = last
    BY <1>3 DEF Crash, Exit, Die
  <2>2. last.life <= crashes /\ last.life \in Nat /\ crashes \in Nat
    BY ViewTypes DEF ViewInv
  <2> QED
    BY <2>1, <2>2 DEF SaysInv
<1>4. CASE ~ (WatchPrinters \/ StatusEvent \/ StatusTurns \/ Crash \/ Exit)
  <2>1. UNCHANGED <<last, crashes, announced, ready, turned>>
    BY <1>4 DEF Next, vars, ReadLoops, Worker, Printer, Losses, Connect, Write, NoticeLoss, StaleStops, Deliver,
                Submit, Accept, Take, Report, DriverPrint, Record, ConnDies, WriteInVain, WriteTimesOut, Plug,
                Restart, printerVars
  <2> QED
    BY <2>1 DEF SaysInv
<1> QED
  BY <1>1, <1>2, <1>3, <1>4

\* The server's view of the printer's availability is wrong only while discovery or the
\* last update is under way, because that update was lost, because a restarted process
\* has not announced the printer, or because the status turned after the update was made:
\* an older update never overtakes a newer one.
THEOREM ViewTrue == Spec => []ViewExplained
<1>1. Init => ViewInv /\ SaysInv
  <2> SUFFICES ASSUME Init PROVE ViewInv /\ SaysInv
    OBVIOUS
  <2>1. Len(buffer) = 0
    BY EmptySeq DEF Init
  <2> QED
    BY <2>1 DEF Init, ViewInv, SaysInv
<1>2. TypeInv /\ ViewInv /\ SaysInv /\ [Next]_vars => (TypeInv /\ ViewInv /\ SaysInv)'
  BY TypeStep, ViewStep, SaysStep
<1>3. TypeInv /\ ViewInv /\ SaysInv => ViewExplained
  <2> SUFFICES ASSUME TypeInv, ViewInv, SaysInv, announced = present, last \notin ToSet(buffer) \cup gone,
                      last.life = crashes, ~ (present /\ turned)
               PROVE  view = (present /\ ready)
    BY DEF ViewExplained
  <2>1. ~ InBuffer(last)
    BY LenProperties DEF InBuffer, ToSet, TypeInv, TypeOK
  <2>2. view <=> last.says = "available"
    BY <2>1 DEF ViewInv
  <2>3. last.says = "available" <=> present /\ ready
    BY DEF SaysInv
  <2>4. view \in BOOLEAN
    BY DEF TypeInv, TypeOK
  <2> QED
    BY <2>2, <2>3, <2>4
<1> QED
  BY <1>1, <1>2, <1>3, TypeInit, PTL DEF Spec

-----------------------------------------------------------------------------
(* A finished job stays finished *)

Ends(m, j)   == m.about = j /\ m.says \in Terminal
Reopens(m, j) == m.about = j /\ m.says \notin Terminal \cup {"ack"}

Ended(j) == known[j] \in Terminal \/ \E i \in 1 .. Len(buffer) : Ends(buffer[i], j)

\* In the first life, a job that no delivery overtook: once its end is under way the
\* worker has nothing more to say about it, and nothing that would reopen it is behind.
StaysEnded(j) ==
  /\ Ended(j) => j \in seen \/ (cur = j /\ wpc = "record")
  /\ \A i, k \in 1 .. Len(buffer) : i < k /\ Ends(buffer[i], j) => ~ Reopens(buffer[k], j)
  /\ known[j] \in Terminal => \A k \in 1 .. Len(buffer) : ~ Reopens(buffer[k], j)

Once(j) == crashes = 0 /\ extra[j][0] = 0

EndedInv == \A j \in JobIds : Once(j) => StaysEnded(j)

\* Deaths and overtaking deliveries are not forgotten.
LEMMA OnceBefore ==
  ASSUME TypeInv, [Next]_vars, NEW j \in JobIds, Once(j)'
  PROVE  Once(j)
<1>a. /\ crashes \in Nat /\ crashes \in Lives /\ 0 \in Lives /\ extra \in [JobIds -> [Lives -> Nat]]
  BY CountTypes, DeliveryAssumption DEF TypeInv, HistoryOK, Lives
<1>1. CASE Crash \/ Exit
  <2>1. crashes' = crashes + 1
    BY <1>1 DEF Crash, Exit, Die
  <2> QED
    BY <1>a, <2>1 DEF Once
<1>2. ASSUME NEW h \in hands, Submit(h)
      PROVE  Once(j)
  <2>1. crashes' = crashes /\ extra' \in {extra, [extra EXCEPT ![h.job][crashes] = @ + 1]}
    BY <1>2 DEF Submit, Passes
  <2>2. h.job \in JobIds
    BY DEF TypeInv, TypeOK
  <2>3. extra'[j][0] \in {extra[j][0], extra[j][0] + 1} /\ extra[j][0] \in Nat
    BY <1>a, <2>1, <2>2
  <2> QED
    BY <2>1, <2>3 DEF Once
<1>3. CASE ~ (Crash \/ Exit) /\ ~ \E h \in hands : Submit(h)
  <2>1. UNCHANGED <<crashes, extra>>
    BY <1>3 DEF Next, vars, ReadLoops, Worker, Printer, Losses, Connect, Write, NoticeLoss, StaleStops, Deliver,
                Accept, Take, Report, DriverPrint, Record, WatchPrinters, StatusEvent, StatusTurns, ConnDies,
                WriteInVain, WriteTimesOut, Plug, Restart, histVars
  <2> QED
    BY <2>1 DEF Once
<1> QED
  BY <1>1, <1>2, <1>3

\* A job that was recorded, or whose end was reported, is not with the worker any more.
LEMMA EndedIsOver ==
  ASSUME TypeInv, CountInv, NEW j \in JobIds, Once(j), j \in seen
  PROVE  cur # j
<1>1. Occurs(waiting, j) + Sending(j) + One(cur = j) + One(j \in seen) <= 1 + extra[j][crashes]
  BY DEF CountInv, OnePlace
<1>2. Occurs(waiting, j) \in Nat /\ Sending(j) \in Nat /\ extra[j][crashes] = 0
  BY CountTypes DEF Once
<1> QED
  BY <1>1, <1>2 DEF One

\* A step that moves neither the server's state nor the buffer, nor the job of the worker.
LEMMA EndedFrame ==
  ASSUME TypeInv, EndedInv, [Next]_vars, UNCHANGED <<known, buffer>>,
         \A j \in JobIds : j \in seen \/ (cur = j /\ wpc = "record") =>
                             j \in seen' \/ (cur' = j /\ wpc' = "record")
  PROVE  EndedInv'
<1> SUFFICES ASSUME NEW j \in JobIds, Once(j)' PROVE StaysEnded(j)'
  BY DEF EndedInv
<1>1. StaysEnded(j)
  BY OnceBefore DEF EndedInv
<1>2. Ended(j)' <=> Ended(j)
  BY DEF Ended
<1>3. Ended(j)' => j \in seen' \/ (cur' = j /\ wpc' = "record")
  BY <1>1, <1>2 DEF StaysEnded
<1> QED
  BY <1>1, <1>3 DEF StaysEnded

\* A step that sends a message which reopens no ended job.
LEMMA EndedSend ==
  ASSUME TypeInv, EndedInv, [Next]_vars, NEW m \in Messages, Send(m), UNCHANGED <<known, seen>>,
         \A j \in JobIds : cur = j /\ wpc = "record" => cur' = j /\ wpc' = "record",
         \A j \in JobIds : Once(j) /\ Ends(m, j) => cur' = j /\ wpc' = "record",
         \A j \in JobIds : Once(j) /\ Ended(j) => ~ Reopens(m, j)
  PROVE  EndedInv'
<1>1. buffer' = buffer \/ buffer' = Append(buffer, m)
  BY SendEffect DEF TypeInv
<1>2. CASE buffer' = buffer
  BY <1>2, EndedFrame
<1>3. CASE buffer' = Append(buffer, m)
  <2> SUFFICES ASSUME NEW j \in JobIds, Once(j)' PROVE StaysEnded(j)'
    BY DEF EndedInv
  <2>1. Once(j) /\ StaysEnded(j)
    BY OnceBefore DEF EndedInv
  <2>2. /\ Len(buffer) \in Nat /\ Len(buffer') = Len(buffer) + 1
        /\ \A i \in 1 .. Len(buffer) : buffer'[i] = buffer[i]
        /\ buffer'[Len(buffer) + 1] = m
    BY <1>3, BufferGrows DEF TypeInv
  <2>3. Ended(j)' => Ended(j) \/ Ends(m, j)
    BY <2>2 DEF Ended
  <2>4. Ended(j)' => j \in seen' \/ (cur' = j /\ wpc' = "record")
    BY <2>1, <2>3 DEF StaysEnded
  <2>5. ASSUME NEW i \in 1 .. Len(buffer'), NEW k \in 1 .. Len(buffer'), i < k, Ends(buffer'[i], j)
        PROVE  ~ Reopens(buffer'[k], j)
    <3>1. i \in 1 .. Len(buffer) /\ Ends(buffer[i], j)
      BY <2>2, <2>5
    <3>2. CASE k \in 1 .. Len(buffer)
      BY <2>1, <2>2, <2>5, <3>1, <3>2 DEF StaysEnded
    <3>3. CASE k = Len(buffer) + 1
      <4>1. Ended(j)
        BY <3>1 DEF Ended
      <4> QED
        BY <2>1, <2>2, <3>3, <4>1
    <3> QED
      BY <2>2, <3>2, <3>3
  <2>6. ASSUME known'[j] \in Terminal, NEW k \in 1 .. Len(buffer')
        PROVE  ~ Reopens(buffer'[k], j)
    <3>1. known[j] \in Terminal /\ Ended(j)
      BY <2>6 DEF Ended
    <3>2. CASE k \in 1 .. Len(buffer)
      BY <2>1, <2>2, <3>1, <3>2 DEF StaysEnded
    <3>3. CASE k = Len(buffer) + 1
      BY <2>1, <2>2, <3>1, <3>3
    <3> QED
      BY <2>2, <3>2, <3>3
  <2> QED
    BY <2>4, <2>5, <2>6 DEF StaysEnded
<1> QED
  BY <1>1, <1>2, <1>3

\* A step that takes the first message from the buffer, whether or not it arrives.
LEMMA EndedTail ==
  ASSUME TypeInv, EndedInv, [Next]_vars, buffer # <<>>, buffer' = Tail(buffer),
         UNCHANGED <<seen, cur, wpc>>,
         \A j \in JobIds : known'[j] \in Terminal => known[j] \in Terminal \/ Ends(Head(buffer), j)
  PROVE  EndedInv'
<1> SUFFICES ASSUME NEW j \in JobIds, Once(j)' PROVE StaysEnded(j)'
  BY DEF EndedInv
<1>1. StaysEnded(j)
  BY OnceBefore DEF EndedInv
<1>2. /\ Len(buffer) \in Nat \ {0} /\ Len(buffer') = Len(buffer) - 1
      /\ \A i \in 1 .. Len(buffer') : buffer'[i] = buffer[i + 1]
      /\ Head(buffer) = buffer[1]
  BY BufferShrinks DEF TypeInv
<1>3. \A i \in 1 .. Len(buffer') : i \in Int /\ i + 1 \in 1 .. Len(buffer) /\ 1 < i + 1
  BY <1>2
<1>4. 1 \in 1 .. Len(buffer)
  BY <1>2
<1>5. Ended(j)' => Ended(j)
  BY <1>2, <1>3, <1>4 DEF Ended
<1>6. Ended(j)' => j \in seen' \/ (cur' = j /\ wpc' = "record")
  BY <1>1, <1>5 DEF StaysEnded
<1>7. ASSUME NEW i \in 1 .. Len(buffer'), NEW k \in 1 .. Len(buffer'), i < k, Ends(buffer'[i], j)
      PROVE  ~ Reopens(buffer'[k], j)
  <2>1. i + 1 < k + 1 /\ buffer'[i] = buffer[i + 1] /\ buffer'[k] = buffer[k + 1]
    BY <1>2, <1>3, <1>7
  <2> QED
    BY <1>1, <1>3, <1>7, <2>1 DEF StaysEnded
<1>8. ASSUME known'[j] \in Terminal, NEW k \in 1 .. Len(buffer')
      PROVE  ~ Reopens(buffer'[k], j)
  <2>1. buffer'[k] = buffer[k + 1] /\ k + 1 \in 1 .. Len(buffer) /\ 1 < k + 1
    BY <1>2, <1>3
  <2>2. CASE known[j] \in Terminal
    BY <1>1, <2>1, <2>2 DEF StaysEnded
  <2>3. CASE Ends(Head(buffer), j)
    BY <1>1, <1>2, <1>4, <2>1, <2>3 DEF StaysEnded
  <2> QED
    BY <1>8, <2>2, <2>3
<1> QED
  BY <1>6, <1>7, <1>8 DEF StaysEnded

\* Every step keeps it.
LEMMA EndedStep ==
  ASSUME TypeInv, CountInv, EndedInv, [Next]_vars
  PROVE  EndedInv'
<1>a. TypeOK /\ Standing /\ crashes \in Lives /\ Nobody \notin JobIds
  BY DeliveryAssumption DEF TypeInv, TypeOK
<1>1. CASE Write
  <2>1. /\ buffer # <<>> /\ buffer' = Tail(buffer) /\ ServerReceive(Head(buffer))
        /\ UNCHANGED <<seen, cur, wpc>>
    BY <1>1 DEF Write, queueVars
  <2>2. Head(buffer) \in Messages
    BY <1>a, <2>1, BufferShrinks
  <2>3. ASSUME NEW j \in JobIds, known'[j] \in Terminal, known[j] \notin Terminal
        PROVE  Ends(Head(buffer), j)
    <3>1. Head(buffer).about = j /\ known'[j] = Head(buffer).says
      BY <1>a, <2>1, <2>3 DEF ServerReceive, TypeOK
    <3> QED
      BY <2>3, <3>1 DEF Ends
  <2> QED
    BY <2>1, <2>3, EndedTail
<1>2. CASE WriteInVain
  <2>1. buffer # <<>> /\ buffer' = Tail(buffer) /\ UNCHANGED <<known, seen, cur, wpc>>
    BY <1>2 DEF WriteInVain, serverVars, queueVars
  <2> QED
    BY <2>1, EndedTail
<1>3. CASE Deliver
  <2>1. Head(toBridge) \in JobIds
    BY <1>3, <1>a, HeadTailProperties DEF Deliver, TypeOK
  <2> DEFINE m == Job(Head(toBridge), "ack")
  <2>2. m \in Messages /\ m.says = "ack"
    BY <1>a, <2>1, MessageTypes DEF Job
  <2>3. Send(m) /\ UNCHANGED <<known, seen, cur, wpc>>
    BY <1>3 DEF Deliver, serverVars, queueVars
  <2> HIDE DEF m
  <2>4. \A j \in JobIds : ~ Ends(m, j) /\ ~ Reopens(m, j)
    BY <2>2 DEF Ends, Reopens, Terminal
  <2> QED
    BY <2>2, <2>3, <2>4, EndedSend
<1>4. CASE Report
  <2>1. wpc \in {"queued", "sent", "printing"} \cup Terminal
    BY <1>4 DEF Report
  <2>2. cur \in JobIds
    BY <1>a, <2>1 DEF Standing, Terminal, TypeOK
  <2> DEFINE m == Job(cur, wpc)
  <2>3. m \in Messages /\ m.about = cur /\ m.says = wpc
    BY <1>a, <2>1, <2>2, AfterReport, MessageTypes DEF Job
  <2>4. Send(m) /\ UNCHANGED <<known, seen, cur>> /\ wpc' = After(wpc)
    BY <1>4 DEF Report, serverVars
  <2> HIDE DEF m
  <2>5. wpc # "record" /\ (wpc \in Terminal => wpc' = "record")
    BY <2>1, <2>4, AfterReport DEF Terminal
  <2>6. ASSUME NEW j \in JobIds, Once(j), Ends(m, j) PROVE cur' = j /\ wpc' = "record"
    BY <2>3, <2>4, <2>5, <2>6 DEF Ends
  <2>7. ASSUME NEW j \in JobIds, Once(j), Ended(j) PROVE ~ Reopens(m, j)
    <3>1. j \in seen
      BY <2>5, <2>7 DEF EndedInv, StaysEnded
    <3>2. cur # j
      BY <2>7, <3>1, EndedIsOver
    <3> QED
      BY <2>3, <3>2 DEF Reopens
  <2> QED
    BY <2>3, <2>4, <2>5, <2>6, <2>7, EndedSend
<1>5. CASE WatchPrinters \/ StatusEvent
  <2> DEFINE m == Update(Available, last.n + 1)
  <2>1. m \in Messages /\ m.about = Nobody
    <3>1. Available \in BOOLEAN /\ last.n + 1 \in Nat
      BY DEF Available, TypeInv, TypeOK, Updates
    <3> QED
      BY <1>a, <3>1, MessageTypes DEF Update
  <2>2. Send(m) /\ UNCHANGED <<known, seen, cur, wpc>>
    BY <1>5 DEF WatchPrinters, StatusEvent, SendUpdate, serverVars, queueVars
  <2> HIDE DEF m
  <2>3. \A j \in JobIds : ~ Ends(m, j) /\ ~ Reopens(m, j)
    BY <1>a, <2>1 DEF Ends, Reopens
  <2> QED
    BY <2>1, <2>2, <2>3, EndedSend
<1>6. CASE Crash \/ Exit
  <2>1. crashes' = crashes + 1 /\ crashes \in Nat
    BY <1>6, <1>a, DeliveryAssumption DEF Crash, Exit, Die, Lives
  <2>2. \A j \in JobIds : ~ Once(j)'
    BY <2>1 DEF Once
  <2> QED
    BY <2>2 DEF EndedInv
<1>7. CASE Take \/ DriverPrint
  <2>1. UNCHANGED <<known, buffer, seen>> /\ wpc # "record"
    BY <1>7 DEF Take, DriverPrint, serverVars
  <2> QED
    BY <2>1, EndedFrame
<1>8. CASE Record
  <2>1. UNCHANGED <<known, buffer>> /\ seen' = seen \cup {cur}
    BY <1>8 DEF Record, serverVars
  <2> QED
    BY <2>1, EndedFrame
<1>9. CASE \/ Connect \/ NoticeLoss \/ StaleStops \/ ConnDies \/ WriteTimesOut \/ Plug \/ StatusTurns \/ Restart
           \/ (\E h \in hands : Submit(h) \/ Accept(h)) \/ UNCHANGED vars
  <2>1. UNCHANGED <<known, buffer, seen, cur, wpc>>
    BY <1>9 DEF Connect, NoticeLoss, StaleStops, ConnDies, WriteTimesOut, Plug, StatusTurns, Restart, Submit, Accept, vars,
                serverVars, queueVars
  <2> QED
    BY <2>1, EndedFrame
<1> QED
  BY <1>1, <1>2, <1>3, <1>4, <1>5, <1>6, <1>7, <1>8, <1>9 DEF Next, ReadLoops, Worker, Printer, Losses

\* A job the server holds as finished becomes unfinished again only by a second printing,
\* in a later process life or because of an overtaking delivery: within one life the
\* reports of a job reach the server in the order of its states.
THEOREM FinishedStays == Spec => FinishedStaysFinished
<1> DEFINE A == \A j \in JobIds :
                  known[j] \in Terminal /\ known'[j] \notin Terminal =>
                    crashes > 0 \/ \E l \in Lives : extra[j][l] > 0
<1>1. Init => EndedInv
  <2> SUFFICES ASSUME Init, NEW j \in JobIds PROVE StaysEnded(j)
    BY DEF EndedInv
  <2>1. Len(buffer) = 0 /\ known[j] \notin Terminal
    BY EmptySeq DEF Init, Terminal
  <2>2. ~ Ended(j)
    BY <2>1 DEF Ended
  <2> QED
    BY <2>1, <2>2 DEF StaysEnded
<1>2. TypeInv /\ CountInv /\ EndedInv /\ [Next]_vars => (TypeInv /\ CountInv /\ EndedInv)'
  BY TypeStep, CountStep, EndedStep
<1>3. ASSUME TypeInv, EndedInv, Next PROVE A
  <2>a. \A j \in JobIds : crashes \in Nat /\ 0 \in Lives /\ extra[j][0] \in Nat
    BY <1>3, CountTypes, DeliveryAssumption DEF Lives
  <2> SUFFICES ASSUME NEW j \in JobIds, known[j] \in Terminal, known'[j] \notin Terminal, Once(j)
               PROVE  FALSE
    BY <2>a DEF Once
  <2>1. StaysEnded(j)
    BY <1>3 DEF EndedInv
  <2>2. Write
    BY <1>3 DEF Next, ReadLoops, Worker, Printer, Losses, Connect, NoticeLoss, StaleStops, Deliver, Submit, Accept, Take,
                Report, DriverPrint, Record, WatchPrinters, StatusEvent, StatusTurns, ConnDies, WriteInVain,
                WriteTimesOut, Crash, Plug,
                Exit, Restart, Die, serverVars
  <2>3. buffer # <<>> /\ buffer' = Tail(buffer) /\ ServerReceive(Head(buffer))
    BY <2>2 DEF Write
  <2>4. Head(buffer) = buffer[1] /\ 1 \in 1 .. Len(buffer)
    BY <1>3, <2>3, BufferShrinks DEF TypeInv
  <2>5. Head(buffer).about = j /\ Head(buffer).says # "ack" /\ known'[j] = Head(buffer).says
    BY <1>3, <2>3 DEF ServerReceive, TypeInv, TypeOK
  <2>6. Reopens(buffer[1], j)
    BY <2>4, <2>5 DEF Reopens
  <2> QED
    BY <2>1, <2>4, <2>6 DEF StaysEnded
<1>4. TypeInv /\ CountInv /\ EndedInv /\ [Next]_vars => [A]_vars
  BY <1>3
<1> QED
  BY <1>1, <1>2, <1>4, TypeInit, CountInit, PTL DEF Spec, FinishedStaysFinished
=============================================================================
