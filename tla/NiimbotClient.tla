--------------------------- MODULE NiimbotClient ---------------------------
(***************************************************************************)
(* One session over a NIIMBOT link: internal/niimbot/client.go (request,   *)
(* await, drain, requestRetry, Identify, Print and the task sequences) as  *)
(* its three users drive it: NiimbotBackend.Print (a heartbeat, then a     *)
(* print with the model found earlier), NiimbotBackend.identify (the       *)
(* model, the serial number and the label roll), and the command           *)
(* "niimbot print" (the model, then a print).                              *)
(*                                                                         *)
(* The link carries commands and replies in order, late, and not always:   *)
(* a command or a reply may be lost, the printer may refuse a command or   *)
(* fail while it prints, and the link may go down.  The backend's Print    *)
(* gets a context.Background, which never ends; the context of identify    *)
(* (15 s) and of the command (120 s) may end anywhere; that of the reset   *)
(* outlives both of its requests.                                          *)
(*                                                                         *)
(* A command or reply in flight carries a mark that says whether it        *)
(* belongs to the last request that was sent (a history variable in all    *)
(* but name: no action of the client looks at it).                         *)
(***************************************************************************)
EXTENDS Integers, Sequences, FiniteSets, SequencesExt

CONSTANTS
  Tasks,      \* the task sequences to consider
  Copies,     \* PrintOptions.Copies
  Attempts,   \* attempts of requestRetry in Heartbeat (3); Info makes one less
  BufCap,     \* capacity of Client.packets (64 in the code)
  MaxMishaps  \* bound: losses on the link, refusals and failures of the printer

ASSUME ClientAssumption ==
  /\ Tasks \subseteq {"B1", "D110", "B21V1"} /\ Tasks # {}
  /\ Copies \in Nat \ {0} /\ Attempts \in Nat \ {0, 1} /\ BufCap \in Nat \ {0}
  /\ MaxMishaps \in Nat

VARIABLES
  session,  \* "print", "identify" or "command"
  type,     \* the printer's device type: that of a task, or not in the model table
  named,    \* the printer was found by a name that ends in its serial number
  id,       \* what identify makes the printer's ID of: "none", "serial", or "address"
  expired,  \* the context of the session has ended
  task,     \* the client's Model.Task
  todo,     \* requests still to be made; the head is the current one
  phase,    \* "probe" (the queries), "print" (the task), "reset" (the deferred reset)
  pc,       \* "ready" to send, "await", "pause" between polls, "returned"
  tries,    \* attempts made of the current request
  err,      \* the error that is returned
  packets,  \* Client.packets
  wire,     \* commands on their way to the printer
  back,     \* replies on their way to the client
  up,       \* the link is up
  job,      \* printer: "idle" or "open"
  quantity, \* printer: copies of the page
  due,      \* printer: labels it has been told to print
  printed,  \* printer: labels printed in this job
  fault,    \* printer: stopped by a cover, paper or other error
  executed, \* history: set-up and page commands the printer carried out
  mistaken, \* history: a reply was taken for that of a later request
  mishaps,
  resetLost \* history: the link lost the cancel of the reset

sessionVars == <<session, type, named, expired>>
clientVars  == <<task, id, todo, phase, pc, tries, err>>
printerVars == <<job, quantity, due, printed, fault, executed>>
boundVars   == <<mishaps, resetLost>>
vars == <<sessionVars, clientVars, packets, wire, back, up, printerVars, mistaken, boundVars>>

-----------------------------------------------------------------------------
(* The task sequences.  "pageEnd" stands for sendRows: the image, then PageEnd. *)

\* A task that runs a page per copy.
Page     == <<"pageStart", "pageSize", "pageEnd">>
Pages(n) == [i \in 1 .. 3 * n |-> Page[((i - 1) % 3) + 1]]

\* printInit, then printB1, printD110 or printB21V1.
PrintInit == <<"density", "labelType", "start">>

Script(t) ==
  PrintInit \o
  CASE t = "B1"    -> <<"pageStart", "pageSize", "pageEnd", "status", "end">>
    [] t = "D110"  -> <<"clear", "pageStart", "pageSize", "quantity", "pageEnd", "status", "end">>
    [] t = "B21V1" -> Pages(Copies) \o <<"endPoll">>

\* Mutant of ResetScript: the reset does not cancel.
ResetEndOnly == <<"end">>

ResetScript == <<"end", "cancel">>

\* The commands whose reply only says that they were carried out.
Setup == {"density", "labelType", "start", "clear", "pageStart", "pageSize", "quantity", "pageEnd"}

\* The queries of a session before it prints or returns.
Probe ==
  CASE session = "print"    -> <<"heartbeat">>
    [] session = "command"  -> <<"heartbeat", "type">>
    [] session = "identify" -> <<"heartbeat", "type", "serial", "rfid">>

\* What the firmware speaks: DefaultModel's task is that of most firmware.
Speaks(t) == IF t \in Tasks THEN t ELSE "B1"

\* A session begins.  open has set the model of a known printer; a new client has the
\* default one.
Init ==
  /\ session \in {"print", "identify", "command"}
  /\ type \in Tasks \cup {"unlisted"} /\ named \in BOOLEAN
  /\ session = "print" => type \in Tasks
  /\ session # "identify" => ~ named
  /\ task = IF session = "print" THEN Speaks(type) ELSE "B1"
  /\ id = "none" /\ expired = FALSE
  /\ todo = Probe /\ phase = "probe" /\ pc = "ready" /\ tries = 0 /\ err = "none"
  /\ packets = <<>> /\ wire = <<>> /\ back = <<>> /\ up = TRUE
  /\ job = "idle" /\ quantity = 1 /\ due = 0 /\ printed = 0 /\ fault = FALSE
  /\ executed = <<>> /\ mistaken = FALSE
  /\ mishaps = 0 /\ resetLost = FALSE

-----------------------------------------------------------------------------
(* The client *)

\* The current request is done: the next one, or the next phase.
Continue ==
  /\ tries' = 0
  /\ CASE Len(todo) > 1 ->
            todo' = Tail(todo) /\ pc' = "ready" /\ UNCHANGED phase
       [] Len(todo) = 1 /\ phase = "probe" /\ session # "identify" ->
            todo' = Script(task') /\ pc' = "ready" /\ phase' = "print"
       [] OTHER ->
            todo' = <<>> /\ pc' = "returned" /\ UNCHANGED phase
  /\ UNCHANGED err

\* Mutant of Identify: an unlisted type keeps the wrong task.
IdentifyUnlistedAsD110 == task' = IF type \in Tasks THEN type ELSE "D110"

\* Identify: the model of the reported device type, or the default one.
Identify == task' = IF type \in Tasks THEN type ELSE "B1"

\* The printer's serial number, or what stands in for it (also for an empty one, which
\* counts as refused): the end of the advertised name, or the path of the port.
UseSerial   == id' = "serial"
UseFallback == id' = IF named THEN "serial" ELSE "address"

\* The answer of the current request is used.
Advance ==
  /\ IF phase = "probe" /\ Head(todo) = "type" THEN Identify ELSE UNCHANGED task
  /\ IF phase = "probe" /\ Head(todo) = "serial" THEN UseSerial ELSE UNCHANGED id
  /\ Continue

\* The current request failed.  Print resets the printer before it returns; what goes
\* wrong there is ignored, and so is the failure to read the serial number or the roll.
Fail(e) ==
  CASE phase = "reset" \/ Head(todo) = "rfid" ->
         Continue /\ UNCHANGED <<task, id>>
    [] phase = "probe" /\ Head(todo) = "serial" ->
         UseFallback /\ Continue /\ UNCHANGED task
    [] OTHER ->
         /\ err' = e
         /\ tries' = 0
         /\ IF phase = "print"
            THEN phase' = "reset" /\ todo' = ResetScript /\ pc' = "ready"
            ELSE todo' = <<>> /\ pc' = "returned" /\ UNCHANGED phase
         /\ UNCHANGED <<task, id>>

\* The context of the current request has ended.
Ended == expired /\ phase # "reset"

Stale(s) == [i \in 1 .. Len(s) |-> [s[i] EXCEPT !.mine = FALSE]]
Command(c) == [cmd |-> c, mine |-> TRUE]

Written ==
  /\ packets' = <<>>
  /\ wire' = Stale(wire) \o (IF Head(todo) = "pageEnd" THEN <<Command("rows")>> ELSE <<>>)
                         \o <<Command(Head(todo))>>
  /\ back' = Stale(back)

\* request, first half: drain, then send.  sendRows drains once and sends the image
\* before PageEnd.
Send ==
  /\ pc = "ready" /\ up /\ ~ Ended
  /\ Written
  /\ tries' = tries + 1
  /\ pc' = "await"
  /\ UNCHANGED <<sessionVars, task, id, todo, phase, err, up, printerVars, mistaken, boundVars>>

\* The transport refuses the write.
SendFail ==
  /\ pc = "ready" /\ ~ up
  /\ packets' = <<>>
  /\ Fail("send")
  /\ UNCHANGED <<sessionVars, wire, back, up, printerVars, mistaken, boundVars>>

\* The context has ended: the pacing of send returns without writing, or the transport
\* writes and returns the context's error all the same.
SendEnded ==
  /\ pc = "ready" /\ up /\ Ended
  /\ Written \/ (packets' = <<>> /\ UNCHANGED <<wire, back>>)
  /\ Fail("context")
  /\ UNCHANGED <<sessionVars, up, printerVars, mistaken, boundVars>>

\* Print refuses an image that has too many rows before it sends anything.
PrintInvalid ==
  /\ pc = "ready" /\ phase = "print" /\ todo = Script(task)
  /\ err' = "invalid" /\ todo' = <<>> /\ pc' = "returned"
  /\ UNCHANGED <<sessionVars, task, id, phase, tries, packets, wire, back, up, printerVars, mistaken, boundVars>>

PollAgain == pc' = "pause" /\ tries' = 0 /\ UNCHANGED <<task, id, todo, phase, err>>

\* Mutant of Accept: the last copy is not waited for.
AcceptOneShort(p) ==
  CASE p.cmd = "status" /\ p.fault                            -> Fail("printer")
    [] p.cmd = "status" /\ ~ p.fault /\ p.n < Copies - 1      -> PollAgain
    [] p.cmd = "end" /\ Head(todo) = "endPoll" /\ p.n = 0     -> PollAgain
    [] OTHER                                                  -> Advance

\* Mutant of Accept: the error byte of the status is not looked at.
AcceptIgnoresFault(p) ==
  CASE p.cmd = "status" /\ p.n < Copies                       -> PollAgain
    [] p.cmd = "end" /\ Head(todo) = "endPoll" /\ p.n = 0     -> PollAgain
    [] OTHER                                                  -> Advance

\* The accepted reply: waitByStatus and the loop of printB21V1 poll again until
\* the job is done.
Accept(p) ==
  CASE p.cmd = "status" /\ p.fault                            -> Fail("printer")
    [] p.cmd = "status" /\ ~ p.fault /\ p.n < Copies          -> PollAgain
    [] p.cmd = "end" /\ Head(todo) = "endPoll" /\ p.n = 0     -> PollAgain
    [] OTHER                                                  -> Advance

\* endPoll is the polling use of PrintEnd.
Accepts(p) == p.cmd = (IF Head(todo) = "endPoll" THEN "end" ELSE Head(todo))

\* await: the next packet.
Await ==
  /\ pc = "await" /\ packets # <<>>
  /\ LET p == Head(packets) IN
     /\ CASE p.kind = "error"              -> Fail("printer")
          [] p.kind = "unsupported"        -> Fail("unsupported")
          [] p.kind = "ok" /\ Accepts(p)   -> Accept(p)
          [] p.kind = "ok" /\ ~ Accepts(p) -> UNCHANGED clientVars
     /\ mistaken' = (mistaken \/ (p.kind = "ok" /\ Accepts(p) /\ ~ p.mine))
  /\ packets' = Tail(packets)
  /\ UNCHANGED <<sessionVars, wire, back, up, printerVars, boundVars>>

\* requestRetry, which Heartbeat and Info go through.
Allowed ==
  CASE Head(todo) = "heartbeat"         -> Attempts
    [] Head(todo) \in {"type", "serial"} -> Attempts - 1
    [] OTHER                            -> 1

\* Mutant of Timeout: a command that is not answered is taken as done.
TimeoutIgnored ==
  /\ pc = "await"
  /\ IF tries < Allowed
     THEN pc' = "ready" /\ UNCHANGED <<task, id, todo, phase, tries, err>>
     ELSE Advance
  /\ UNCHANGED <<sessionVars, packets, wire, back, up, printerVars, mistaken, boundVars>>

\* await: the timer.
Timeout ==
  /\ pc = "await"
  /\ IF tries < Allowed
     THEN pc' = "ready" /\ UNCHANGED <<task, id, todo, phase, tries, err>>
     ELSE Fail("timeout")
  /\ UNCHANGED <<sessionVars, packets, wire, back, up, printerVars, mistaken, boundVars>>

\* await: the transport has closed.
LinkClosed ==
  /\ pc = "await" /\ ~ up
  /\ Fail("link")
  /\ UNCHANGED <<sessionVars, packets, wire, back, up, printerVars, mistaken, boundVars>>

\* await or a pause between polls: the context has ended.
ContextEnded ==
  /\ pc \in {"await", "pause"} /\ Ended
  /\ Fail("context")
  /\ UNCHANGED <<sessionVars, packets, wire, back, up, printerVars, mistaken, boundVars>>

\* The deadline of identify or of the command.
Deadline ==
  /\ session # "print" /\ ~ expired /\ pc # "returned"
  /\ expired' = TRUE
  /\ UNCHANGED <<session, type, named, clientVars, packets, wire, back, up, printerVars, mistaken, boundVars>>

StatusPoll ==
  /\ pc = "pause"
  /\ pc' = "ready"
  /\ UNCHANGED <<sessionVars, task, id, todo, phase, tries, err, packets, wire, back, up, printerVars, mistaken, boundVars>>

\* readLoop: a full buffer loses its oldest packet.
ReadLoop ==
  /\ back # <<>>
  /\ packets' = Append(IF Len(packets) = BufCap THEN Tail(packets) ELSE packets, Head(back))
  /\ back' = Tail(back)
  /\ UNCHANGED <<sessionVars, clientVars, wire, up, printerVars, mistaken, boundVars>>

-----------------------------------------------------------------------------
(* The printer, as the client relies on it *)

Reply(k, c, m, n) == [kind |-> k, cmd |-> c, mine |-> m, n |-> n, fault |-> fault]

\* The n of a reply: pages printed, or whether the job has ended.
Answer(c) ==
  CASE c = "status" -> printed
    [] c = "end"    -> IF printed >= due THEN 1 ELSE 0
    [] OTHER        -> 0

Effect(c) ==
  /\ job' = CASE c = "start" -> "open"
              [] c = "cancel" \/ (c = "end" /\ printed >= due) -> "idle"
              [] OTHER -> job
  /\ quantity' = CASE c = "start" -> 1
                   [] (c = "pageSize" /\ Speaks(type) = "B1") \/ c = "quantity" -> Copies
                   [] OTHER -> quantity
  /\ due' = CASE c = "start" -> 0
              [] c = "pageEnd" -> due + quantity
              [] c = "cancel" -> printed
              [] OTHER -> due
  /\ printed' = IF c = "start" THEN 0 ELSE printed
  /\ fault' = (fault /\ c \notin {"start", "cancel"})
  /\ executed' = IF c \in Setup THEN Append(executed, c) ELSE executed

\* The polling use of PrintEnd is the same command.
Plain(c) == IF c = "endPoll" THEN "end" ELSE c

\* The rows are not answered.
PrinterExec ==
  /\ wire # <<>>
  /\ wire' = Tail(wire)
  /\ LET c == Plain(Head(wire).cmd) IN
     /\ Effect(c)
     /\ back' = IF c = "rows" THEN back
                ELSE Append(back, Reply(IF fault /\ c = "end" THEN "error" ELSE "ok",
                                        c, Head(wire).mine, Answer(c)))
  /\ UNCHANGED <<sessionVars, clientVars, packets, up, mistaken, boundVars>>

\* Refused: an error, or "not supported".  A cancel that arrives is obeyed.
PrinterRefuse ==
  /\ wire # <<>> /\ mishaps < MaxMishaps /\ Head(wire).cmd \notin {"rows", "cancel"}
  /\ wire' = Tail(wire)
  /\ \E k \in {"error", "unsupported"} :
       back' = Append(back, Reply(k, Plain(Head(wire).cmd), Head(wire).mine, 0))
  /\ mishaps' = mishaps + 1
  /\ UNCHANGED <<sessionVars, clientVars, packets, up, printerVars, mistaken, resetLost>>

PrintLabel ==
  /\ job = "open" /\ printed < due /\ ~ fault
  /\ printed' = printed + 1
  /\ UNCHANGED <<sessionVars, clientVars, packets, wire, back, up, job, quantity, due, fault, executed, mistaken, boundVars>>

\* The cover is opened, the paper ends: an error packet nobody asked for.
PrinterFault ==
  /\ job = "open" /\ ~ fault /\ mishaps < MaxMishaps
  /\ fault' = TRUE
  /\ mishaps' = mishaps + 1
  /\ back' = IF up THEN Append(back, Reply("error", "none", FALSE, 0)) ELSE back
  /\ UNCHANGED <<sessionVars, clientVars, packets, wire, up, job, quantity, due, printed, executed, mistaken, resetLost>>

LoseCommand ==
  /\ wire # <<>> /\ mishaps < MaxMishaps
  /\ mishaps' = mishaps + 1
  /\ resetLost' = (resetLost \/ Head(wire).cmd = "cancel")
  /\ wire' = Tail(wire)
  /\ UNCHANGED <<sessionVars, clientVars, packets, back, up, printerVars, mistaken>>

LoseReply ==
  /\ back # <<>> /\ mishaps < MaxMishaps
  /\ mishaps' = mishaps + 1
  /\ back' = Tail(back)
  /\ UNCHANGED <<sessionVars, clientVars, packets, wire, up, printerVars, mistaken, resetLost>>

LinkDown ==
  /\ up
  /\ mishaps < MaxMishaps
  /\ mishaps' = mishaps + 1
  /\ up' = FALSE /\ wire' = <<>> /\ back' = <<>>
  /\ UNCHANGED <<sessionVars, clientVars, packets, printerVars, mistaken, resetLost>>

-----------------------------------------------------------------------------
ClientStep ==
  \/ Send \/ SendFail \/ SendEnded \/ PrintInvalid
  \/ Await \/ Timeout \/ LinkClosed \/ StatusPoll \/ ContextEnded

Next ==
  \/ ClientStep \/ ReadLoop \/ Deadline
  \/ PrinterExec \/ PrinterRefuse \/ PrintLabel \/ PrinterFault
  \/ LoseCommand \/ LoseReply \/ LinkDown

Spec == Init /\ [][Next]_vars

(* The client's goroutine and its read loop run; the printer answers what reaches *)
(* it and goes on printing unless it has a fault, which it keeps reporting.       *)
Fairness ==
  WF_vars(ClientStep) /\ WF_vars(ReadLoop) /\ WF_vars(PrinterExec) /\ WF_vars(PrintLabel)

FairSpec == Spec /\ Fairness

-----------------------------------------------------------------------------
(* Properties *)

Commands == Setup \cup {"heartbeat", "type", "serial", "rfid", "status", "end", "endPoll", "cancel", "rows"}
Packet   == [kind : {"ok", "error", "unsupported"}, cmd : Commands \cup {"none"},
             mine : BOOLEAN, n : Nat, fault : BOOLEAN]

\* The type invariant: among it, readLoop keeps the packet buffer within its capacity.
TypeOK ==
  /\ session \in {"print", "identify", "command"} /\ type \in Tasks \cup {"unlisted"}
  /\ task \in Tasks \cup {"B1"} /\ id \in {"none", "serial", "address"}
  /\ todo \in Seq(Commands)
  /\ phase \in {"probe", "print", "reset"}
  /\ pc \in {"ready", "await", "pause", "returned"}
  /\ tries \in Nat
  /\ err \in {"none", "send", "invalid", "printer", "unsupported", "timeout", "link", "context"}
  /\ packets \in Seq(Packet) /\ Len(packets) <= BufCap
  /\ wire \in Seq([cmd : Commands, mine : BOOLEAN])
  /\ back \in Seq(Packet)
  /\ job \in {"idle", "open"}
  /\ quantity \in Nat /\ due \in Nat /\ printed \in Nat
  /\ executed \in Seq(Setup)
  /\ {named, expired, up, fault, mistaken, resetLost} \subseteq BOOLEAN
  /\ mishaps \in 0 .. MaxMishaps

\* Whatever is lost, late or refused, the printer carries out a gap-free prefix of
\* its own task sequence, each command once: no page is ever sent to a printer that
\* has missed, or not yet carried out, the commands before it, nor in another model's way.
\* (The set-up and page commands come first in every task.)
GapFree == IsPrefix(executed, Script(Speaks(type)))

\* A session returns nil only when it has done what it was for: the printer has printed
\* every copy and has closed the job (a late status or PrintEnd reply is never taken for
\* completion), or identify knows the printer's model and has an ID for it.
SuccessMeansDone ==
  pc = "returned" /\ err = "none" =>
    IF session = "identify" THEN task = Speaks(type) /\ id # "none"
                            ELSE printed = Copies /\ job = "idle"

\* "so the printer is not left mid-job": when Print has failed and the reset has
\* reached the printer, it is idle, also if the commands that were given up as lost
\* were only late.
NotLeftMidJob ==
  pc = "returned" /\ err # "none" /\ up /\ wire = <<>> /\ ~ resetLost => job = "idle"

\* Every session returns, whatever is lost or refused.  (The backend's Print has no
\* deadline: this needs a printer that prints or goes on reporting its fault.)
SessionReturns == <>(pc = "returned")

\* client.go:120-121: drain discards earlier packets "so a late reply to an earlier
\* (timed-out) request is not mistaken for this one".  Refuted: the reply may still
\* be on its way when drain runs.
LateReplyRejected == ~ mistaken

\* printer.go:40: "ID is stable across reconnects: the device serial number where
\* available, otherwise a bridge-local identifier".  Refuted on a serial port: when
\* both attempts to read the serial number fail, the ID is made of the port's path, and
\* the next start that reads the number makes another printer of it.
IdIsSerial == id # "address"
=============================================================================
