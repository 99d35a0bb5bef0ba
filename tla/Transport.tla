----------------------------- MODULE Transport ------------------------------
(***************************************************************************)
(* The connection to the server: internal/transport (client.go, backoff.go *)
(* and the behaviour of ws.go's Dial, Send and Receive).                   *)
(*                                                                         *)
(* Client.Run owns one connection after another; each has a read loop and  *)
(* a write loop.  connectAndServe returns on the first error of the two    *)
(* and waits for neither, so loops of old connections may still be running *)
(* while a new connection is served.  Connections are numbered.            *)
(*                                                                         *)
(* An error is one of the classes that Run tells apart: "revoked",         *)
(* "canceled", "deadline" (errors.Is context.DeadlineExceeded) and "net"   *)
(* (anything else).                                                        *)
(***************************************************************************)
EXTENDS Integers, Sequences, FiniteSets

CONSTANTS
  OutCap,     \* capacity of Client.out (128 in the code)
  Base, Max,  \* Backoff.Base and Backoff.Max; Factor is 2, as in DefaultBackoff
  MaxConns,   \* bound: connections that are established
  MaxMsgs,    \* bound: messages handed to Client.Send
  MaxInbox    \* bound: server messages in flight on a connection

ASSUME TransportAssumption ==
  /\ OutCap \in Nat \ {0}
  /\ Base \in Nat \ {0} /\ Max \in Nat /\ Base <= Max
  /\ MaxConns \in Nat /\ MaxMsgs \in Nat /\ MaxInbox \in Nat

VARIABLES
  run,        \* where Client.Run stands
  failure,    \* the error connectAndServe is returning
  gen,        \* number of connections established so far
  conn,       \* state of each connection
  reader,     \* read loop of each connection
  writer,     \* write loop of each connection
  held,       \* message the write loop has taken from out
  cancelled,  \* the connection's context was cancelled
  errc,       \* the error channel of each connection
  inbox,      \* what the server sent on each connection
  out,        \* Client.out
  produced,   \* number of messages given to Client.Send
  attempt,    \* Backoff.attempt
  delay,      \* the last value of Backoff.Next
  connected,  \* what notifyState last reported
  shutdown,   \* the context of Run is cancelled
  revoked,    \* the server has revoked the token
  dropped,    \* history: messages Send refused
  handed,     \* history: messages written to a live connection, in order
  vain,       \* history: messages written to a connection that was already dead
  lost        \* history: messages taken from out whose write failed

loopVars == <<reader, writer, held, errc>>
runVars  == <<run, failure, gen, cancelled, attempt, delay, connected>>
msgVars  == <<out, produced, dropped, handed, vain, lost>>
envVars  == <<shutdown, revoked>>
vars == <<runVars, conn, loopVars, inbox, msgVars, envVars>>

Conns     == 1 .. MaxConns
Heartbeat == 0           \* messages are numbered from 1 in the order of Send
Nothing   == -1

-----------------------------------------------------------------------------
(* Backoff.Next: grow by Factor for each earlier attempt, stop at Max.  Jitter is nil *)
(* in DefaultBackoff.                                                               *)

\* Mutant of Raw: the delay is not capped.
RawUncapped(n) == Base * 2^n

\* The delay after i passes of the loop, which ends at the cap.
grown[i \in Nat] ==
  IF i = 0 THEN Base
           ELSE IF 2 * grown[i - 1] >= Max THEN Max ELSE 2 * grown[i - 1]

Raw(n) == grown[n]

\* The counter is not bounded in the code; from MaxAttempt on the delay is Max.
MaxAttempt == Max
NextAttempt(n) == IF n < MaxAttempt THEN n + 1 ELSE n

-----------------------------------------------------------------------------
Init ==
  /\ run = "top" /\ failure = "none" /\ gen = 0
  /\ conn = [g \in Conns |-> "none"]
  /\ reader = [g \in Conns |-> "none"]
  /\ writer = [g \in Conns |-> "none"]
  /\ held = [g \in Conns |-> Nothing]
  /\ cancelled = [g \in Conns |-> FALSE]
  /\ errc = [g \in Conns |-> <<>>]
  /\ inbox = [g \in Conns |-> <<>>]
  /\ out = <<>> /\ produced = 0
  /\ attempt = 0 /\ delay = Base
  /\ connected = FALSE
  /\ shutdown = FALSE /\ revoked = FALSE
  /\ dropped = {} /\ handed = <<>> /\ vain = {} /\ lost = {}

-----------------------------------------------------------------------------
(* Client.Send: never blocks *)

Send ==
  /\ produced < MaxMsgs
  /\ produced' = produced + 1
  /\ IF Len(out) < OutCap
     THEN out' = Append(out, produced') /\ UNCHANGED dropped
     ELSE dropped' = dropped \cup {produced'} /\ UNCHANGED out
  /\ UNCHANGED <<runVars, conn, loopVars, inbox, handed, vain, lost, envVars>>

-----------------------------------------------------------------------------
(* Client.Run and connectAndServe *)

\* Mutant of Top: Run does not look at its context between connections.
TopIgnoresContext ==
  /\ run = "top"
  /\ run' = "dial"
  /\ UNCHANGED <<failure, gen, cancelled, attempt, delay, connected, conn, loopVars, inbox,
                 msgVars, envVars>>

Top ==
  /\ run = "top"
  /\ run' = IF shutdown THEN "stopped" ELSE "dial"
  /\ failure' = IF shutdown THEN "canceled" ELSE failure
  /\ UNCHANGED <<gen, cancelled, attempt, delay, connected, conn, loopVars, inbox, msgVars, envVars>>

\* Mutant of Classify: a revoked token is retried like any other error.
ClassifyRetriesRevoked(err) ==
  /\ failure' = err
  /\ IF err \in {"net", "revoked"}
     THEN /\ run' = "backoff"
          /\ delay' = Raw(attempt)
          /\ attempt' = NextAttempt(attempt)
     ELSE /\ run' = "stopped"
          /\ UNCHANGED <<delay, attempt>>

\* Run's switch over the error of connectAndServe.
Classify(err) ==
  /\ failure' = err
  /\ IF err = "net"
     THEN /\ run' = "backoff"
          /\ delay' = Raw(attempt)
          /\ attempt' = NextAttempt(attempt)
     ELSE /\ run' = "stopped"
          /\ UNCHANGED <<delay, attempt>>

DialOk ==
  /\ run = "dial"
  /\ ~ revoked /\ ~ shutdown
  /\ gen < MaxConns
  /\ gen' = gen + 1
  /\ conn' = [conn EXCEPT ![gen'] = "up"]
  /\ run' = "hello"
  /\ UNCHANGED <<failure, cancelled, attempt, delay, connected, loopVars, inbox, msgVars, envVars>>

\* A revoked token is answered 401.  The dialer of net/http reports its own
\* timeout as DeadlineExceeded.
DialErrors ==
  {"net", "deadline"} \cup (IF revoked THEN {"revoked"} ELSE {})
                      \cup (IF shutdown THEN {"canceled"} ELSE {})

DialFail(err) ==
  /\ run = "dial"
  /\ err \in DialErrors
  /\ Classify(err)
  /\ UNCHANGED <<gen, cancelled, connected, conn, loopVars, inbox, msgVars, envVars>>

\* handshake: conn.Send(hello).
HelloOk ==
  /\ run = "hello"
  /\ run' = "welcome"
  /\ UNCHANGED <<failure, gen, cancelled, attempt, delay, connected, conn, loopVars, inbox,
                 msgVars, envVars>>

\* handshake: the Welcome arrives; the connection is served.  A different protocol
\* version is only logged.
WelcomeOk ==
  /\ run = "welcome"
  /\ conn[gen] = "up"
  /\ attempt' = 0
  /\ connected' = TRUE
  /\ reader' = [reader EXCEPT ![gen] = "reading"]
  /\ writer' = [writer EXCEPT ![gen] = "select"]
  /\ run' = "serving"
  /\ UNCHANGED <<failure, gen, cancelled, delay, conn, held, errc, inbox, msgVars, envVars>>

\* The handshake fails: the write fails or times out, the connection dies, the
\* context ends, or the first message is not a Welcome.  The deferred Close runs.
HandshakeErrors ==
  {"net"} \cup (IF run = "hello" THEN {"deadline"} ELSE {})
          \cup (IF run = "welcome" /\ shutdown THEN {"canceled"} ELSE {})

HandshakeFail(err) ==
  /\ run \in {"hello", "welcome"}
  /\ err \in HandshakeErrors
  /\ conn' = [conn EXCEPT ![gen] = "closed"]
  /\ Classify(err)
  /\ UNCHANGED <<gen, cancelled, connected, loopVars, inbox, msgVars, envVars>>

\* Mutant of ServeEnd: the loss is not reported to the status hook.
ServeEndSilently ==
  /\ run = "serving"
  /\ errc[gen] # <<>>
  /\ failure' = Head(errc[gen])
  /\ errc' = [errc EXCEPT ![gen] = Tail(@)]
  /\ cancelled' = [cancelled EXCEPT ![gen] = TRUE]
  /\ run' = "closing"
  /\ UNCHANGED <<connected, gen, attempt, delay, conn, reader, writer, held, inbox, msgVars, envVars>>

\* The first error of the two loops: cancel, and the deferred notifyState(false).
ServeEnd ==
  /\ run = "serving"
  /\ errc[gen] # <<>>
  /\ failure' = Head(errc[gen])
  /\ errc' = [errc EXCEPT ![gen] = Tail(@)]
  /\ cancelled' = [cancelled EXCEPT ![gen] = TRUE]
  /\ connected' = FALSE
  /\ run' = "closing"
  /\ UNCHANGED <<gen, attempt, delay, conn, reader, writer, held, inbox, msgVars, envVars>>

\* Mutant of ServeClosed: the old connection is left open.
ServeNotClosed ==
  /\ run = "closing"
  /\ Classify(failure)
  /\ UNCHANGED <<conn, gen, cancelled, connected, loopVars, inbox, msgVars, envVars>>

\* The deferred conn.Close has finished; connectAndServe returns.
ServeClosed ==
  /\ run = "closing"
  /\ conn' = [conn EXCEPT ![gen] = "closed"]
  /\ Classify(failure)
  /\ UNCHANGED <<gen, cancelled, connected, loopVars, inbox, msgVars, envVars>>

\* The wait after a failure ends by the timer or by the context.
BackoffOver ==
  /\ run = "backoff"
  /\ \/ run' = "top" /\ UNCHANGED failure
     \/ shutdown /\ run' = "stopped" /\ failure' = "canceled"
  /\ UNCHANGED <<gen, cancelled, attempt, delay, connected, conn, loopVars, inbox, msgVars, envVars>>

-----------------------------------------------------------------------------
(* readLoop *)

Done(g) == shutdown \/ cancelled[g]

ReaderExit(g, err) ==
  /\ reader' = [reader EXCEPT ![g] = "exited"]
  /\ errc' = [errc EXCEPT ![g] = Append(@, err)]

\* Receive returns a message: token_revoked ends the loop, the rest goes to the
\* handler, which runs on this goroutine and may take its time.
Receive(g) ==
  /\ reader[g] = "reading"
  /\ conn[g] # "closed"
  /\ inbox[g] # <<>>
  /\ inbox' = [inbox EXCEPT ![g] = Tail(@)]
  /\ IF Head(inbox[g]) = "token_revoked"
     THEN ReaderExit(g, "revoked")
     ELSE reader' = [reader EXCEPT ![g] = "handling"] /\ UNCHANGED errc
  /\ UNCHANGED <<runVars, conn, writer, held, msgVars, envVars>>

HandlerReturn(g) ==
  /\ reader[g] = "handling"
  /\ reader' = [reader EXCEPT ![g] = "reading"]
  /\ UNCHANGED <<runVars, conn, writer, held, errc, inbox, msgVars, envVars>>

ReceiveFail(g) ==
  /\ reader[g] = "reading"
  /\ \/ conn[g] # "up" /\ ReaderExit(g, "net")
     \/ Done(g) /\ ReaderExit(g, "canceled")
  /\ UNCHANGED <<runVars, conn, writer, held, inbox, msgVars, envVars>>

\* The next message cannot be decoded: an error like any other, on a connection that
\* may be in perfect health.
Undecodable(g) ==
  /\ reader[g] = "reading"
  /\ conn[g] # "closed"
  /\ inbox[g] # <<>>
  /\ inbox' = [inbox EXCEPT ![g] = Tail(@)]
  /\ ReaderExit(g, "net")
  /\ UNCHANGED <<runVars, conn, writer, held, msgVars, envVars>>

-----------------------------------------------------------------------------
(* writeLoop *)

WriterExit(g, err) ==
  /\ writer' = [writer EXCEPT ![g] = "exited"]
  /\ errc' = [errc EXCEPT ![g] = Append(@, err)]

WriterDone(g) ==
  /\ writer[g] = "select"
  /\ Done(g)
  /\ WriterExit(g, "canceled")
  /\ UNCHANGED <<runVars, conn, reader, held, inbox, msgVars, envVars>>

\* Mutant of WriterTake: the message stays in the buffer until it is written.
WriterPeek(g) ==
  /\ writer[g] = "select"
  /\ out # <<>>
  /\ held' = [held EXCEPT ![g] = Head(out)]
  /\ writer' = [writer EXCEPT ![g] = "sending"]
  /\ UNCHANGED <<runVars, conn, reader, errc, inbox, msgVars, envVars>>

\* The select picks any case that is ready, also after the context was cancelled.
WriterTake(g) ==
  /\ writer[g] = "select"
  /\ out # <<>>
  /\ held' = [held EXCEPT ![g] = Head(out)]
  /\ out' = Tail(out)
  /\ writer' = [writer EXCEPT ![g] = "sending"]
  /\ UNCHANGED <<runVars, conn, reader, errc, inbox, produced, dropped, handed, vain, lost, envVars>>

WriterTick(g) ==
  /\ writer[g] = "select"
  /\ held' = [held EXCEPT ![g] = Heartbeat]
  /\ writer' = [writer EXCEPT ![g] = "sending"]
  /\ UNCHANGED <<runVars, conn, reader, errc, inbox, msgVars, envVars>>

\* A write succeeds on every connection that is not closed.  From the moment ConnDies
\* nothing written arrives, and the write loop cannot tell: Send returns nil as before.
WriteOk(g) ==
  /\ writer[g] = "sending"
  /\ conn[g] # "closed"
  /\ \/ held[g] = Heartbeat /\ UNCHANGED <<handed, vain>>
     \/ /\ held[g] # Heartbeat /\ conn[g] = "up"
        /\ handed' = Append(handed, held[g])
        /\ UNCHANGED vain
     \/ /\ held[g] # Heartbeat /\ conn[g] = "dead"
        /\ vain' = vain \cup {held[g]}
        /\ UNCHANGED handed
  /\ held' = [held EXCEPT ![g] = Nothing]
  /\ writer' = [writer EXCEPT ![g] = "select"]
  /\ UNCHANGED <<runVars, conn, reader, errc, inbox, out, produced, dropped, lost, envVars>>

\* The write fails, or times out (which also kills the connection).
WriteFail(g) ==
  /\ writer[g] = "sending"
  /\ \/ /\ conn[g] # "up"
        /\ WriterExit(g, "net")
        /\ UNCHANGED conn
     \/ /\ conn[g] # "closed"
        /\ WriterExit(g, "deadline")
        /\ conn' = [conn EXCEPT ![g] = "dead"]
  /\ lost' = lost \cup ({held[g]} \ {Heartbeat})
  /\ held' = [held EXCEPT ![g] = Nothing]
  /\ UNCHANGED <<runVars, reader, inbox, out, produced, dropped, handed, vain, envVars>>

-----------------------------------------------------------------------------
(* The environment *)

ServerSend ==
  /\ run = "serving"
  /\ conn[gen] = "up"
  /\ Len(inbox[gen]) < MaxInbox
  /\ inbox' = [inbox EXCEPT ![gen] = Append(@, "job_deliver")]
  /\ UNCHANGED <<runVars, conn, loopVars, msgVars, envVars>>

\* The server revokes the token and says so on the open connection, if any.
Revoke ==
  /\ ~ revoked
  /\ revoked' = TRUE
  /\ inbox' = IF gen > 0 /\ conn[gen] = "up"
              THEN [inbox EXCEPT ![gen] = Append(@, "token_revoked")]
              ELSE inbox
  /\ UNCHANGED <<runVars, conn, loopVars, msgVars, shutdown>>

ConnDies ==
  /\ gen > 0
  /\ conn[gen] = "up"
  /\ conn' = [conn EXCEPT ![gen] = "dead"]
  /\ UNCHANGED <<runVars, loopVars, inbox, msgVars, envVars>>

Shutdown ==
  /\ ~ shutdown
  /\ shutdown' = TRUE
  /\ UNCHANGED <<runVars, conn, loopVars, inbox, msgVars, revoked>>

-----------------------------------------------------------------------------
Errors == {"net", "deadline", "revoked", "canceled"}

RunStep ==
  \/ Top \/ DialOk \/ HelloOk \/ WelcomeOk \/ ServeEnd \/ ServeClosed \/ BackoffOver
  \/ \E err \in Errors : DialFail(err) \/ HandshakeFail(err)

ReaderStep(g) == Receive(g) \/ HandlerReturn(g) \/ ReceiveFail(g) \/ Undecodable(g)
WriterStep(g) == WriterDone(g) \/ WriterTake(g) \/ WriterTick(g) \/ WriteOk(g) \/ WriteFail(g)

Next ==
  \/ Send
  \/ RunStep
  \/ \E g \in Conns : ReaderStep(g) \/ WriterStep(g)
  \/ ServerSend \/ Revoke \/ ConnDies \/ Shutdown

Spec == Init /\ [][Next]_vars

(* Goroutines that can run do run.  The select of the write loop is fair between   *)
(* ready cases (it picks at random), so a cancelled context is eventually noticed; *)
(* the handler returns (JobQueue!CallsReturn); and the network is not down for     *)
(* ever: a dial that is tried again and again is eventually answered.              *)
Fairness ==
  /\ WF_vars(RunStep)
  /\ SF_vars(DialFail("revoked"))
  /\ \A g \in Conns : /\ WF_vars(ReaderStep(g))
                      /\ SF_vars(Receive(g) /\ Head(inbox[g]) = "token_revoked")
                      /\ WF_vars(WriterStep(g))
                      /\ SF_vars(WriterDone(g))

FairSpec == Spec /\ Fairness

-----------------------------------------------------------------------------
(* Properties *)

SeqRange(s) == {s[i] : i \in 1 .. Len(s)}
InHand == {held[g] : g \in Conns} \ {Heartbeat, Nothing}

\* The type invariant: among it, the outbound buffer never exceeds its capacity, and the
\* reconnect delay stays between Backoff.Base and Backoff.Max however long an outage is.
TypeOK ==
  /\ run \in {"top", "dial", "hello", "welcome", "serving", "closing", "backoff", "stopped"}
  /\ failure \in Errors \cup {"none"}
  /\ gen \in 0 .. MaxConns
  /\ conn \in [Conns -> {"none", "up", "dead", "closed"}]
  /\ reader \in [Conns -> {"none", "reading", "handling", "exited"}]
  /\ writer \in [Conns -> {"none", "select", "sending", "exited"}]
  /\ held \in [Conns -> {Nothing} \cup 0 .. MaxMsgs]
  /\ cancelled \in [Conns -> BOOLEAN]
  /\ errc \in [Conns -> Seq(Errors)]
  /\ inbox \in [Conns -> Seq({"job_deliver", "token_revoked"})]
  /\ out \in Seq(1 .. MaxMsgs) /\ Len(out) <= OutCap
  /\ produced \in 0 .. MaxMsgs
  /\ attempt \in 0 .. MaxAttempt
  /\ delay \in Base .. Max
  /\ connected \in BOOLEAN /\ shutdown \in BOOLEAN /\ revoked \in BOOLEAN
  /\ dropped \subseteq 1 .. MaxMsgs
  /\ handed \in Seq(1 .. MaxMsgs)
  /\ vain \subseteq 1 .. MaxMsgs /\ lost \subseteq 1 .. MaxMsgs

\* Across reconnects, and although write loops of old connections still take
\* messages, what reaches the server keeps the order of Send and nothing reaches it
\* twice.
HandedInOrder == \A i, j \in 1 .. Len(handed) : i < j => handed[i] < handed[j]

\* Every message given to Send is in exactly one place: refused, queued, in the hand of
\* a write loop, written to a live connection, written in vain to a dead one, or lost in a
\* failed write.  Of the last kind a connection costs at most one, the message its write
\* loop held when it failed, also when that loop was already cancelled.  Messages
\* written in vain have no such bound: until the loss is noticed (client.go:203) the write
\* loop goes on taking them.
Accounted ==
  LET places == <<dropped, SeqRange(out), InHand, SeqRange(handed), vain, lost>> IN
  /\ UNION SeqRange(places) = 1 .. produced
  /\ \A i, j \in 1 .. Len(places) : i # j => places[i] \cap places[j] = {}
  /\ Cardinality(lost) <= Cardinality({g \in Conns : writer[g] = "exited"})

\* The status shown to the user is "connected" only while a connection is served,
\* and every earlier connection has been closed by then.
ConnectedIsServing ==
  connected => run = "serving" /\ \A g \in 1 .. gen - 1 : conn[g] = "closed"

\* Cancelling the context ends Run, whatever the loops are doing; and so does a revoked
\* token: by the message on the connection, or by the refusal of the next dial if another
\* error was reported first.
RunEnds == shutdown \/ revoked ~> run = "stopped"

\* client.go:81-83: Run services the connection "until ctx is cancelled or the
\* token is revoked.  It reconnects automatically on connection loss."  Refuted: a
\* write that times out makes connectAndServe return an error that is
\* DeadlineExceeded, and Run stops for good.
LossReconnects ==
  (\E g \in Conns : run = "stopped" /\ g = gen /\ cancelled[g]) => shutdown \/ revoked
=============================================================================
