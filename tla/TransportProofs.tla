--------------------------- MODULE TransportProofs --------------------------
(***************************************************************************)
(* Proofs about Transport for any capacity, backoff and number of          *)
(* connections and messages.                                               *)
(***************************************************************************)
EXTENDS Transport, FiniteSetTheorems, WellFoundedInduction, TLAPS

\* A set of numbers with 0 that is closed under successor holds every number.
LEMMA SetInduction ==
  ASSUME NEW S, 0 \in S, \A n \in Nat : n \in S => n + 1 \in S
  PROVE  \A n \in Nat : n \in S
<1> DEFINE T == {n \in Nat : n \notin S}
           R == OpToRel(<, Nat)
<1> SUFFICES ASSUME T # {} PROVE FALSE
  OBVIOUS
<1>1. PICK x \in T : \A y \in T : <<y, x>> \notin R
  <2> HIDE DEF R
  <2> QED BY NatLessThanWellFounded, WFMin DEF R
<1>2. x \in Nat /\ x # 0 /\ x - 1 \in Nat /\ x - 1 < x
  OBVIOUS
<1>3. <<x - 1, x>> \in R
  BY <1>2 DEF OpToRel
<1>4. x - 1 \in S
  BY <1>1, <1>2, <1>3
<1> QED BY <1>2, <1>4

-----------------------------------------------------------------------------
(* The reconnect delay *)

Capped(x) == IF 2 * x >= Max THEN Max ELSE 2 * x

\* The values the loop of Backoff.Next runs through in n passes.
Passes(n) ==
  {l \in [0 .. n -> Base .. Max] : l[0] = Base /\ \A i \in 1 .. n : l[i] = Capped(l[i - 1])}

\* One more pass keeps the delay between Base and Max.
LEMMA CappedType == ASSUME NEW x \in Base .. Max PROVE Capped(x) \in Base .. Max
  BY TransportAssumption DEF Capped

\* The loop runs through some values, whatever the number of passes.
LEMMA PassesExist == \A n \in Nat : Passes(n) # {}
<1> DEFINE S == {n \in Nat : Passes(n) # {}}
<1>1. 0 \in S
  <2> DEFINE l == [i \in 0 .. 0 |-> Base]
  <2>1. l \in [0 .. 0 -> Base .. Max] /\ l[0] = Base
    BY TransportAssumption
  <2>2. \A i \in 1 .. 0 : l[i] = Capped(l[i - 1])
    OBVIOUS
  <2> HIDE DEF l
  <2> QED BY <2>1, <2>2 DEF Passes
<1>2. ASSUME NEW n \in Nat, n \in S PROVE n + 1 \in S
  <2>1. PICK l \in Passes(n) : TRUE
    BY <1>2
  <2>2. /\ l \in [0 .. n -> Base .. Max] /\ l[0] = Base
        /\ \A i \in 1 .. n : l[i] = Capped(l[i - 1])
    BY <2>1 DEF Passes
  <2> DEFINE m == [i \in 0 .. n + 1 |-> IF i = n + 1 THEN Capped(l[n]) ELSE l[i]]
  <2>3. Capped(l[n]) \in Base .. Max
    BY <2>2, CappedType
  <2>4. m \in [0 .. n + 1 -> Base .. Max] /\ m[0] = Base
    BY <2>2, <2>3
  <2>5. \A i \in 1 .. n + 1 : m[i] = Capped(m[i - 1])
    <3> SUFFICES ASSUME NEW i \in 1 .. n + 1 PROVE m[i] = Capped(m[i - 1])
      OBVIOUS
    <3>1. CASE i = n + 1
      <4>1. m[i] = Capped(l[n]) /\ m[i - 1] = l[n]
        BY <3>1
      <4> HIDE DEF m
      <4> QED BY <4>1
    <3>2. CASE i # n + 1
      <4>1. i \in 1 .. n /\ m[i] = l[i] /\ m[i - 1] = l[i - 1]
        BY <3>2
      <4> HIDE DEF m
      <4> QED BY <2>2, <4>1
    <3> QED BY <3>1, <3>2
  <2> HIDE DEF m
  <2>6. m \in Passes(n + 1)
    BY <2>4, <2>5 DEF Passes
  <2> QED BY <2>6
<1> HIDE DEF S
<1>3. \A n \in Nat : n \in S
  BY <1>1, <1>2, SetInduction
<1> QED BY <1>3 DEF S

\* Two runs of the loop agree as far as both go.
LEMMA PassesAgree ==
  ASSUME NEW n \in Nat, NEW k \in Nat, NEW l \in Passes(n), NEW m \in Passes(k)
  PROVE  \A i \in Nat : i <= n /\ i <= k => l[i] = m[i]
<1> DEFINE S == {i \in Nat : i <= n /\ i <= k => l[i] = m[i]}
<1>1. 0 \in S
  BY DEF Passes
<1>2. ASSUME NEW i \in Nat, i \in S PROVE i + 1 \in S
  <2> SUFFICES ASSUME i + 1 <= n, i + 1 <= k PROVE l[i + 1] = m[i + 1]
    OBVIOUS
  <2>1. l[i] = m[i]
    BY <1>2
  <2>2. l[i + 1] = Capped(l[i]) /\ m[i + 1] = Capped(m[i])
    BY DEF Passes
  <2> QED BY <2>1, <2>2
<1> HIDE DEF S
<1>3. \A i \in Nat : i \in S
  BY <1>1, <1>2, SetInduction
<1> QED BY <1>3 DEF S

\* The function of the model exists: its equation has a solution.
LEMMA GrownEquation ==
  grown = [i \in Nat |-> IF i = 0 THEN Base ELSE Capped(grown[i - 1])]
<1> DEFINE Run(n) == CHOOSE l \in Passes(n) : TRUE
           g == [n \in Nat |-> Run(n)[n]]
<1>1. \A n \in Nat : Run(n) \in Passes(n)
  BY PassesExist
<1>2. \A n \in Nat : g[n] = Run(n)[n]
  OBVIOUS
<1> HIDE DEF Run
<1>3. g[0] = Base
  BY <1>1, <1>2 DEF Passes
<1>4. ASSUME NEW n \in Nat, n # 0 PROVE g[n] = Capped(g[n - 1])
  <2>1. n - 1 \in Nat /\ n \in 1 .. n
    BY <1>4
  <2>2. Run(n)[n] = Capped(Run(n)[n - 1])
    BY <1>1, <2>1 DEF Passes
  <2>3. Run(n)[n - 1] = Run(n - 1)[n - 1]
    BY <1>1, <2>1, PassesAgree
  <2> QED BY <1>2, <2>1, <2>2, <2>3
<1>5. g = [i \in Nat |-> IF i = 0 THEN Base ELSE Capped(g[i - 1])]
  <2>1. g = [i \in Nat |-> g[i]]
    OBVIOUS
  <2> HIDE DEF g
  <2> QED BY <1>3, <1>4, <2>1
<1> HIDE DEF g
<1>6. \E f : f = [i \in Nat |-> IF i = 0 THEN Base ELSE Capped(f[i - 1])]
  BY <1>5
<1>7. grown = CHOOSE f : f = [i \in Nat |-> IF i = 0 THEN Base ELSE Capped(f[i - 1])]
  BY DEF grown, Capped
<1> QED BY <1>6, <1>7

\* The delay stays between Base and Max, however many attempts failed.
LEMMA RawType == ASSUME NEW n \in Nat PROVE Raw(n) \in Base .. Max
<1> DEFINE S == {i \in Nat : grown[i] \in Base .. Max}
<1>0. /\ grown[0] = Base
      /\ \A i \in Nat : grown[i + 1] = Capped(grown[i])
  <2>1. \A i \in Nat : i + 1 \in Nat /\ i + 1 # 0 /\ (i + 1) - 1 = i
    OBVIOUS
  <2> QED BY <2>1, GrownEquation
<1>1. 0 \in S
  BY <1>0, TransportAssumption
<1>2. ASSUME NEW i \in Nat, i \in S PROVE i + 1 \in S
  BY <1>0, <1>2, CappedType
<1> HIDE DEF S
<1>3. \A i \in Nat : i \in S
  BY <1>1, <1>2, SetInduction
<1> QED BY <1>3 DEF S, Raw

-----------------------------------------------------------------------------
(* The type invariant *)

\* Run's switch leaves its own variables well typed.
LEMMA ClassifyType ==
  ASSUME TypeOK, NEW err \in Errors \cup {"none"}, Classify(err)
  PROVE  /\ run' \in {"backoff", "stopped"} /\ failure' = err
         /\ delay' \in Base .. Max /\ attempt' \in 0 .. MaxAttempt
<1>0. attempt \in Nat /\ MaxAttempt \in Nat
  BY TransportAssumption DEF TypeOK, MaxAttempt
<1>1. CASE err = "net"
  <2>1. run' = "backoff" /\ failure' = err /\ delay' = Raw(attempt) /\ attempt' = NextAttempt(attempt)
    BY <1>1, Zenon DEF Classify
  <2>2. NextAttempt(attempt) \in 0 .. MaxAttempt
    BY <1>0 DEF NextAttempt, TypeOK
  <2> QED BY <1>0, <2>1, <2>2, RawType
<1>2. CASE err # "net"
  BY <1>2 DEF Classify, TypeOK
<1> QED BY <1>1, <1>2

\* A write loop holds a message, or a heartbeat, exactly while it writes.
HeldBySender == \A g \in Conns : writer[g] = "sending" <=> held[g] # Nothing

\* From the dial to the end of connectAndServe there is a connection.
ServedExists == run \in {"hello", "welcome", "serving", "closing"} => gen \in Conns

\* A connection has no write loop before its handshake is over.
UnservedUnwritten ==
  \A g \in Conns : g > gen \/ (g = gen /\ run \in {"hello", "welcome"}) => writer[g] = "none"

BaseInv == TypeOK /\ HeldBySender /\ ServedExists /\ UnservedUnwritten

\* Initially there is no connection and nothing to send.
LEMMA BaseInit == Init => BaseInv
<1> SUFFICES ASSUME Init PROVE BaseInv
  OBVIOUS
<1>1. gen \in 0 .. MaxConns /\ produced \in 0 .. MaxMsgs /\ attempt \in 0 .. MaxAttempt /\ delay \in Base .. Max
  BY TransportAssumption DEF Init, MaxAttempt
<1>2. /\ out \in Seq(1 .. MaxMsgs) /\ Len(out) <= OutCap /\ handed \in Seq(1 .. MaxMsgs)
      /\ errc \in [Conns -> Seq(Errors)] /\ inbox \in [Conns -> Seq({"job_deliver", "token_revoked"})]
  BY TransportAssumption DEF Init
<1>3. TypeOK
  BY <1>1, <1>2 DEF Init, TypeOK
<1> QED BY <1>3 DEF Init, BaseInv, HeldBySender, ServedExists, UnservedUnwritten

\* Every step keeps the types.
LEMMA TypeStep == BaseInv /\ [Next]_vars => TypeOK'
<1> SUFFICES ASSUME TypeOK, HeldBySender, ServedExists, [Next]_vars PROVE TypeOK'
  BY DEF BaseInv
<1> USE DEF TypeOK
<1>1. ASSUME Send PROVE TypeOK'
  <2>1. produced' \in 1 .. MaxMsgs
    BY <1>1, TransportAssumption DEF Send
  <2>2. out' \in Seq(1 .. MaxMsgs) /\ Len(out') <= OutCap /\ dropped' \subseteq 1 .. MaxMsgs
    <3>1. CASE Len(out) < OutCap
      <4>1. out' = Append(out, produced') /\ dropped' = dropped
        BY <1>1, <3>1, Zenon DEF Send
      <4> QED BY <2>1, <3>1, <4>1, TransportAssumption
    <3>2. CASE ~ (Len(out) < OutCap)
      <4>1. dropped' = dropped \cup {produced'} /\ out' = out
        BY <1>1, <3>2, Zenon DEF Send
      <4> QED BY <2>1, <4>1
    <3> QED BY <3>1, <3>2
  <2> QED BY <1>1, <2>1, <2>2 DEF Send, runVars, loopVars, envVars
<1>2. ASSUME Top \/ BackoffOver \/ HelloOk PROVE TypeOK'
  <2>1. run' \in {"stopped", "dial", "top", "welcome"} /\ failure' \in Errors \cup {"none"}
    BY <1>2 DEF Top, BackoffOver, HelloOk, Errors
  <2> QED BY <1>2, <2>1 DEF Top, BackoffOver, HelloOk, loopVars, msgVars, envVars
<1>21. ASSUME WelcomeOk PROVE TypeOK'
  <2>1. attempt' \in 0 .. MaxAttempt
    BY <1>21, TransportAssumption DEF WelcomeOk, MaxAttempt
  <2> QED BY <1>21, <2>1 DEF WelcomeOk, loopVars, msgVars, envVars
<1>3. ASSUME DialOk PROVE TypeOK'
  <2>1. gen' \in 0 .. MaxConns
    BY <1>3, TransportAssumption DEF DialOk
  <2>2. conn' \in [Conns -> {"none", "up", "dead", "closed"}]
    BY <1>3 DEF DialOk
  <2> QED BY <1>3, <2>1, <2>2 DEF DialOk, loopVars, msgVars, envVars
<1>4. ASSUME NEW err \in Errors, DialFail(err) PROVE TypeOK'
  <2>1. /\ run' \in {"backoff", "stopped"} /\ failure' = err
        /\ delay' \in Base .. Max /\ attempt' \in 0 .. MaxAttempt
    BY <1>4, ClassifyType DEF DialFail
  <2> QED BY <1>4, <2>1 DEF DialFail, loopVars, msgVars, envVars
<1>5. ASSUME NEW err \in Errors, HandshakeFail(err) PROVE TypeOK'
  <2>1. /\ run' \in {"backoff", "stopped"} /\ failure' = err
        /\ delay' \in Base .. Max /\ attempt' \in 0 .. MaxAttempt
    BY <1>5, ClassifyType DEF HandshakeFail
  <2> QED BY <1>5, <2>1 DEF HandshakeFail, loopVars, msgVars, envVars
<1>6. ASSUME ServeEnd PROVE TypeOK'
  <2>1. gen \in Conns
    BY <1>6 DEF ServeEnd, ServedExists
  <2>2. Head(errc[gen]) \in Errors /\ Tail(errc[gen]) \in Seq(Errors)
    BY <1>6, <2>1 DEF ServeEnd
  <2> QED BY <1>6, <2>1, <2>2 DEF ServeEnd, msgVars, envVars
<1>7. ASSUME ServeClosed PROVE TypeOK'
  <2>1. /\ run' \in {"backoff", "stopped"} /\ failure' = failure
        /\ delay' \in Base .. Max /\ attempt' \in 0 .. MaxAttempt
    BY <1>7, ClassifyType DEF ServeClosed
  <2> QED BY <1>7, <2>1 DEF ServeClosed, loopVars, msgVars, envVars
<1>8. ASSUME NEW g \in Conns, NEW err \in Errors, ReaderExit(g, err)
      PROVE  /\ reader' \in [Conns -> {"none", "reading", "handling", "exited"}]
             /\ errc' \in [Conns -> Seq(Errors)]
  <2>1. Append(errc[g], err) \in Seq(Errors)
    OBVIOUS
  <2> QED BY <1>8, <2>1 DEF ReaderExit
<1>9. ASSUME NEW g \in Conns, NEW err \in Errors, WriterExit(g, err)
      PROVE  /\ writer' \in [Conns -> {"none", "select", "sending", "exited"}]
             /\ errc' \in [Conns -> Seq(Errors)]
  <2>1. Append(errc[g], err) \in Seq(Errors)
    OBVIOUS
  <2> QED BY <1>9, <2>1 DEF WriterExit
<1>10. ASSUME NEW g \in Conns, Receive(g) PROVE TypeOK'
  <2>1. inbox' \in [Conns -> Seq({"job_deliver", "token_revoked"})]
    <3>1. Tail(inbox[g]) \in Seq({"job_deliver", "token_revoked"})
      BY <1>10 DEF Receive
    <3> QED BY <1>10, <3>1 DEF Receive
  <2>2. /\ reader' \in [Conns -> {"none", "reading", "handling", "exited"}]
        /\ errc' \in [Conns -> Seq(Errors)]
    <3>1. CASE Head(inbox[g]) = "token_revoked"
      <4>1. ReaderExit(g, "revoked")
        BY <1>10, <3>1 DEF Receive
      <4> QED BY <1>8, <4>1 DEF Errors
    <3>2. CASE Head(inbox[g]) # "token_revoked"
      BY <1>10, <3>2 DEF Receive
    <3> QED BY <3>1, <3>2
  <2> QED BY <1>10, <2>1, <2>2 DEF Receive, runVars, msgVars, envVars
<1>11. ASSUME NEW g \in Conns, HandlerReturn(g) PROVE TypeOK'
  BY <1>11 DEF HandlerReturn, runVars, msgVars, envVars
<1>22. ASSUME NEW g \in Conns, Undecodable(g) PROVE TypeOK'
  <2>1. inbox' \in [Conns -> Seq({"job_deliver", "token_revoked"})]
    <3>1. Tail(inbox[g]) \in Seq({"job_deliver", "token_revoked"})
      BY <1>22 DEF Undecodable
    <3> QED BY <1>22, <3>1 DEF Undecodable
  <2>2. /\ reader' \in [Conns -> {"none", "reading", "handling", "exited"}]
        /\ errc' \in [Conns -> Seq(Errors)]
    BY <1>8, <1>22 DEF Undecodable, Errors
  <2> QED BY <1>22, <2>1, <2>2 DEF Undecodable, runVars, msgVars, envVars
<1>12. ASSUME NEW g \in Conns, ReceiveFail(g) PROVE TypeOK'
  <2>1. /\ reader' \in [Conns -> {"none", "reading", "handling", "exited"}]
        /\ errc' \in [Conns -> Seq(Errors)]
    BY <1>8, <1>12 DEF ReceiveFail, Errors
  <2> QED BY <1>12, <2>1 DEF ReceiveFail, runVars, msgVars, envVars
<1>13. ASSUME NEW g \in Conns, WriterDone(g) PROVE TypeOK'
  <2>1. /\ writer' \in [Conns -> {"none", "select", "sending", "exited"}]
        /\ errc' \in [Conns -> Seq(Errors)]
    BY <1>9, <1>13 DEF WriterDone, Errors
  <2> QED BY <1>13, <2>1 DEF WriterDone, runVars, msgVars, envVars
<1>14. ASSUME NEW g \in Conns, WriterTake(g) PROVE TypeOK'
  <2>1. Head(out) \in 0 .. MaxMsgs /\ Tail(out) \in Seq(1 .. MaxMsgs) /\ Len(Tail(out)) <= OutCap
    BY <1>14, TransportAssumption DEF WriterTake
  <2> QED BY <1>14, <2>1 DEF WriterTake, runVars, envVars
<1>15. ASSUME NEW g \in Conns, WriterTick(g) PROVE TypeOK'
  <2>1. Heartbeat \in 0 .. MaxMsgs
    BY TransportAssumption DEF Heartbeat
  <2> QED BY <1>15, <2>1 DEF WriterTick, runVars, msgVars, envVars
<1>16. ASSUME NEW g \in Conns, writer[g] = "sending", held[g] # Heartbeat PROVE held[g] \in 1 .. MaxMsgs
  BY <1>16 DEF HeldBySender, Heartbeat
<1>17. ASSUME NEW g \in Conns, WriteOk(g) PROVE TypeOK'
  <2>1. handed' \in Seq(1 .. MaxMsgs) /\ vain' \subseteq 1 .. MaxMsgs
    <3>1. CASE held[g] = Heartbeat
      BY <1>17, <3>1 DEF WriteOk
    <3>2. CASE held[g] # Heartbeat
      <4>1. held[g] \in 1 .. MaxMsgs
        BY <1>16, <1>17, <3>2 DEF WriteOk
      <4>2. \/ handed' = Append(handed, held[g]) /\ vain' = vain
            \/ vain' = vain \cup {held[g]} /\ handed' = handed
        BY <1>17, <3>2 DEF WriteOk
      <4>3. Append(handed, held[g]) \in Seq(1 .. MaxMsgs)
        BY <4>1
      <4>4. vain \cup {held[g]} \subseteq 1 .. MaxMsgs
        BY <4>1
      <4> QED BY <4>2, <4>3, <4>4
    <3> QED BY <3>1, <3>2
  <2>2. /\ held' = [held EXCEPT ![g] = Nothing] /\ writer' = [writer EXCEPT ![g] = "select"]
        /\ UNCHANGED <<runVars, conn, reader, errc, inbox, out, produced, dropped, lost, envVars>>
    BY <1>17 DEF WriteOk
  <2> QED BY <2>1, <2>2 DEF runVars, envVars
<1>18. ASSUME NEW g \in Conns, WriteFail(g) PROVE TypeOK'
  <2>1. /\ writer' \in [Conns -> {"none", "select", "sending", "exited"}]
        /\ errc' \in [Conns -> Seq(Errors)]
    BY <1>9, <1>18 DEF WriteFail, Errors
  <2>2. lost' \subseteq 1 .. MaxMsgs
    BY <1>16, <1>18 DEF WriteFail
  <2>3. conn' \in [Conns -> {"none", "up", "dead", "closed"}]
    BY <1>18 DEF WriteFail
  <2> QED BY <1>18, <2>1, <2>2, <2>3 DEF WriteFail, runVars, envVars
<1>19. ASSUME ServerSend \/ Revoke PROVE TypeOK'
  <2>1. inbox' \in [Conns -> Seq({"job_deliver", "token_revoked"})]
    <3>1. ASSUME NEW g \in Conns, NEW m \in {"job_deliver", "token_revoked"}
          PROVE  [inbox EXCEPT ![g] = Append(@, m)] \in [Conns -> Seq({"job_deliver", "token_revoked"})]
      <4>1. Append(inbox[g], m) \in Seq({"job_deliver", "token_revoked"})
        OBVIOUS
      <4> QED BY <4>1
    <3>2. CASE ServerSend
      BY <3>1, <3>2 DEF ServerSend, ServedExists
    <3>3. CASE Revoke
      <4>1. gen > 0 => gen \in Conns
        BY TransportAssumption DEF Conns
      <4> QED BY <3>1, <3>3, <4>1 DEF Revoke
    <3> QED BY <1>19, <3>2, <3>3
  <2> QED BY <1>19, <2>1 DEF ServerSend, Revoke, runVars, loopVars, msgVars, envVars
<1>20. ASSUME ConnDies \/ Shutdown \/ UNCHANGED vars PROVE TypeOK'
  BY <1>20 DEF ConnDies, Shutdown, vars, runVars, loopVars, msgVars, envVars
<1> QED BY <1>1, <1>2, <1>3, <1>4, <1>5, <1>6, <1>7, <1>10, <1>11, <1>12, <1>13, <1>14, <1>15, <1>17, <1>18,
           <1>19, <1>20, <1>21, <1>22
        DEF Next, RunStep, ReaderStep, WriterStep

\* Every step keeps the other three facts.
LEMMA BaseStep == BaseInv /\ [Next]_vars => BaseInv'
<1> SUFFICES ASSUME BaseInv, [Next]_vars PROVE HeldBySender' /\ ServedExists' /\ UnservedUnwritten'
  BY TypeStep DEF BaseInv
<1>0. /\ TypeOK /\ HeldBySender /\ ServedExists /\ UnservedUnwritten
      /\ \A g \in Conns : g \in Int
      /\ gen \in Int
  BY DEF BaseInv, TypeOK, Conns
<1>1. ASSUME UNCHANGED <<run, gen, writer, held>>
      PROVE  HeldBySender' /\ ServedExists' /\ UnservedUnwritten'
  BY <1>0, <1>1 DEF HeldBySender, ServedExists, UnservedUnwritten
<1>2. CASE DialOk
  <2>1. gen' = gen + 1 /\ gen' \in Conns /\ run' = "hello" /\ UNCHANGED <<writer, held>>
    BY <1>0, <1>2, TransportAssumption DEF DialOk, TypeOK, Conns, loopVars
  <2>2. UnservedUnwritten'
    BY <1>0, <2>1 DEF UnservedUnwritten
  <2> QED BY <1>0, <2>1, <2>2 DEF HeldBySender, ServedExists
<1>3. CASE \/ Top \/ HelloOk \/ ServeEnd \/ ServeClosed \/ BackoffOver
           \/ \E err \in Errors : DialFail(err) \/ HandshakeFail(err)
  <2>1. UNCHANGED <<gen, writer, held>>
    BY <1>3 DEF Top, HelloOk, ServeEnd, ServeClosed, BackoffOver, DialFail, HandshakeFail, loopVars
  <2>2. /\ run' \in {"hello", "welcome"} => run \in {"hello", "welcome"}
        /\ run' \in {"hello", "welcome", "serving", "closing"} => run \in {"hello", "welcome", "serving", "closing"}
    BY <1>3 DEF Top, HelloOk, ServeEnd, ServeClosed, BackoffOver, DialFail, HandshakeFail, Classify
  <2> QED BY <1>0, <2>1, <2>2 DEF HeldBySender, ServedExists, UnservedUnwritten
<1>4. CASE WelcomeOk
  <2>1. /\ run = "welcome" /\ run' = "serving" /\ UNCHANGED <<gen, held>>
        /\ writer' = [writer EXCEPT ![gen] = "select"]
    BY <1>4 DEF WelcomeOk
  <2>2. gen \in Conns /\ writer[gen] = "none"
    BY <1>0, <2>1 DEF ServedExists, UnservedUnwritten
  <2>3. \A g \in Conns : writer'[g] = IF g = gen THEN "select" ELSE writer[g]
    BY <1>0, <2>1 DEF TypeOK
  <2>4. UnservedUnwritten' /\ ServedExists'
    BY <1>0, <2>1, <2>2, <2>3 DEF UnservedUnwritten, ServedExists
  <2>5. HeldBySender'
    BY <1>0, <2>1, <2>2, <2>3 DEF HeldBySender
  <2> QED BY <2>4, <2>5
<1>5. ASSUME NEW g \in Conns, WriterStep(g) PROVE HeldBySender' /\ ServedExists' /\ UnservedUnwritten'
  <2>1. UNCHANGED <<run, gen>> /\ writer[g] # "none"
    BY <1>5 DEF WriterStep, WriterDone, WriterTake, WriterTick, WriteOk, WriteFail, runVars
  <2>2. \A h \in Conns \ {g} : writer'[h] = writer[h] /\ held'[h] = held[h]
    BY <1>0, <1>5 DEF WriterStep, WriterDone, WriterTake, WriterTick, WriteOk, WriteFail, WriterExit, TypeOK
  <2>3. writer'[g] = "sending" <=> held'[g] # Nothing
    <3>1. CASE WriterDone(g)
      BY <1>0, <3>1 DEF WriterDone, WriterExit, HeldBySender, TypeOK
    <3>2. CASE WriterTake(g)
      <4>1. out \in Seq(1 .. MaxMsgs) /\ out # <<>>
        BY <1>0, <3>2 DEF WriterTake, TypeOK
      <4>2. Head(out) # Nothing
        BY <4>1, TransportAssumption DEF Nothing
      <4> QED BY <1>0, <3>2, <4>2 DEF WriterTake, TypeOK
    <3>3. CASE WriterTick(g)
      BY <1>0, <3>3 DEF WriterTick, Heartbeat, Nothing, TypeOK
    <3>4. CASE WriteOk(g) \/ WriteFail(g)
      BY <1>0, <3>4 DEF WriteOk, WriteFail, WriterExit, TypeOK
    <3> QED BY <1>5, <3>1, <3>2, <3>3, <3>4 DEF WriterStep
  <2>4. HeldBySender'
    BY <1>0, <2>2, <2>3 DEF HeldBySender
  <2>5. ServedExists' /\ UnservedUnwritten'
    BY <1>0, <2>1, <2>2 DEF ServedExists, UnservedUnwritten
  <2> QED BY <2>4, <2>5
<1>6. ASSUME \/ Send \/ ServerSend \/ Revoke \/ ConnDies \/ Shutdown \/ UNCHANGED vars
             \/ \E g \in Conns : ReaderStep(g)
      PROVE  UNCHANGED <<run, gen, writer, held>>
  BY <1>6 DEF Send, ServerSend, Revoke, ConnDies, Shutdown, vars, ReaderStep, Receive, HandlerReturn, ReceiveFail, Undecodable,
              loopVars, runVars
<1> QED BY <1>1, <1>2, <1>3, <1>4, <1>5, <1>6 DEF Next, RunStep

\* Every variable keeps its type: the buffer never exceeds its capacity, and the
\* reconnect delay stays between Backoff.Base and Backoff.Max however long an outage is.
THEOREM TypeCorrect == Spec => []TypeOK
<1>1. BaseInv => TypeOK
  BY DEF BaseInv
<1> QED BY <1>1, BaseInit, BaseStep, PTL DEF Spec

-----------------------------------------------------------------------------
(* The status shown.  Every connection but the one in use has been closed, and   *)
(* that one too outside connectAndServe.                                         *)

OldClosed ==
  \A g \in Conns :
    g < gen \/ (g = gen /\ run \in {"top", "dial", "backoff", "stopped"}) => conn[g] = "closed"

ConnInv == OldClosed /\ (connected => run = "serving")

\* Every step keeps old connections closed and the status truthful.
LEMMA ConnStep == BaseInv /\ ConnInv /\ [Next]_vars => ConnInv'
<1> SUFFICES ASSUME BaseInv, ConnInv, [Next]_vars PROVE ConnInv'
  OBVIOUS
<1>0. /\ TypeOK /\ ServedExists /\ OldClosed /\ (connected => run = "serving")
      /\ \A g \in Conns : g \in Int
      /\ gen \in Int
  BY DEF BaseInv, ConnInv, TypeOK, Conns
<1>1. CASE Top \/ HelloOk \/ WelcomeOk \/ ServeEnd \/ BackoffOver \/ (\E err \in Errors : DialFail(err))
  <2>1. UNCHANGED <<gen, conn>>
    BY <1>1 DEF Top, HelloOk, WelcomeOk, ServeEnd, BackoffOver, DialFail
  <2>2. /\ run' \in {"top", "dial", "backoff", "stopped"} => run \in {"top", "dial", "backoff", "stopped"}
        /\ connected' => run' = "serving"
    BY <1>0, <1>1 DEF Top, HelloOk, WelcomeOk, ServeEnd, BackoffOver, DialFail, Classify
  <2> QED BY <1>0, <2>1, <2>2 DEF ConnInv, OldClosed
<1>2. CASE DialOk
  <2>1. /\ gen' = gen + 1 /\ run = "dial" /\ run' = "hello" /\ connected' = connected
        /\ \A g \in Conns : g # gen' => conn'[g] = conn[g]
    BY <1>0, <1>2 DEF DialOk, TypeOK
  <2> QED BY <1>0, <2>1 DEF ConnInv, OldClosed
<1>3. CASE ServeClosed \/ (\E err \in Errors : HandshakeFail(err))
  <2>1. /\ run \in {"closing", "hello", "welcome"} /\ run' \in {"backoff", "stopped"}
        /\ UNCHANGED <<gen, connected>> /\ conn' = [conn EXCEPT ![gen] = "closed"]
    BY <1>3 DEF ServeClosed, HandshakeFail, Classify
  <2>2. \A g \in Conns : conn'[g] = IF g = gen THEN "closed" ELSE conn[g]
    BY <1>0, <2>1 DEF TypeOK
  <2> QED BY <1>0, <2>1, <2>2 DEF ConnInv, OldClosed
<1>4. ASSUME UNCHANGED <<run, gen, connected>>, \A g \in Conns : conn[g] = "closed" => conn'[g] = "closed"
      PROVE  ConnInv'
  BY <1>0, <1>4 DEF ConnInv, OldClosed
<1>5. ASSUME NEW g \in Conns, ReaderStep(g) \/ WriterStep(g) PROVE ConnInv'
  <2>1. UNCHANGED <<run, gen, connected>>
    BY <1>5 DEF ReaderStep, Receive, HandlerReturn, ReceiveFail, Undecodable, WriterStep, WriterDone, WriterTake, WriterTick,
                WriteOk, WriteFail, runVars
  <2>2. conn' = conn \/ (conn[g] # "closed" /\ conn' = [conn EXCEPT ![g] = "dead"])
    BY <1>5 DEF ReaderStep, Receive, HandlerReturn, ReceiveFail, Undecodable, WriterStep, WriterDone, WriterTake, WriterTick,
                WriteOk, WriteFail
  <2>3. \A h \in Conns : conn[h] = "closed" => conn'[h] = "closed"
    BY <1>0, <2>2 DEF TypeOK
  <2> QED BY <1>4, <2>1, <2>3
<1>6. ASSUME Send \/ ServerSend \/ Revoke \/ ConnDies \/ Shutdown \/ UNCHANGED vars PROVE ConnInv'
  <2>1. UNCHANGED <<run, gen, connected>>
    BY <1>6 DEF Send, ServerSend, Revoke, ConnDies, Shutdown, vars, runVars
  <2>2. conn' = conn \/ (conn[gen] # "closed" /\ conn' = [conn EXCEPT ![gen] = "dead"])
    BY <1>6 DEF Send, ServerSend, Revoke, ConnDies, Shutdown, vars
  <2>3. \A h \in Conns : conn[h] = "closed" => conn'[h] = "closed"
    BY <1>0, <2>2 DEF TypeOK
  <2> QED BY <1>4, <2>1, <2>3
<1> QED BY <1>1, <1>2, <1>3, <1>5, <1>6 DEF Next, RunStep

\* There is no connection initially.
LEMMA ConnInit == Init => ConnInv
  BY DEF Init, ConnInv, OldClosed, Conns

\* "Connected" is shown only while a connection is served, and every earlier one
\* has been closed by then, although their loops may still be running.
THEOREM StatusTruthful == Spec => []ConnectedIsServing
<1>1. BaseInv /\ ConnInv => ConnectedIsServing
  <2> SUFFICES ASSUME TypeOK, ConnInv PROVE ConnectedIsServing
    BY DEF BaseInv
  <2>1. \A g \in 1 .. gen - 1 : g \in Conns /\ g < gen
    BY TransportAssumption DEF TypeOK, Conns
  <2> QED BY <2>1 DEF ConnInv, OldClosed, ConnectedIsServing
<1> QED BY <1>1, BaseInit, BaseStep, ConnInit, ConnStep, PTL DEF Spec

-----------------------------------------------------------------------------
(* Where the messages are.  The order of what was written follows from an order  *)
(* of places: written, or in the hand of a write loop, comes before waiting; and *)
(* the only write loop that can still write holds the newest message of all that *)
(* left the buffer and were written.                                             *)

Increasing(s) == \A i, j \in 1 .. Len(s) : i < j => s[i] < s[j]

OrderInv ==
  /\ Increasing(out) /\ HandedInOrder
  /\ \A n \in SeqRange(out) : \A m \in SeqRange(handed) \cup InHand : m < n
  /\ \A g \in Conns : conn[g] # "closed" /\ held[g] > 0 => \A m \in SeqRange(handed) : m < held[g]

\* Every message is in exactly one of six sets.
Partition(D, O, H, W, V, L, N) ==
  /\ D \cup O \cup H \cup W \cup V \cup L = N
  /\ D \cap O = {} /\ D \cap H = {} /\ D \cap W = {} /\ D \cap V = {} /\ D \cap L = {}
  /\ O \cap H = {} /\ O \cap W = {} /\ O \cap V = {} /\ O \cap L = {}
  /\ H \cap W = {} /\ H \cap V = {} /\ H \cap L = {}
  /\ W \cap V = {} /\ W \cap L = {} /\ V \cap L = {}

HeldOnce == \A g, h \in Conns : g # h /\ held[g] = held[h] => held[g] \in {Heartbeat, Nothing}

PlaceInv ==
  /\ Partition(dropped, SeqRange(out), InHand, SeqRange(handed), vain, lost, 1 .. produced)
  /\ HeldOnce

\* The elements of a sequence after an append.
LEMMA RangeAppend ==
  ASSUME NEW S, NEW s \in Seq(S), NEW x \in S
  PROVE  SeqRange(Append(s, x)) = SeqRange(s) \cup {x}
<1>1. /\ Len(Append(s, x)) = Len(s) + 1 /\ Len(s) \in Nat
      /\ \A i \in 1 .. Len(s) : Append(s, x)[i] = s[i]
      /\ Append(s, x)[Len(s) + 1] = x
  OBVIOUS
<1> QED BY <1>1 DEF SeqRange

\* The elements of an increasing sequence without its head.
LEMMA RangeTail ==
  ASSUME NEW s \in Seq(Int), s # <<>>, Increasing(s)
  PROVE  /\ SeqRange(Tail(s)) = SeqRange(s) \ {Head(s)} /\ Head(s) \in SeqRange(s)
         /\ Increasing(Tail(s)) /\ \A n \in SeqRange(Tail(s)) : Head(s) < n
<1>1. /\ Len(Tail(s)) = Len(s) - 1 /\ Len(s) \in Nat /\ Len(s) > 0 /\ Head(s) = s[1]
      /\ \A i \in 1 .. Len(Tail(s)) : Tail(s)[i] = s[i + 1]
      /\ \A i \in 1 .. Len(s) : s[i] \in Int
  OBVIOUS
<1>2. \A i \in 1 .. Len(s) : i # 1 => s[1] < s[i]
  BY <1>1 DEF Increasing
<1>3. Increasing(Tail(s))
  BY <1>1 DEF Increasing
<1>4. SeqRange(Tail(s)) = {s[i] : i \in 2 .. Len(s)}
  <2>1. \A i \in 2 .. Len(s) : i - 1 \in 1 .. Len(Tail(s)) /\ Tail(s)[i - 1] = s[i]
    BY <1>1
  <2>2. \A i \in 1 .. Len(Tail(s)) : i + 1 \in 2 .. Len(s)
    BY <1>1
  <2>3. SeqRange(Tail(s)) \subseteq {s[i] : i \in 2 .. Len(s)}
    BY <1>1, <2>2 DEF SeqRange
  <2>4. ASSUME NEW i \in 2 .. Len(s) PROVE s[i] \in SeqRange(Tail(s))
    BY <2>1 DEF SeqRange
  <2> QED BY <2>3, <2>4
<1>5. SeqRange(s) = {s[i] : i \in 2 .. Len(s)} \cup {s[1]}
  BY <1>1 DEF SeqRange
<1>6. \A n \in {s[i] : i \in 2 .. Len(s)} : s[1] < n /\ n # s[1]
  BY <1>1, <1>2
<1> QED BY <1>1, <1>3, <1>4, <1>5, <1>6

\* Appending something larger than all elements keeps a sequence increasing.
LEMMA IncreasingAppend ==
  ASSUME NEW s \in Seq(Int), NEW x \in Int, Increasing(s), \A n \in SeqRange(s) : n < x
  PROVE  Increasing(Append(s, x))
<1>1. /\ Len(Append(s, x)) = Len(s) + 1 /\ Len(s) \in Nat
      /\ \A i \in 1 .. Len(s) : Append(s, x)[i] = s[i] /\ s[i] < x
      /\ Append(s, x)[Len(s) + 1] = x
  BY DEF SeqRange
<1> DEFINE t == Append(s, x)
<1> SUFFICES ASSUME NEW i \in 1 .. Len(t), NEW j \in 1 .. Len(t), i < j PROVE t[i] < t[j]
  BY DEF Increasing
<1> HIDE DEF t
<1>2. i \in 1 .. Len(s) /\ t[i] = s[i]
  BY <1>1 DEF t
<1>3. CASE j = Len(s) + 1
  BY <1>1, <1>2, <1>3 DEF t
<1>4. CASE j \in 1 .. Len(s)
  BY <1>1, <1>2, <1>4 DEF t, Increasing
<1> QED BY <1>1, <1>3, <1>4 DEF t

\* What is in hand after one write loop takes something up.
LEMMA HandTake ==
  ASSUME TypeOK, NEW g \in Conns, held[g] = Nothing, NEW x \in 0 .. MaxMsgs,
         held' = [held EXCEPT ![g] = x]
  PROVE  /\ x = Heartbeat => InHand' = InHand
         /\ x # Heartbeat => InHand' = InHand \cup {x}
         /\ HeldOnce /\ x \notin InHand => HeldOnce'
<1>1. /\ held'[g] = x /\ \A h \in Conns \ {g} : held'[h] = held[h]
      /\ x # Nothing /\ MaxMsgs \in Nat
  BY TransportAssumption DEF TypeOK, Nothing
<1>2. InHand' = (InHand \cup {x}) \ {Heartbeat}
  BY <1>1 DEF InHand, Heartbeat
<1>3. Heartbeat \notin InHand
  BY DEF InHand
<1>4. ASSUME HeldOnce, x \notin InHand PROVE HeldOnce'
  <2> SUFFICES ASSUME NEW k \in Conns, NEW h \in Conns, k # h, held'[k] = held'[h]
               PROVE  held'[k] \in {Heartbeat, Nothing}
    BY DEF HeldOnce, Heartbeat, Nothing
  <2>1. CASE k # g /\ h # g
    BY <1>1, <1>4, <2>1 DEF HeldOnce
  <2>2. CASE k = g \/ h = g
    <3>1. PICK l \in Conns : held[l] = x
      BY <1>1, <2>2
    <3> QED BY <1>1, <1>4, <2>2, <3>1 DEF InHand
  <2> QED BY <2>1, <2>2
<1> QED BY <1>2, <1>3, <1>4

\* What is in hand after one write loop lets go of what it held.
LEMMA HandLeave ==
  ASSUME TypeOK, HeldOnce, NEW g \in Conns, held' = [held EXCEPT ![g] = Nothing]
  PROVE  /\ held[g] \in {Heartbeat, Nothing} => InHand' = InHand
         /\ held[g] \notin {Heartbeat, Nothing} => InHand' = InHand \ {held[g]} /\ held[g] \in InHand
         /\ HeldOnce'
<1>1. held'[g] = Nothing /\ \A h \in Conns \ {g} : held'[h] = held[h]
  BY DEF TypeOK
<1>2. HeldOnce'
  BY <1>1 DEF HeldOnce
<1>3. InHand' \subseteq InHand
  BY <1>1 DEF InHand
<1>4. ASSUME NEW m \in InHand, m # held[g] PROVE m \in InHand'
  BY <1>1, <1>4 DEF InHand
<1>5. held[g] \notin {Heartbeat, Nothing} => held[g] \notin InHand' /\ held[g] \in InHand
  BY <1>1 DEF InHand, HeldOnce
<1>6. held[g] \in {Heartbeat, Nothing} => held[g] \notin InHand
  BY DEF InHand
<1> QED BY <1>2, <1>3, <1>4, <1>5, <1>6

\* A step that moves no message keeps the invariants, if no connection becomes
\* writable whose write loop holds something.
LEMMA PlaceFrame ==
  ASSUME OrderInv, PlaceInv, UNCHANGED <<out, handed, vain, held, produced, dropped, lost>>,
         \A g \in Conns : held[g] > 0 /\ conn[g] = "closed" => conn'[g] = "closed"
  PROVE  OrderInv' /\ PlaceInv'
<1>1. InHand' = InHand
  BY DEF InHand
<1>2. OrderInv'
  BY <1>1 DEF OrderInv, HandedInOrder
<1>3. PlaceInv'
  BY <1>1 DEF PlaceInv, HeldOnce
<1> QED BY <1>2, <1>3

\* Every step keeps the order and the places of the messages.
LEMMA PlaceStep == BaseInv /\ ConnInv /\ OrderInv /\ PlaceInv /\ [Next]_vars => OrderInv' /\ PlaceInv'
<1> SUFFICES ASSUME BaseInv, ConnInv, OrderInv, PlaceInv, [Next]_vars PROVE OrderInv' /\ PlaceInv'
  OBVIOUS
<1> DEFINE O == SeqRange(out)
           W == SeqRange(handed)
<1>0. /\ TypeOK /\ HeldBySender /\ UnservedUnwritten /\ OldClosed /\ HeldOnce
      /\ produced \in Nat /\ MaxMsgs \in Nat /\ gen \in Int
      /\ \A g \in Conns : g \in Int /\ held[g] \in Int
      /\ out \in Seq(Int) /\ handed \in Seq(Int)
  BY TransportAssumption DEF BaseInv, ConnInv, PlaceInv, TypeOK, Conns, Nothing
<1>1. CASE Send
  <2> DEFINE m == produced + 1
  <2>1. produced' = m /\ UNCHANGED <<conn, handed, vain, held, lost>> /\ InHand' = InHand /\ m \in 1 .. MaxMsgs
    BY <1>0, <1>1 DEF Send, loopVars, InHand, TypeOK
  <2>2. 1 .. m = (1 .. produced) \cup {m} /\ m \notin 1 .. produced
    BY <1>0
  <2>3. \A n \in O \cup W \cup InHand \cup dropped \cup vain \cup lost : n \in 1 .. produced
    BY DEF PlaceInv, Partition
  <2>4. CASE Len(out) < OutCap
    <3>1. out' = Append(out, m) /\ dropped' = dropped
      BY <1>1, <2>1, <2>4, Zenon DEF Send
    <3>2. SeqRange(out') = O \cup {m}
      <4>1. m \in Int
        BY <1>0
      <4> QED BY <1>0, <3>1, <4>1, RangeAppend
    <3>3. \A n \in O \cup W \cup InHand : n < m
      BY <1>0, <2>3
    <3>4. Increasing(out')
      BY <1>0, <3>1, <3>3, IncreasingAppend DEF OrderInv
    <3>5. OrderInv'
      BY <2>1, <3>2, <3>3, <3>4 DEF OrderInv, HandedInOrder
    <3>6. PlaceInv'
      BY <2>1, <2>2, <2>3, <3>1, <3>2 DEF PlaceInv, Partition, HeldOnce
    <3> QED BY <3>5, <3>6
  <2>5. CASE ~ (Len(out) < OutCap)
    <3>1. out' = out /\ dropped' = dropped \cup {m}
      BY <1>1, <2>1, <2>5, Zenon DEF Send
    <3>2. OrderInv'
      BY <2>1, <3>1 DEF OrderInv, HandedInOrder
    <3>3. PlaceInv'
      BY <2>1, <2>2, <2>3, <3>1 DEF PlaceInv, Partition, HeldOnce
    <3> QED BY <3>2, <3>3
  <2> QED BY <2>4, <2>5
<1>2. ASSUME NEW g \in Conns, WriterTake(g) PROVE OrderInv' /\ PlaceInv'
  <2> DEFINE x == Head(out)
  <2>1. /\ writer[g] = "select" /\ out # <<>> /\ held' = [held EXCEPT ![g] = x] /\ out' = Tail(out)
        /\ UNCHANGED <<conn, handed, vain, produced, dropped, lost>>
    BY <1>2 DEF WriterTake
  <2>2. /\ SeqRange(out') = O \ {x} /\ x \in O
        /\ Increasing(out') /\ \A n \in SeqRange(out') : x < n
    BY <1>0, <2>1, RangeTail DEF OrderInv
  <2>3. x \in 1 .. MaxMsgs /\ x \in 0 .. MaxMsgs /\ x # Heartbeat /\ x > 0
    BY <1>0, <2>1 DEF TypeOK, Heartbeat
  <2>4. held[g] = Nothing
    BY <1>0, <2>1 DEF HeldBySender
  <2>5. x \notin InHand
    BY <2>2 DEF PlaceInv, Partition
  <2>6. InHand' = InHand \cup {x} /\ HeldOnce'
    BY <1>0, <2>1, <2>3, <2>4, <2>5, HandTake
  <2>7. \A h \in Conns : held'[h] = IF h = g THEN x ELSE held[h]
    BY <1>0, <2>1 DEF TypeOK
  <2>8. OrderInv'
    <3>1. \A n \in SeqRange(out)' : \A m \in SeqRange(handed)' \cup InHand' : m < n
      BY <2>1, <2>2, <2>6 DEF OrderInv
    <3>2. \A m \in W : m < x
      BY <2>2 DEF OrderInv
    <3>3. \A h \in Conns : conn'[h] # "closed" /\ held'[h] > 0 => \A m \in SeqRange(handed)' : m < held'[h]
      BY <2>1, <2>7, <3>2 DEF OrderInv
    <3> QED BY <2>1, <2>2, <3>1, <3>3 DEF OrderInv, HandedInOrder
  <2>9. PlaceInv'
    BY <2>1, <2>2, <2>6 DEF PlaceInv, Partition
  <2> QED BY <2>8, <2>9
<1>3. ASSUME NEW g \in Conns, WriterTick(g) PROVE OrderInv' /\ PlaceInv'
  <2>1. /\ writer[g] = "select" /\ held' = [held EXCEPT ![g] = Heartbeat]
        /\ UNCHANGED <<conn, out, handed, vain, produced, dropped, lost>>
    BY <1>3 DEF WriterTick, msgVars
  <2>2. Heartbeat \in 0 .. MaxMsgs /\ held[g] = Nothing /\ Heartbeat \notin InHand
    BY <1>0, <2>1 DEF HeldBySender, InHand, Heartbeat
  <2>3. InHand' = InHand /\ HeldOnce'
    BY <1>0, <2>1, <2>2, HandTake
  <2>4. \A h \in Conns : held'[h] > 0 => held'[h] = held[h]
    BY <1>0, <2>1 DEF TypeOK, Heartbeat
  <2>5. OrderInv'
    BY <2>1, <2>3, <2>4 DEF OrderInv, HandedInOrder
  <2> QED BY <2>1, <2>3, <2>5 DEF PlaceInv, Partition
<1>4. ASSUME NEW g \in Conns, WriteOk(g) PROVE OrderInv' /\ PlaceInv'
  <2> DEFINE x == held[g]
  <2>1. /\ writer[g] = "sending" /\ conn[g] # "closed" /\ held' = [held EXCEPT ![g] = Nothing]
        /\ UNCHANGED <<conn, out, produced, dropped, lost>>
    BY <1>4 DEF WriteOk
  <2>2. x # Nothing /\ x \in 0 .. MaxMsgs
    BY <1>0, <2>1 DEF HeldBySender, TypeOK
  <2>3. \A h \in Conns : held'[h] = IF h = g THEN Nothing ELSE held[h]
    BY <1>0, <2>1 DEF TypeOK
  <2>4. \A h \in Conns : conn[h] # "closed" => held'[h] = Nothing
    <3> SUFFICES ASSUME NEW h \in Conns, conn[h] # "closed", h # g PROVE held[h] = Nothing
      BY <2>3
    <3>1. g >= gen /\ h >= gen
      BY <1>0, <2>1 DEF OldClosed
    <3>2. g = gen
      BY <1>0, <2>1, <3>1 DEF UnservedUnwritten
    <3>3. writer[h] = "none"
      BY <1>0, <3>1, <3>2 DEF UnservedUnwritten
    <3> QED BY <1>0, <3>3 DEF HeldBySender
  <2>5. CASE x = Heartbeat
    <3>1. handed' = handed /\ vain' = vain /\ InHand' = InHand /\ HeldOnce'
      BY <1>0, <1>4, <2>1, <2>5, HandLeave DEF WriteOk
    <3>2. OrderInv'
      BY <2>1, <2>4, <3>1 DEF OrderInv, HandedInOrder, Nothing
    <3> QED BY <2>1, <3>1, <3>2 DEF PlaceInv, Partition
  <2>6. CASE x # Heartbeat /\ conn[g] = "up"
    <3>1. handed' = Append(handed, x) /\ vain' = vain /\ x > 0
      BY <1>4, <2>1, <2>2, <2>6 DEF WriteOk, Heartbeat
    <3>2. InHand' = InHand \ {x} /\ x \in InHand /\ HeldOnce'
      BY <1>0, <2>1, <2>2, <2>6, HandLeave
    <3>3. SeqRange(handed') = W \cup {x}
      BY <1>0, <2>2, <3>1, RangeAppend
    <3>4. \A m \in W : m < x
      BY <2>1, <3>1 DEF OrderInv
    <3>5. HandedInOrder'
      <4>1. Increasing(handed)
        BY DEF OrderInv, HandedInOrder, Increasing
      <4>2. Increasing(handed')
        BY <1>0, <2>2, <3>1, <3>4, <4>1, IncreasingAppend
      <4> QED BY <4>2 DEF HandedInOrder, Increasing
    <3>6. \A n \in O : \A m \in (W \cup {x}) \cup (InHand \ {x}) : m < n
      BY <3>2 DEF OrderInv
    <3>7. OrderInv'
      BY <2>1, <2>4, <3>2, <3>3, <3>5, <3>6 DEF OrderInv, Nothing
    <3>8. PlaceInv'
      BY <2>1, <3>1, <3>2, <3>3 DEF PlaceInv, Partition
    <3> QED BY <3>7, <3>8
  <2>7. CASE x # Heartbeat /\ conn[g] = "dead"
    <3>1. handed' = handed /\ vain' = vain \cup {x} /\ x > 0
      BY <1>4, <2>1, <2>2, <2>7 DEF WriteOk, Heartbeat
    <3>2. InHand' = InHand \ {x} /\ x \in InHand /\ HeldOnce'
      BY <1>0, <2>1, <2>2, <2>7, HandLeave
    <3>3. OrderInv'
      BY <2>1, <2>4, <3>1, <3>2 DEF OrderInv, HandedInOrder, Nothing
    <3>4. PlaceInv'
      BY <2>1, <3>1, <3>2 DEF PlaceInv, Partition
    <3> QED BY <3>3, <3>4
  <2> QED BY <1>4, <2>5, <2>6, <2>7 DEF WriteOk
<1>5. ASSUME NEW g \in Conns, WriteFail(g) PROVE OrderInv' /\ PlaceInv'
  <2> DEFINE x == held[g]
  <2>1. /\ writer[g] = "sending" /\ held' = [held EXCEPT ![g] = Nothing]
        /\ lost' = lost \cup ({x} \ {Heartbeat})
        /\ UNCHANGED <<out, handed, vain, produced, dropped>>
    BY <1>5 DEF WriteFail
  <2>2. x # Nothing
    BY <1>0, <2>1 DEF HeldBySender
  <2>3. /\ x = Heartbeat => InHand' = InHand
        /\ x # Heartbeat => InHand' = InHand \ {x} /\ x \in InHand
        /\ HeldOnce'
    BY <1>0, <2>1, <2>2, HandLeave
  <2>4. \A h \in Conns : held'[h] > 0 => h # g /\ held'[h] = held[h]
    BY <1>0, <2>1 DEF TypeOK, Nothing
  <2>5. \A h \in Conns : h # g => conn'[h] = conn[h]
    BY <1>0, <1>5 DEF WriteFail, TypeOK
  <2>6. OrderInv'
    BY <2>1, <2>3, <2>4, <2>5 DEF OrderInv, HandedInOrder
  <2>7. PlaceInv'
    BY <2>1, <2>3 DEF PlaceInv, Partition
  <2> QED BY <2>6, <2>7
<1>6. ASSUME NEW g \in Conns, ReaderStep(g) \/ WriterDone(g) PROVE OrderInv' /\ PlaceInv'
  BY <1>6, PlaceFrame DEF ReaderStep, Receive, HandlerReturn, ReceiveFail, Undecodable, WriterDone, msgVars
<1>7. CASE RunStep
  <2>1. UNCHANGED <<out, handed, vain, held, produced, dropped, lost>>
    BY <1>7 DEF RunStep, Top, DialOk, HelloOk, WelcomeOk, ServeEnd, ServeClosed, BackoffOver, DialFail,
                HandshakeFail, loopVars, msgVars
  <2>2. CASE DialOk
    <3>1. gen' = gen + 1 /\ \A h \in Conns : h # gen' => conn'[h] = conn[h]
      BY <1>0, <2>2 DEF DialOk, TypeOK
    <3>2. \A h \in Conns : h = gen' => ~ (held[h] > 0)
      BY <1>0, <3>1 DEF UnservedUnwritten, HeldBySender, Nothing
    <3> QED BY <2>1, <3>1, <3>2, PlaceFrame
  <2>3. CASE ~ DialOk
    <3>1. conn' = conn \/ conn' = [conn EXCEPT ![gen] = "closed"]
      BY <1>7, <2>3 DEF RunStep, Top, HelloOk, WelcomeOk, ServeEnd, ServeClosed, BackoffOver, DialFail, HandshakeFail
    <3> QED BY <1>0, <2>1, <3>1, PlaceFrame DEF TypeOK
  <2> QED BY <2>2, <2>3
<1>8. CASE ServerSend \/ Revoke \/ ConnDies \/ Shutdown \/ UNCHANGED vars
  <2>1. UNCHANGED <<out, handed, vain, held, produced, dropped, lost>>
    BY <1>8 DEF ServerSend, Revoke, ConnDies, Shutdown, vars, loopVars, msgVars
  <2>2. conn' = conn \/ (conn[gen] = "up" /\ conn' = [conn EXCEPT ![gen] = "dead"])
    BY <1>8 DEF ServerSend, Revoke, ConnDies, Shutdown, vars
  <2> QED BY <1>0, <2>1, <2>2, PlaceFrame DEF TypeOK
<1> QED BY <1>1, <1>2, <1>3, <1>4, <1>5, <1>6, <1>7, <1>8 DEF Next, WriterStep

-----------------------------------------------------------------------------
(* What a connection costs *)

Exited == {g \in Conns : writer[g] = "exited"}

LossInv == Cardinality(lost) <= Cardinality(Exited)

\* A write loop that fails a write loses at most the message in its hand, and
\* it ends there, so it is counted once.
LEMMA LossStep == BaseInv /\ LossInv /\ [Next]_vars => LossInv'
<1> SUFFICES ASSUME BaseInv, LossInv, [Next]_vars PROVE LossInv'
  OBVIOUS
<1>0. TypeOK /\ UnservedUnwritten /\ ServedExists
  BY DEF BaseInv
<1>1. /\ IsFiniteSet(lost) /\ Cardinality(lost) \in Nat
      /\ IsFiniteSet(Conns)
  <2>1. IsFiniteSet(1 .. MaxMsgs) /\ IsFiniteSet(Conns)
    BY FS_Interval, TransportAssumption DEF Conns
  <2>2. IsFiniteSet(lost)
    BY <1>0, <2>1, FS_Subset DEF TypeOK
  <2> QED BY <2>1, <2>2, FS_CardinalityType
<1>2. /\ IsFiniteSet(Exited) /\ Cardinality(Exited) \in Nat
      /\ IsFiniteSet(Exited') /\ Cardinality(Exited') \in Nat
  <2>1. IsFiniteSet(Exited) /\ IsFiniteSet(Exited')
    BY <1>1, FS_Subset DEF Exited
  <2> QED BY <2>1, FS_CardinalityType
<1>3. ASSUME UNCHANGED lost, Exited \subseteq Exited' PROVE LossInv'
  <2>1. Cardinality(Exited) <= Cardinality(Exited')
    BY <1>2, <1>3, FS_Subset
  <2> QED BY <1>1, <1>2, <1>3, <2>1 DEF LossInv
<1>4. ASSUME NEW g \in Conns, WriteFail(g) PROVE LossInv'
  <2>1. /\ writer[g] = "sending" /\ lost' = lost \cup ({held[g]} \ {Heartbeat})
        /\ writer' = [writer EXCEPT ![g] = "exited"]
    BY <1>4 DEF WriteFail, WriterExit
  <2>2. g \notin Exited /\ Exited' = Exited \cup {g}
    BY <1>0, <2>1 DEF Exited, TypeOK
  <2>3. Cardinality(Exited') = Cardinality(Exited) + 1
    BY <1>2, <2>2, FS_AddElement
  <2>4. lost' = lost \/ lost' = lost \cup {held[g]}
    BY <2>1
  <2>5. Cardinality(lost') <= Cardinality(lost) + 1
    <3>1. Cardinality(lost \cup {held[g]}) = IF held[g] \in lost THEN Cardinality(lost) ELSE Cardinality(lost) + 1
      BY <1>1, FS_AddElement
    <3> QED BY <1>1, <2>4, <3>1
  <2>6. Cardinality(lost') \in Nat
    <3>1. IsFiniteSet(lost \cup {held[g]})
      BY <1>1, FS_AddElement
    <3>2. IsFiniteSet(lost')
      BY <1>1, <2>4, <3>1
    <3> QED BY <3>2, FS_CardinalityType
  <2> QED BY <1>1, <1>2, <2>3, <2>5, <2>6 DEF LossInv
<1>5. ASSUME NEW g \in Conns, ReaderStep(g) \/ WriterDone(g) \/ WriterTake(g) \/ WriterTick(g) \/ WriteOk(g)
      PROVE  LossInv'
  <2>1. UNCHANGED lost /\ (writer' = writer \/ (writer[g] # "exited" /\ \E l : writer' = [writer EXCEPT ![g] = l]))
    BY <1>5 DEF ReaderStep, Receive, HandlerReturn, ReceiveFail, Undecodable, WriterDone, WriterTake, WriterTick, WriteOk,
                WriterExit, msgVars
  <2>2. Exited \subseteq Exited'
    BY <1>0, <2>1 DEF Exited, TypeOK
  <2> QED BY <1>3, <2>1, <2>2
<1>6. CASE WelcomeOk
  <2>1. UNCHANGED lost /\ run = "welcome" /\ writer' = [writer EXCEPT ![gen] = "select"]
    BY <1>6 DEF WelcomeOk, msgVars
  <2>2. gen \in Conns /\ writer[gen] = "none"
    BY <1>0, <2>1 DEF ServedExists, UnservedUnwritten
  <2>3. Exited \subseteq Exited'
    BY <1>0, <2>1, <2>2 DEF Exited, TypeOK
  <2> QED BY <1>3, <2>1, <2>3
<1>7. ASSUME \/ Send \/ ServerSend \/ Revoke \/ ConnDies \/ Shutdown \/ UNCHANGED vars
             \/ Top \/ DialOk \/ HelloOk \/ ServeEnd \/ ServeClosed \/ BackoffOver
             \/ \E err \in Errors : DialFail(err) \/ HandshakeFail(err)
      PROVE  LossInv'
  <2>1. UNCHANGED <<lost, writer>>
    BY <1>7 DEF Send, ServerSend, Revoke, ConnDies, Shutdown, vars, Top, DialOk, HelloOk, ServeEnd, ServeClosed,
                BackoffOver, DialFail, HandshakeFail, loopVars, msgVars
  <2> QED BY <1>3, <2>1 DEF Exited
<1> QED BY <1>4, <1>5, <1>6, <1>7 DEF Next, RunStep, WriterStep

\* No message has been given to Send initially.
LEMMA PlaceInit == Init => OrderInv /\ PlaceInv /\ LossInv
<1> SUFFICES ASSUME Init PROVE OrderInv /\ PlaceInv /\ LossInv
  OBVIOUS
<1>1. SeqRange(out) = {} /\ SeqRange(handed) = {} /\ InHand = {} /\ dropped = {} /\ vain = {} /\ lost = {} /\ 1 .. produced = {}
  BY DEF Init, SeqRange, InHand
<1>2. OrderInv
  BY <1>1 DEF Init, OrderInv, Increasing, HandedInOrder, Nothing
<1>3. PlaceInv
  BY <1>1 DEF Init, PlaceInv, Partition, HeldOnce
<1>4. LossInv
  <2>1. Exited = {}
    BY DEF Init, Exited
  <2> QED BY <1>1, <2>1, FS_EmptySet DEF LossInv
<1> QED BY <1>2, <1>3, <1>4

\* The invariant says what the property of the model says of the six places.
LEMMA PlaceAccounted == PlaceInv /\ LossInv => Accounted
<1> SUFFICES ASSUME PlaceInv, LossInv PROVE Accounted
  OBVIOUS
<1> DEFINE places == <<dropped, SeqRange(out), InHand, SeqRange(handed), vain, lost>>
<1>1. Len(places) = 6 /\ 1 .. 6 = {1, 2, 3, 4, 5, 6}
  OBVIOUS
<1>2. /\ places[1] = dropped /\ places[2] = SeqRange(out) /\ places[3] = InHand
      /\ places[4] = SeqRange(handed) /\ places[5] = vain /\ places[6] = lost
  OBVIOUS
<1> HIDE DEF places
<1>3. SeqRange(places) = {places[1], places[2], places[3], places[4], places[5], places[6]}
  BY <1>1 DEF SeqRange
<1>4. UNION SeqRange(places) = 1 .. produced
  BY <1>2, <1>3 DEF PlaceInv, Partition
<1>5. ASSUME NEW i \in 1 .. Len(places), NEW j \in 1 .. Len(places), i # j
      PROVE  places[i] \cap places[j] = {}
  <2>1. i \in {1, 2, 3, 4, 5, 6} /\ j \in {1, 2, 3, 4, 5, 6}
    BY <1>1
  <2> QED BY <1>2, <1>5, <2>1 DEF PlaceInv, Partition
<1> QED BY <1>4, <1>5 DEF Accounted, LossInv, Exited, places

\* Across reconnects what reaches the server keeps the order of Send and nothing reaches
\* it twice, although write loops of old connections go on taking messages.
THEOREM InOrder == Spec => []HandedInOrder
<1>1. OrderInv => HandedInOrder
  BY DEF OrderInv
<1> QED BY <1>1, BaseInit, BaseStep, ConnInit, ConnStep, PlaceInit, PlaceStep, PTL DEF Spec

\* Every message given to Send is in exactly one place, and of the messages that leave
\* the buffer a connection loses at most one in a failed write, for any number of
\* connections.  Messages written to a dead connection are a place of their own and are
\* not bounded.
THEOREM Conserved == Spec => []Accounted
  BY PlaceAccounted, BaseInit, BaseStep, ConnInit, ConnStep, PlaceInit, PlaceStep, LossStep, PTL DEF Spec
=============================================================================
