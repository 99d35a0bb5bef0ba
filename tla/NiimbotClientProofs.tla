------------------------ MODULE NiimbotClientProofs -------------------------
(***************************************************************************)
(* Theorems about NiimbotClient: a session over a lossy link, for any      *)
(* number of copies, attempts and mishaps.                                 *)
(*                                                                         *)
(* First the shape of the tasks; then where the client stands, and its     *)
(* steps by what becomes of its requests (Moves); what a step does to the  *)
(* commands and replies under way; and on these the types, the reset, the  *)
(* order of what the printer carries out, and the success of a session.    *)
(***************************************************************************)
EXTENDS NiimbotClient, SequenceTheorems, TLAPS

Errs == {"send", "invalid", "printer", "unsupported", "timeout", "link", "context"}

-----------------------------------------------------------------------------
(* The task sequences *)

TaskNames == {"B1", "D110", "B21V1"}

\* How many commands of a task set up the print or send a page; the others only ask.
Prelude(t) == CASE t = "B1" -> 6 [] t = "D110" -> 8 [] t = "B21V1" -> 3 + 3 * Copies

\* The printer's own task, and the place of the current request in it.
Own   == Script(Speaks(type))
Total == Prelude(Speaks(type))
At    == Len(Own) - Len(todo) + 1

\* u is s followed by t.
Joins(s, t, u) ==
  /\ Len(u) = Len(s) + Len(t) /\ Len(s) \in Nat /\ Len(t) \in Nat
  /\ \A i \in 1 .. Len(s) : u[i] = s[i]
  /\ \A i \in 1 .. Len(t) : u[Len(s) + i] = t[i]

\* The elements of a concatenation.
LEMMA Concat ==
  ASSUME NEW S
  PROVE  \A s, t \in Seq(S) : s \o t \in Seq(S) /\ Joins(s, t, s \o t)
  BY DEF Joins

\* What follows printInit.
LEMMA AfterInit ==
  ASSUME NEW t \in Seq(Commands), NEW s, s = PrintInit \o t
  PROVE  /\ s \in Seq(Commands) /\ Len(s) = 3 + Len(t) /\ Len(t) \in Nat
         /\ s[1] = "density" /\ s[2] = "labelType" /\ s[3] = "start"
         /\ \A i \in 1 .. Len(t) : s[3 + i] = t[i]
<1>1. PrintInit \in Seq(Commands) /\ Len(PrintInit) = 3
  BY DEF PrintInit, Commands, Setup
<1>2. PrintInit[1] = "density" /\ PrintInit[2] = "labelType" /\ PrintInit[3] = "start"
  BY DEF PrintInit
<1>3. \A p, q \in Seq(Commands) : p \o q \in Seq(Commands) /\ Joins(p, q, p \o q)
  BY Concat
<1>4. s \in Seq(Commands) /\ Joins(PrintInit, t, s)
  BY <1>1, <1>3, Zenon
<1> QED
  BY <1>1, <1>2, <1>4 DEF Joins

\* Every task: the print is set up in the first three commands, the commands that only
\* ask come last.
TaskShape(s, n) ==
  /\ s \in Seq(Commands) /\ n >= 6 /\ Len(s) \in {n + 1, n + 2}
  /\ s[1] = "density" /\ s[2] = "labelType" /\ s[3] = "start"
  /\ \A i \in 1 .. n : s[i] \in Setup
  /\ Len(s) = n + 1 => s[n + 1] = "endPoll"
  /\ Len(s) = n + 2 => s[n + 1] = "status" /\ s[n + 2] = "end"

\* The tasks of one page.
LEMMA ShapeB1 ==
  /\ TaskShape(Script("B1"), 6) /\ Len(Script("B1")) = 8
  /\ Script("B1")[4] = "pageStart" /\ Script("B1")[5] = "pageSize" /\ Script("B1")[6] = "pageEnd"
<1> DEFINE t == <<"pageStart", "pageSize", "pageEnd", "status", "end">>
<1>1. Script("B1") = PrintInit \o t
  BY DEF Script
<1>2. t \in Seq(Commands) /\ Len(t) = 5
  BY DEF Commands, Setup
<1>3. /\ t[1] = "pageStart" /\ t[2] = "pageSize" /\ t[3] = "pageEnd"
      /\ t[4] = "status" /\ t[5] = "end"
  OBVIOUS
<1> HIDE DEF t
<1>4. /\ Script("B1") \in Seq(Commands) /\ Len(Script("B1")) = 3 + 5
      /\ Script("B1")[1] = "density" /\ Script("B1")[2] = "labelType" /\ Script("B1")[3] = "start"
      /\ \A i \in 1 .. 5 : Script("B1")[3 + i] = t[i]
  <2>1. /\ Script("B1") \in Seq(Commands) /\ Len(Script("B1")) = 3 + Len(t)
        /\ Script("B1")[1] = "density" /\ Script("B1")[2] = "labelType" /\ Script("B1")[3] = "start"
        /\ \A i \in 1 .. Len(t) : Script("B1")[3 + i] = t[i]
    BY <1>1, <1>2, AfterInit, Zenon
  <2> QED
    BY <1>2, <2>1
<1>5. /\ Script("B1")[4] = t[1] /\ Script("B1")[5] = t[2] /\ Script("B1")[6] = t[3]
      /\ Script("B1")[7] = t[4] /\ Script("B1")[8] = t[5]
  BY <1>4
<1> QED
  BY <1>3, <1>4, <1>5 DEF TaskShape, Setup

\* The task of the D110, with a clear and a quantity of its own.
LEMMA ShapeD110 ==
  /\ TaskShape(Script("D110"), 8) /\ Len(Script("D110")) = 10
  /\ Script("D110")[4] = "clear" /\ Script("D110")[5] = "pageStart" /\ Script("D110")[6] = "pageSize"
  /\ Script("D110")[7] = "quantity" /\ Script("D110")[8] = "pageEnd"
<1> DEFINE t == <<"clear", "pageStart", "pageSize", "quantity", "pageEnd", "status", "end">>
<1>1. Script("D110") = PrintInit \o t
  BY DEF Script
<1>2. t \in Seq(Commands) /\ Len(t) = 7
  BY DEF Commands, Setup
<1>3. /\ t[1] = "clear" /\ t[2] = "pageStart" /\ t[3] = "pageSize"
      /\ t[4] = "quantity" /\ t[5] = "pageEnd" /\ t[6] = "status"
      /\ t[7] = "end"
  OBVIOUS
<1> HIDE DEF t
<1>4. /\ Script("D110") \in Seq(Commands) /\ Len(Script("D110")) = 3 + 7
      /\ Script("D110")[1] = "density" /\ Script("D110")[2] = "labelType" /\ Script("D110")[3] = "start"
      /\ \A i \in 1 .. 7 : Script("D110")[3 + i] = t[i]
  <2>1. /\ Script("D110") \in Seq(Commands) /\ Len(Script("D110")) = 3 + Len(t)
        /\ Script("D110")[1] = "density" /\ Script("D110")[2] = "labelType" /\ Script("D110")[3] = "start"
        /\ \A i \in 1 .. Len(t) : Script("D110")[3 + i] = t[i]
    BY <1>1, <1>2, AfterInit, Zenon
  <2> QED
    BY <1>2, <2>1
<1>5. /\ Script("D110")[4] = t[1] /\ Script("D110")[5] = t[2] /\ Script("D110")[6] = t[3]
      /\ Script("D110")[7] = t[4] /\ Script("D110")[8] = t[5] /\ Script("D110")[9] = t[6]
      /\ Script("D110")[10] = t[7]
  BY <1>4
<1> QED
  BY <1>3, <1>4, <1>5 DEF TaskShape, Setup

\* The task of a page per copy.
LEMMA ShapeB21 ==
  /\ TaskShape(Script("B21V1"), 3 + 3 * Copies) /\ Len(Script("B21V1")) = 4 + 3 * Copies
  /\ \A c \in 0 .. Copies - 1 :
       /\ Script("B21V1")[4 + 3 * c] = "pageStart" /\ Script("B21V1")[5 + 3 * c] = "pageSize"
       /\ Script("B21V1")[6 + 3 * c] = "pageEnd"
<1> DEFINE t == Pages(Copies) \o <<"endPoll">>
<1>a. Copies \in Nat /\ Copies >= 1
  BY ClientAssumption
<1>1. Script("B21V1") = PrintInit \o t
  BY DEF Script
<1>2. /\ Page \in Seq(Setup) /\ Len(Page) = 3
      /\ Page[1] = "pageStart" /\ Page[2] = "pageSize" /\ Page[3] = "pageEnd"
  BY DEF Page, Setup
<1>3. /\ Pages(Copies) \in Seq(Commands) /\ Len(Pages(Copies)) = 3 * Copies
      /\ \A i \in 1 .. 3 * Copies : Pages(Copies)[i] \in Setup
      /\ \A i \in 1 .. 3 * Copies : Pages(Copies)[i] = Page[((i - 1) % 3) + 1]
  <2>1. \A i \in 1 .. 3 * Copies : ((i - 1) % 3) + 1 \in 1 .. 3
    BY <1>a
  <2>2. \A i \in 1 .. 3 * Copies : Page[((i - 1) % 3) + 1] \in Setup
    BY <1>2, <2>1 DEF Setup
  <2>3. \A i \in 1 .. 3 * Copies : Pages(Copies)[i] = Page[((i - 1) % 3) + 1]
    BY DEF Pages
  <2>4. Pages(Copies) \in [1 .. 3 * Copies -> Setup]
    BY <2>2 DEF Pages
  <2>5. Pages(Copies) \in Seq(Setup) /\ Len(Pages(Copies)) = 3 * Copies
    BY <1>a, <2>4, SeqDef, LenProperties
  <2>6. Pages(Copies) \in Seq(Commands)
    BY <2>5 DEF Commands
  <2> QED
    BY <2>2, <2>3, <2>5, <2>6
<1>4. <<"endPoll">> \in Seq(Commands) /\ Len(<<"endPoll">>) = 1 /\ <<"endPoll">>[1] = "endPoll"
  BY DEF Commands
<1>5. /\ t \in Seq(Commands) /\ Len(t) = 3 * Copies + 1
      /\ \A i \in 1 .. 3 * Copies : t[i] = Pages(Copies)[i]
      /\ t[3 * Copies + 1] = "endPoll"
  <2>1. /\ t \in Seq(Commands) /\ Len(t) = Len(Pages(Copies)) + 1
        /\ \A i \in 1 .. Len(Pages(Copies)) : t[i] = Pages(Copies)[i]
        /\ \A i \in 1 .. 1 : t[Len(Pages(Copies)) + i] = <<"endPoll">>[i]
    BY <1>3, <1>4, Concat
  <2> QED
    BY <1>3, <1>4, <2>1
<1> HIDE DEF t
<1>8. /\ Script("B21V1") \in Seq(Commands) /\ Len(Script("B21V1")) = 4 + 3 * Copies
      /\ Script("B21V1")[1] = "density" /\ Script("B21V1")[2] = "labelType" /\ Script("B21V1")[3] = "start"
      /\ \A i \in 1 .. 3 * Copies + 1 : Script("B21V1")[3 + i] = t[i]
  <2>1. /\ Script("B21V1") \in Seq(Commands) /\ Len(Script("B21V1")) = 3 + Len(t)
        /\ Script("B21V1")[1] = "density" /\ Script("B21V1")[2] = "labelType" /\ Script("B21V1")[3] = "start"
        /\ \A i \in 1 .. Len(t) : Script("B21V1")[3 + i] = t[i]
    BY <1>1, <1>5, AfterInit
  <2> QED
    BY <1>a, <1>5, <2>1
<1> DEFINE s == Script("B21V1")
<1> HIDE DEF s
<1>9. \A i \in 4 .. 3 + 3 * Copies : s[i] \in Setup /\ s[i] = Page[((i - 4) % 3) + 1]
  <2> SUFFICES ASSUME NEW i \in 4 .. 3 + 3 * Copies PROVE s[i] \in Setup /\ s[i] = Page[((i - 4) % 3) + 1]
    OBVIOUS
  <2> DEFINE j == i - 3
  <2>1. j \in 1 .. 3 * Copies /\ 3 + j = i /\ j - 1 = i - 4 /\ j \in 1 .. 3 * Copies + 1
    BY <1>a
  <2> HIDE DEF j
  <2>2. s[3 + j] = t[j] /\ t[j] = Pages(Copies)[j]
    BY <1>5, <1>8, <2>1 DEF s
  <2> QED
    BY <1>3, <2>1, <2>2
<1>10. s[1] = "density" /\ s[2] = "labelType" /\ s[3] = "start" /\ s[4 + 3 * Copies] = "endPoll"
  <2>1. 3 + (3 * Copies + 1) = 4 + 3 * Copies /\ 3 * Copies + 1 \in 1 .. 3 * Copies + 1
    BY <1>a
  <2> QED
    BY <1>5, <1>8, <2>1 DEF s
<1>11. TaskShape(s, 3 + 3 * Copies)
  <2>1. \A i \in 1 .. 3 + 3 * Copies : s[i] \in Setup
    <3>1. s[1] \in Setup /\ s[2] \in Setup /\ s[3] \in Setup
      BY <1>10 DEF Setup
    <3> QED
      BY <1>a, <1>9, <3>1
  <2>2. Len(s) = (3 + 3 * Copies) + 1 /\ 3 + 3 * Copies >= 6 /\ s \in Seq(Commands)
    BY <1>a, <1>8 DEF s
  <2>3. (3 + 3 * Copies) + 1 = 4 + 3 * Copies /\ (3 + 3 * Copies) + 1 # (3 + 3 * Copies) + 2
    BY <1>a
  <2> QED
    BY <1>10, <2>1, <2>2, <2>3 DEF TaskShape
<1>12. ASSUME NEW c \in 0 .. Copies - 1
       PROVE  s[4 + 3 * c] = "pageStart" /\ s[5 + 3 * c] = "pageSize" /\ s[6 + 3 * c] = "pageEnd"
  <2>1. /\ 4 + 3 * c \in 4 .. 3 + 3 * Copies /\ 5 + 3 * c \in 4 .. 3 + 3 * Copies
        /\ 6 + 3 * c \in 4 .. 3 + 3 * Copies
    BY <1>a
  <2>2. /\ (((4 + 3 * c) - 4) % 3) + 1 = 1 /\ (((5 + 3 * c) - 4) % 3) + 1 = 2
        /\ (((6 + 3 * c) - 4) % 3) + 1 = 3
    BY <1>a
  <2> QED
    BY <1>2, <1>9, <2>1, <2>2
<1> QED
  BY <1>8, <1>11, <1>12 DEF s

\* What a printer's own task looks like, whatever its type.
LEMMA OwnShape ==
  ASSUME type \in Tasks \cup {"unlisted"}
  PROVE  /\ TaskShape(Own, Total) /\ Total \in Nat /\ Total >= 6 /\ Own \in Seq(Commands) /\ Len(Own) \in Nat
         /\ Speaks(type) \in TaskNames /\ Speaks(type) \in Tasks \cup {"B1"}
         /\ \A i \in 1 .. Len(Own) : Own[i] \in Setup <=> i <= Total
         /\ \A i \in 1 .. Len(Own) : Own[i] \in Setup \cup {"status", "end", "endPoll"}
<1>1. Speaks(type) \in TaskNames /\ Speaks(type) \in Tasks \cup {"B1"}
  BY ClientAssumption DEF Speaks, TaskNames
<1>2. TaskShape(Own, Total) /\ Total \in Nat
  <2>1. CASE Speaks(type) = "B1"
    BY <2>1, ShapeB1 DEF Own, Total, Prelude
  <2>2. CASE Speaks(type) = "D110"
    BY <2>2, ShapeD110 DEF Own, Total, Prelude
  <2>3. CASE Speaks(type) = "B21V1"
    BY <2>3, ShapeB21, ClientAssumption DEF Own, Total, Prelude
  <2> QED
    BY <1>1, <2>1, <2>2, <2>3 DEF TaskNames
<1>3. /\ Own \in Seq(Commands) /\ Len(Own) \in Nat /\ Total >= 6 /\ Len(Own) \in {Total + 1, Total + 2}
      /\ \A i \in 1 .. Total : Own[i] \in Setup
      /\ Len(Own) = Total + 1 => Own[Total + 1] = "endPoll"
      /\ Len(Own) = Total + 2 => Own[Total + 1] = "status" /\ Own[Total + 2] = "end"
  BY <1>2, LenProperties DEF TaskShape
<1>4. {"status", "end", "endPoll"} \cap Setup = {}
  BY DEF Setup
<1>5. ASSUME NEW i \in 1 .. Len(Own), i > Total PROVE Own[i] \in {"status", "end", "endPoll"}
  <2>1. i = Total + 1 \/ (i = Total + 2 /\ Len(Own) = Total + 2)
    BY <1>2, <1>3, <1>5
  <2> QED
    BY <1>3, <2>1
<1>6. \A i \in 1 .. Len(Own) : i <= Total => Own[i] \in Setup
  BY <1>2, <1>3
<1>7. \A i \in 1 .. Len(Own) : i <= Total \/ i > Total
  BY <1>2, <1>3
<1> QED
  BY <1>1, <1>2, <1>3, <1>4, <1>5, <1>6, <1>7

-----------------------------------------------------------------------------
(* Where the client stands: the requests still to be made are the rest of the  *)
(* queries, of the printer's own task, or of the reset.                        *)

Printing == phase = "print" /\ pc # "returned"
Finished == phase = "print" /\ pc = "returned" /\ err = "none"

Asking ==
  \/ /\ session = "identify"
     /\ todo \in {<<"rfid">>, <<"serial", "rfid">>, <<"type", "serial", "rfid">>,
                  <<"heartbeat", "type", "serial", "rfid">>}
  \/ session = "command" /\ todo \in {<<"type">>, <<"heartbeat", "type">>}
  \/ session = "print" /\ todo = <<"heartbeat">>

Standing ==
  /\ pc = "returned" <=> todo = <<>>
  /\ session = "print" \/ phase = "print" => task = Speaks(type)
  /\ phase = "probe" /\ pc # "returned" => Asking
  /\ phase = "print" => session # "identify"
  /\ Printing => Len(todo) <= Len(Own) /\ \A i \in 1 .. Len(todo) : todo[i] = Own[At + i - 1]
  /\ phase = "reset" => todo \in {<<"end", "cancel">>, <<"cancel">>, <<>>} /\ err # "none"
  /\ phase # "reset" /\ pc # "returned" => err = "none"
  /\ pc = "await" => tries >= 1
  /\ pc = "pause" => Printing /\ At > Total

TypeInv == TypeOK /\ Standing

\* The steps of the client other than a send, by what becomes of its requests.
Stays ==
  /\ UNCHANGED <<task, id, todo, phase, err>>
  /\ \/ pc = "await" /\ pc' = "await" /\ tries' = tries
     \/ pc = "await" /\ pc' = "pause" /\ tries' = 0 /\ Printing /\ At > Total
     \/ pc = "pause" /\ pc' = "ready" /\ tries' = tries
     \/ pc = "await" /\ pc' = "ready" /\ tries' = tries /\ phase = "probe"

GivesUp ==
  /\ phase = "probe" /\ pc # "returned" /\ UNCHANGED <<phase, task, id>>
  /\ todo' = <<>> /\ pc' = "returned" /\ tries' = 0 /\ err' \in Errs

AsksNext ==
  /\ phase = "probe" /\ pc # "returned" /\ UNCHANGED <<phase, err>> /\ tries' = 0
  /\ session = "identify" \/ (session = "command" /\ todo = <<"heartbeat", "type">>)
  /\ todo' = Tail(todo) /\ pc' = IF Len(todo) = 1 THEN "returned" ELSE "ready"
  /\ task' = IF Head(todo) = "type" THEN Speaks(type) ELSE task
  /\ IF Head(todo) = "serial" THEN id' \in {"serial", "address"} ELSE id' = id

Begins ==
  /\ phase = "probe" /\ pc # "returned" /\ session # "identify" /\ UNCHANGED <<id, err>> /\ tries' = 0
  /\ phase' = "print" /\ task' = Speaks(type) /\ todo' = Own /\ pc' = "ready"

\* The answer that lets Print go on.
Answers(p) ==
  /\ p.kind = "ok" /\ p.cmd = Plain(Head(todo))
  /\ Head(todo) = "status" => p.n >= Copies
  /\ Head(todo) = "endPoll" => p.n # 0

Proceeds ==
  /\ Printing /\ pc = "await" /\ packets # <<>> /\ Answers(Head(packets)) /\ packets' = Tail(packets)
  /\ UNCHANGED <<task, id, phase, err>> /\ tries' = 0
  /\ todo' = Tail(todo) /\ pc' = IF Len(todo) = 1 THEN "returned" ELSE "ready"

Resets ==
  /\ Printing /\ UNCHANGED <<task, id>> /\ tries' = 0
  /\ phase' = "reset" /\ todo' = <<"end", "cancel">> /\ pc' = "ready" /\ err' \in Errs

Refuses ==
  /\ Printing /\ pc = "ready" /\ At = 1 /\ UNCHANGED <<task, id, phase, tries>>
  /\ todo' = <<>> /\ pc' = "returned" /\ err' \in Errs

Unwinds ==
  /\ phase = "reset" /\ pc # "returned" /\ (pc = "ready" => ~ up)
  /\ UNCHANGED <<task, id, phase, err>> /\ tries' = 0
  /\ todo' = Tail(todo) /\ pc' = IF Len(todo) = 1 THEN "returned" ELSE "ready"

Moves == Stays \/ GivesUp \/ AsksNext \/ Begins \/ Proceeds \/ Resets \/ Refuses \/ Unwinds

\* The current request of a print.
LEMMA HeadOwn ==
  ASSUME TypeInv, Printing
  PROVE  /\ todo # <<>> /\ Len(todo) \in 1 .. Len(Own) /\ At \in 1 .. Len(Own) /\ Head(todo) = Own[At]
         /\ Len(Own) - At = Len(todo) - 1
<1>1. Own \in Seq(Commands) /\ Len(Own) \in Nat
  BY OwnShape DEF TypeInv, TypeOK
<1>2. todo \in Seq(Commands) /\ todo # <<>> /\ Len(todo) <= Len(Own) /\ \A i \in 1 .. Len(todo) : todo[i] = Own[At + i - 1]
  BY DEF TypeInv, TypeOK, Standing, Printing
<1>3. Len(todo) \in Nat /\ Len(todo) >= 1 /\ Head(todo) = todo[1]
  BY <1>2, EmptySeq, LenProperties
<1>4. At \in 1 .. Len(Own) /\ At + 1 - 1 = At /\ Len(Own) - At = Len(todo) - 1
  BY <1>1, <1>2, <1>3 DEF At
<1> QED
  BY <1>1, <1>2, <1>3, <1>4

\* A failed request.
LEMMA FailMoves ==
  ASSUME TypeInv, NEW e \in Errs, Fail(e), pc # "returned", pc = "ready" => ~ up \/ phase # "reset"
  PROVE  GivesUp \/ AsksNext \/ Resets \/ Unwinds
<1>1. CASE phase = "probe"
  <2>1. Asking /\ err = "none"
    BY <1>1 DEF TypeInv, Standing
  <2>2. CASE todo = <<"rfid">>
    <3>1. Head(todo) = "rfid" /\ Len(todo) = 1 /\ Tail(todo) = <<>> /\ session = "identify"
      BY <2>1, <2>2 DEF Asking
    <3>2. Continue /\ UNCHANGED <<task, id>>
      BY <3>1 DEF Fail
    <3>3. todo' = <<>> /\ pc' = "returned" /\ UNCHANGED <<phase, err>> /\ tries' = 0
      BY <1>1, <3>1, <3>2 DEF Continue
    <3> QED
      BY <1>1, <3>1, <3>2, <3>3 DEF AsksNext
  <2>3. CASE todo = <<"serial", "rfid">>
    <3>1. Head(todo) = "serial" /\ Len(todo) = 2 /\ session = "identify"
      BY <2>1, <2>3 DEF Asking
    <3>2. UseFallback /\ Continue /\ UNCHANGED task
      BY <1>1, <3>1 DEF Fail
    <3>3. todo' = Tail(todo) /\ pc' = "ready" /\ UNCHANGED <<phase, err>> /\ tries' = 0
      BY <3>1, <3>2 DEF Continue
    <3> QED
      BY <1>1, <3>1, <3>2, <3>3 DEF AsksNext, UseFallback
  <2>4. CASE todo # <<"rfid">> /\ todo # <<"serial", "rfid">>
    <3>1. Head(todo) \in {"heartbeat", "type"}
      BY <2>1, <2>4 DEF Asking
    <3>2. err' = e /\ tries' = 0 /\ todo' = <<>> /\ pc' = "returned" /\ UNCHANGED phase /\ UNCHANGED <<task, id>>
      BY <1>1, <3>1 DEF Fail
    <3> QED
      BY <1>1, <3>2 DEF GivesUp
  <2> QED
    BY <2>2, <2>3, <2>4
<1>2. CASE phase = "print"
  <2>1. Printing /\ Head(todo) # "rfid"
    <3>1. Printing
      BY <1>2 DEF Printing
    <3> QED
      BY <3>1, HeadOwn, OwnShape DEF TypeInv, TypeOK, Setup
  <2>2. err' = e /\ tries' = 0 /\ phase' = "reset" /\ todo' = ResetScript /\ pc' = "ready" /\ UNCHANGED <<task, id>>
    BY <1>2, <2>1 DEF Fail
  <2> QED
    BY <2>1, <2>2 DEF Resets, ResetScript
<1>3. CASE phase = "reset"
  <2>1. Continue /\ UNCHANGED <<task, id>>
    BY <1>3 DEF Fail
  <2>2. todo \in {<<"end", "cancel">>, <<"cancel">>}
    BY <1>3 DEF TypeInv, Standing
  <2>3. CASE todo = <<"end", "cancel">>
    <3>1. Len(todo) = 2
      BY <2>3
    <3>2. todo' = Tail(todo) /\ pc' = "ready" /\ UNCHANGED <<phase, err>> /\ tries' = 0
      BY <2>1, <3>1 DEF Continue
    <3> QED
      BY <1>3, <2>1, <3>1, <3>2 DEF Unwinds
  <2>4. CASE todo = <<"cancel">>
    <3>1. Len(todo) = 1 /\ Tail(todo) = <<>>
      BY <2>4
    <3>2. todo' = <<>> /\ pc' = "returned" /\ UNCHANGED <<phase, err>> /\ tries' = 0
      BY <1>3, <2>1, <3>1 DEF Continue
    <3> QED
      BY <1>3, <2>1, <3>1, <3>2 DEF Unwinds
  <2> QED
    BY <2>2, <2>3, <2>4
<1> QED
  BY <1>1, <1>2, <1>3 DEF TypeInv, TypeOK

\* An answered request of the queries.
LEMMA AdvanceProbe ==
  ASSUME TypeInv, Advance, phase = "probe", pc # "returned"
  PROVE  AsksNext \/ Begins
<1>1. Asking
  BY DEF TypeInv, Standing
<1>2. CASE todo = <<"type">>
  <2>1. Head(todo) = "type" /\ Len(todo) = 1 /\ session = "command"
    BY <1>1, <1>2 DEF Asking
  <2>2. Identify /\ UNCHANGED id /\ Continue
    BY <2>1 DEF Advance
  <2>3. task' = Speaks(type)
    BY <2>2 DEF Identify, Speaks
  <2>4. todo' = Script(task') /\ pc' = "ready" /\ phase' = "print" /\ tries' = 0 /\ UNCHANGED err
    BY <2>1, <2>2 DEF Continue
  <2> QED
    BY <2>1, <2>2, <2>3, <2>4 DEF Begins, Own
<1>3. CASE todo = <<"heartbeat">>
  <2>1. Head(todo) = "heartbeat" /\ Len(todo) = 1 /\ session = "print"
    BY <1>1, <1>3 DEF Asking
  <2>2. UNCHANGED <<task, id>> /\ Continue
    BY <2>1 DEF Advance
  <2>3. task' = Speaks(type)
    BY <2>1, <2>2 DEF TypeInv, Standing
  <2>4. todo' = Script(task') /\ pc' = "ready" /\ phase' = "print" /\ tries' = 0 /\ UNCHANGED err
    BY <2>1, <2>2 DEF Continue
  <2> QED
    BY <2>1, <2>2, <2>3, <2>4 DEF Begins, Own
<1>4. CASE todo = <<"rfid">>
  <2>1. Head(todo) = "rfid" /\ Len(todo) = 1 /\ Tail(todo) = <<>> /\ session = "identify"
    BY <1>1, <1>4 DEF Asking
  <2>2. UNCHANGED <<task, id>> /\ Continue
    BY <2>1 DEF Advance
  <2>3. todo' = <<>> /\ pc' = "returned" /\ UNCHANGED <<phase, err>> /\ tries' = 0
    BY <2>1, <2>2 DEF Continue
  <2> QED
    BY <2>1, <2>2, <2>3 DEF AsksNext
<1>5. CASE todo \notin {<<"type">>, <<"heartbeat">>, <<"rfid">>}
  <2>1. /\ Len(todo) > 1 /\ Len(todo) # 1 /\ Head(todo) \in {"heartbeat", "type", "serial"}
        /\ session = "identify" \/ (session = "command" /\ todo = <<"heartbeat", "type">>)
    <3>1. todo \in {<<"serial", "rfid">>, <<"type", "serial", "rfid">>, <<"heartbeat", "type", "serial", "rfid">>,
                    <<"heartbeat", "type">>}
      BY <1>1, <1>5 DEF Asking
    <3>2. session = "identify" \/ (session = "command" /\ todo = <<"heartbeat", "type">>)
      BY <1>1, <1>5 DEF Asking
    <3>3. CASE todo = <<"serial", "rfid">>
      BY <3>2, <3>3
    <3>4. CASE todo = <<"type", "serial", "rfid">>
      BY <3>2, <3>4
    <3>5. CASE todo = <<"heartbeat", "type", "serial", "rfid">>
      BY <3>2, <3>5
    <3>6. CASE todo = <<"heartbeat", "type">>
      BY <3>2, <3>6
    <3> QED
      BY <3>1, <3>3, <3>4, <3>5, <3>6
  <2>2. Continue
    BY DEF Advance
  <2>3. todo' = Tail(todo) /\ pc' = "ready" /\ UNCHANGED <<phase, err>> /\ tries' = 0
    BY <2>1, <2>2 DEF Continue
  <2>4. /\ task' = (IF Head(todo) = "type" THEN Speaks(type) ELSE task)
        /\ IF Head(todo) = "serial" THEN id' \in {"serial", "address"} ELSE id' = id
    BY <2>1 DEF Advance, Identify, UseSerial, Speaks
  <2> QED
    BY <2>1, <2>3, <2>4 DEF AsksNext
<1> QED
  BY <1>2, <1>3, <1>4, <1>5

\* A sequence that is not empty has one element or more.
LEMMA OneOrMore ==
  ASSUME NEW S, NEW s \in Seq(S), s # <<>>
  PROVE  (Len(s) = 1 /\ Tail(s) = <<>>) \/ (Len(s) > 1 /\ Len(s) # 1)
<1>1. Len(s) \in Nat /\ Len(s) >= 1 /\ Tail(s) \in Seq(S) /\ Len(Tail(s)) = Len(s) - 1
  BY EmptySeq, LenProperties, HeadTailProperties
<1>2. Len(s) = 1 => Len(Tail(s)) = 0
  BY <1>1
<1>3. Len(s) = 1 => Tail(s) = <<>>
  BY <1>1, <1>2, EmptySeq, Zenon
<1>4. Len(s) = 1 \/ (Len(s) > 1 /\ Len(s) # 1)
  BY <1>1
<1> QED
  BY <1>3, <1>4, Zenon

\* An answered request of the task, and of the reset.
LEMMA AdvanceLater ==
  ASSUME TypeInv, Advance, phase # "probe", pc # "returned"
  PROVE  /\ UNCHANGED <<task, id, phase, err>> /\ tries' = 0
         /\ todo' = Tail(todo) /\ pc' = IF Len(todo) = 1 THEN "returned" ELSE "ready"
<1>1. todo \in Seq(Commands) /\ todo # <<>>
  BY DEF TypeInv, TypeOK, Standing
<1>2. UNCHANGED <<task, id>> /\ Continue
  BY DEF Advance
<1>3. (Len(todo) = 1 /\ Tail(todo) = <<>>) \/ (Len(todo) > 1 /\ Len(todo) # 1)
  BY <1>1, OneOrMore, Zenon
<1>4. CASE Len(todo) = 1 /\ Tail(todo) = <<>>
  <2>1. todo' = <<>> /\ pc' = "returned" /\ UNCHANGED <<phase, err>> /\ tries' = 0
    BY <1>2, <1>4 DEF Continue
  <2> QED
    BY <1>2, <1>4, <2>1
<1>5. CASE Len(todo) > 1 /\ Len(todo) # 1
  <2>1. todo' = Tail(todo) /\ pc' = "ready" /\ UNCHANGED <<phase, err>> /\ tries' = 0
    BY <1>2, <1>5 DEF Continue
  <2> QED
    BY <1>2, <1>5, <2>1
<1> QED
  BY <1>3, <1>4, <1>5, Zenon

\* What await does with the next packet.
LEMMA AwaitMoves ==
  ASSUME TypeInv, Await
  PROVE  Moves /\ packets # <<>> /\ packets' = Tail(packets)
<1> DEFINE p == Head(packets)
<1>1. pc = "await" /\ packets # <<>> /\ packets' = Tail(packets)
  BY DEF Await
<1>2. CASE p.kind = "error"
  <2>1. Fail("printer")
    BY <1>2, Zenon DEF Await
  <2> QED
    BY <1>1, <2>1, FailMoves DEF Errs, Moves
<1>3. CASE p.kind = "unsupported"
  <2>1. Fail("unsupported")
    BY <1>3, Zenon DEF Await
  <2> QED
    BY <1>1, <2>1, FailMoves DEF Errs, Moves
<1>4. CASE p.kind = "ok" /\ ~ Accepts(p)
  <2>1. UNCHANGED clientVars
    BY <1>4 DEF Await
  <2> QED
    BY <1>1, <2>1 DEF Moves, Stays, clientVars
<1>5. CASE p.kind = "ok" /\ Accepts(p)
  <2>1. Accept(p)
    BY <1>5 DEF Await
  <2>2. p \in Packet /\ p.kind = "ok" /\ p.cmd = Plain(Head(todo))
    <3>1. p \in Packet
      BY <1>1, HeadTailProperties DEF TypeInv, TypeOK
    <3> QED
      BY <1>5, <3>1 DEF Packet, Accepts, Plain
  <2>3. CASE p.cmd = "status" /\ p.fault
    <3>1. Fail("printer")
      BY <2>1, <2>3, Zenon DEF Accept
    <3> QED
      BY <1>1, <3>1, FailMoves DEF Errs, Moves
  <2>4. CASE (p.cmd = "status" /\ ~ p.fault /\ p.n < Copies) \/ (p.cmd = "end" /\ Head(todo) = "endPoll" /\ p.n = 0)
    <3>1. PollAgain
      BY <2>1, <2>4 DEF Accept
    <3>2. Head(todo) \in {"status", "endPoll"}
      BY <2>2, <2>4 DEF Plain
    <3>3. Printing
      BY <1>1, <3>2 DEF TypeInv, TypeOK, Standing, Asking, Printing
    <3>4. At > Total
      <4>1. Own[At] \in {"status", "endPoll"} /\ At \in 1 .. Len(Own)
        BY <3>2, <3>3, HeadOwn
      <4>2. Own[At] \notin Setup
        BY <4>1 DEF Setup
      <4>3. Total \in Nat /\ Len(Own) \in Nat /\ (Own[At] \in Setup <=> At <= Total)
        BY <4>1, OwnShape DEF TypeInv, TypeOK
      <4> QED
        BY <4>1, <4>2, <4>3
    <3> QED
      BY <1>1, <3>1, <3>3, <3>4 DEF PollAgain, Moves, Stays
  <2>5. CASE /\ ~ (p.cmd = "status" /\ p.fault) /\ ~ (p.cmd = "status" /\ p.n < Copies)
             /\ ~ (p.cmd = "end" /\ Head(todo) = "endPoll" /\ p.n = 0)
    <3>1. Advance
      BY <2>1, <2>5 DEF Accept
    <3>2. CASE phase = "probe"
      BY <1>1, <3>1, <3>2, AdvanceProbe DEF Moves
    <3>3. CASE phase = "print"
      <4>1. p.n \in Nat /\ Copies \in Nat
        BY <2>2, ClientAssumption DEF Packet
      <4>2. Answers(p)
        BY <2>2, <2>5, <4>1 DEF Answers, Plain
      <4> QED
        BY <1>1, <3>1, <3>3, <4>2, AdvanceLater DEF Moves, Proceeds, Printing
    <3>4. CASE phase = "reset"
      BY <1>1, <3>1, <3>4, AdvanceLater DEF Moves, Unwinds
    <3> QED
      BY <3>2, <3>3, <3>4 DEF TypeInv, TypeOK
  <2> QED
    BY <2>3, <2>4, <2>5
<1>6. p.kind \in {"ok", "error", "unsupported"}
  <2>1. p \in Packet
    BY <1>1, HeadTailProperties DEF TypeInv, TypeOK
  <2> QED
    BY <2>1 DEF Packet
<1> QED
  BY <1>1, <1>2, <1>3, <1>4, <1>5, <1>6

\* A timer that runs out.
LEMMA TimeoutMoves ==
  ASSUME TypeInv, Timeout
  PROVE  Moves
<1>1. pc = "await" /\ tries \in Nat /\ tries >= 1
  BY DEF Timeout, TypeInv, TypeOK, Standing
<1>2. CASE tries < Allowed
  <2>1. pc' = "ready" /\ UNCHANGED <<task, id, todo, phase, tries, err>>
    BY <1>2 DEF Timeout
  <2>2. Head(todo) \in {"heartbeat", "type", "serial"}
    BY <1>1, <1>2 DEF Allowed
  <2>3. phase = "probe"
    <3>1. CASE phase = "print"
      <4>1. Printing
        BY <1>1, <3>1 DEF Printing
      <4> QED
        BY <2>2, <4>1, HeadOwn, OwnShape DEF TypeInv, TypeOK, Setup
    <3>2. CASE phase = "reset"
      BY <1>1, <2>2, <3>2 DEF TypeInv, Standing
    <3> QED
      BY <3>1, <3>2 DEF TypeInv, TypeOK
  <2> QED
    BY <1>1, <2>1, <2>3 DEF Moves, Stays
<1>3. CASE ~ (tries < Allowed)
  <2>1. Fail("timeout")
    BY <1>3 DEF Timeout
  <2> QED
    BY <1>1, <2>1, FailMoves DEF Errs, Moves
<1> QED
  BY <1>2, <1>3

-----------------------------------------------------------------------------
(* What a step does to the commands and replies under way *)

Order == [cmd : Commands, mine : BOOLEAN]

\* A send: the command behind the others, with the rows in front of a PageEnd; the
\* replies lose their marks only.
LEMMA WrittenEffect ==
  ASSUME TypeOK, Written, todo # <<>>
  PROVE  /\ wire' \in Seq(Order) /\ back' \in Seq(Packet) /\ packets' = <<>>
         /\ Len(wire') = Len(wire) + IF Head(todo) = "pageEnd" THEN 2 ELSE 1
         /\ \A i \in 1 .. Len(wire) : wire'[i].cmd = wire[i].cmd
         /\ wire'[Len(wire')].cmd = Head(todo)
         /\ Head(todo) = "pageEnd" => wire'[Len(wire) + 1].cmd = "rows"
         /\ Len(back') = Len(back)
         /\ \A i \in 1 .. Len(back) :
              back'[i].kind = back[i].kind /\ back'[i].cmd = back[i].cmd /\ back'[i].n = back[i].n
<1> DEFINE w == Stale(wire)
           b == Stale(back)
           m == IF Head(todo) = "pageEnd" THEN <<Command("rows")>> ELSE <<>>
           l == <<Command(Head(todo))>>
<1>1. wire \in Seq(Order) /\ back \in Seq(Packet) /\ todo \in Seq(Commands)
  BY DEF TypeOK, Order
<1>2. Head(todo) \in Commands
  BY <1>1, HeadTailProperties
<1>3. /\ w \in Seq(Order) /\ Len(w) = Len(wire) /\ Len(wire) \in Nat
      /\ \A i \in 1 .. Len(wire) : w[i].cmd = wire[i].cmd
  <2>1. Len(wire) \in Nat /\ \A i \in 1 .. Len(wire) : wire[i] \in Order
    BY <1>1, LenProperties, ElementOfSeq
  <2>2. \A i \in 1 .. Len(wire) :
          /\ [wire[i] EXCEPT !.mine = FALSE] \in Order
          /\ [wire[i] EXCEPT !.mine = FALSE].cmd = wire[i].cmd
    BY <2>1 DEF Order
  <2>3. w \in [1 .. Len(wire) -> Order] /\ \A i \in 1 .. Len(wire) : w[i] = [wire[i] EXCEPT !.mine = FALSE]
    BY <2>2 DEF Stale
  <2>4. w \in Seq(Order) /\ Len(w) = Len(wire)
    BY <2>1, <2>3, SeqDef, LenProperties
  <2> QED
    BY <2>1, <2>2, <2>3, <2>4
<1>4. /\ b \in Seq(Packet) /\ Len(b) = Len(back)
      /\ \A i \in 1 .. Len(back) : b[i].kind = back[i].kind /\ b[i].cmd = back[i].cmd /\ b[i].n = back[i].n
  <2>1. Len(back) \in Nat /\ \A i \in 1 .. Len(back) : back[i] \in Packet
    BY <1>1, LenProperties, ElementOfSeq
  <2>2. \A i \in 1 .. Len(back) :
          /\ [back[i] EXCEPT !.mine = FALSE] \in Packet
          /\ [back[i] EXCEPT !.mine = FALSE].kind = back[i].kind
          /\ [back[i] EXCEPT !.mine = FALSE].cmd = back[i].cmd
          /\ [back[i] EXCEPT !.mine = FALSE].n = back[i].n
    BY <2>1 DEF Packet
  <2>3. b \in [1 .. Len(back) -> Packet] /\ \A i \in 1 .. Len(back) : b[i] = [back[i] EXCEPT !.mine = FALSE]
    BY <2>2 DEF Stale
  <2>4. b \in Seq(Packet) /\ Len(b) = Len(back)
    BY <2>1, <2>3, SeqDef, LenProperties
  <2> QED
    BY <2>1, <2>2, <2>3, <2>4
<1>5. /\ m \in Seq(Order) /\ Len(m) = (IF Head(todo) = "pageEnd" THEN 1 ELSE 0)
      /\ Head(todo) = "pageEnd" => m[1].cmd = "rows"
  <2>1. <<Command("rows")>> \in Seq(Order) /\ Len(<<Command("rows")>>) = 1 /\ <<Command("rows")>>[1].cmd = "rows"
    BY DEF Command, Order, Commands
  <2>2. <<>> \in Seq(Order) /\ Len(<<>>) = 0
    OBVIOUS
  <2> QED
    BY <2>1, <2>2
<1>6. l \in Seq(Order) /\ Len(l) = 1 /\ l[1].cmd = Head(todo)
  BY <1>2 DEF Command, Order
<1>7. wire' = (w \o m) \o l /\ back' = b /\ packets' = <<>>
  BY DEF Written
<1> HIDE DEF w, b, m, l
<1> DEFINE v == w \o m
<1>8. \A p, q \in Seq(Order) : p \o q \in Seq(Order) /\ Joins(p, q, p \o q)
  BY Concat
<1>9. v \in Seq(Order) /\ Joins(w, m, v)
  BY <1>3, <1>5, <1>8, Zenon
<1>10. wire' \in Seq(Order) /\ Joins(v, l, wire')
  BY <1>6, <1>7, <1>8, <1>9, Zenon
<1> HIDE DEF v
<1>11. /\ wire' \in Seq(Order) /\ Len(wire') = Len(v) + 1
       /\ \A i \in 1 .. Len(v) : wire'[i] = v[i]
       /\ wire'[Len(v) + 1] = l[1]
  BY <1>6, <1>10 DEF Joins
<1>12. Len(v) = Len(wire) + IF Head(todo) = "pageEnd" THEN 1 ELSE 0
  BY <1>3, <1>5, <1>9 DEF Joins
<1>13. \A i \in 1 .. Len(wire) : wire'[i].cmd = wire[i].cmd
  <2>1. \A i \in 1 .. Len(wire) : i \in 1 .. Len(w) /\ i \in 1 .. Len(v)
    BY <1>3, <1>12
  <2> QED
    BY <1>3, <1>9, <1>11, <2>1 DEF Joins
<1>14. Head(todo) = "pageEnd" => wire'[Len(wire) + 1].cmd = "rows"
  <2> SUFFICES ASSUME Head(todo) = "pageEnd" PROVE wire'[Len(wire) + 1].cmd = "rows"
    OBVIOUS
  <2>1. 1 \in 1 .. Len(m) /\ Len(w) + 1 = Len(wire) + 1 /\ Len(wire) + 1 \in 1 .. Len(v)
    BY <1>3, <1>5, <1>12
  <2>2. v[Len(wire) + 1] = m[1]
    BY <1>3, <1>9, <2>1 DEF Joins
  <2> QED
    BY <1>5, <1>11, <2>1, <2>2
<1>15. wire'[Len(wire')].cmd = Head(todo)
  BY <1>6, <1>11
<1>16. Len(wire') = Len(wire) + IF Head(todo) = "pageEnd" THEN 2 ELSE 1
  BY <1>3, <1>11, <1>12
<1>17. /\ back' \in Seq(Packet) /\ Len(back') = Len(back)
       /\ \A i \in 1 .. Len(back) :
            back'[i].kind = back[i].kind /\ back'[i].cmd = back[i].cmd /\ back'[i].n = back[i].n
  BY <1>4, <1>7
<1> QED
  BY <1>7, <1>11, <1>13, <1>14, <1>15, <1>16, <1>17

\* A sequence without its head.
LEMMA TailEffect ==
  ASSUME NEW S, NEW s \in Seq(S), s # <<>>
  PROVE  /\ Tail(s) \in Seq(S) /\ Head(s) \in S /\ Head(s) = s[1]
         /\ Len(s) \in Nat /\ Len(s) >= 1 /\ Len(Tail(s)) = Len(s) - 1
         /\ \A i \in 1 .. Len(s) - 1 : Tail(s)[i] = s[i + 1]
  BY EmptySeq, LenProperties, HeadTailProperties

\* A sequence with one element more.
LEMMA AppendEffect ==
  ASSUME NEW S, NEW s \in Seq(S), NEW x \in S
  PROVE  /\ Append(s, x) \in Seq(S) /\ Len(Append(s, x)) = Len(s) + 1 /\ Len(s) \in Nat
         /\ \A i \in 1 .. Len(s) : Append(s, x)[i] = s[i]
         /\ Append(s, x)[Len(s) + 1] = x
  BY AppendProperties, LenProperties

\* A step of the client leaves the commands alone, and takes at most some packets.
Kept ==
  /\ UNCHANGED <<wire, back>>
  /\ packets' = packets \/ packets' = <<>> \/ (packets # <<>> /\ packets' = Tail(packets))

Elsewhere == UNCHANGED <<session, type, named, up, job, quantity, due, printed, fault, executed, mishaps, resetLost>>

\* The steps of the client: a send, a move, or a send that comes with an error.
LEMMA ClientMoves ==
  ASSUME TypeInv, ClientStep
  PROVE  /\ Elsewhere /\ expired' = expired /\ mistaken' \in BOOLEAN /\ pc # "returned" /\ todo # <<>>
         /\ \/ Send
            \/ Moves /\ Kept
            \/ (GivesUp \/ AsksNext \/ Resets) /\ Written /\ pc = "ready"
<1> USE DEF sessionVars, printerVars, boundVars, Elsewhere
<1>1. pc # "returned" => todo # <<>>
  BY DEF TypeInv, Standing
<1>2. mistaken \in BOOLEAN
  BY DEF TypeInv, TypeOK
<1>3. CASE Send
  BY <1>1, <1>2, <1>3 DEF Send
<1>4. CASE SendFail
  <2>1. pc = "ready" /\ ~ up /\ Fail("send")
    BY <1>4 DEF SendFail
  <2>2. Moves
    BY <2>1, FailMoves DEF Errs, Moves
  <2> QED
    BY <1>1, <1>2, <1>4, <2>1, <2>2 DEF SendFail, Kept
<1>5. CASE SendEnded
  <2>1. pc = "ready" /\ phase # "reset" /\ Fail("context")
    BY <1>5 DEF SendEnded, Ended
  <2>2. GivesUp \/ AsksNext \/ Resets
    BY <2>1, FailMoves DEF Errs, Unwinds
  <2>3. Written \/ (packets' = <<>> /\ UNCHANGED <<wire, back>>)
    BY <1>5 DEF SendEnded
  <2>4. Elsewhere /\ expired' = expired /\ mistaken' = mistaken
    BY <1>5 DEF SendEnded
  <2> QED
    BY <1>1, <1>2, <2>1, <2>2, <2>3, <2>4 DEF Moves, Kept
<1>6. CASE PrintInvalid
  <2>1. Printing /\ pc = "ready" /\ todo = Script(task)
    BY <1>6 DEF PrintInvalid, Printing
  <2>2. todo = Own
    BY <2>1 DEF TypeInv, Standing, Printing, Own
  <2>3. Len(Own) \in Nat
    BY OwnShape DEF TypeInv, TypeOK
  <2>4. At = 1
    BY <2>2, <2>3 DEF At
  <2>5. Refuses
    BY <1>6, <2>1, <2>4 DEF PrintInvalid, Refuses, Errs
  <2> QED
    BY <1>1, <1>2, <1>6, <2>1, <2>5 DEF PrintInvalid, Moves, Kept
<1>7. CASE Await
  <2>1. Moves /\ packets # <<>> /\ packets' = Tail(packets)
    BY <1>7, AwaitMoves
  <2>2. pc = "await" /\ UNCHANGED <<wire, back>> /\ Elsewhere /\ expired' = expired
    BY <1>7 DEF Await
  <2>3. mistaken' \in BOOLEAN
    BY <1>7, Zenon DEF Await
  <2> QED
    BY <1>1, <2>1, <2>2, <2>3 DEF Kept
<1>8. CASE Timeout
  <2>1. Moves
    BY <1>8, TimeoutMoves
  <2> QED
    BY <1>1, <1>2, <1>8, <2>1 DEF Timeout, Kept
<1>9. CASE LinkClosed
  <2>1. pc = "await" /\ Fail("link")
    BY <1>9 DEF LinkClosed
  <2>2. Moves
    BY <2>1, FailMoves DEF Errs, Moves
  <2> QED
    BY <1>1, <1>2, <1>9, <2>1, <2>2 DEF LinkClosed, Kept
<1>10. CASE StatusPoll
  <2>1. Moves
    BY <1>10 DEF StatusPoll, Moves, Stays
  <2> QED
    BY <1>1, <1>2, <1>10, <2>1 DEF StatusPoll, Kept
<1>11. CASE ContextEnded
  <2>1. pc \in {"await", "pause"} /\ Fail("context")
    BY <1>11 DEF ContextEnded
  <2>2. Moves
    BY <2>1, FailMoves DEF Errs, Moves
  <2> QED
    BY <1>1, <1>2, <1>11, <2>1, <2>2 DEF ContextEnded, Kept
<1> QED
  BY <1>3, <1>4, <1>5, <1>6, <1>7, <1>8, <1>9, <1>10, <1>11 DEF ClientStep

ClientTypes ==
  /\ task \in Tasks \cup {"B1"} /\ id \in {"none", "serial", "address"} /\ todo \in Seq(Commands)
  /\ phase \in {"probe", "print", "reset"} /\ pc \in {"ready", "await", "pause", "returned"}
  /\ tries \in Nat /\ err \in Errs \cup {"none"}

\* The next query.
LEMMA AskedNext ==
  ASSUME TypeInv, AsksNext, UNCHANGED <<session, type>>
  PROVE  todo' \in Seq(Commands) /\ (pc' = "returned" <=> todo' = <<>>) /\ (pc' # "returned" => Asking')
<1>1. Asking
  BY DEF TypeInv, Standing, AsksNext
<1>2. \/ session = "identify" \/ (session = "command" /\ todo = <<"heartbeat", "type">>)
  BY DEF AsksNext
<1>3. todo' = Tail(todo) /\ pc' = IF Len(todo) = 1 THEN "returned" ELSE "ready"
  BY DEF AsksNext
<1>4. CASE todo = <<"rfid">>
  BY <1>3, <1>4
<1>5. CASE todo = <<"serial", "rfid">>
  <2>1. session = "identify"
    BY <1>2, <1>5
  <2>2. todo' = <<"rfid">> /\ pc' = "ready"
    BY <1>3, <1>5
  <2> QED
    BY <2>1, <2>2 DEF Asking, Commands
<1>6. CASE todo = <<"type", "serial", "rfid">>
  <2>1. session = "identify"
    BY <1>2, <1>6
  <2>2. todo' = <<"serial", "rfid">> /\ pc' = "ready"
    BY <1>3, <1>6
  <2> QED
    BY <2>1, <2>2 DEF Asking, Commands
<1>7. CASE todo = <<"heartbeat", "type", "serial", "rfid">>
  <2>1. session = "identify"
    BY <1>2, <1>7
  <2>2. todo' = <<"type", "serial", "rfid">> /\ pc' = "ready"
    BY <1>3, <1>7
  <2> QED
    BY <2>1, <2>2 DEF Asking, Commands
<1>8. CASE session = "command" /\ todo = <<"heartbeat", "type">>
  <2>1. todo' = <<"type">> /\ pc' = "ready"
    BY <1>3, <1>8
  <2> QED
    BY <1>8, <2>1 DEF Asking, Commands
<1> QED
  BY <1>1, <1>2, <1>4, <1>5, <1>6, <1>7, <1>8 DEF Asking

\* A move keeps the client's types and where it stands.
LEMMA MovesStand ==
  ASSUME TypeInv, Moves, UNCHANGED <<session, type>>
  PROVE  ClientTypes' /\ Standing'
<1>a. Own' = Own /\ Total' = Total
  BY DEF Own, Total
<1>b. /\ Own \in Seq(Commands) /\ Len(Own) \in Nat /\ Total \in Nat /\ Own # <<>>
      /\ Speaks(type) \in Tasks \cup {"B1"}
  BY OwnShape, EmptySeq DEF TypeInv, TypeOK, TaskShape
<1>c. ClientTypes /\ Standing /\ todo \in Seq(Commands) /\ Len(todo) \in Nat
  BY LenProperties DEF TypeInv, TypeOK, ClientTypes, Errs
<1>d. "none" \notin Errs
  BY DEF Errs
<1>1. CASE Stays
  <2>1. At' = At
    BY <1>1, <1>a DEF Stays, At
  <2> QED
    BY <1>1, <1>a, <1>c, <2>1 DEF Stays, ClientTypes, Standing, Printing, Asking
<1>2. CASE GivesUp
  BY <1>2, <1>c, <1>d DEF GivesUp, ClientTypes, Standing, Printing
<1>3. CASE AsksNext
  <2>1. todo' \in Seq(Commands) /\ (pc' = "returned" <=> todo' = <<>>) /\ (pc' # "returned" => Asking')
    BY <1>3, AskedNext
  <2>2. /\ phase = "probe" /\ phase' = "probe" /\ err' = err /\ err = "none" /\ pc' \in {"returned", "ready"}
        /\ tries' = 0 /\ id' \in {"none", "serial", "address"} /\ task' \in {task, Speaks(type)}
    BY <1>3, <1>c DEF AsksNext, ClientTypes, Standing
  <2>3. session = "print" => task' = Speaks(type)
    BY <1>3 DEF AsksNext
  <2> QED
    BY <1>b, <1>c, <2>1, <2>2, <2>3 DEF ClientTypes, Standing, Printing
<1>4. CASE Begins
  <2>1. /\ todo' = Own /\ pc' = "ready" /\ phase' = "print" /\ task' = Speaks(type) /\ session # "identify"
        /\ id' = id /\ err' = "none" /\ tries' = 0
    BY <1>4, <1>c DEF Begins, Standing
  <2>2. At' = 1
    BY <1>a, <1>b, <2>1 DEF At
  <2>3. Len(todo') <= Len(Own) /\ \A i \in 1 .. Len(todo') : todo'[i] = Own[At' + i - 1]
    BY <1>b, <2>1, <2>2
  <2> QED
    BY <1>a, <1>b, <1>c, <2>1, <2>3 DEF ClientTypes, Standing, Printing
<1>5. CASE Proceeds
  <2>1. /\ Printing /\ todo # <<>> /\ todo' = Tail(todo)
        /\ pc' = IF Len(todo) = 1 THEN "returned" ELSE "ready"
        /\ UNCHANGED <<task, id, phase, err>> /\ tries' = 0
    BY <1>5, <1>c DEF Proceeds, Standing, Printing
  <2>2. /\ todo' \in Seq(Commands) /\ Len(todo) >= 1 /\ Len(todo') = Len(todo) - 1
        /\ \A i \in 1 .. Len(todo) - 1 : todo'[i] = todo[i + 1]
    BY <1>c, <2>1, TailEffect
  <2>3. (Len(todo) = 1 /\ Tail(todo) = <<>>) \/ (Len(todo) > 1 /\ Len(todo) # 1)
    BY <1>c, <2>1, OneOrMore
  <2>4. pc' = "returned" <=> todo' = <<>>
    <3>1. Len(<<>>) = 0
      OBVIOUS
    <3> QED
      BY <1>c, <2>1, <2>2, <2>3, <3>1
  <2>5. Len(todo) <= Len(Own) /\ \A i \in 1 .. Len(todo) : todo[i] = Own[At + i - 1]
    BY <1>c, <2>1 DEF Standing
  <2>6. At' = At + 1 /\ At \in Int
    BY <1>a, <1>b, <1>c, <2>2 DEF At
  <2>7. Len(todo') <= Len(Own) /\ \A i \in 1 .. Len(todo') : todo'[i] = Own[At' + i - 1]
    <3>1. Len(todo') <= Len(Own)
      BY <1>b, <1>c, <2>2, <2>5
    <3>2. ASSUME NEW i \in 1 .. Len(todo') PROVE todo'[i] = Own[At' + i - 1]
      <4>1. i \in 1 .. Len(todo) - 1 /\ i + 1 \in 1 .. Len(todo) /\ At' + i - 1 = At + (i + 1) - 1
        BY <1>c, <2>2, <2>6
      <4> QED
        BY <2>2, <2>5, <4>1
    <3> QED
      BY <3>1, <3>2
  <2>8. phase = "print" /\ err = "none" /\ task = Speaks(type) /\ session # "identify"
    BY <1>c, <2>1 DEF Standing, Printing
  <2> QED
    BY <1>a, <1>c, <2>1, <2>2, <2>4, <2>7, <2>8 DEF ClientTypes, Standing, Printing
<1>6. CASE Resets
  <2>1. <<"end", "cancel">> \in Seq(Commands) /\ <<"end", "cancel">> # <<>>
    BY DEF Commands
  <2> QED
    BY <1>6, <1>c, <1>d, <2>1 DEF Resets, ClientTypes, Standing, Printing
<1>7. CASE Refuses
  BY <1>7, <1>c, <1>d DEF Refuses, ClientTypes, Standing, Printing
<1>8. CASE Unwinds
  <2>1. todo \in {<<"end", "cancel">>, <<"cancel">>}
    BY <1>8, <1>c DEF Unwinds, Standing
  <2>2. /\ todo' = Tail(todo) /\ pc' = IF Len(todo) = 1 THEN "returned" ELSE "ready"
        /\ UNCHANGED <<task, id, phase, err>> /\ tries' = 0 /\ phase = "reset" /\ err # "none"
    BY <1>8, <1>c DEF Unwinds, Standing
  <2>3. CASE todo = <<"end", "cancel">>
    <3>1. todo' = <<"cancel">> /\ pc' = "ready"
      BY <2>2, <2>3
    <3>2. todo' \in Seq(Commands) /\ todo' # <<>>
      BY <3>1 DEF Commands
    <3>3. ClientTypes'
      BY <1>c, <2>2, <3>1, <3>2 DEF ClientTypes
    <3> QED
      BY <1>c, <2>2, <3>1, <3>2, <3>3 DEF Standing, Printing
  <2>4. CASE todo = <<"cancel">>
    <3>1. todo' = <<>> /\ pc' = "returned"
      BY <2>2, <2>4
    <3>2. todo' \in Seq(Commands)
      BY <3>1
    <3>3. ClientTypes'
      BY <1>c, <2>2, <3>1, <3>2 DEF ClientTypes
    <3> QED
      BY <1>c, <2>2, <3>1, <3>3 DEF Standing, Printing
  <2> QED
    BY <2>1, <2>3, <2>4
<1> QED
  BY <1>1, <1>2, <1>3, <1>4, <1>5, <1>6, <1>7, <1>8 DEF Moves

-----------------------------------------------------------------------------
(* Type correctness *)

\* What the printer answers is a packet.
LEMMA ReplyType ==
  ASSUME TypeInv, NEW k \in {"ok", "error", "unsupported"}, NEW c \in Commands \cup {"none"},
         NEW m \in BOOLEAN, NEW n \in Nat
  PROVE  Reply(k, c, m, n) \in Packet
  BY DEF TypeInv, TypeOK, Reply, Packet

\* The next command, as the printer takes it.
LEMMA HeadOrder ==
  ASSUME TypeInv, wire # <<>>
  PROVE  /\ Head(wire) = wire[1] /\ Head(wire).cmd \in Commands /\ Head(wire).mine \in BOOLEAN
         /\ Plain(Head(wire).cmd) \in Commands /\ Answer(Plain(Head(wire).cmd)) \in Nat
<1>1. Head(wire) \in Order /\ Head(wire) = wire[1]
  BY TailEffect DEF TypeInv, TypeOK, Order
<1>2. printed \in Nat /\ due \in Nat
  BY DEF TypeInv, TypeOK
<1> QED
  BY <1>1, <1>2 DEF Order, Plain, Commands, Answer

\* The buffer keeps within its capacity, and what is on its way keeps its type.
LEMMA LinkTypes ==
  ASSUME TypeInv, [Next]_vars
  PROVE  packets' \in Seq(Packet) /\ Len(packets') <= BufCap /\ wire' \in Seq(Order) /\ back' \in Seq(Packet)
<1>a. /\ packets \in Seq(Packet) /\ Len(packets) <= BufCap /\ wire \in Seq(Order) /\ back \in Seq(Packet)
      /\ BufCap \in Nat /\ BufCap >= 1 /\ TypeOK
  BY ClientAssumption DEF TypeInv, TypeOK, Order
<1>b. packets # <<>> => Tail(packets) \in Seq(Packet) /\ Len(Tail(packets)) = Len(packets) - 1 /\ Len(packets) \in Nat
  BY <1>a, TailEffect
<1>c. wire # <<>> => Tail(wire) \in Seq(Order)
  BY <1>a, TailEffect
<1>d. back # <<>> => Tail(back) \in Seq(Packet) /\ Head(back) \in Packet
  BY <1>a, TailEffect
<1>e. \A x \in Packet : Append(back, x) \in Seq(Packet)
  BY <1>a, AppendEffect
<1>f. <<>> \in Seq(Packet) /\ Len(<<>>) = 0 /\ <<>> \in Seq(Order)
  OBVIOUS
<1>1. CASE ClientStep
  <2>1. CASE Written /\ todo # <<>>
    BY <1>a, <1>f, <2>1, WrittenEffect
  <2>2. CASE Kept
    <3>1. CASE packets' = packets
      BY <1>a, <2>2, <3>1 DEF Kept
    <3>3. CASE packets' = <<>>
      <4>1. packets' \in Seq(Packet) /\ Len(packets') <= BufCap
        BY <1>a, <3>3
      <4> QED
        BY <1>a, <2>2, <4>1 DEF Kept
    <3>2. CASE packets # <<>> /\ packets' = Tail(packets)
      BY <1>a, <1>b, <2>2, <3>2 DEF Kept
    <3> QED
      BY <2>2, <3>1, <3>2, <3>3 DEF Kept
  <2> QED
    BY <1>1, <2>1, <2>2, ClientMoves DEF Send
<1>2. CASE ReadLoop
  <2> DEFINE q == IF Len(packets) = BufCap THEN Tail(packets) ELSE packets
  <2>1. q \in Seq(Packet) /\ Len(q) < BufCap /\ Len(q) \in Nat
    <3>1. Len(packets) = BufCap => packets # <<>>
      BY <1>a, <1>f
    <3>2. Len(packets) \in Nat
      BY <1>a, LenProperties
    <3> QED
      BY <1>a, <1>b, <3>1, <3>2
  <2>2. packets' = Append(q, Head(back)) /\ back # <<>> /\ back' = Tail(back) /\ wire' = wire
    BY <1>2 DEF ReadLoop
  <2> HIDE DEF q
  <2>3. \A s \in Seq(Packet), x \in Packet : Append(s, x) \in Seq(Packet) /\ Len(Append(s, x)) = Len(s) + 1
    BY AppendEffect
  <2> QED
    BY <1>a, <1>d, <2>1, <2>2, <2>3
<1>3. CASE Deadline \/ PrintLabel
  BY <1>3, <1>a DEF Deadline, PrintLabel
<1>4. CASE PrinterExec
  <2>1. /\ wire # <<>> /\ wire' = Tail(wire) /\ packets' = packets
        /\ \/ back' = back
           \/ \E k \in {"ok", "error"} :
                back' = Append(back, Reply(k, Plain(Head(wire).cmd), Head(wire).mine, Answer(Plain(Head(wire).cmd))))
    BY <1>4 DEF PrinterExec
  <2>2. \A k \in {"ok", "error"} : Reply(k, Plain(Head(wire).cmd), Head(wire).mine, Answer(Plain(Head(wire).cmd))) \in Packet
    BY <2>1, HeadOrder, ReplyType
  <2> QED
    BY <1>a, <1>c, <1>e, <2>1, <2>2
<1>5. CASE PrinterRefuse
  <2>1. /\ wire # <<>> /\ wire' = Tail(wire) /\ packets' = packets
        /\ \E k \in {"error", "unsupported"} :
             back' = Append(back, Reply(k, Plain(Head(wire).cmd), Head(wire).mine, 0))
    BY <1>5 DEF PrinterRefuse
  <2>2. \A k \in {"error", "unsupported"} : Reply(k, Plain(Head(wire).cmd), Head(wire).mine, 0) \in Packet
    BY <2>1, HeadOrder, ReplyType
  <2> QED
    BY <1>a, <1>c, <1>e, <2>1, <2>2
<1>6. CASE PrinterFault
  <2>1. back' \in {back, Append(back, Reply("error", "none", FALSE, 0))} /\ UNCHANGED <<packets, wire>>
    BY <1>6 DEF PrinterFault
  <2>2. Reply("error", "none", FALSE, 0) \in Packet
    BY ReplyType
  <2> QED
    BY <1>a, <1>e, <2>1, <2>2
<1>7. CASE LoseCommand \/ LoseReply \/ LinkDown
  BY <1>7, <1>a, <1>c, <1>d, <1>f DEF LoseCommand, LoseReply, LinkDown
<1>8. CASE UNCHANGED vars
  BY <1>8, <1>a DEF vars
<1> QED
  BY <1>1, <1>2, <1>3, <1>4, <1>5, <1>6, <1>7, <1>8 DEF Next

\* Nobody but the client changes where it stands.
LEMMA OthersStand ==
  ASSUME TypeInv, UNCHANGED <<session, type, clientVars>>
  PROVE  ClientTypes' /\ Standing' /\ At' = At /\ Own' = Own /\ Total' = Total /\ Printing' = Printing
         /\ Finished' = Finished
  BY DEF TypeInv, TypeOK, ClientTypes, Errs, Standing, Asking, At, Own, Total, Printing, Finished, clientVars

\* What the printer keeps has its type.
PrinterTypes ==
  /\ job \in {"idle", "open"} /\ quantity \in Nat /\ due \in Nat /\ printed \in Nat
  /\ executed \in Seq(Setup)

\* What the printer carries out keeps the types.
LEMMA EffectTypes ==
  ASSUME TypeInv, NEW c, Effect(c)
  PROVE  PrinterTypes'
<1>1. PrinterTypes /\ Copies \in Nat
  BY ClientAssumption DEF TypeInv, TypeOK, PrinterTypes
<1>2. job' \in {"idle", "open"} /\ quantity' \in Nat /\ printed' \in Nat
  BY <1>1 DEF Effect, PrinterTypes
<1>3. due' \in Nat
  BY <1>1 DEF Effect, PrinterTypes
<1>4. executed' \in Seq(Setup)
  <2>1. \A x \in Setup : Append(executed, x) \in Seq(Setup)
    BY <1>1, AppendEffect DEF PrinterTypes
  <2> QED
    BY <1>1, <2>1 DEF Effect, PrinterTypes
<1> QED
  BY <1>2, <1>3, <1>4 DEF PrinterTypes

\* The rest of the state.
SettingTypes ==
  /\ session \in {"print", "identify", "command"} /\ type \in Tasks \cup {"unlisted"}
  /\ mishaps \in 0 .. MaxMishaps

Flags ==
  /\ named \in BOOLEAN /\ expired \in BOOLEAN /\ up \in BOOLEAN /\ fault \in BOOLEAN
  /\ mistaken \in BOOLEAN /\ resetLost \in BOOLEAN

\* What is on its way.
Carried == packets \in Seq(Packet) /\ Len(packets) <= BufCap /\ wire \in Seq(Order) /\ back \in Seq(Packet)

\* The type invariant, in parts.
LEMMA TypeParts ==
  /\ TypeOK <=> ClientTypes /\ PrinterTypes /\ SettingTypes /\ Flags /\ Carried
  /\ ClientTypes' /\ PrinterTypes' /\ SettingTypes' /\ Flags' /\ Carried' => TypeOK'
  BY DEF TypeOK, ClientTypes, PrinterTypes, SettingTypes, Flags, Carried, Order, Errs

\* A session begins with its queries.
LEMMA TypeInit == Init => TypeInv
<1> SUFFICES ASSUME Init PROVE TypeInv
  OBVIOUS
<1>1. /\ Asking /\ todo \in Seq(Commands) /\ todo # <<>>
  <2>1. CASE session = "print"
    <3>1. todo = <<"heartbeat">>
      BY <2>1 DEF Init, Probe
    <3> QED
      BY <2>1, <3>1 DEF Asking, Commands
  <2>2. CASE session = "command"
    <3>1. todo = <<"heartbeat", "type">>
      BY <2>2 DEF Init, Probe
    <3> QED
      BY <2>2, <3>1 DEF Asking, Commands
  <2>3. CASE session = "identify"
    <3>1. todo = <<"heartbeat", "type", "serial", "rfid">>
      BY <2>3 DEF Init, Probe
    <3> QED
      BY <2>3, <3>1 DEF Asking, Commands
  <2> QED
    BY <2>1, <2>2, <2>3 DEF Init
<1>2. Speaks(type) \in Tasks \cup {"B1"}
  BY OwnShape DEF Init
<1>3. ClientTypes
  BY <1>1, <1>2 DEF Init, ClientTypes, Errs
<1>4. PrinterTypes
  BY DEF Init, PrinterTypes
<1>5. SettingTypes
  BY ClientAssumption DEF Init, SettingTypes
<1>6. Carried
  BY ClientAssumption DEF Init, Carried
<1>7. Standing
  BY <1>1 DEF Init, Standing, Printing
<1>8. Flags
  BY Zenon DEF Init, Flags
<1> QED
  BY <1>3, <1>4, <1>5, <1>6, <1>7, <1>8, TypeParts DEF TypeInv

\* The flags stay flags.
LEMMA FlagsStep ==
  ASSUME TypeInv, [Next]_vars
  PROVE  Flags'
<1>a. Flags
  BY TypeParts DEF TypeInv
<1> USE <1>a DEF Flags, sessionVars, boundVars, printerVars
<1>1. CASE ClientStep
  BY <1>1, ClientMoves, Zenon DEF Elsewhere
<1>2. CASE ReadLoop
  BY <1>2, Zenon DEF ReadLoop
<1>3. CASE Deadline
  BY <1>3, Zenon DEF Deadline
<1>4. CASE PrinterExec
  <2>1. fault' \in BOOLEAN
    BY <1>4, Zenon DEF PrinterExec, Effect
  <2> QED
    BY <1>4, <2>1, Zenon DEF PrinterExec
<1>5. CASE PrinterRefuse
  BY <1>5, Zenon DEF PrinterRefuse
<1>6. CASE PrintLabel
  BY <1>6, Zenon DEF PrintLabel
<1>7. CASE PrinterFault
  BY <1>7, Zenon DEF PrinterFault
<1>8. CASE LoseCommand
  BY <1>8, Zenon DEF LoseCommand
<1>9. CASE LoseReply
  BY <1>9, Zenon DEF LoseReply
<1>10. CASE LinkDown
  BY <1>10, Zenon DEF LinkDown
<1>11. CASE UNCHANGED vars
  BY <1>11, Zenon DEF vars
<1> QED
  BY <1>1, <1>2, <1>3, <1>4, <1>5, <1>6, <1>7, <1>8, <1>9, <1>10, <1>11, Zenon DEF Next

\* Every step keeps the types and where the client stands.
LEMMA TypeStep == TypeInv /\ [Next]_vars => TypeInv'
<1> SUFFICES ASSUME TypeInv, [Next]_vars PROVE TypeInv'
  OBVIOUS
<1>a. ClientTypes /\ PrinterTypes /\ SettingTypes /\ Standing
  BY TypeParts DEF TypeInv
<1>b. Carried' /\ Flags'
  BY LinkTypes, FlagsStep DEF Carried
<1>c. mishaps \in Nat /\ MaxMishaps \in Nat /\ mishaps <= MaxMishaps
  BY <1>a, ClientAssumption DEF SettingTypes
<1>d. ClientTypes' /\ PrinterTypes' /\ SettingTypes' /\ Standing' => TypeInv'
  BY <1>b, TypeParts DEF TypeInv
<1>1. CASE ClientStep
  <2>1. PrinterTypes' /\ SettingTypes'
    BY <1>1, <1>a, ClientMoves DEF PrinterTypes, SettingTypes, Elsewhere
  <2>2. CASE Send
    <3>1. /\ UNCHANGED <<session, type, task, id, todo, phase, err>> /\ pc = "ready" /\ pc' = "await" /\ tries' = tries + 1
      BY <2>2 DEF Send, sessionVars
    <3>2. ClientTypes'
      BY <1>a, <3>1 DEF ClientTypes
    <3>3. Standing'
      BY <1>a, <3>1 DEF Standing, ClientTypes, Printing, At, Own, Asking
    <3> QED
      BY <1>d, <2>1, <3>2, <3>3
  <2>3. CASE Moves
    <3>1. UNCHANGED <<session, type>>
      BY <1>1, ClientMoves DEF Elsewhere
    <3> QED
      BY <1>d, <2>1, <2>3, <3>1, MovesStand
  <2> QED
    BY <1>1, <2>2, <2>3, ClientMoves DEF Moves
<1>2. CASE ~ ClientStep
  <2>1. UNCHANGED <<session, type, clientVars>>
    BY <1>2 DEF Next, ReadLoop, Deadline, PrinterExec, PrinterRefuse, PrintLabel, PrinterFault,
                LoseCommand, LoseReply, LinkDown, sessionVars, vars
  <2>2. ClientTypes' /\ Standing'
    BY <2>1, OthersStand
  <2>3. PrinterTypes'
    <3>1. CASE PrinterExec
      BY <3>1, EffectTypes DEF PrinterExec
    <3>2. CASE PrintLabel
      BY <3>2, <1>a DEF PrintLabel, PrinterTypes
    <3>3. CASE UNCHANGED <<job, quantity, due, printed, executed>>
      BY <3>3, <1>a DEF PrinterTypes
    <3> QED
      BY <1>2, <3>1, <3>2, <3>3 DEF Next, ReadLoop, Deadline, PrinterFault, PrinterRefuse,
                                    LoseCommand, LoseReply, LinkDown, vars, printerVars
  <2>4. SettingTypes'
    <3>1. mishaps' = mishaps \/ (mishaps < MaxMishaps /\ mishaps' = mishaps + 1)
      BY <1>2 DEF Next, ReadLoop, Deadline, PrinterExec, PrinterRefuse, PrintLabel, PrinterFault,
                  LoseCommand, LoseReply, LinkDown, boundVars, vars
    <3> QED
      BY <1>a, <1>c, <2>1, <3>1 DEF SettingTypes
  <2> QED
    BY <1>d, <2>2, <2>3, <2>4
<1> QED
  BY <1>1, <1>2

\* The types of a session hold throughout; among them, the packet buffer keeps within
\* its capacity, and the requests still to be made are the rest of the queries, of the
\* printer's own task or of the reset.
THEOREM TypeCorrect == Spec => []TypeOK
<1>1. TypeInv => TypeOK
  BY DEF TypeInv
<1> QED
  BY <1>1, TypeInit, TypeStep, PTL DEF Spec

-----------------------------------------------------------------------------
(* Print does not leave the printer mid-job *)

\* Some command c is on its way.
On(c) == \E i \in 1 .. Len(wire) : wire[i].cmd = c

\* The printer has no job, and none will be started by what is on its way.
Quiet == job = "idle" /\ ~ On("start")

\* It has none once all that is on its way has arrived.
Calm ==
  \/ Quiet
  \/ \E i \in 1 .. Len(wire) : wire[i].cmd = "cancel" /\ \A j \in i .. Len(wire) : wire[j].cmd # "start"

\* A print that has not asked for the start has not opened a job; one that returned an
\* error refused the image at once or has sent the cancel, behind any late command.
CalmInv ==
  /\ phase = "probe" => Quiet
  /\ Printing /\ At <= 2 => Quiet
  /\ phase = "print" /\ pc = "returned" => Quiet \/ err = "none"
  /\ phase = "reset" /\ (pc = "returned" \/ (todo = <<"cancel">> /\ pc # "ready")) =>
       Calm \/ ~ up \/ resetLost

\* A send other than that of the start.
LEMMA SentCalm ==
  ASSUME TypeInv, Written, todo # <<>>, job' = job
  PROVE  /\ Head(todo) # "start" => (Quiet => Quiet') /\ (Calm => Calm')
         /\ Head(todo) = "cancel" => Calm'
<1> DEFINE n == IF Head(todo) = "pageEnd" THEN 2 ELSE 1
<1>1. /\ wire' \in Seq(Order) /\ Len(wire') = Len(wire) + n
      /\ \A i \in 1 .. Len(wire) : wire'[i].cmd = wire[i].cmd
      /\ wire'[Len(wire')].cmd = Head(todo)
      /\ Head(todo) = "pageEnd" => wire'[Len(wire) + 1].cmd = "rows"
  BY WrittenEffect DEF TypeInv
<1>2. Len(wire) \in Nat
  BY LenProperties DEF TypeInv, TypeOK
<1>3. \A i \in 1 .. Len(wire') : \/ i \in 1 .. Len(wire)
                                 \/ i = Len(wire')
                                 \/ i = Len(wire) + 1 /\ Head(todo) = "pageEnd"
  BY <1>1, <1>2
<1>4. Len(wire') \in Nat /\ Len(wire') \in 1 .. Len(wire') /\ Len(wire') > Len(wire)
  BY <1>1, <1>2
<1> HIDE DEF n
<1>5. ASSUME Head(todo) # "start"
      PROVE  \A i \in 1 .. Len(wire') : wire'[i].cmd = "start" => i \in 1 .. Len(wire) /\ wire[i].cmd = "start"
  BY <1>1, <1>3, <1>5
<1>6. Head(todo) # "start" => (Quiet => Quiet')
  BY <1>5 DEF Quiet, On
<1>7. ASSUME Head(todo) # "start", Calm PROVE Calm'
  <2>1. CASE Quiet
    BY <1>6, <1>7, <2>1 DEF Calm
  <2>2. ASSUME NEW i \in 1 .. Len(wire), wire[i].cmd = "cancel", \A j \in i .. Len(wire) : wire[j].cmd # "start"
        PROVE  Calm'
    <3>1. i \in 1 .. Len(wire') /\ wire'[i].cmd = "cancel"
      BY <1>1, <1>2, <1>4, <2>2
    <3>2. ASSUME NEW j \in i .. Len(wire') PROVE wire'[j].cmd # "start"
      <4>1. j \in 1 .. Len(wire') /\ (j \in 1 .. Len(wire) => j \in i .. Len(wire))
        BY <1>2, <1>4, <2>2, <3>2
      <4> QED
        BY <1>5, <1>7, <2>2, <4>1
    <3> QED
      BY <3>1, <3>2 DEF Calm
  <2> QED
    BY <1>7, <2>1, <2>2 DEF Calm
<1>8. ASSUME Head(todo) = "cancel" PROVE Calm'
  <2>1. \A j \in Len(wire') .. Len(wire') : wire'[j].cmd # "start"
    BY <1>1, <1>4, <1>8
  <2> QED
    BY <1>1, <1>4, <1>8, <2>1 DEF Calm
<1> QED
  BY <1>6, <1>7, <1>8

\* A command leaves the wire: the printer takes it, refuses it, or it is lost.
LEMMA TakenCalm ==
  ASSUME TypeInv, wire # <<>>, wire' = Tail(wire),
         \/ Effect(Plain(Head(wire).cmd))
         \/ job' = job
  PROVE  /\ Quiet => Quiet'
         /\ Calm /\ (Effect(Plain(Head(wire).cmd)) \/ Head(wire).cmd # "cancel") => Calm'
<1>1. /\ wire \in Seq(Order) /\ Len(wire) \in Nat /\ Len(wire) >= 1 /\ Head(wire) = wire[1]
      /\ Len(wire') = Len(wire) - 1 /\ \A i \in 1 .. Len(wire) - 1 : wire'[i] = wire[i + 1]
  BY TailEffect DEF TypeInv, TypeOK, Order
<1>2. \A i \in 1 .. Len(wire') : i + 1 \in 1 .. Len(wire) /\ wire'[i] = wire[i + 1]
  BY <1>1
<1>3. ~ On("start") => ~ On("start")'
  BY <1>2 DEF On
<1>4. ASSUME Effect(Plain(Head(wire).cmd)), Head(wire).cmd # "start", job = "idle" PROVE job' = "idle"
  BY <1>4 DEF Effect, Plain
<1>5. ~ On("start") => Head(wire).cmd # "start"
  BY <1>1 DEF On
<1>6. Quiet => Quiet'
  BY <1>3, <1>4, <1>5 DEF Quiet
<1>7. ASSUME Calm, Effect(Plain(Head(wire).cmd)) \/ Head(wire).cmd # "cancel" PROVE Calm'
  <2>1. CASE Quiet
    BY <1>6, <2>1 DEF Calm
  <2>2. ASSUME NEW i \in 1 .. Len(wire), wire[i].cmd = "cancel", \A j \in i .. Len(wire) : wire[j].cmd # "start"
        PROVE  Calm'
    <3>1. CASE i = 1
      <4>1. Head(wire).cmd = "cancel" /\ Effect(Plain(Head(wire).cmd))
        BY <1>1, <1>7, <2>2, <3>1
      <4>2. job' = "idle"
        BY <4>1 DEF Effect, Plain
      <4>3. \A k \in 1 .. Len(wire') : k + 1 \in i .. Len(wire)
        BY <1>1, <1>2, <3>1
      <4>4. ~ On("start")'
        BY <1>2, <2>2, <4>3 DEF On
      <4> QED
        BY <4>2, <4>4 DEF Calm, Quiet
    <3>2. CASE i # 1
      <4> DEFINE k == i - 1
      <4>1. k \in 1 .. Len(wire') /\ k + 1 = i
        BY <1>1, <2>2, <3>2
      <4>2. \A j \in k .. Len(wire') : j + 1 \in i .. Len(wire) /\ j \in 1 .. Len(wire')
        BY <1>1, <2>2, <4>1
      <4> HIDE DEF k
      <4>3. wire'[k].cmd = "cancel" /\ \A j \in k .. Len(wire') : wire'[j].cmd # "start"
        BY <1>2, <2>2, <4>1, <4>2
      <4> QED
        BY <4>1, <4>3 DEF Calm
    <3> QED
      BY <3>1, <3>2
  <2> QED
    BY <1>7, <2>1, <2>2 DEF Calm
<1> QED
  BY <1>6, <1>7

\* The queries do not start a job, nor do the first commands of a task.
LEMMA NotYetStart ==
  ASSUME TypeInv, pc # "returned", phase = "probe" \/ (Printing /\ At <= 2)
  PROVE  Head(todo) # "start"
<1>1. CASE phase = "probe"
  <2>1. Asking
    BY <1>1 DEF TypeInv, Standing
  <2> QED
    BY <2>1 DEF Asking
<1>2. CASE Printing /\ At <= 2
  <2>1. At \in 1 .. Len(Own) /\ Head(todo) = Own[At] /\ Own[1] = "density" /\ Own[2] = "labelType"
    BY <1>2, HeadOwn, OwnShape DEF TypeInv, TypeOK, TaskShape
  <2>2. At = 1 \/ At = 2
    BY <1>2, <2>1
  <2> QED
    BY <2>1, <2>2
<1> QED
  BY <1>1, <1>2

\* A move of the client that sends nothing.
LEMMA CalmMoves ==
  ASSUME TypeInv, CalmInv, Moves, UNCHANGED <<wire, job, up, resetLost, type>>
  PROVE  CalmInv'
<1>a. Quiet' = Quiet /\ Calm' = Calm /\ Own' = Own
  BY DEF Quiet, Calm, On, Own
<1>1. CASE Stays
  <2>1. At' = At /\ (Printing' <=> Printing)
    BY <1>1, <1>a DEF Stays, At, Printing
  <2>2. pc # "returned" /\ pc' # "returned" /\ UNCHANGED <<todo, phase, err>>
    BY <1>1 DEF Stays
  <2>3. phase = "reset" /\ pc' # "ready" => pc = "await"
    BY <1>1 DEF Stays, Printing
  <2> QED
    BY <1>a, <2>1, <2>2, <2>3 DEF CalmInv
<1>2. CASE GivesUp \/ AsksNext
  BY <1>2, <1>a DEF GivesUp, AsksNext, CalmInv, Printing
<1>3. CASE Begins
  BY <1>3, <1>a DEF Begins, CalmInv, Printing
<1>4. CASE Proceeds
  <2>1. /\ Printing /\ todo # <<>> /\ todo' = Tail(todo) /\ UNCHANGED <<phase, err>> /\ err = "none"
        /\ todo \in Seq(Commands) /\ phase' = "print"
    BY <1>4 DEF Proceeds, TypeInv, TypeOK, Standing, Printing
  <2>2. At \in Nat /\ At' = At + 1
    <3>1. Len(todo') = Len(todo) - 1 /\ Len(todo) \in Nat
      BY <2>1, TailEffect
    <3>2. Len(Own) \in Nat /\ At \in 1 .. Len(Own)
      BY <2>1, HeadOwn, OwnShape DEF TypeInv, TypeOK
    <3> QED
      BY <1>a, <3>1, <3>2 DEF At
  <2>3. At' <= 2 => Quiet
    BY <2>1, <2>2 DEF CalmInv
  <2> QED
    BY <1>a, <2>1, <2>3 DEF CalmInv
<1>5. CASE Resets
  <2>1. phase' = "reset" /\ pc' = "ready"
    BY <1>5 DEF Resets
  <2> QED
    BY <2>1 DEF CalmInv, Printing
<1>6. CASE Refuses
  BY <1>6, <1>a DEF Refuses, CalmInv, Printing
<1>7. CASE Unwinds
  <2>1. todo \in {<<"end", "cancel">>, <<"cancel">>} /\ phase' = "reset" /\ phase = "reset"
    BY <1>7 DEF Unwinds, TypeInv, Standing
  <2>2. CASE todo = <<"end", "cancel">>
    <3>1. todo' = <<"cancel">> /\ pc' = "ready"
      BY <1>7, <2>2 DEF Unwinds
    <3> QED
      BY <2>1, <3>1 DEF CalmInv, Printing
  <2>3. CASE todo = <<"cancel">>
    <3>1. pc = "ready" => ~ up
      BY <1>7 DEF Unwinds
    <3>2. Calm \/ ~ up \/ resetLost
      BY <2>1, <2>3, <3>1 DEF CalmInv
    <3> QED
      BY <1>a, <2>1, <3>2 DEF CalmInv, Printing
  <2> QED
    BY <2>1, <2>2, <2>3
<1> QED
  BY <1>1, <1>2, <1>3, <1>4, <1>5, <1>6, <1>7 DEF Moves

\* Every step keeps it so.
LEMMA CalmStep == TypeInv /\ CalmInv /\ [Next]_vars => CalmInv'
<1> SUFFICES ASSUME TypeInv, CalmInv, [Next]_vars PROVE CalmInv'
  OBVIOUS
<1>1. CASE ClientStep
  <2>a. UNCHANGED <<job, up, resetLost, type>> /\ pc # "returned" /\ todo # <<>>
    BY <1>1, ClientMoves DEF Elsewhere
  <2>b. Own' = Own
    BY <2>a DEF Own
  <2>1. CASE Moves /\ Kept
    BY <2>1, <2>a, CalmMoves DEF Kept
  <2>2. CASE Send
    <3>1. UNCHANGED <<todo, phase, err>> /\ pc = "ready" /\ pc' = "await" /\ Written
      BY <2>2 DEF Send
    <3>2. At' = At /\ (Printing' <=> Printing)
      BY <2>b, <3>1 DEF At, Printing
    <3>3. /\ Head(todo) # "start" => (Quiet => Quiet') /\ (Calm => Calm')
          /\ Head(todo) = "cancel" => Calm'
      BY <2>a, <3>1, SentCalm
    <3>4. phase = "probe" \/ (Printing /\ At <= 2) => Quiet'
      BY <2>a, <3>3, NotYetStart DEF CalmInv
    <3>5. todo = <<"cancel">> => Calm'
      <4>1. Head(<<"cancel">>) = "cancel"
        OBVIOUS
      <4> QED
        BY <3>3, <4>1
    <3> QED
      BY <3>1, <3>2, <3>4, <3>5 DEF CalmInv
  <2>3. CASE (GivesUp \/ AsksNext) /\ Written
    <3>1. phase = "probe" /\ phase' = "probe"
      BY <2>3 DEF GivesUp, AsksNext
    <3>2. Quiet'
      BY <2>3, <2>a, <3>1, SentCalm, NotYetStart DEF CalmInv
    <3> QED
      BY <3>1, <3>2 DEF CalmInv, Printing
  <2>4. CASE Resets
    <3>1. phase' = "reset" /\ pc' = "ready"
      BY <2>4 DEF Resets
    <3> QED
      BY <3>1 DEF CalmInv, Printing
  <2> QED
    BY <1>1, <2>1, <2>2, <2>3, <2>4, ClientMoves
<1>2. CASE ~ ClientStep
  <2>1. UNCHANGED <<session, type, clientVars>>
    BY <1>2 DEF Next, ReadLoop, Deadline, PrinterExec, PrinterRefuse, PrintLabel, PrinterFault,
                LoseCommand, LoseReply, LinkDown, sessionVars, vars
  <2>2. At' = At /\ (Printing' <=> Printing) /\ UNCHANGED <<todo, phase, pc, err>>
    BY <2>1, OthersStand DEF clientVars
  <2>3. (Quiet => Quiet') /\ (Calm \/ ~ up \/ resetLost => Calm' \/ ~ up' \/ resetLost') => CalmInv'
    BY <2>2 DEF CalmInv
  <2>4. CASE UNCHANGED <<wire, job, up, resetLost>>
    BY <2>3, <2>4 DEF Quiet, Calm, On
  <2>5. CASE PrinterExec
    <3>1. wire # <<>> /\ wire' = Tail(wire) /\ Effect(Plain(Head(wire).cmd)) /\ UNCHANGED <<up, resetLost>>
      BY <2>5 DEF PrinterExec, boundVars
    <3> QED
      BY <2>3, <3>1, TakenCalm
  <2>6. CASE PrinterRefuse
    <3>1. wire # <<>> /\ wire' = Tail(wire) /\ Head(wire).cmd # "cancel" /\ UNCHANGED <<job, up, resetLost>>
      BY <2>6 DEF PrinterRefuse, printerVars
    <3> QED
      BY <2>3, <3>1, TakenCalm
  <2>7. CASE LoseCommand
    <3>1. wire # <<>> /\ wire' = Tail(wire) /\ UNCHANGED <<job, up>>
      BY <2>7 DEF LoseCommand, printerVars
    <3>2. resetLost' = (resetLost \/ Head(wire).cmd = "cancel")
      BY <2>7 DEF LoseCommand
    <3>3. (Quiet => Quiet') /\ (Calm /\ Head(wire).cmd # "cancel" => Calm')
      BY <3>1, TakenCalm
    <3> QED
      BY <2>3, <3>1, <3>2, <3>3, Zenon
  <2>8. CASE LinkDown
    <3>1. wire' = <<>> /\ job' = job /\ ~ up'
      BY <2>8 DEF LinkDown, printerVars
    <3>2. Quiet => Quiet'
      BY <3>1 DEF Quiet, On
    <3> QED
      BY <2>3, <3>1, <3>2, Zenon
  <2> QED
    BY <1>2, <2>4, <2>5, <2>6, <2>7, <2>8
    DEF Next, ReadLoop, Deadline, PrintLabel, PrinterFault, LoseReply, vars, boundVars, printerVars
<1> QED
  BY <1>1, <1>2

\* "so the printer is not left mid-job": when Print has failed and what it sent has
\* arrived, the cancel of the reset not lost, the printer is idle, for any number of
\* copies and mishaps and whatever commands were late.
THEOREM NotLeftMid == Spec => []NotLeftMidJob
<1>1. Init => CalmInv
  BY DEF Init, CalmInv, Quiet, On, Printing
<1>2. TypeInv /\ CalmInv => NotLeftMidJob
  <2> SUFFICES ASSUME TypeInv, CalmInv, pc = "returned", err # "none", up, wire = <<>>, ~ resetLost
               PROVE  job = "idle"
    BY DEF NotLeftMidJob
  <2>1. Quiet \/ Calm
    BY DEF CalmInv, TypeInv, TypeOK
  <2> QED
    BY <2>1 DEF Calm, Quiet
<1> QED
  BY <1>1, <1>2, TypeInit, TypeStep, CalmStep, PTL DEF Spec

-----------------------------------------------------------------------------
(* The replies under way: in the buffer, or on their way to it *)

\* A reply that says c was carried out, with the number n.
Says(p, c, n) == p.kind = "ok" /\ p.cmd = c /\ p.n = n

Told(c, n) ==
  \/ \E i \in 1 .. Len(packets) : Says(packets[i], c, n)
  \/ \E i \in 1 .. Len(back) : Says(back[i], c, n)

\* A set-up or page command was carried out.
Done(p) == p.kind = "ok" /\ p.cmd \in Setup

NoneDone ==
  /\ \A i \in 1 .. Len(packets) : ~ Done(packets[i])
  /\ \A i \in 1 .. Len(back) : ~ Done(back[i])

OneDone ==
  /\ \A i, j \in 1 .. Len(packets) : Done(packets[i]) /\ Done(packets[j]) => i = j
  /\ \A i, j \in 1 .. Len(back) : Done(back[i]) /\ Done(back[j]) => i = j
  /\ \A i \in 1 .. Len(packets), j \in 1 .. Len(back) : ~ (Done(packets[i]) /\ Done(back[j]))

\* No reply has come up that was not under way.
Fewer ==
  /\ NoneDone => NoneDone'
  /\ OneDone => OneDone'
  /\ \A c, n : Told(c, n)' => Told(c, n)

\* A packet is taken, or all are discarded.
LEMMA KeptFewer ==
  ASSUME TypeInv, Kept
  PROVE  Fewer
<1>1. back' = back
  BY DEF Kept
<1>2. CASE packets' = packets
  BY <1>1, <1>2 DEF Fewer, NoneDone, OneDone, Told
<1>3. CASE packets' = <<>>
  <2>1. Len(packets') = 0
    BY <1>3
  <2>2. \A i \in 1 .. Len(packets') : FALSE
    BY <2>1
  <2> QED
    BY <1>1, <2>2 DEF Fewer, NoneDone, OneDone, Told
<1>4. CASE packets # <<>> /\ packets' = Tail(packets)
  <2>1. \A i \in 1 .. Len(packets') : i \in Int /\ i + 1 \in 1 .. Len(packets) /\ packets'[i] = packets[i + 1]
    <3>1. /\ Len(packets) \in Nat /\ Len(packets') = Len(packets) - 1
          /\ \A i \in 1 .. Len(packets) - 1 : packets'[i] = packets[i + 1]
      BY <1>4, TailEffect DEF TypeInv, TypeOK
    <3> QED
      BY <3>1
  <2>2. NoneDone => NoneDone'
    BY <1>1, <2>1 DEF NoneDone
  <2>3. OneDone => OneDone'
    <3> SUFFICES ASSUME OneDone PROVE OneDone'
      OBVIOUS
    <3>1. ASSUME NEW i \in 1 .. Len(packets'), NEW j \in 1 .. Len(packets'), Done(packets'[i]), Done(packets'[j])
          PROVE  i = j
      <4>1. i + 1 = j + 1
        BY <2>1, <3>1 DEF OneDone
      <4> QED
        BY <2>1, <4>1
    <3>2. \A i \in 1 .. Len(packets'), j \in 1 .. Len(back') : ~ (Done(packets'[i]) /\ Done(back'[j]))
      BY <1>1, <2>1 DEF OneDone
    <3> QED
      BY <1>1, <3>1, <3>2 DEF OneDone, Done
  <2>4. \A c, n : Told(c, n)' => Told(c, n)
    BY <1>1, <2>1 DEF Told
  <2> QED
    BY <2>2, <2>3, <2>4 DEF Fewer
<1> QED
  BY <1>2, <1>3, <1>4 DEF Kept

\* A send discards the packets; the replies on their way only lose their marks.
LEMMA SentFewer ==
  ASSUME TypeInv, Written, todo # <<>>
  PROVE  Fewer
<1>1. /\ packets' = <<>> /\ Len(back') = Len(back)
      /\ \A i \in 1 .. Len(back) : back'[i].kind = back[i].kind /\ back'[i].cmd = back[i].cmd /\ back'[i].n = back[i].n
  BY WrittenEffect DEF TypeInv
<1>2. \A i \in 1 .. Len(packets') : FALSE
  <2>1. Len(packets') = 0
    BY <1>1
  <2> QED
    BY <2>1
<1>3. \A i \in 1 .. Len(back') : Done(back'[i]) <=> Done(back[i])
  BY <1>1 DEF Done
<1>4. \A i \in 1 .. Len(back') : \A c, n : Says(back'[i], c, n) <=> Says(back[i], c, n)
  BY <1>1 DEF Says
<1>5. 1 .. Len(back') = 1 .. Len(back)
  BY <1>1
<1>6. NoneDone => NoneDone'
  BY <1>2, <1>3, <1>5, Zenon DEF NoneDone
<1>7. OneDone => OneDone'
  BY <1>2, <1>3, <1>5, Zenon DEF OneDone
<1>8. \A c, n : Told(c, n)' => Told(c, n)
  BY <1>2, <1>4, <1>5, Zenon DEF Told
<1> QED
  BY <1>6, <1>7, <1>8 DEF Fewer

\* The read loop moves the oldest reply into the buffer; a full one loses its oldest.
LEMMA ReadFewer ==
  ASSUME TypeInv, ReadLoop
  PROVE  Fewer
<1>a. /\ packets \in Seq(Packet) /\ back \in Seq(Packet) /\ Len(packets) \in Nat /\ Len(packets) <= BufCap
      /\ BufCap \in Nat /\ BufCap >= 1
  BY ClientAssumption, LenProperties DEF TypeInv, TypeOK
<1>b. back # <<>> /\ back' = Tail(back)
  BY DEF ReadLoop
<1>1. /\ Len(back) \in Nat /\ Len(back) >= 1 /\ Head(back) = back[1] /\ Head(back) \in Packet
      /\ Len(back') = Len(back) - 1 /\ \A i \in 1 .. Len(back) - 1 : back'[i] = back[i + 1]
  BY <1>a, <1>b, TailEffect
<1>2. \A i \in 1 .. Len(back') : i \in Int /\ i + 1 \in 1 .. Len(back) /\ i + 1 # 1 /\ back'[i] = back[i + 1]
  BY <1>1
<1>3. PICK d \in {0, 1} :
        /\ \A i \in 1 .. Len(packets') :
             \/ i + d \in 1 .. Len(packets) /\ packets'[i] = packets[i + d]
             \/ i = Len(packets') /\ packets'[i] = back[1]
        /\ \A i \in 1 .. Len(packets') : i \in Int
  <2>1. CASE Len(packets) = BufCap
    <3>1. packets # <<>>
      BY <1>a, <2>1
    <3>2. /\ Tail(packets) \in Seq(Packet) /\ Len(Tail(packets)) = Len(packets) - 1
          /\ \A i \in 1 .. Len(packets) - 1 : Tail(packets)[i] = packets[i + 1]
      BY <1>a, <3>1, TailEffect
    <3>3. packets' = Append(Tail(packets), Head(back))
      BY <2>1 DEF ReadLoop
    <3>4. /\ Len(packets') = Len(Tail(packets)) + 1 /\ packets'[Len(Tail(packets)) + 1] = Head(back)
          /\ \A i \in 1 .. Len(Tail(packets)) : packets'[i] = Tail(packets)[i]
      BY <1>1, <3>2, <3>3, AppendEffect
    <3>5. /\ Len(packets') = Len(packets) /\ packets'[Len(packets')] = back[1]
          /\ \A i \in 1 .. Len(packets) - 1 : packets'[i] = packets[i + 1]
      BY <1>1, <1>a, <3>2, <3>4
    <3>6. \A i \in 1 .. Len(packets') : \/ i + 1 \in 1 .. Len(packets) /\ i \in 1 .. Len(packets) - 1
                                        \/ i = Len(packets')
      BY <1>a, <3>5
    <3> QED
      BY <3>5, <3>6
  <2>2. CASE Len(packets) # BufCap
    <3>1. packets' = Append(packets, Head(back))
      BY <2>2 DEF ReadLoop
    <3>2. /\ Len(packets') = Len(packets) + 1 /\ packets'[Len(packets) + 1] = back[1]
          /\ \A i \in 1 .. Len(packets) : packets'[i] = packets[i]
      BY <1>1, <1>a, <3>1, AppendEffect
    <3>3. \A i \in 1 .. Len(packets') : (i + 0 = i /\ i \in 1 .. Len(packets)) \/ i = Len(packets')
      BY <1>a, <3>2
    <3> QED
      BY <3>2, <3>3
  <2> QED
    BY <2>1, <2>2
<1>4. NoneDone => NoneDone'
  <2>1. 1 \in 1 .. Len(back)
    BY <1>1
  <2> QED
    BY <1>2, <1>3, <2>1 DEF NoneDone
<1>5. OneDone => OneDone'
  <2> SUFFICES ASSUME OneDone PROVE OneDone'
    OBVIOUS
  <2>a. 1 \in 1 .. Len(back)
    BY <1>1
  <2>1. ASSUME NEW i \in 1 .. Len(packets'), NEW j \in 1 .. Len(packets'), Done(packets'[i]), Done(packets'[j])
        PROVE  i = j
    <3>1. i = j \/ i + d = j + d
      BY <1>3, <2>a, <2>1 DEF OneDone
    <3> QED
      BY <1>3, <3>1
  <2>2. ASSUME NEW i \in 1 .. Len(back'), NEW j \in 1 .. Len(back'), Done(back'[i]), Done(back'[j])
        PROVE  i = j
    <3>1. i + 1 = j + 1
      BY <1>2, <2>2 DEF OneDone
    <3> QED
      BY <1>2, <3>1
  <2>3. ASSUME NEW i \in 1 .. Len(packets'), NEW j \in 1 .. Len(back'), Done(packets'[i]), Done(back'[j])
        PROVE  FALSE
    BY <1>2, <1>3, <2>a, <2>3 DEF OneDone
  <2> QED
    BY <2>1, <2>2, <2>3 DEF OneDone, Done
<1>6. \A c, n : Told(c, n)' => Told(c, n)
  <2>1. 1 \in 1 .. Len(back)
    BY <1>1
  <2> QED
    BY <1>2, <1>3, <2>1 DEF Told
<1> QED
  BY <1>4, <1>5, <1>6 DEF Fewer

\* Replies are lost.
LEMMA LostFewer ==
  ASSUME TypeInv, packets' = packets, back' = <<>> \/ (back # <<>> /\ back' = Tail(back))
  PROVE  Fewer
<1>1. \A i \in 1 .. Len(back') : i \in Int /\ i + 1 \in 1 .. Len(back) /\ back'[i] = back[i + 1]
  <2>1. CASE back' = <<>>
    <3>1. Len(back') = 0
      BY <2>1
    <3> QED
      BY <3>1
  <2>2. CASE back # <<>> /\ back' = Tail(back)
    <3>1. /\ Len(back) \in Nat /\ Len(back') = Len(back) - 1
          /\ \A i \in 1 .. Len(back) - 1 : back'[i] = back[i + 1]
      BY <2>2, TailEffect DEF TypeInv, TypeOK
    <3> QED
      BY <3>1
  <2> QED
    BY <2>1, <2>2
<1>2. NoneDone => NoneDone'
  BY <1>1 DEF NoneDone
<1>3. OneDone => OneDone'
  <2> SUFFICES ASSUME OneDone PROVE OneDone'
    OBVIOUS
  <2>1. ASSUME NEW i \in 1 .. Len(back'), NEW j \in 1 .. Len(back'), Done(back'[i]), Done(back'[j])
        PROVE  i = j
    <3>1. i + 1 = j + 1
      BY <1>1, <2>1 DEF OneDone
    <3> QED
      BY <1>1, <3>1
  <2>2. \A i \in 1 .. Len(packets'), j \in 1 .. Len(back') : ~ (Done(packets'[i]) /\ Done(back'[j]))
    BY <1>1 DEF OneDone
  <2> QED
    BY <2>1, <2>2 DEF OneDone, Done
<1>4. \A c, n : Told(c, n)' => Told(c, n)
  BY <1>1 DEF Told
<1> QED
  BY <1>2, <1>3, <1>4 DEF Fewer

\* The printer answers.
LEMMA Replied ==
  ASSUME TypeInv, NEW r \in Packet, packets' = packets, back' = Append(back, r)
  PROVE  /\ ~ Done(r) => (NoneDone => NoneDone') /\ (OneDone => OneDone')
         /\ NoneDone => OneDone'
         /\ \A c, n : Told(c, n)' => Told(c, n) \/ Says(r, c, n)
<1>1. /\ Len(back) \in Nat /\ Len(back') = Len(back) + 1 /\ back'[Len(back) + 1] = r
      /\ \A i \in 1 .. Len(back) : back'[i] = back[i]
  BY AppendEffect DEF TypeInv, TypeOK
<1>2. \A i \in 1 .. Len(back') : (i \in 1 .. Len(back) /\ back'[i] = back[i]) \/ (i = Len(back') /\ back'[i] = r)
  BY <1>1
<1>3. ~ Done(r) /\ NoneDone => NoneDone'
  BY <1>2 DEF NoneDone
<1>4. ~ Done(r) /\ OneDone => OneDone'
  BY <1>2 DEF OneDone
<1>5. NoneDone => OneDone'
  BY <1>2 DEF NoneDone, OneDone
<1>6. \A c, n : Told(c, n)' => Told(c, n) \/ Says(r, c, n)
  BY <1>2 DEF Told
<1> QED
  BY <1>3, <1>4, <1>5, <1>6

-----------------------------------------------------------------------------
(* The printer carries out a gap-free prefix of its own task *)

NoneSent == \A i \in 1 .. Len(wire) : wire[i].cmd \notin Setup

\* At most one command that sets up or sends a page is on its way: the next one.
OwnOrder ==
  /\ Len(executed) <= Total /\ \A i \in 1 .. Len(executed) : executed[i] = Own[i]
  /\ \A i \in 1 .. Len(wire) : wire[i].cmd \in Setup =>
       /\ Len(executed) < Total /\ wire[i].cmd = Own[Len(executed) + 1]
       /\ \A j \in 1 .. Len(wire) : wire[j].cmd \in Setup => i = j

\* While the client waits for a command's answer, the printer has carried out the ones
\* before it, and that one at most once; a reply that says so is the only one of its kind.
GapInv ==
  /\ OwnOrder
  /\ phase = "probe" => executed = <<>> /\ NoneSent /\ NoneDone
  /\ Printing /\ (pc # "await" \/ At > Total) =>
       /\ NoneSent /\ NoneDone
       /\ Len(executed) = IF At > Total THEN Total ELSE At - 1
  /\ Printing /\ pc = "await" /\ At <= Total =>
       \/ Len(executed) = At - 1 /\ NoneDone
       \/ Len(executed) = At /\ NoneSent /\ OneDone
  /\ Finished => NoneSent /\ Len(executed) = Total

\* The queries and the requests behind the pages carry nothing out.
LEMMA HeadKind ==
  ASSUME TypeInv, pc # "returned"
  PROVE  /\ phase # "print" => Head(todo) \notin Setup
         /\ Printing => (Head(todo) \in Setup <=> At <= Total)
<1>1. CASE phase = "probe"
  <2>1. Asking
    BY <1>1 DEF TypeInv, Standing
  <2>2. Head(todo) \in {"heartbeat", "type", "serial", "rfid"}
    BY <2>1 DEF Asking
  <2> QED
    BY <1>1, <2>2 DEF Setup, Printing
<1>2. CASE phase = "reset"
  <2>1. todo \in {<<"end", "cancel">>, <<"cancel">>}
    BY <1>2 DEF TypeInv, Standing
  <2>2. Head(todo) \in {"end", "cancel"}
    BY <2>1
  <2> QED
    BY <1>2, <2>2 DEF Setup, Printing
<1>3. CASE phase = "print"
  <2>1. At \in 1 .. Len(Own) /\ Head(todo) = Own[At] /\ \A i \in 1 .. Len(Own) : Own[i] \in Setup <=> i <= Total
    BY <1>3, HeadOwn, OwnShape DEF TypeInv, TypeOK, Printing
  <2> QED
    BY <1>3, <2>1
<1> QED
  BY <1>1, <1>2, <1>3 DEF TypeInv, TypeOK

\* A send keeps the order.
LEMMA SentOrder ==
  ASSUME TypeInv, GapInv, Written, pc = "ready", UNCHANGED <<executed, type>>
  PROVE  OwnOrder' /\ (Head(todo) \notin Setup => (NoneSent => NoneSent'))
<1>a. todo # <<>> /\ Own' = Own /\ Total' = Total
  BY DEF TypeInv, Standing, Own, Total
<1>1. /\ Len(wire') = Len(wire) + (IF Head(todo) = "pageEnd" THEN 2 ELSE 1) /\ Len(wire) \in Nat
      /\ \A i \in 1 .. Len(wire) : wire'[i].cmd = wire[i].cmd
      /\ wire'[Len(wire')].cmd = Head(todo)
      /\ Head(todo) = "pageEnd" => wire'[Len(wire) + 1].cmd = "rows"
  BY <1>a, WrittenEffect, LenProperties DEF TypeInv, TypeOK
<1>2. \A i \in 1 .. Len(wire') : \/ i \in 1 .. Len(wire) /\ wire'[i].cmd = wire[i].cmd
                                 \/ i = Len(wire') /\ wire'[i].cmd = Head(todo)
                                 \/ wire'[i].cmd = "rows"
  BY <1>1
<1>3. "rows" \notin Setup
  BY DEF Setup
<1>4. CASE Head(todo) \notin Setup
  <2>1. \A i \in 1 .. Len(wire') : wire'[i].cmd \in Setup => i \in 1 .. Len(wire) /\ wire'[i].cmd = wire[i].cmd
    BY <1>2, <1>3, <1>4
  <2>2. OwnOrder'
    BY <1>a, <2>1 DEF GapInv, OwnOrder
  <2> QED
    BY <2>1, <2>2 DEF NoneSent
<1>5. CASE Head(todo) \in Setup
  <2>1. Printing /\ At <= Total
    BY <1>5, HeadKind DEF TypeInv, TypeOK, Printing
  <2>2. Len(executed) = At - 1 /\ NoneSent /\ At \in 1 .. Len(Own) /\ Head(todo) = Own[At] /\ Total \in Nat
    BY <2>1, HeadOwn, OwnShape DEF GapInv, TypeInv, TypeOK
  <2>3. \A i \in 1 .. Len(wire') : wire'[i].cmd \in Setup => i = Len(wire') /\ wire'[i].cmd = Head(todo)
    BY <1>2, <1>3, <2>2 DEF NoneSent
  <2>4. Len(executed) + 1 = At /\ Len(executed) < Total
    BY <2>1, <2>2
  <2> QED
    BY <1>5, <1>a, <2>2, <2>3, <2>4 DEF GapInv, OwnOrder
<1> QED
  BY <1>4, <1>5

\* A step of the link or of the printer that carries nothing out.
LEMMA GapOthers ==
  ASSUME TypeInv, GapInv, UNCHANGED <<session, type, clientVars, executed>>, OwnOrder',
         NoneSent => NoneSent', NoneDone => NoneDone', OneDone => OneDone'
  PROVE  GapInv'
<1>1. At' = At /\ Total' = Total /\ (Printing' <=> Printing) /\ (Finished' <=> Finished) /\ UNCHANGED <<phase, pc>>
  BY OthersStand DEF clientVars
<1> QED
  BY <1>1 DEF GapInv

\* A command leaves the wire and is not carried out.
LEMMA TakenOrder ==
  ASSUME TypeInv, OwnOrder, wire # <<>>, wire' = Tail(wire), UNCHANGED <<executed, type>>
  PROVE  OwnOrder' /\ (NoneSent => NoneSent')
<1>1. Own' = Own /\ Total' = Total
  BY DEF Own, Total
<1>2. \A i \in 1 .. Len(wire') : i \in Int /\ i + 1 \in 1 .. Len(wire) /\ wire'[i] = wire[i + 1]
  <2>1. /\ Len(wire) \in Nat /\ Len(wire') = Len(wire) - 1
        /\ \A i \in 1 .. Len(wire) - 1 : wire'[i] = wire[i + 1]
    BY TailEffect DEF TypeInv, TypeOK
  <2> QED
    BY <2>1
<1>3. ASSUME NEW i \in 1 .. Len(wire'), wire'[i].cmd \in Setup
      PROVE  /\ Len(executed) < Total /\ wire'[i].cmd = Own[Len(executed) + 1]
             /\ \A j \in 1 .. Len(wire') : wire'[j].cmd \in Setup => i = j
  <2>1. Len(executed) < Total /\ wire'[i].cmd = Own[Len(executed) + 1]
    BY <1>2, <1>3 DEF OwnOrder
  <2>2. ASSUME NEW j \in 1 .. Len(wire'), wire'[j].cmd \in Setup PROVE i = j
    <3>1. i + 1 = j + 1
      BY <1>2, <1>3, <2>2 DEF OwnOrder
    <3> QED
      BY <1>2, <3>1
  <2> QED
    BY <2>1, <2>2
<1> QED
  BY <1>1, <1>2, <1>3 DEF OwnOrder, NoneSent

\* The printer takes a command.
LEMMA GapExec ==
  ASSUME TypeInv, GapInv, PrinterExec
  PROVE  GapInv'
<1> DEFINE c == Plain(Head(wire).cmd)
<1>a. /\ wire # <<>> /\ wire' = Tail(wire) /\ Effect(c) /\ packets' = packets
      /\ UNCHANGED <<session, type, clientVars>> /\ OwnOrder
  BY DEF PrinterExec, GapInv, sessionVars
<1>b. Head(wire) = wire[1] /\ Head(wire).cmd \in Commands /\ Head(wire).mine \in BOOLEAN /\ c \in Commands /\ Answer(c) \in Nat
  BY <1>a, HeadOrder
<1>c. c \in Setup <=> Head(wire).cmd \in Setup
  BY DEF Plain, Setup
<1>d. c \in Setup => c = Head(wire).cmd
  BY DEF Plain, Setup
<1>e. Own' = Own /\ Total' = Total /\ At' = At /\ (Printing' <=> Printing) /\ (Finished' <=> Finished)
      /\ UNCHANGED <<phase, pc>>
  BY <1>a, OthersStand DEF clientVars
<1>f. PICK k \in {"ok", "error"} : back' = back \/ back' = Append(back, Reply(k, c, Head(wire).mine, Answer(c)))
  BY DEF PrinterExec
<1> DEFINE r == Reply(k, c, Head(wire).mine, Answer(c))
<1>g. r \in Packet /\ r.cmd = c
  BY <1>b, ReplyType DEF Reply
<1>h. executed' = IF c \in Setup THEN Append(executed, c) ELSE executed
  BY <1>a DEF Effect
<1> HIDE DEF c, r
<1>1. CASE c \notin Setup
  <2>1. executed' = executed
    BY <1>1, <1>h
  <2>2. OwnOrder' /\ (NoneSent => NoneSent')
    BY <1>a, <2>1, TakenOrder
  <2>3. ~ Done(r)
    BY <1>1, <1>g DEF Done
  <2>4. (NoneDone => NoneDone') /\ (OneDone => OneDone')
    <3>1. CASE back' = back
      BY <1>a, <3>1 DEF NoneDone, OneDone
    <3>2. CASE back' = Append(back, r)
      BY <1>a, <1>g, <2>3, <3>2, Replied
    <3> QED
      BY <1>f, <3>1, <3>2 DEF r, c
  <2> QED
    BY <1>a, <2>1, <2>2, <2>4, GapOthers
<1>2. CASE c \in Setup
  <2>1. 1 \in 1 .. Len(wire) /\ wire[1].cmd = c
    <3>1. Len(wire) \in Nat /\ Len(wire) >= 1
      BY <1>a, TailEffect DEF TypeInv, TypeOK
    <3> QED
      BY <1>2, <1>b, <1>d, <3>1
  <2>2. ~ NoneSent
    BY <1>2, <2>1 DEF NoneSent
  <2>3. /\ Len(executed) < Total /\ c = Own[Len(executed) + 1]
        /\ \A j \in 1 .. Len(wire) : wire[j].cmd \in Setup => 1 = j
    BY <1>2, <1>a, <2>1 DEF OwnOrder
  <2>4. NoneSent'
    <3>1. \A i \in 1 .. Len(wire') : i + 1 \in 1 .. Len(wire) /\ i + 1 # 1 /\ wire'[i] = wire[i + 1]
      <4>1. /\ Len(wire) \in Nat /\ Len(wire') = Len(wire) - 1
            /\ \A i \in 1 .. Len(wire) - 1 : wire'[i] = wire[i + 1]
        BY <1>a, TailEffect DEF TypeInv, TypeOK
      <4> QED
        BY <4>1
    <3> QED
      BY <2>3, <3>1 DEF NoneSent
  <2>5. /\ Len(executed) \in Nat /\ Len(executed') = Len(executed) + 1 /\ executed'[Len(executed) + 1] = c
        /\ \A i \in 1 .. Len(executed) : executed'[i] = executed[i]
    <3>1. executed \in Seq(Setup) /\ executed' = Append(executed, c)
      BY <1>2, <1>h DEF TypeInv, TypeOK
    <3> QED
      BY <1>2, <3>1, AppendEffect
  <2>6. OwnOrder'
    <3>1. Len(executed') <= Total
      BY <2>3, <2>5, OwnShape DEF TypeInv, TypeOK
    <3>2. \A i \in 1 .. Len(executed') : i \in 1 .. Len(executed) \/ i = Len(executed) + 1
      BY <2>5
    <3>3. \A i \in 1 .. Len(executed') : executed'[i] = Own[i]
      BY <1>a, <2>3, <2>5, <3>2 DEF OwnOrder
    <3> QED
      BY <1>e, <2>4, <3>1, <3>3 DEF OwnOrder, NoneSent
  <2>7. phase # "probe" /\ ~ Finished /\ ~ (Printing /\ (pc # "await" \/ At > Total))
    BY <2>2 DEF GapInv
  <2>8. ASSUME Printing, pc = "await", At <= Total
        PROVE  Len(executed') = At /\ OneDone'
    <3>1. Len(executed) = At - 1 /\ NoneDone
      BY <2>2, <2>8 DEF GapInv
    <3>2. At \in Nat
      BY <2>8, HeadOwn
    <3>3. OneDone'
      <4>1. CASE back' = back
        BY <1>a, <3>1, <4>1 DEF NoneDone, OneDone
      <4>2. CASE back' = Append(back, r)
        BY <1>a, <1>g, <3>1, <4>2, Replied
      <4> QED
        BY <1>f, <4>1, <4>2 DEF r, c
    <3> QED
      BY <2>5, <3>1, <3>2, <3>3
  <2> QED
    BY <1>e, <2>4, <2>6, <2>7, <2>8 DEF GapInv
<1> QED
  BY <1>1, <1>2

\* An answer moves Print one command on, or ends it.
LEMMA ProceedsOn ==
  ASSUME TypeInv, Proceeds, type' = type
  PROVE  /\ At \in 1 .. Len(Own) /\ Len(Own) \in Nat /\ Total \in Nat /\ At' = At + 1 /\ phase = "print" /\ phase' = "print"
         /\ (pc' = "ready" /\ At < Len(Own)) \/ (pc' = "returned" /\ At = Len(Own))
<1>1. Printing /\ todo' = Tail(todo) /\ pc' = (IF Len(todo) = 1 THEN "returned" ELSE "ready") /\ phase' = phase
  BY DEF Proceeds
<1>2. /\ todo # <<>> /\ todo \in Seq(Commands) /\ At \in 1 .. Len(Own) /\ Len(Own) \in Nat /\ Total \in Nat
      /\ Len(Own) - At = Len(todo) - 1
  BY <1>1, HeadOwn, OwnShape DEF TypeInv, TypeOK
<1>3. Len(todo') = Len(todo) - 1 /\ Len(todo) \in Nat /\ Own' = Own
  BY <1>1, <1>2, TailEffect DEF Own
<1>4. At' = At + 1
  BY <1>2, <1>3 DEF At
<1> QED
  BY <1>1, <1>2, <1>3, <1>4 DEF Printing

\* The answer of a command that carries something out is the only one of its kind.
LEMMA Confirmed ==
  ASSUME TypeInv, GapInv, Proceeds, At <= Total, back' = back
  PROVE  Len(executed) = At /\ NoneSent /\ NoneDone'
<1>1. /\ Printing /\ pc = "await" /\ packets # <<>> /\ packets \in Seq(Packet) /\ packets' = Tail(packets)
      /\ Head(packets).kind = "ok" /\ Head(packets).cmd = Plain(Head(todo))
  BY DEF Proceeds, Answers, TypeInv, TypeOK
<1>2. Head(todo) \in Setup
  BY <1>1, HeadKind DEF Printing
<1>3. Done(Head(packets))
  BY <1>1, <1>2 DEF Done, Plain, Setup
<1>4. /\ Len(packets) \in Nat /\ Len(packets) >= 1 /\ Head(packets) = packets[1]
      /\ Len(packets') = Len(packets) - 1
      /\ \A i \in 1 .. Len(packets) - 1 : packets'[i] = packets[i + 1]
  BY <1>1, TailEffect
<1>5. 1 \in 1 .. Len(packets) /\ Done(packets[1])
  BY <1>3, <1>4
<1>6. Len(executed) = At /\ NoneSent /\ OneDone
  BY <1>1, <1>5 DEF GapInv, NoneDone
<1>7. \A i \in 1 .. Len(packets') : i + 1 \in 1 .. Len(packets) /\ i + 1 # 1 /\ packets'[i] = packets[i + 1]
  BY <1>4
<1>8. \A i \in 1 .. Len(packets') : ~ Done(packets'[i])
  BY <1>5, <1>6, <1>7 DEF OneDone
<1>9. \A i \in 1 .. Len(back') : ~ Done(back'[i])
  BY <1>5, <1>6 DEF OneDone
<1> QED
  BY <1>6, <1>8, <1>9 DEF NoneDone

\* A move of the client that sends nothing.
LEMMA GapMoves ==
  ASSUME TypeInv, GapInv, Moves, Kept, UNCHANGED <<executed, type>>
  PROVE  GapInv'
<1>a. Own' = Own /\ Total' = Total /\ NoneSent' = NoneSent /\ OwnOrder' /\ wire' = wire
  BY DEF Own, Total, NoneSent, OwnOrder, Kept, GapInv
<1>b. (NoneDone => NoneDone') /\ (OneDone => OneDone')
  BY KeptFewer DEF Fewer
<1>c. Total \in Nat /\ Len(Own) \in Nat /\ Total >= 6
  BY OwnShape DEF TypeInv, TypeOK
<1>1. CASE Stays
  <2>1. At' = At /\ (Printing' <=> Printing) /\ ~ Finished' /\ phase' = phase /\ pc # "returned" /\ pc' # "returned"
    BY <1>1, <1>a DEF Stays, At, Printing, Finished
  <2>2. Printing /\ pc' # "await" => pc = "pause" \/ At > Total
    BY <1>1 DEF Stays, Printing
  <2>3. Printing /\ pc' = "await" => pc = "await"
    BY <1>1 DEF Stays
  <2> QED
    BY <1>a, <1>b, <2>1, <2>2, <2>3 DEF GapInv
<1>2. CASE GivesUp \/ AsksNext
  <2>1. phase = "probe" /\ phase' = "probe"
    BY <1>2 DEF GivesUp, AsksNext
  <2> QED
    BY <1>a, <1>b, <2>1 DEF GapInv, Printing, Finished
<1>3. CASE Begins
  <2>1. phase = "probe" /\ phase' = "print" /\ pc' = "ready" /\ todo' = Own
    BY <1>3 DEF Begins
  <2>2. At' = 1
    BY <1>a, <1>c, <2>1 DEF At
  <2>3. Len(executed) = 0
    BY <2>1 DEF GapInv
  <2> QED
    BY <1>a, <1>b, <1>c, <2>1, <2>2, <2>3 DEF GapInv, Finished
<1>4. CASE Proceeds
  <2>1. /\ At \in 1 .. Len(Own) /\ At' = At + 1 /\ phase' = "print"
        /\ (pc' = "ready" /\ At < Len(Own)) \/ (pc' = "returned" /\ At = Len(Own))
    BY <1>4, ProceedsOn
  <2>2. Len(Own) > Total
    BY <1>c, OwnShape DEF TypeInv, TypeOK, TaskShape
  <2>3. Printing /\ pc = "await"
    BY <1>4 DEF Proceeds
  <2>4. CASE At <= Total
    <3>1. Len(executed) = At /\ NoneSent /\ NoneDone'
      BY <1>4, <2>4, Confirmed DEF Kept
    <3>2. pc' = "ready" /\ Len(executed) = IF At' > Total THEN Total ELSE At' - 1
      BY <1>c, <2>1, <2>2, <2>4, <3>1
    <3> QED
      BY <1>a, <2>1, <3>1, <3>2 DEF GapInv, Finished
  <2>5. CASE At > Total
    <3>1. NoneSent /\ NoneDone /\ Len(executed) = Total
      BY <2>3, <2>5 DEF GapInv
    <3>2. At' > Total
      BY <1>c, <2>1, <2>5
    <3> QED
      BY <1>a, <1>b, <1>c, <2>1, <3>1, <3>2 DEF GapInv, Finished
  <2> QED
    BY <1>c, <2>1, <2>4, <2>5
<1>5. CASE Resets \/ Unwinds
  <2>1. phase' = "reset"
    BY <1>5 DEF Resets, Unwinds
  <2> QED
    BY <1>a, <2>1 DEF GapInv, Printing, Finished
<1>6. CASE Refuses
  <2>1. phase' = "print" /\ pc' = "returned" /\ err' # "none"
    BY <1>6 DEF Refuses, Printing, Errs
  <2> QED
    BY <1>a, <2>1 DEF GapInv, Printing, Finished
<1> QED
  BY <1>1, <1>2, <1>3, <1>4, <1>5, <1>6 DEF Moves

\* Every step keeps the order.
LEMMA GapStep == TypeInv /\ GapInv /\ [Next]_vars => GapInv'
<1> SUFFICES ASSUME TypeInv, GapInv, [Next]_vars PROVE GapInv'
  OBVIOUS
<1>1. CASE ClientStep
  <2>a. UNCHANGED <<executed, type>> /\ pc # "returned" /\ todo # <<>>
    BY <1>1, ClientMoves DEF Elsewhere
  <2>b. Own' = Own /\ Total' = Total
    BY <2>a DEF Own, Total
  <2>c. Written => (NoneDone => NoneDone')
    BY <2>a, SentFewer DEF Fewer
  <2>1. CASE Moves /\ Kept
    BY <2>1, <2>a, GapMoves
  <2>2. CASE Send
    <3>1. UNCHANGED <<todo, phase, err>> /\ pc = "ready" /\ pc' = "await" /\ Written
      BY <2>2 DEF Send
    <3>2. At' = At /\ (Printing' <=> Printing) /\ ~ Finished'
      BY <2>b, <3>1 DEF At, Printing, Finished
    <3>3. OwnOrder' /\ (Head(todo) \notin Setup => (NoneSent => NoneSent'))
      BY <2>a, <3>1, SentOrder
    <3>4. phase = "probe" \/ (Printing /\ At > Total) => Head(todo) \notin Setup
      <4>1. Printing => At \in Nat /\ Total \in Nat
        BY HeadOwn, OwnShape DEF TypeInv, TypeOK
      <4> QED
        BY <2>a, <4>1, HeadKind
    <3>5. Printing => At \in Nat /\ Total \in Nat
      BY HeadOwn, OwnShape DEF TypeInv, TypeOK
    <3> QED
      BY <2>a, <2>b, <2>c, <3>1, <3>2, <3>3, <3>4, <3>5 DEF GapInv
  <2>3. CASE (GivesUp \/ AsksNext) /\ Written /\ pc = "ready"
    <3>1. phase = "probe" /\ phase' = "probe"
      BY <2>3 DEF GivesUp, AsksNext
    <3>2. OwnOrder' /\ NoneSent'
      BY <2>3, <2>a, <3>1, SentOrder, HeadKind DEF GapInv
    <3> QED
      BY <2>3, <2>a, <2>c, <3>1, <3>2 DEF GapInv, Printing, Finished
  <2>4. CASE Resets /\ Written /\ pc = "ready"
    <3>1. phase' = "reset"
      BY <2>4 DEF Resets
    <3>2. OwnOrder'
      BY <2>4, <2>a, SentOrder
    <3> QED
      BY <3>1, <3>2 DEF GapInv, Printing, Finished
  <2> QED
    BY <1>1, <2>1, <2>2, <2>3, <2>4, ClientMoves
<1>2. CASE PrinterExec
  BY <1>2, GapExec
<1>3. CASE ~ ClientStep /\ ~ PrinterExec
  <2>1. UNCHANGED <<session, type, clientVars, executed>>
    BY <1>3 DEF Next, ReadLoop, Deadline, PrinterRefuse, PrintLabel, PrinterFault,
                LoseCommand, LoseReply, LinkDown, sessionVars, printerVars, vars
  <2>2. OwnOrder
    BY DEF GapInv
  <2>3. wire' = wire => OwnOrder' /\ (NoneSent => NoneSent')
    BY <2>1, <2>2 DEF OwnOrder, NoneSent, Own, Total
  <2>4. UNCHANGED <<packets, back>> => (NoneDone => NoneDone') /\ (OneDone => OneDone')
    BY DEF NoneDone, OneDone
  <2>5. CASE ReadLoop
    <3>1. wire' = wire
      BY <2>5 DEF ReadLoop
    <3> QED
      BY <2>1, <2>3, <2>5, <3>1, ReadFewer, GapOthers DEF Fewer
  <2>6. CASE UNCHANGED <<wire, packets, back>>
    BY <2>1, <2>3, <2>4, <2>6, GapOthers
  <2>7. CASE PrinterRefuse
    <3>1. /\ wire # <<>> /\ wire' = Tail(wire) /\ packets' = packets
          /\ \E k \in {"error", "unsupported"} :
               back' = Append(back, Reply(k, Plain(Head(wire).cmd), Head(wire).mine, 0))
      BY <2>7 DEF PrinterRefuse
    <3>2. PICK k \in {"error", "unsupported"} :
               back' = Append(back, Reply(k, Plain(Head(wire).cmd), Head(wire).mine, 0))
      BY <3>1
    <3> DEFINE r == Reply(k, Plain(Head(wire).cmd), Head(wire).mine, 0)
    <3>3. r \in Packet
      BY <3>1, HeadOrder, ReplyType
    <3>4. ~ Done(r)
      BY <3>2 DEF Reply, Done
    <3> HIDE DEF r
    <3>5. (NoneDone => NoneDone') /\ (OneDone => OneDone')
      BY <3>1, <3>2, <3>3, <3>4, Replied DEF r
    <3>6. OwnOrder' /\ (NoneSent => NoneSent')
      BY <2>1, <2>2, <3>1, TakenOrder
    <3> QED
      BY <2>1, <3>5, <3>6, GapOthers
  <2>8. CASE PrinterFault
    <3>1. UNCHANGED <<packets, wire>> /\ (back' = back \/ back' = Append(back, Reply("error", "none", FALSE, 0)))
      BY <2>8 DEF PrinterFault
    <3> DEFINE r == Reply("error", "none", FALSE, 0)
    <3>2. r \in Packet
      BY ReplyType
    <3>3. ~ Done(r)
      BY DEF Reply, Done
    <3> HIDE DEF r
    <3>4. (NoneDone => NoneDone') /\ (OneDone => OneDone')
      BY <2>4, <3>1, <3>2, <3>3, Replied DEF r
    <3> QED
      BY <2>1, <2>3, <3>1, <3>4, GapOthers
  <2>9. CASE LoseCommand
    <3>1. wire # <<>> /\ wire' = Tail(wire) /\ UNCHANGED <<packets, back>>
      BY <2>9 DEF LoseCommand
    <3>2. OwnOrder' /\ (NoneSent => NoneSent')
      BY <2>1, <2>2, <3>1, TakenOrder
    <3> QED
      BY <2>1, <2>4, <3>1, <3>2, GapOthers
  <2>10. CASE LoseReply
    <3>1. back # <<>> /\ back' = Tail(back) /\ UNCHANGED <<packets, wire>>
      BY <2>10 DEF LoseReply
    <3> QED
      BY <2>1, <2>3, <3>1, LostFewer, GapOthers DEF Fewer
  <2>11. CASE LinkDown
    <3>1. back' = <<>> /\ packets' = packets /\ wire' = <<>>
      BY <2>11 DEF LinkDown
    <3>2. \A i \in 1 .. Len(wire') : FALSE
      <4>1. Len(wire') = 0
        BY <3>1
      <4> QED
        BY <4>1
    <3>3. OwnOrder' /\ NoneSent'
      BY <2>1, <2>2, <3>2 DEF OwnOrder, NoneSent, Own, Total
    <3> QED
      BY <2>1, <3>1, <3>3, LostFewer, GapOthers DEF Fewer
  <2> QED
    BY <1>3, <2>5, <2>6, <2>7, <2>8, <2>9, <2>10, <2>11 DEF Next, Deadline, PrintLabel, vars
<1> QED
  BY <1>1, <1>2, <1>3

\* A session begins with nothing carried out.
LEMMA GapInit == Init => GapInv
<1> SUFFICES ASSUME Init PROVE GapInv
  OBVIOUS
<1>1. Total \in Nat
  BY OwnShape DEF Init
<1>2. Len(wire) = 0 /\ Len(packets) = 0 /\ Len(back) = 0 /\ Len(executed) = 0 /\ executed = <<>> /\ phase = "probe"
  BY DEF Init
<1>3. NoneSent /\ NoneDone /\ OwnOrder
  BY <1>1, <1>2 DEF NoneSent, NoneDone, OwnOrder
<1> QED
  BY <1>2, <1>3 DEF GapInv, Printing, Finished

\* Whatever is lost, late or refused, the printer carries out a gap-free prefix of its
\* own task, each command once: for any number of copies, which is any length of task.
THEOREM GapFreeHolds == Spec => []GapFree
<1>1. TypeInv /\ GapInv => GapFree
  <2> SUFFICES ASSUME TypeInv, GapInv PROVE IsPrefix(executed, Own)
    BY DEF GapFree, Own
  <2>1. /\ Len(executed) <= Total /\ \A i \in 1 .. Len(executed) : executed[i] = Own[i]
    BY DEF GapInv, OwnOrder
  <2>2. Own \in Seq(Commands) /\ Total \in Nat /\ Len(Own) \in {Total + 1, Total + 2}
    BY OwnShape DEF TypeInv, TypeOK, TaskShape
  <2>3. executed \in Seq(Commands) /\ Len(executed) \in Nat
    BY LenProperties DEF TypeInv, TypeOK, Commands
  <2>4. Len(executed) <= Len(Own)
    BY <2>1, <2>2, <2>3
  <2>5. SubSeq(executed, 1, Len(executed)) = SubSeq(Own, 1, Len(executed))
    BY <2>1, <2>2, <2>3, <2>4
  <2> QED
    BY <2>4, <2>5 DEF IsPrefix
<1> QED
  BY <1>1, TypeInit, TypeStep, GapInit, GapStep, PTL DEF Spec

-----------------------------------------------------------------------------
(* Success is real *)

\* identify: the model is known once the type was answered, the ID once the serial
\* number was, or was given up; no other session returns after its queries alone.
Known ==
  /\ session = "identify" => phase = "probe"
  /\ session = "identify" /\ err = "none" /\ Len(todo) <= 2 => task = Speaks(type)
  /\ session = "identify" /\ err = "none" /\ Len(todo) <= 1 => id # "none"
  /\ phase = "probe" /\ pc = "returned" /\ session # "identify" => err # "none"

\* The next query of identify.
LEMMA KnownNext ==
  ASSUME TypeInv, Known, AsksNext, UNCHANGED <<session, type>>, session = "identify"
  PROVE  Known'
<1>1. /\ phase' = "probe" /\ err' = err /\ err = "none" /\ todo' = Tail(todo) /\ Asking
      /\ task' = IF Head(todo) = "type" THEN Speaks(type) ELSE task
      /\ IF Head(todo) = "serial" THEN id' \in {"serial", "address"} ELSE id' = id
  BY DEF AsksNext, TypeInv, Standing
<1>2. CASE todo = <<"heartbeat", "type", "serial", "rfid">>
  <2>1. Len(todo') = 3
    BY <1>1, <1>2
  <2>2. ~ (Len(todo') <= 2) /\ ~ (Len(todo') <= 1)
    BY <2>1
  <2> QED
    BY <1>1, <2>2, Zenon DEF Known
<1>3. CASE todo = <<"type", "serial", "rfid">>
  <2>1. Len(todo') = 2 /\ task' = Speaks(type)
    BY <1>1, <1>3
  <2> QED
    BY <1>1, <2>1 DEF Known
<1>4. CASE todo = <<"serial", "rfid">>
  <2>1. Len(todo) = 2 /\ Head(todo) = "serial"
    BY <1>4
  <2>2. task' = task /\ id' # "none" /\ task = Speaks(type)
    BY <1>1, <2>1 DEF Known
  <2> QED
    BY <1>1, <2>2 DEF Known
<1>5. CASE todo = <<"rfid">>
  <2>1. Len(todo) = 1 /\ Head(todo) = "rfid"
    BY <1>5
  <2>2. task' = task /\ id' = id /\ task = Speaks(type) /\ id # "none"
    BY <1>1, <2>1 DEF Known
  <2> QED
    BY <1>1, <2>2 DEF Known
<1> QED
  BY <1>1, <1>2, <1>3, <1>4, <1>5 DEF Asking

\* Every step keeps it so.
LEMMA KnownStep == TypeInv /\ Known /\ [Next]_vars => Known'
<1> SUFFICES ASSUME TypeInv, Known, [Next]_vars PROVE Known'
  OBVIOUS
<1>1. CASE UNCHANGED <<session, type, task, id, todo, phase, err>> /\ (pc' = pc \/ pc' # "returned")
  BY <1>1 DEF Known
<1>2. CASE ClientStep /\ Moves
  <2>a. UNCHANGED <<session, type>>
    BY <1>2, ClientMoves DEF Elsewhere
  <2>1. CASE Stays
    BY <1>1, <2>1, <2>a DEF Stays
  <2>2. CASE GivesUp
    BY <2>2, <2>a DEF GivesUp, Known, Errs
  <2>3. CASE AsksNext /\ session = "identify"
    BY <2>3, <2>a, KnownNext
  <2>4. CASE AsksNext /\ session # "identify"
    <3>1. todo = <<"heartbeat", "type">> /\ pc' = (IF Len(todo) = 1 THEN "returned" ELSE "ready")
      BY <2>4 DEF AsksNext
    <3>2. pc' = "ready"
      BY <3>1
    <3> QED
      BY <2>4, <2>a, <3>2 DEF Known
  <2>5. CASE Begins
    BY <2>5, <2>a DEF Begins, Known
  <2>6. CASE Proceeds \/ Resets \/ Refuses
    <3>1. session # "identify" /\ phase' # "probe"
      BY <2>6 DEF Proceeds, Resets, Refuses, Printing, TypeInv, Standing
    <3> QED
      BY <2>a, <3>1 DEF Known
  <2>7. CASE Unwinds
    <3>1. session # "identify" /\ phase' # "probe"
      BY <2>7 DEF Unwinds, Known
    <3> QED
      BY <2>a, <3>1 DEF Known
  <2> QED
    BY <1>2, <2>1, <2>2, <2>3, <2>4, <2>5, <2>6, <2>7 DEF Moves
<1>3. CASE ~ ClientStep
  BY <1>1, <1>3 DEF Next, ReadLoop, Deadline, PrinterExec, PrinterRefuse, PrintLabel, PrinterFault,
              LoseCommand, LoseReply, LinkDown, sessionVars, clientVars, vars
<1>4. CASE Send
  BY <1>1, <1>4 DEF Send, sessionVars
<1> QED
  BY <1>2, <1>3, <1>4, ClientMoves DEF Moves

\* What the printer keeps after the first e commands of its task.
Ledger(e) ==
  /\ e < 3 => due = 0 /\ quantity = 1 /\ job = "idle"
  /\ e >= 3 =>
     CASE Speaks(type) = "B1"    -> /\ quantity = IF e < 5 THEN 1 ELSE Copies
                                    /\ due = IF e < 6 THEN 0 ELSE Copies
       [] Speaks(type) = "D110"  -> /\ quantity = IF e < 7 THEN 1 ELSE Copies
                                    /\ due = IF e < 8 THEN 0 ELSE Copies
       [] Speaks(type) = "B21V1" -> /\ quantity = 1
                                    /\ e \in {3 + 3 * due, 4 + 3 * due, 5 + 3 * due}

\* A task carried out whole makes the copies that were asked for.
LEMMA LedgerTotal ==
  ASSUME TypeInv, Ledger(Total)
  PROVE  due = Copies
<1>1. due \in Nat /\ Copies \in Nat /\ Speaks(type) \in TaskNames
  BY ClientAssumption, OwnShape DEF TypeInv, TypeOK
<1>2. CASE Speaks(type) = "B1"
  BY <1>2 DEF Ledger, Total, Prelude
<1>3. CASE Speaks(type) = "D110"
  BY <1>3 DEF Ledger, Total, Prelude
<1>4. CASE Speaks(type) = "B21V1"
  <2>1. Total = 3 + 3 * Copies
    BY <1>4 DEF Total, Prelude
  <2>2. Total \in {3 + 3 * due, 4 + 3 * due, 5 + 3 * due}
    BY <1>1, <1>4, <2>1 DEF Ledger
  <2> QED
    BY <1>1, <2>1, <2>2
<1> QED
  BY <1>1, <1>2, <1>3, <1>4 DEF TaskNames

\* The printer carries out the next command of its task.
LEMMA LedgerNext ==
  ASSUME TypeInv, NEW e \in Nat, e < Total, NEW c, c = Own[e + 1], Effect(c), Ledger(e), type' = type
  PROVE  Ledger(e + 1)'
<1>a. /\ due \in Nat /\ quantity \in Nat /\ Copies \in Nat /\ Speaks(type) \in TaskNames /\ Copies >= 1
      /\ Own[1] = "density" /\ Own[2] = "labelType" /\ Own[3] = "start"
  BY ClientAssumption, OwnShape DEF TypeInv, TypeOK, TaskShape
<1>b. c \in {"density", "labelType", "clear", "pageStart"} => UNCHANGED <<job, quantity, due>>
  BY DEF Effect
<1>c. c = "start" => job' = "open" /\ quantity' = 1 /\ due' = 0
  BY DEF Effect
<1>d. c = "pageEnd" => quantity' = quantity /\ due' = due + quantity
  BY DEF Effect
<1>e. c = "pageSize" => due' = due /\ quantity' = IF Speaks(type) = "B1" THEN Copies ELSE quantity
  BY DEF Effect
<1>f. c = "quantity" => due' = due /\ quantity' = Copies
  BY DEF Effect
<1>g. (Speaks(type))' = Speaks(type)
  BY DEF Speaks
<1>1. CASE e < 3
  <2>1. due = 0 /\ quantity = 1 /\ job = "idle"
    BY <1>1 DEF Ledger
  <2>2. CASE e = 2
    <3>1. c = "start"
      BY <1>a, <2>2
    <3>2. due' = 0 /\ quantity' = 1
      BY <1>c, <3>1
    <3>3. e + 1 = 3
      BY <2>2
    <3>4. CASE Speaks(type) = "B1"
      BY <1>g, <3>2, <3>3, <3>4 DEF Ledger
    <3>5. CASE Speaks(type) = "D110"
      BY <1>g, <3>2, <3>3, <3>5 DEF Ledger
    <3>6. CASE Speaks(type) = "B21V1"
      BY <1>g, <3>2, <3>3, <3>6 DEF Ledger
    <3> QED
      BY <1>a, <3>4, <3>5, <3>6 DEF TaskNames
  <2>3. CASE e \in {0, 1}
    <3>1. c \in {"density", "labelType"}
      BY <1>a, <2>3
    <3>2. UNCHANGED <<job, quantity, due>>
      BY <1>b, <3>1
    <3>3. ~ (e + 1 >= 3)
      BY <2>3
    <3> QED
      BY <2>1, <3>2, <3>3, Zenon DEF Ledger
  <2> QED
    BY <1>1, <2>2, <2>3
<1>2. CASE e >= 3 /\ Speaks(type) = "B1"
  <2>1. Total = 6 /\ Own[4] = "pageStart" /\ Own[5] = "pageSize" /\ Own[6] = "pageEnd"
    BY <1>2, ShapeB1 DEF Total, Prelude, Own
  <2>2. quantity = (IF e < 5 THEN 1 ELSE Copies) /\ due = (IF e < 6 THEN 0 ELSE Copies)
    BY <1>2 DEF Ledger
  <2>3. e \in {3, 4, 5}
    BY <1>2, <2>1
  <2>4. CASE e = 3
    BY <1>2, <1>b, <1>g, <2>1, <2>2, <2>4 DEF Ledger
  <2>5. CASE e = 4
    BY <1>2, <1>e, <1>g, <2>1, <2>2, <2>5 DEF Ledger
  <2>6. CASE e = 5
    BY <1>2, <1>a, <1>d, <1>g, <2>1, <2>2, <2>6 DEF Ledger
  <2> QED
    BY <2>3, <2>4, <2>5, <2>6
<1>3. CASE e >= 3 /\ Speaks(type) = "D110"
  <2>1. /\ Total = 8 /\ Own[4] = "clear" /\ Own[5] = "pageStart" /\ Own[6] = "pageSize" /\ Own[7] = "quantity"
        /\ Own[8] = "pageEnd"
    BY <1>3, ShapeD110 DEF Total, Prelude, Own
  <2>2. quantity = (IF e < 7 THEN 1 ELSE Copies) /\ due = (IF e < 8 THEN 0 ELSE Copies)
    BY <1>3 DEF Ledger
  <2>3. e \in {3, 4, 5, 6, 7}
    BY <1>3, <2>1
  <2>4. CASE e \in {3, 4}
    BY <1>3, <1>b, <1>g, <2>1, <2>2, <2>4 DEF Ledger
  <2>5. CASE e = 5
    BY <1>3, <1>e, <1>g, <2>1, <2>2, <2>5 DEF Ledger
  <2>6. CASE e = 6
    BY <1>3, <1>f, <1>g, <2>1, <2>2, <2>6 DEF Ledger
  <2>7. CASE e = 7
    BY <1>3, <1>a, <1>d, <1>g, <2>1, <2>2, <2>7 DEF Ledger
  <2> QED
    BY <2>3, <2>4, <2>5, <2>6, <2>7
<1>4. CASE e >= 3 /\ Speaks(type) = "B21V1"
  <2>1. /\ Total = 3 + 3 * Copies
        /\ \A p \in 0 .. Copies - 1 :
             /\ Own[4 + 3 * p] = "pageStart" /\ Own[5 + 3 * p] = "pageSize"
             /\ Own[6 + 3 * p] = "pageEnd"
    BY <1>4, ShapeB21 DEF Total, Prelude, Own
  <2>2. quantity = 1 /\ e \in {3 + 3 * due, 4 + 3 * due, 5 + 3 * due}
    BY <1>4 DEF Ledger
  <2>3. due \in 0 .. Copies - 1
    BY <1>a, <2>1, <2>2
  <2>4. /\ Own[4 + 3 * due] = "pageStart" /\ Own[5 + 3 * due] = "pageSize"
        /\ Own[6 + 3 * due] = "pageEnd"
    BY <2>1, <2>3
  <2>5. CASE e = 3 + 3 * due
    <3>1. e + 1 = 4 + 3 * due
      BY <1>a, <2>5
    <3>2. UNCHANGED <<quantity, due>>
      BY <1>b, <2>4, <3>1
    <3>3. e + 1 \in {3 + 3 * due', 4 + 3 * due', 5 + 3 * due'} /\ quantity' = 1
      BY <2>2, <3>1, <3>2
    <3> QED
      BY <1>4, <1>g, <3>3 DEF Ledger
  <2>6. CASE e = 4 + 3 * due
    <3>1. e + 1 = 5 + 3 * due
      BY <1>a, <2>6
    <3>2. UNCHANGED <<quantity, due>>
      BY <1>4, <1>e, <2>4, <3>1
    <3>3. e + 1 \in {3 + 3 * due', 4 + 3 * due', 5 + 3 * due'} /\ quantity' = 1
      BY <2>2, <3>1, <3>2
    <3> QED
      BY <1>4, <1>g, <3>3 DEF Ledger
  <2>7. CASE e = 5 + 3 * due
    <3>1. e + 1 = 6 + 3 * due
      BY <1>a, <2>7
    <3>2. quantity' = 1 /\ due' = due + 1
      BY <1>d, <2>2, <2>4, <3>1
    <3>3. e + 1 = 3 + 3 * due'
      BY <1>a, <3>1, <3>2
    <3> QED
      BY <1>4, <1>g, <3>2, <3>3 DEF Ledger
  <2> QED
    BY <2>2, <2>5, <2>6, <2>7
<1> QED
  BY <1>1, <1>2, <1>3, <1>4, <1>a DEF TaskNames

Asked == On("status") \/ On("end") \/ On("endPoll")
Heard == \E n \in Nat : Told("status", n) \/ Told("end", n)

\* Behind the pages: a status reply does not promise labels that are not printed, a
\* PrintEnd reply tells of an end only when the job has ended, and the last request is
\* made when every copy is printed.
Honest ==
  /\ \A n \in Nat : Told("status", n) => n <= printed
  /\ \A n \in Nat : Told("end", n) => n = 0 \/ (job = "idle" /\ printed = due)
  /\ Head(todo) = "status" => ~ On("end") /\ ~ On("endPoll") /\ \A n \in Nat : ~ Told("end", n)
  /\ Head(todo) = "end" => printed = Copies /\ ~ Told("end", 0)

DoneInv ==
  /\ printed <= due
  /\ phase # "reset" => Ledger(Len(executed)) /\ ~ On("cancel")
  /\ phase = "probe" \/ (Printing /\ At <= Total) => ~ Asked /\ ~ Heard
  /\ Printing /\ At > Total => Honest
  /\ Finished => printed = Copies /\ job = "idle"

\* The link loses or delivers; the printer refuses or stops.
LEMMA DoneOthers ==
  ASSUME TypeInv, DoneInv, UNCHANGED <<session, type, clientVars, job, quantity, due, printed, executed>>,
         \A c : On(c)' => On(c), \A c, n : Told(c, n)' => Told(c, n)
  PROVE  DoneInv'
<1>1. /\ At' = At /\ Total' = Total /\ (Printing' <=> Printing) /\ (Finished' <=> Finished)
      /\ UNCHANGED <<phase, todo>>
  BY OthersStand DEF clientVars
<1>2. Ledger(Len(executed))' <=> Ledger(Len(executed))
  BY DEF Ledger, Speaks
<1>3. (~ Asked => ~ Asked') /\ (~ Heard => ~ Heard') /\ (~ On("cancel") => ~ On("cancel")')
  BY DEF Asked, Heard
<1>4. Honest => Honest'
  BY <1>1 DEF Honest
<1> QED
  BY <1>1, <1>2, <1>3, <1>4 DEF DoneInv

\* A send puts the current request on the wire.
LEMMA SentOn ==
  ASSUME TypeInv, Written, todo # <<>>
  PROVE  \A c : On(c)' => On(c) \/ c = Head(todo) \/ c = "rows"
<1>1. /\ Len(wire') = Len(wire) + (IF Head(todo) = "pageEnd" THEN 2 ELSE 1) /\ Len(wire) \in Nat
      /\ \A i \in 1 .. Len(wire) : wire'[i].cmd = wire[i].cmd
      /\ wire'[Len(wire')].cmd = Head(todo)
      /\ Head(todo) = "pageEnd" => wire'[Len(wire) + 1].cmd = "rows"
  BY WrittenEffect, LenProperties DEF TypeInv, TypeOK
<1>2. \A i \in 1 .. Len(wire') : \/ i \in 1 .. Len(wire) /\ wire'[i].cmd = wire[i].cmd
                                 \/ wire'[i].cmd = Head(todo)
                                 \/ wire'[i].cmd = "rows"
  BY <1>1
<1> QED
  BY <1>2 DEF On

\* A command leaves the wire.
LEMMA TakenOn ==
  ASSUME TypeInv, wire # <<>>, wire' = Tail(wire)
  PROVE  (\A c : On(c)' => On(c)) /\ On(Head(wire).cmd)
<1>1. /\ Len(wire) \in Nat /\ Len(wire) >= 1 /\ Head(wire) = wire[1] /\ Len(wire') = Len(wire) - 1
      /\ \A i \in 1 .. Len(wire) - 1 : wire'[i] = wire[i + 1]
  BY TailEffect DEF TypeInv, TypeOK
<1>2. \A i \in 1 .. Len(wire') : i + 1 \in 1 .. Len(wire) /\ wire'[i] = wire[i + 1]
  BY <1>1
<1>3. 1 \in 1 .. Len(wire)
  BY <1>1
<1> QED
  BY <1>1, <1>2, <1>3 DEF On

\* Once a print has sent its pages, its task is carried out whole: all copies are due.
LEMMA AllDue ==
  ASSUME TypeInv, GapInv, DoneInv, Printing, At > Total
  PROVE  due = Copies /\ NoneSent /\ ~ On("cancel")
<1>1. Len(executed) = Total /\ NoneSent /\ phase # "reset"
  BY DEF GapInv, Printing
<1>2. Ledger(Total) /\ ~ On("cancel")
  BY <1>1 DEF DoneInv
<1> QED
  BY <1>1, <1>2, LedgerTotal

\* The printer takes a command.
LEMMA DoneExec ==
  ASSUME TypeInv, GapInv, DoneInv, PrinterExec
  PROVE  DoneInv'
<1> DEFINE h == Head(wire).cmd
           c == Plain(h)
<1>a. /\ wire # <<>> /\ wire' = Tail(wire) /\ Effect(c) /\ packets' = packets
      /\ UNCHANGED <<session, type, clientVars>>
  BY DEF PrinterExec, sessionVars
<1>b. Head(wire) = wire[1] /\ Head(wire).mine \in BOOLEAN /\ c \in Commands /\ Answer(c) \in Nat
  BY <1>a, HeadOrder
<1>c. (\A x : On(x)' => On(x)) /\ On(h)
  BY <1>a, TakenOn
<1>d. /\ At' = At /\ Total' = Total /\ (Printing' <=> Printing) /\ (Finished' <=> Finished)
      /\ UNCHANGED <<phase, todo, pc>>
  BY <1>a, OthersStand DEF clientVars
<1>e. \A x, n : Told(x, n)' => Told(x, n) \/ (x = c /\ n = Answer(c))
  <2>1. PICK k \in {"ok", "error"} : back' = back \/ back' = Append(back, Reply(k, c, Head(wire).mine, Answer(c)))
    BY DEF PrinterExec
  <2> DEFINE r == Reply(k, c, Head(wire).mine, Answer(c))
  <2>2. r \in Packet /\ r.cmd = c /\ r.n = Answer(c)
    BY <1>b, ReplyType DEF Reply
  <2> HIDE DEF r
  <2>3. CASE back' = back
    BY <1>a, <2>3 DEF Told
  <2>4. CASE back' = Append(back, r)
    <3>1. \A x, n : Told(x, n)' => Told(x, n) \/ Says(r, x, n)
      BY <1>a, <2>2, <2>4, Replied
    <3> QED
      BY <2>2, <3>1 DEF Says
  <2> QED
    BY <2>1, <2>3, <2>4 DEF r
<1>f. /\ printed \in Nat /\ due \in Nat /\ quantity \in Nat /\ Copies \in Nat /\ printed <= due
      /\ executed \in Seq(Setup) /\ Len(executed) \in Nat
  BY ClientAssumption, LenProperties DEF TypeInv, TypeOK, DoneInv
<1>g. (c \in Setup => c = h) /\ (c \notin Setup => h \notin Setup) /\ (c = "cancel" => h = "cancel")
      /\ (c = "status" => h = "status") /\ (c = "end" => h \in {"end", "endPoll"})
  BY DEF Plain, Setup
<1>h. c \notin Setup => c \notin {"start", "pageSize", "quantity", "pageEnd"}
  BY DEF Setup
<1>i. executed' = IF c \in Setup THEN Append(executed, c) ELSE executed
  BY <1>a DEF Effect
<1>j. ASSUME c \notin Setup, c # "cancel"
      PROVE  UNCHANGED <<due, quantity, printed>> /\ job' \in {job, "idle"} /\ executed' = executed
  BY <1>a, <1>h, <1>i, <1>j DEF Effect
<1>k. c = "end" /\ printed >= due => job' = "idle"
  BY <1>a DEF Effect
<1>1. printed' <= due'
  <2>1. CASE c = "start"
    BY <1>a, <2>1 DEF Effect
  <2>2. CASE c = "pageEnd"
    <3>1. printed' = printed /\ due' = due + quantity
      BY <1>a, <2>2 DEF Effect
    <3> QED
      BY <1>f, <3>1
  <2>3. CASE c = "cancel"
    <3>1. printed' = printed /\ due' = printed
      BY <1>a, <2>3 DEF Effect
    <3> QED
      BY <1>f, <3>1
  <2>4. CASE c \notin {"start", "pageEnd", "cancel"}
    <3>1. printed' = printed /\ due' = due
      BY <1>a, <2>4 DEF Effect
    <3> QED
      BY <1>f, <3>1
  <2> QED
    BY <2>1, <2>2, <2>3, <2>4
<1>l. On("cancel") \/ c # "cancel"
  BY <1>c, <1>g
<1>m. NoneSent => c \notin Setup
  <2>1. 1 \in 1 .. Len(wire)
    <3>1. Len(wire) \in Nat /\ Len(wire) >= 1
      BY <1>a, TailEffect DEF TypeInv, TypeOK
    <3> QED
      BY <3>1
  <2> QED
    BY <1>b, <1>g, <2>1 DEF NoneSent
<1> HIDE DEF h, c
<1>2. ASSUME phase # "reset" PROVE Ledger(Len(executed))' /\ ~ On("cancel")'
  <2>1. Ledger(Len(executed)) /\ ~ On("cancel")
    BY <1>2 DEF DoneInv
  <2>2. CASE c \in Setup
    <3>1. Len(executed) < Total /\ c = Own[Len(executed) + 1]
      <4>1. 1 \in 1 .. Len(wire) /\ wire[1].cmd = c
        <5>1. Len(wire) \in Nat /\ Len(wire) >= 1
          BY <1>a, TailEffect DEF TypeInv, TypeOK
        <5> QED
          BY <1>b, <1>g, <2>2, <5>1 DEF h
      <4> QED
        BY <2>2, <4>1 DEF GapInv, OwnOrder
    <3>2. Len(executed') = Len(executed) + 1
      BY <1>f, <1>i, <2>2, AppendEffect
    <3>3. ASSUME NEW e \in Nat, e = Len(executed) PROVE Ledger(e + 1)'
      BY <1>a, <2>1, <3>1, <3>3, LedgerNext
    <3>4. PICK e \in Nat : e = Len(executed)
      BY <1>f
    <3>5. Ledger(e + 1)' /\ Len(executed') = e + 1
      BY <3>2, <3>3, <3>4
    <3>6. Ledger(Len(executed))'
      BY <3>5 DEF Ledger
    <3> QED
      BY <1>c, <2>1, <3>6
  <2>3. CASE c \notin Setup
    <3>1. UNCHANGED <<due, quantity>> /\ job' \in {job, "idle"} /\ executed' = executed
      BY <1>j, <1>l, <2>1, <2>3
    <3>2. Ledger(Len(executed))'
      BY <1>a, <2>1, <3>1 DEF Ledger, Speaks
    <3> QED
      BY <1>c, <2>1, <3>2
  <2> QED
    BY <2>2, <2>3
<1>3. ASSUME ~ Asked, ~ Heard PROVE ~ Asked' /\ ~ Heard'
  <2>1. ~ Asked'
    BY <1>3, <1>c DEF Asked
  <2>2. c # "status" /\ c # "end"
    BY <1>3, <1>c, <1>g DEF Asked
  <2>3. ~ Heard'
    BY <1>3, <1>e, <2>2 DEF Heard
  <2> QED
    BY <2>1, <2>3
<1>4. ASSUME Printing, At > Total PROVE Honest'
  <2>1. due = Copies /\ NoneSent /\ ~ On("cancel")
    BY <1>4, AllDue
  <2>2. Honest
    BY <1>4 DEF DoneInv
  <2>3. c \notin Setup /\ c # "cancel"
    BY <1>l, <1>m, <2>1
  <2>4. UNCHANGED <<due, printed>> /\ job' \in {job, "idle"}
    BY <1>j, <2>3
  <2>5. c = "status" => Answer(c) = printed
    BY DEF Answer
  <2>6. c = "end" => Answer(c) = IF printed >= due THEN 1 ELSE 0
    BY DEF Answer
  <2>7. \A n \in Nat : Told("status", n)' => n <= printed'
    BY <1>e, <1>f, <2>2, <2>4, <2>5 DEF Honest
  <2>8. ASSUME NEW n \in Nat, Told("end", n)' PROVE n = 0 \/ (job' = "idle" /\ printed' = due')
    <3>1. CASE Told("end", n)
      BY <2>2, <2>4, <3>1 DEF Honest
    <3>2. CASE c = "end" /\ n = Answer(c)
      BY <1>f, <1>k, <2>4, <2>6, <3>2
    <3> QED
      BY <1>e, <2>8, <3>1, <3>2
  <2>9. ASSUME Head(todo) = "status"
        PROVE  ~ On("end")' /\ ~ On("endPoll")' /\ \A n \in Nat : ~ Told("end", n)'
    <3>1. c # "end"
      BY <1>c, <1>g, <2>2, <2>9 DEF Honest
    <3> QED
      BY <1>c, <1>e, <2>2, <2>9, <3>1 DEF Honest
  <2>10. ASSUME Head(todo) = "end" PROVE printed' = Copies /\ ~ Told("end", 0)'
    <3>1. printed = Copies /\ ~ Told("end", 0)
      BY <2>2, <2>10 DEF Honest
    <3>2. c = "end" => Answer(c) = 1
      BY <1>f, <2>1, <2>6, <3>1
    <3> QED
      BY <1>e, <2>4, <3>1, <3>2
  <2> QED
    BY <1>d, <2>7, <2>8, <2>9, <2>10 DEF Honest
<1>5. ASSUME Finished PROVE printed' = Copies /\ job' = "idle"
  <2>1. NoneSent /\ ~ On("cancel") /\ printed = Copies /\ job = "idle"
    BY <1>5 DEF GapInv, DoneInv, Finished
  <2> QED
    BY <1>j, <1>l, <1>m, <2>1
<1> QED
  BY <1>d, <1>1, <1>2, <1>3, <1>4, <1>5 DEF DoneInv

\* The answer to a request behind the pages.
LEMMA Concluded ==
  ASSUME TypeInv, GapInv, DoneInv, Proceeds, Kept, UNCHANGED <<type, job, quantity, due, printed, executed>>, At > Total
  PROVE  (pc' # "returned" => Honest') /\ (pc' = "returned" => printed = Copies /\ job = "idle")
<1>a. /\ At \in 1 .. Len(Own) /\ Len(Own) \in Nat /\ Total \in Nat /\ At' = At + 1 /\ phase' = "print"
      /\ (pc' = "ready" /\ At < Len(Own)) \/ (pc' = "returned" /\ At = Len(Own))
  BY ProceedsOn
<1>b. /\ Printing /\ packets # <<>> /\ packets \in Seq(Packet) /\ Answers(Head(packets)) /\ todo' = Tail(todo)
  BY DEF Proceeds, TypeInv, TypeOK
<1>c. Honest /\ due = Copies
  BY <1>b, AllDue DEF DoneInv
<1>d. printed \in Nat /\ Copies \in Nat /\ printed <= due
  BY ClientAssumption DEF TypeInv, TypeOK, DoneInv
<1>e. Head(todo) = Own[At] /\ todo # <<>> /\ todo \in Seq(Commands) /\ Len(Own) - At = Len(todo) - 1
  BY <1>b, HeadOwn DEF TypeInv, TypeOK
<1>f. PICK p \in Packet : p = Head(packets) /\ Told(p.cmd, p.n) /\ p.n \in Nat
  <2>1. Len(packets) \in Nat /\ Len(packets) >= 1 /\ Head(packets) = packets[1] /\ Head(packets) \in Packet
    BY <1>b, TailEffect
  <2>2. 1 \in 1 .. Len(packets) /\ Says(packets[1], Head(packets).cmd, Head(packets).n)
    BY <1>b, <2>1 DEF Says, Answers
  <2>3. Head(packets).n \in Nat
    BY <2>1 DEF Packet
  <2> QED
    BY <2>1, <2>2, <2>3 DEF Told
<1>g. \A c, n : Told(c, n)' => Told(c, n)
  BY KeptFewer DEF Fewer
<1>h. \/ At = Total + 1 /\ Len(Own) = Total + 1 /\ Head(todo) = "endPoll"
      \/ At = Total + 1 /\ Len(Own) = Total + 2 /\ Head(todo) = "status" /\ Own[Total + 2] = "end"
      \/ At = Total + 2 /\ Len(Own) = Total + 2 /\ Head(todo) = "end"
  <2>1. /\ Len(Own) \in {Total + 1, Total + 2}
        /\ Len(Own) = Total + 1 => Own[Total + 1] = "endPoll"
        /\ Len(Own) = Total + 2 => Own[Total + 1] = "status" /\ Own[Total + 2] = "end"
    BY OwnShape DEF TypeInv, TypeOK, TaskShape
  <2>2. At = Total + 1 \/ (At = Total + 2 /\ Len(Own) = Total + 2)
    BY <1>a, <2>1
  <2> QED
    BY <1>e, <2>1, <2>2
<1>1. CASE At = Total + 1 /\ Len(Own) = Total + 1 /\ Head(todo) = "endPoll"
  <2>1. pc' = "returned"
    BY <1>1, <1>a
  <2>2. p.cmd = "end" /\ p.n # 0
    BY <1>1, <1>b, <1>f DEF Answers, Plain
  <2>3. job = "idle" /\ printed = due
    BY <1>c, <1>f, <2>2 DEF Honest
  <2> QED
    BY <1>c, <2>1, <2>3
<1>2. CASE At = Total + 1 /\ Len(Own) = Total + 2 /\ Head(todo) = "status" /\ Own[Total + 2] = "end"
  <2>1. pc' = "ready"
    BY <1>2, <1>a
  <2>2. p.cmd = "status" /\ p.n >= Copies
    BY <1>2, <1>b, <1>f DEF Answers, Plain
  <2>3. p.n <= printed
    BY <1>c, <1>f, <2>2 DEF Honest
  <2>4. printed = Copies
    BY <1>c, <1>d, <1>f, <2>2, <2>3
  <2>5. ~ On("end") /\ ~ On("endPoll") /\ \A n \in Nat : ~ Told("end", n)
    BY <1>2, <1>c DEF Honest
  <2>6. \A n \in Nat : ~ Told("end", n)'
    BY <1>g, <2>5
  <2>7. Head(todo') = "end"
    <3>1. Len(todo) = 2 /\ Len(todo') = 1 /\ todo'[1] = todo[2] /\ todo' \in Seq(Commands) /\ todo' # <<>>
      <4>1. Len(todo) = 2
        BY <1>2, <1>a, <1>e
      <4>2. todo' \in Seq(Commands) /\ Len(todo') = Len(todo) - 1 /\ \A i \in 1 .. Len(todo) - 1 : todo'[i] = todo[i + 1]
        BY <1>b, <1>e, TailEffect
      <4> QED
        BY <4>1, <4>2
    <3>2. Head(todo') = todo'[1]
      BY <3>1, TailEffect
    <3>3. todo[2] = Own[At + 2 - 1]
      BY <1>b, <3>1 DEF TypeInv, Standing
    <3>4. At + 2 - 1 = Total + 2
      BY <1>2, <1>a
    <3> QED
      BY <1>2, <3>1, <3>2, <3>3, <3>4
  <2>8. \A n \in Nat : Told("status", n)' => n <= printed
    BY <1>c, <1>g DEF Honest
  <2>9. ~ Told("end", 0)'
    BY <2>6
  <2> QED
    BY <2>1, <2>4, <2>6, <2>7, <2>8, <2>9 DEF Honest
<1>3. CASE At = Total + 2 /\ Len(Own) = Total + 2 /\ Head(todo) = "end"
  <2>1. pc' = "returned"
    BY <1>3, <1>a
  <2>2. p.cmd = "end"
    BY <1>3, <1>b, <1>f DEF Answers, Plain
  <2>3. printed = Copies /\ p.n # 0
    BY <1>3, <1>c, <1>f, <2>2 DEF Honest
  <2>4. job = "idle"
    BY <1>c, <1>f, <2>2, <2>3 DEF Honest
  <2> QED
    BY <2>1, <2>3, <2>4
<1> QED
  BY <1>h, <1>1, <1>2, <1>3

\* A move of the client that sends nothing.
LEMMA DoneMoves ==
  ASSUME TypeInv, GapInv, DoneInv, Moves, Kept, UNCHANGED <<type, job, quantity, due, printed, executed>>
  PROVE  DoneInv'
<1>a. Own' = Own /\ Total' = Total /\ \A c : On(c)' <=> On(c)
  BY DEF Own, Total, On, Kept
<1>b. \A c, n : Told(c, n)' => Told(c, n)
  BY KeptFewer DEF Fewer
<1>c. Total \in Nat /\ Len(Own) \in Nat /\ Total >= 6
  BY OwnShape DEF TypeInv, TypeOK
<1>d. Ledger(Len(executed))' <=> Ledger(Len(executed))
  BY DEF Ledger, Speaks
<1>e. (~ Asked => ~ Asked') /\ (~ Heard => ~ Heard') /\ (~ On("cancel") => ~ On("cancel")')
  BY <1>a, <1>b DEF Asked, Heard
<1>f. phase # "reset" => Ledger(Len(executed))' /\ ~ On("cancel")'
  BY <1>d, <1>e DEF DoneInv
<1>g. printed' <= due'
  BY DEF DoneInv
<1>1. CASE Stays
  <2>1. At' = At /\ (Printing' <=> Printing) /\ ~ Finished' /\ UNCHANGED <<phase, todo>>
    BY <1>1, <1>a DEF Stays, At, Printing, Finished
  <2>2. Honest => Honest'
    BY <1>a, <1>b, <2>1 DEF Honest
  <2> QED
    BY <1>a, <1>e, <1>f, <1>g, <2>1, <2>2 DEF DoneInv
<1>2. CASE GivesUp \/ AsksNext
  <2>1. phase = "probe" /\ phase' = "probe"
    BY <1>2 DEF GivesUp, AsksNext
  <2> QED
    BY <1>e, <1>f, <1>g, <2>1 DEF DoneInv, Printing, Finished
<1>3. CASE Begins
  <2>1. phase = "probe" /\ phase' = "print" /\ pc' = "ready" /\ todo' = Own
    BY <1>3 DEF Begins
  <2>2. At' = 1
    BY <1>a, <1>c, <2>1 DEF At
  <2>3. ~ (At' > Total') /\ ~ Finished'
    BY <1>a, <1>c, <2>1, <2>2 DEF Finished
  <2> QED
    BY <1>e, <1>f, <1>g, <2>1, <2>3 DEF DoneInv
<1>4. CASE Proceeds
  <2>1. /\ At \in 1 .. Len(Own) /\ At' = At + 1 /\ phase' = "print" /\ phase = "print"
        /\ (pc' = "ready" /\ At < Len(Own)) \/ (pc' = "returned" /\ At = Len(Own))
    BY <1>4, ProceedsOn
  <2>2. Printing
    BY <1>4 DEF Proceeds
  <2>3. CASE At <= Total
    <3>1. ~ Asked' /\ ~ Heard'
      BY <1>e, <2>2, <2>3 DEF DoneInv
    <3>2. Len(Own) > Total /\ (Own[Total + 1] = "status" \/ Own[Total + 1] = "endPoll")
      BY <1>c, OwnShape DEF TypeInv, TypeOK, TaskShape
    <3>3. pc' = "ready"
      BY <1>c, <2>1, <2>3, <3>2
    <3>4. ASSUME At' > Total PROVE Honest'
      <4>1. At = Total
        BY <1>c, <2>1, <2>3, <3>4
      <4>2. Head(todo') = Own[Total + 1]
        <5>1. todo \in Seq(Commands) /\ todo # <<>> /\ todo' = Tail(todo) /\ Len(Own) - At = Len(todo) - 1 /\ Len(todo) \in Nat
          BY <1>4, <2>2, HeadOwn, LenProperties DEF Proceeds, TypeInv, TypeOK
        <5>2. Len(todo) >= 2
          BY <1>c, <3>2, <4>1, <5>1
        <5>3. todo' \in Seq(Commands) /\ Len(todo') = Len(todo) - 1 /\ \A i \in 1 .. Len(todo) - 1 : todo'[i] = todo[i + 1]
          BY <5>1, TailEffect
        <5>4. todo' # <<>> /\ todo'[1] = todo[2]
          BY <5>1, <5>2, <5>3
        <5>5. Head(todo') = todo'[1]
          BY <5>3, <5>4, TailEffect
        <5>6. todo[2] = Own[At + 2 - 1] /\ At + 2 - 1 = Total + 1
          BY <1>c, <2>2, <4>1, <5>1, <5>2 DEF TypeInv, Standing
        <5> QED
          BY <5>4, <5>5, <5>6
      <4>3. Head(todo') # "end"
        BY <3>2, <4>2
      <4> QED
        BY <3>1, <4>3 DEF Honest, Asked, Heard
    <3> QED
      BY <1>a, <1>f, <1>g, <2>1, <3>1, <3>3, <3>4 DEF DoneInv, Finished
  <2>4. CASE At > Total
    <3>1. (pc' # "returned" => Honest') /\ (pc' = "returned" => printed = Copies /\ job = "idle")
      BY <1>4, <2>4, Concluded
    <3>2. ~ (At' <= Total')
      BY <1>a, <1>c, <2>1, <2>4
    <3> QED
      BY <1>f, <1>g, <2>1, <3>1, <3>2 DEF DoneInv, Printing, Finished
  <2> QED
    BY <1>c, <2>1, <2>3, <2>4
<1>5. CASE Resets \/ Unwinds
  <2>1. phase' = "reset"
    BY <1>5 DEF Resets, Unwinds
  <2> QED
    BY <1>g, <2>1 DEF DoneInv, Printing, Finished
<1>6. CASE Refuses
  <2>1. phase = "print" /\ phase' = "print" /\ pc' = "returned" /\ err' # "none"
    BY <1>6 DEF Refuses, Printing, Errs
  <2> QED
    BY <1>f, <1>g, <2>1 DEF DoneInv, Printing, Finished
<1> QED
  BY <1>1, <1>2, <1>3, <1>4, <1>5, <1>6 DEF Moves

\* What the client may have on the wire.
LEMMA HeadRequest ==
  ASSUME TypeInv, pc # "returned"
  PROVE  /\ phase # "reset" => Head(todo) # "cancel"
         /\ phase = "probe" \/ (Printing /\ At <= Total) => Head(todo) \notin {"status", "end", "endPoll"}
<1>1. CASE phase = "probe"
  <2>1. Asking
    BY <1>1 DEF TypeInv, Standing
  <2>2. Head(todo) \in {"heartbeat", "type", "serial", "rfid"}
    BY <2>1 DEF Asking
  <2> QED
    BY <2>2
<1>2. CASE phase = "print"
  <2>1. /\ At \in 1 .. Len(Own) /\ Head(todo) = Own[At]
        /\ \A i \in 1 .. Len(Own) : Own[i] \in Setup <=> i <= Total
        /\ \A i \in 1 .. Len(Own) : Own[i] \in Setup \cup {"status", "end", "endPoll"}
    BY <1>2, HeadOwn, OwnShape DEF TypeInv, TypeOK, Printing
  <2>2. At <= Total => Head(todo) \in Setup
    BY <2>1
  <2>3. Head(todo) \in Setup \cup {"status", "end", "endPoll"}
    BY <2>1
  <2> QED
    BY <1>2, <2>2, <2>3 DEF Setup
<1>3. CASE phase = "reset"
  BY <1>3 DEF Printing
<1> QED
  BY <1>1, <1>2, <1>3 DEF TypeInv, TypeOK

\* Every step keeps it so.
LEMMA DoneStep == TypeInv /\ GapInv /\ DoneInv /\ [Next]_vars => DoneInv'
<1> SUFFICES ASSUME TypeInv, GapInv, DoneInv, [Next]_vars PROVE DoneInv'
  OBVIOUS
<1>1. CASE ClientStep
  <2>a. UNCHANGED <<type, job, quantity, due, printed, executed>> /\ pc # "returned" /\ todo # <<>>
    BY <1>1, ClientMoves DEF Elsewhere
  <2>b. Own' = Own /\ Total' = Total /\ printed' <= due'
    BY <2>a DEF Own, Total, DoneInv
  <2>c. Written => (\A c, n : Told(c, n)' => Told(c, n)) /\ (\A c : On(c)' => On(c) \/ c = Head(todo) \/ c = "rows")
    BY <2>a, SentFewer, SentOn DEF Fewer
  <2>d. Ledger(Len(executed))' <=> Ledger(Len(executed))
    BY <2>a DEF Ledger, Speaks
  <2>e. Written /\ phase # "reset" => Ledger(Len(executed))' /\ ~ On("cancel")'
    BY <2>a, <2>c, <2>d, HeadRequest DEF DoneInv
  <2>f. Written /\ (phase = "probe" \/ (Printing /\ At <= Total)) => ~ Asked' /\ ~ Heard'
    BY <2>a, <2>c, HeadRequest DEF DoneInv, Asked, Heard
  <2>1. CASE Moves /\ Kept
    BY <2>1, <2>a, DoneMoves
  <2>2. CASE Send
    <3>1. UNCHANGED <<todo, phase, err>> /\ pc = "ready" /\ pc' = "await" /\ Written
      BY <2>2 DEF Send
    <3>2. At' = At /\ (Printing' <=> Printing) /\ ~ Finished'
      BY <2>b, <3>1 DEF At, Printing, Finished
    <3>3. Honest => Honest'
      BY <2>a, <2>c, <3>1 DEF Honest
    <3> QED
      BY <2>b, <2>e, <2>f, <3>1, <3>2, <3>3 DEF DoneInv
  <2>3. CASE (GivesUp \/ AsksNext) /\ Written
    <3>1. phase = "probe" /\ phase' = "probe"
      BY <2>3 DEF GivesUp, AsksNext
    <3> QED
      BY <2>3, <2>b, <2>e, <2>f, <3>1 DEF DoneInv, Printing, Finished
  <2>4. CASE Resets
    <3>1. phase' = "reset"
      BY <2>4 DEF Resets
    <3> QED
      BY <2>b, <3>1 DEF DoneInv, Printing, Finished
  <2> QED
    BY <1>1, <2>1, <2>2, <2>3, <2>4, ClientMoves
<1>2. CASE PrinterExec
  BY <1>2, DoneExec
<1>3. CASE PrintLabel
  <2>1. /\ job = "open" /\ printed < due /\ printed' = printed + 1
        /\ UNCHANGED <<session, type, clientVars, packets, wire, back, job, quantity, due, executed>>
    BY <1>3 DEF PrintLabel, sessionVars
  <2>2. /\ At' = At /\ Total' = Total /\ (Printing' <=> Printing) /\ (Finished' <=> Finished)
        /\ UNCHANGED <<phase, todo>>
    BY <2>1, OthersStand DEF clientVars
  <2>3. printed \in Nat /\ due \in Nat
    BY DEF TypeInv, TypeOK
  <2>4. /\ Ledger(Len(executed))' <=> Ledger(Len(executed))
        /\ \A c : On(c)' <=> On(c)
        /\ \A c, n : Told(c, n)' <=> Told(c, n)
    BY <2>1 DEF Ledger, Speaks, On, Told
  <2>5. (Asked' <=> Asked) /\ (Heard' <=> Heard)
    BY <2>4 DEF Asked, Heard
  <2>6. ASSUME Printing, At > Total PROVE Honest'
    <3>1. Honest /\ due = Copies
      BY <2>6, AllDue DEF DoneInv
    <3>2. Head(todo) # "end"
      BY <2>1, <2>3, <3>1 DEF Honest
    <3>3. \A n \in Nat : Told("end", n) => n = 0
      BY <2>1, <3>1 DEF Honest
    <3>4. \A n \in Nat : Told("status", n) => n <= printed'
      BY <2>1, <2>3, <3>1 DEF Honest
    <3> QED
      BY <2>2, <2>4, <3>1, <3>2, <3>3, <3>4 DEF Honest
  <2>7. ~ Finished
    BY <2>1 DEF DoneInv
  <2>8. printed' <= due'
    BY <2>1, <2>3
  <2> QED
    BY <2>2, <2>4, <2>5, <2>6, <2>7, <2>8 DEF DoneInv
<1>4. CASE ~ ClientStep /\ ~ PrinterExec /\ ~ PrintLabel
  <2>1. UNCHANGED <<session, type, clientVars, job, quantity, due, printed, executed>>
    BY <1>4 DEF Next, ReadLoop, Deadline, PrinterRefuse, PrinterFault,
                LoseCommand, LoseReply, LinkDown, sessionVars, printerVars, vars
  <2>2. wire' = wire => \A c : On(c)' => On(c)
    BY DEF On
  <2>3. UNCHANGED <<packets, back>> => \A c, n : Told(c, n)' => Told(c, n)
    BY DEF Told
  <2>4. CASE ReadLoop
    <3>1. wire' = wire
      BY <2>4 DEF ReadLoop
    <3> QED
      BY <2>1, <2>2, <2>4, <3>1, ReadFewer, DoneOthers DEF Fewer
  <2>5. CASE UNCHANGED <<wire, packets, back>>
    BY <2>1, <2>2, <2>3, <2>5, DoneOthers
  <2>6. CASE PrinterRefuse
    <3>1. /\ wire # <<>> /\ wire' = Tail(wire) /\ packets' = packets
          /\ \E k \in {"error", "unsupported"} :
               back' = Append(back, Reply(k, Plain(Head(wire).cmd), Head(wire).mine, 0))
      BY <2>6 DEF PrinterRefuse
    <3>2. PICK k \in {"error", "unsupported"} :
               back' = Append(back, Reply(k, Plain(Head(wire).cmd), Head(wire).mine, 0))
      BY <3>1
    <3> DEFINE r == Reply(k, Plain(Head(wire).cmd), Head(wire).mine, 0)
    <3>3. r \in Packet
      BY <3>1, HeadOrder, ReplyType
    <3>4. \A c, n : ~ Says(r, c, n)
      BY <3>2 DEF Reply, Says
    <3> HIDE DEF r
    <3>5. \A c, n : Told(c, n)' => Told(c, n) \/ Says(r, c, n)
      BY <3>1, <3>2, <3>3, Replied DEF r
    <3>6. \A c : On(c)' => On(c)
      BY <3>1, TakenOn
    <3> QED
      BY <2>1, <3>4, <3>5, <3>6, DoneOthers
  <2>7. CASE PrinterFault
    <3>1. UNCHANGED <<packets, wire>> /\ (back' = back \/ back' = Append(back, Reply("error", "none", FALSE, 0)))
      BY <2>7 DEF PrinterFault
    <3> DEFINE r == Reply("error", "none", FALSE, 0)
    <3>2. r \in Packet
      BY ReplyType
    <3>3. \A c, n : ~ Says(r, c, n)
      BY DEF Reply, Says
    <3> HIDE DEF r
    <3>4. \A c, n : Told(c, n)' => Told(c, n)
      <4>1. CASE back' = back
        BY <2>3, <3>1, <4>1
      <4>2. CASE back' = Append(back, r)
        <5>1. \A c, n : Told(c, n)' => Told(c, n) \/ Says(r, c, n)
          BY <3>1, <3>2, <4>2, Replied
        <5> QED
          BY <3>3, <5>1
      <4> QED
        BY <3>1, <4>1, <4>2 DEF r
    <3> QED
      BY <2>1, <2>2, <3>1, <3>4, DoneOthers
  <2>8. CASE LoseCommand
    <3>1. wire # <<>> /\ wire' = Tail(wire) /\ UNCHANGED <<packets, back>>
      BY <2>8 DEF LoseCommand
    <3>2. \A c : On(c)' => On(c)
      BY <3>1, TakenOn
    <3> QED
      BY <2>1, <2>3, <3>1, <3>2, DoneOthers
  <2>9. CASE LoseReply
    <3>1. back # <<>> /\ back' = Tail(back) /\ UNCHANGED <<packets, wire>>
      BY <2>9 DEF LoseReply
    <3> QED
      BY <2>1, <2>2, <3>1, LostFewer, DoneOthers DEF Fewer
  <2>10. CASE LinkDown
    <3>1. back' = <<>> /\ packets' = packets /\ wire' = <<>>
      BY <2>10 DEF LinkDown
    <3>2. \A c : ~ On(c)'
      <4>1. Len(wire') = 0
        BY <3>1
      <4> QED
        BY <4>1 DEF On
    <3> QED
      BY <2>1, <3>1, <3>2, LostFewer, DoneOthers DEF Fewer
  <2> QED
    BY <1>4, <2>4, <2>5, <2>6, <2>7, <2>8, <2>9, <2>10 DEF Next, Deadline, vars
<1> QED
  BY <1>1, <1>2, <1>3, <1>4

\* A session begins with nothing on its way.
LEMMA DoneInit == Init => DoneInv /\ Known
<1> SUFFICES ASSUME Init PROVE DoneInv /\ Known
  OBVIOUS
<1>1. /\ Len(wire) = 0 /\ Len(packets) = 0 /\ Len(back) = 0 /\ Len(executed) = 0 /\ phase = "probe" /\ pc = "ready"
      /\ job = "idle" /\ quantity = 1 /\ due = 0 /\ printed = 0
  BY DEF Init
<1>2. (\A c : ~ On(c)) /\ (\A c, n : ~ Told(c, n))
  BY <1>1 DEF On, Told
<1>3. Ledger(Len(executed))
  BY <1>1 DEF Ledger
<1>4. DoneInv
  BY <1>1, <1>2, <1>3 DEF DoneInv, Asked, Heard, Printing, Finished
<1>5. session = "identify" => ~ (Len(todo) <= 2) /\ ~ (Len(todo) <= 1)
  <2>1. session = "identify" => todo = <<"heartbeat", "type", "serial", "rfid">>
    BY DEF Init, Probe
  <2>2. ASSUME session = "identify" PROVE ~ (Len(todo) <= 2) /\ ~ (Len(todo) <= 1)
    <3>1. todo = <<"heartbeat", "type", "serial", "rfid">>
      BY <2>1, <2>2
    <3>2. Len(todo) = 4
      BY <3>1
    <3> QED
      BY <3>2
  <2> QED
    BY <2>2
<1>6. Known
  BY <1>1, <1>5, Zenon DEF Known
<1> QED
  BY <1>4, <1>6

\* A session returns nil only when it has done what it was for: every copy is printed and
\* the job is closed, or identify knows the printer's model and has an ID for it.  No late
\* status or PrintEnd reply is ever taken for completion, for any number of copies.
THEOREM SuccessTrue == Spec => []SuccessMeansDone
<1>1. TypeInv /\ Known /\ DoneInv => SuccessMeansDone
  <2> SUFFICES ASSUME TypeInv, Known, DoneInv, pc = "returned", err = "none"
               PROVE  IF session = "identify" THEN task = Speaks(type) /\ id # "none"
                                              ELSE printed = Copies /\ job = "idle"
    BY DEF SuccessMeansDone
  <2>1. Len(todo) = 0
    BY DEF TypeInv, Standing
  <2>2. Len(todo) <= 2 /\ Len(todo) <= 1
    BY <2>1
  <2>3. session # "identify" => Finished
    BY DEF TypeInv, TypeOK, Standing, Known, Finished
  <2> QED
    BY <2>2, <2>3, Zenon DEF Known, DoneInv
<1> QED
  BY <1>1, TypeInit, TypeStep, GapInit, GapStep, DoneInit, DoneStep, KnownStep, PTL DEF Spec
=============================================================================
