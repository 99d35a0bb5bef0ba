-------------------------- MODULE EnrollmentProofs --------------------------
(***************************************************************************)
(* Proofs about Enrollment.  The type invariant and the account of the     *)
(* installation IDs hold for any number of processes.  The two promises    *)
(* about the credentials hold when one command runs at a time              *)
(* (OneProcess): the temporary file of fileStore is not protected against  *)
(* a second process.                                                       *)
(***************************************************************************)
EXTENDS Enrollment, FiniteSetTheorems, TLAPS

\* One command at a time: an operator's shell, or the daemon under launchd.
OneProcess == \A p, q \in Procs : p = q

-----------------------------------------------------------------------------
(* Type correctness *)

\* A process that is about to write an installation ID holds one.
WritesAnId == \A p \in Procs : pc[p] = "writeid" => id[p] # None

TypeInv == TypeOK /\ WritesAnId

\* Goto moves one process and leaves the others.
LEMMA GotoMoves ==
  ASSUME TypeOK, NEW p \in Procs, NEW l \in Pcs, Goto(p, l)
  PROVE  /\ pc' \in [Procs -> Pcs]
         /\ pc'[p] = l
         /\ \A q \in Procs \ {p} : pc'[q] = pc[q]
BY DEF TypeOK, Goto

\* A command that ends gives up its token.
LEMMA ExitMoves ==
  ASSUME TypeOK, NEW p \in Procs, Exit(p)
  PROVE  /\ pc' \in [Procs -> Pcs] /\ token' \in [Procs -> Tokens]
         /\ pc'[p] = "idle"
         /\ \A q \in Procs \ {p} : pc'[q] = pc[q]
<1>1. "idle" \in Pcs /\ None \in Tokens
  BY EnrollmentAssumption DEF Pcs, Tokens, None
<1>2. Goto(p, "idle")
  BY DEF Exit
<1>3. token' \in [Procs -> Tokens]
  BY <1>1 DEF Exit, TypeOK
<1> QED
  BY <1>1, <1>2, <1>3, GotoMoves

\* At first nothing is stored and every process is idle.
LEMMA TypeInit == Init => TypeInv
<1>1. None \in Tokens /\ None \in Torn .. MaxIds /\ None \in None .. MaxIds
  BY EnrollmentAssumption DEF Tokens, None, Torn
<1>2. "idle" \in Pcs
  BY DEF Pcs
<1> QED
  BY <1>1, <1>2, EnrollmentAssumption DEF Init, TypeInv, TypeOK, WritesAnId

\* Every step keeps the types and a process on its way to write an ID keeps that ID.
LEMMA TypeStep ==
  TypeInv /\ [Next]_vars => TypeInv'
<1> SUFFICES ASSUME TypeOK, WritesAnId, [Next]_vars PROVE TypeOK' /\ WritesAnId'
  BY DEF TypeInv
<1> USE EnrollmentAssumption
<1>1. CASE UNCHANGED vars
  BY <1>1 DEF vars, procVars, diskVars, boundVars, histVars, idHist, TypeOK, WritesAnId
<1>2. ASSUME NEW p \in Procs, NEW c \in {"enroll", "sign-out", "daemon"}, Start(p, c)
      PROVE  TypeOK' /\ WritesAnId'
  <2>1. (IF c = "sign-out" THEN "open" ELSE "id") \in Pcs \ {"writeid"}
    BY DEF Pcs, Failing
  <2> QED
    BY <1>2, <2>1 DEF Start, Goto, TypeOK, WritesAnId, diskVars, boundVars, histVars, idHist
<1>3. ASSUME NEW p \in Procs, ExitError(p)
      PROVE  TypeOK' /\ WritesAnId'
  <2>1. Exit(p) /\ tmpFile' \in {tmpFile, None}
    BY <1>3 DEF ExitError
  <2>2. None \in Tokens
    BY DEF Tokens, None
  <2> QED
    BY <1>3, <2>1, <2>2, ExitMoves DEF ExitError, TypeOK, WritesAnId, boundVars, histVars, idHist
<1>4. ASSUME NEW p \in Procs, Crash(p)
      PROVE  TypeOK' /\ WritesAnId'
  <2>1. Exit(p) /\ crashes' \in 0 .. MaxCrashes
    BY <1>4 DEF Crash, TypeOK
  <2> QED
    BY <1>4, <2>1, ExitMoves DEF Crash, TypeOK, WritesAnId, diskVars, histVars, idHist
<1>5. ASSUME NEW p \in Procs, ReadId(p)
      PROVE  TypeOK' /\ WritesAnId'
  <2>1. UseId(p, idFile) /\ idFile \in 1 .. MaxIds
    BY <1>5 DEF ReadId, Whole, TypeOK, None, Torn
  <2>2. (IF cmd[p] = "enroll" THEN "request" ELSE "open") \in Pcs \ {"writeid"}
    BY DEF Pcs, Failing
  <2>3. pc' \in [Procs -> Pcs] /\ pc'[p] # "writeid" /\ \A q \in Procs \ {p} : pc'[q] = pc[q]
    BY <2>1, <2>2, GotoMoves DEF UseId
  <2>4. /\ id' \in [Procs -> None .. MaxIds]
        /\ \A q \in Procs \ {p} : id'[q] = id[q]
        /\ used' \subseteq 1 .. MaxIds
    BY <2>1 DEF UseId, TypeOK, None
  <2>5. WritesAnId'
    BY <2>3, <2>4 DEF WritesAnId
  <2> QED
    BY <1>5, <2>3, <2>4, <2>5 DEF ReadId, TypeOK, diskVars, boundVars
<1>20. ASSUME NEW p \in Procs, Misread(p)
       PROVE  TypeOK' /\ WritesAnId'
  <2>1. "newid" \in Pcs \ {"writeid"} /\ misreads' \in 0 .. MaxMisreads
    BY <1>20 DEF Misread, Pcs, Failing, TypeOK
  <2> QED
    BY <1>20, <2>1 DEF Misread, Goto, TypeOK, WritesAnId, diskVars, boundVars
<1>21. ASSUME NEW p \in Procs, FindNoId(p)
       PROVE  TypeOK' /\ WritesAnId'
  <2>1. "newid" \in Pcs \ {"writeid"}
    BY DEF Pcs, Failing
  <2>2. races' \in 0 .. MaxRaces
    BY <1>21 DEF FindNoId, TypeOK
  <2>3. Goto(p, "newid")
        /\ UNCHANGED <<cmd, id, store, token, interval, diskVars, usable, boundVars,
                       current, expected, asked, used, misreads>>
    BY <1>21 DEF FindNoId
  <2> QED
    BY <2>1, <2>2, <2>3 DEF Goto, TypeOK, WritesAnId, diskVars, boundVars
<1>22. ASSUME NEW p \in Procs, StartWithId(p)
       PROVE  TypeOK' /\ WritesAnId'
  <2>1. "open" \in Pcs \ {"writeid"} /\ None \in None .. MaxIds
    BY DEF Pcs, Failing, None
  <2> QED
    BY <1>22, <2>1 DEF StartWithId, Goto, TypeOK, WritesAnId, diskVars, boundVars, histVars, idHist
<1>6. ASSUME NEW p \in Procs, TruncateId(p)
      PROVE  TypeOK' /\ WritesAnId'
  <2>1. "writeid" \in Pcs /\ Torn \in Torn .. MaxIds
    BY DEF Pcs, Failing, Torn
  <2>2. ids + 1 \in 1 .. MaxIds
    BY <1>6 DEF TruncateId, TypeOK
  <2> QED
    BY <1>6, <2>1, <2>2 DEF TruncateId, Goto, TypeOK, WritesAnId, histVars, idHist, None
<1>7. ASSUME NEW p \in Procs, WriteId(p)
      PROVE  TypeOK' /\ WritesAnId'
  <2>1. id[p] \in 1 .. MaxIds
    BY <1>7 DEF WriteId, WritesAnId, TypeOK, None
  <2>2. (IF cmd[p] = "enroll" THEN "request" ELSE "open") \in Pcs \ {"writeid"}
    BY DEF Pcs, Failing
  <2>3. id[p] \in Torn .. MaxIds
    BY <2>1 DEF Torn
  <2> QED
    BY <1>7, <2>1, <2>2, <2>3 DEF WriteId, UseId, Goto, TypeOK, WritesAnId, boundVars, None
<1>8. ASSUME NEW p \in Procs, RequestCode(p)
      PROVE  TypeOK' /\ WritesAnId'
  <2>1. \A n \in Intervals : Interval(n) \in Nat \ {0}
    BY DEF Interval
  <2>2. "sleep" \in Pcs
    BY DEF Pcs, Failing
  <2> QED
    BY <1>8, <2>1, <2>2 DEF RequestCode, Goto, TypeOK, WritesAnId, idHist, diskVars
<1>9. ASSUME NEW p \in Procs, Sleep(p) \/ Pending(p)
      PROVE  TypeOK' /\ WritesAnId'
  <2>1. {"sleep", "poll"} \subseteq Pcs
    BY DEF Pcs, Failing
  <2> QED
    BY <1>9, <2>1 DEF Sleep, Pending, Goto, TypeOK, WritesAnId, diskVars, boundVars, histVars, idHist
<1>10. ASSUME NEW p \in Procs, SlowDown(p)
       PROVE  TypeOK' /\ WritesAnId'
  <2>1. "sleep" \in Pcs
    BY DEF Pcs, Failing
  <2> QED
    BY <1>10, <2>1 DEF SlowDown, Goto, TypeOK, WritesAnId, idHist, diskVars
<1>11. ASSUME NEW p \in Procs, Granted(p)
       PROVE  TypeOK' /\ WritesAnId'
  <2>1. "open" \in Pcs /\ tokens + 1 \in Tokens /\ tokens + 1 \in 0 .. MaxTokens
    BY <1>11 DEF Pcs, Tokens, None, Granted, TypeOK
  <2> QED
    BY <1>11, <2>1 DEF Granted, Goto, TypeOK, WritesAnId, diskVars, histVars, idHist
<1>12. ASSUME NEW p \in Procs, Open(p)
       PROVE  TypeOK' /\ WritesAnId'
  <2>1. After(cmd[p]) \in Pcs \ {"writeid"}
    BY DEF After, Pcs, Failing
  <2> QED
    BY <1>12, <2>1 DEF Open, Goto, TypeOK, WritesAnId, diskVars, boundVars, histVars, idHist
<1>13. ASSUME NEW p \in Procs, SaveKeyring(p)
       PROVE  TypeOK' /\ WritesAnId'
  <2>1. Exit(p) /\ token[p] \in Tokens
    BY <1>13 DEF SaveKeyring, TypeOK
  <2> QED
    BY <1>13, <2>1, ExitMoves DEF SaveKeyring, TypeOK, WritesAnId, idHist, boundVars
<1>14. ASSUME NEW p \in Procs, SaveTruncate(p) \/ SaveWrite(p)
       PROVE  TypeOK' /\ WritesAnId'
  <2>1. {"tmp", "rename"} \subseteq Pcs
    BY DEF Pcs, Failing
  <2>2. Goto(p, "tmp") \/ Goto(p, "rename")
    BY <1>14 DEF SaveTruncate, SaveWrite
  <2>3. /\ pc' \in [Procs -> Pcs] /\ pc'[p] # "writeid"
        /\ \A q \in Procs \ {p} : pc'[q] = pc[q]
    BY <2>1, <2>2, GotoMoves
  <2>4. tmpFile' \in Tokens \cup {Torn}
    BY <1>14 DEF SaveTruncate, SaveWrite, TypeOK
  <2> QED
    BY <1>14, <2>3, <2>4 DEF SaveTruncate, SaveWrite, TypeOK, WritesAnId, boundVars, histVars, idHist
<1>15. ASSUME NEW p \in Procs, SaveRename(p)
       PROVE  TypeOK' /\ WritesAnId'
  <2>1. Exit(p) /\ token[p] \in Tokens /\ None \in Tokens
    BY <1>15 DEF SaveRename, TypeOK, Tokens, None
  <2> QED
    BY <1>15, <2>1, ExitMoves DEF SaveRename, TypeOK, WritesAnId, idHist, boundVars
<1>16. ASSUME NEW p \in Procs, Clear(p)
       PROVE  TypeOK' /\ WritesAnId'
  <2>1. Exit(p) /\ None \in Tokens
    BY <1>16 DEF Clear, Tokens, None
  <2>2. keyring' \in {keyring, None} /\ credFile' \in {credFile, None}
    BY <1>16 DEF Clear
  <2> QED
    BY <1>16, <2>1, <2>2, ExitMoves DEF Clear, TypeOK, WritesAnId, idHist, boundVars
<1>17. ASSUME NEW p \in Procs, Load(p)
       PROVE  TypeOK' /\ WritesAnId'
  <2>1. CASE Stored(p) \in {None, Torn}
    <3>1. Exit(p) /\ UNCHANGED expected
      BY <1>17, <2>1 DEF Load
    <3> QED
      BY <1>17, <3>1, ExitMoves DEF Load, TypeOK, WritesAnId, idHist, diskVars, boundVars
  <2>2. CASE Stored(p) \notin {None, Torn}
    <3>1. Stored(p) \in Tokens /\ "running" \in Pcs
      BY <2>2 DEF Stored, TypeOK, Pcs
    <3>2. /\ token' = [token EXCEPT ![p] = Stored(p)]
          /\ expected' = [expected EXCEPT ![p] = current]
          /\ Goto(p, "running")
      BY <1>17, <2>2 DEF Load
    <3>3. pc' \in [Procs -> Pcs] /\ pc'[p] = "running" /\ \A q \in Procs \ {p} : pc'[q] = pc[q]
      BY <3>1, <3>2, GotoMoves
    <3>4. token' \in [Procs -> Tokens] /\ expected' \in [Procs -> Tokens]
      BY <3>1, <3>2 DEF TypeOK
    <3> QED
      BY <1>17, <3>3, <3>4 DEF Load, TypeOK, WritesAnId, idHist, diskVars, boundVars
  <2> QED
    BY <2>1, <2>2
<1>18. ASSUME NEW p \in Procs, LoadFail(p) \/ Stop(p)
       PROVE  TypeOK' /\ WritesAnId'
  <2>1. Exit(p)
    BY <1>18 DEF LoadFail, Stop
  <2> QED
    BY <1>18, <2>1, ExitMoves DEF LoadFail, Stop, TypeOK, WritesAnId, diskVars, boundVars, histVars, idHist
<1>19. ASSUME Flap
       PROVE  TypeOK' /\ WritesAnId'
  BY <1>19 DEF Flap, TypeOK, WritesAnId, procVars, diskVars, histVars, idHist
<1> QED
  BY <1>1, <1>2, <1>3, <1>4, <1>5, <1>6, <1>7, <1>8, <1>9, <1>10, <1>11, <1>12, <1>13, <1>14,
     <1>15, <1>16, <1>17, <1>18, <1>19, <1>20, <1>21, <1>22 DEF Next

\* The type invariant, for any number of processes, crashes and failures: among it,
\* Poll's ticker never gets an interval of zero and a file holds a whole value, the
\* mark of a torn write or nothing.
THEOREM TypeCorrect == Spec => []TypeOK
<1>1. Init => TypeInv
  BY TypeInit
<1>2. TypeInv => TypeOK
  BY DEF TypeInv
<1> QED
  BY <1>1, <1>2, TypeStep, PTL DEF Spec

-----------------------------------------------------------------------------
(* One command at a time: the files *)

\* The temporary file that is about to be renamed holds the token of its writer.
RenameReady == \A p \in Procs : pc[p] = "rename" => tmpFile = token[p]

\* Only the file store writes a temporary file.
WritesFile == \A p \in Procs : pc[p] \in {"tmp", "rename"} => store[p] = "file"

\* While the keyring's availability has not changed, the store a command opened is the
\* one every other command opens, and it holds the current token.
StoreAgreed ==
  \A p \in Procs : pc[p] \in {"save", "tmp", "rename", "clear", "load"} =>
    store[p] = IF usable THEN "keyring" ELSE "file"

StoreCurrent == current = IF usable THEN keyring ELSE credFile

FilesInv ==
  /\ RenameReady /\ WritesFile /\ CredentialsWhole
  /\ flaps = 0 => StoreAgreed /\ StoreCurrent
  /\ DaemonUsesCurrent

\* A step of the only process, or of the keyring, keeps the promises about the files.
LEMMA FilesStep ==
  ASSUME OneProcess, TypeInv, TypeInv', FilesInv, [Next]_vars
  PROVE  FilesInv'
<1> USE EnrollmentAssumption
<1> DEFINE Kept == /\ RenameReady' /\ WritesFile' /\ CredentialsWhole'
                   /\ flaps' = 0 => StoreAgreed' /\ StoreCurrent'
                   /\ DaemonUsesCurrent'
<1> SUFFICES Kept
  BY DEF FilesInv
<1>a. TypeOK /\ TypeOK' /\ None \in Tokens
  BY DEF TypeInv, Tokens, None
<1>b. ASSUME NEW p \in Procs PROVE \A q \in Procs : q = p
  BY DEF OneProcess
<1>1. CASE UNCHANGED vars
  BY <1>1 DEF vars, procVars, diskVars, boundVars, histVars, idHist, FilesInv, RenameReady, WritesFile,
              CredentialsWhole, StoreAgreed, StoreCurrent, DaemonUsesCurrent
<1>2. ASSUME NEW p \in Procs, NEW c \in {"enroll", "sign-out", "daemon"}, Start(p, c)
      PROVE  Kept
  <2>1. pc'[p] \in {"open", "id"}
    BY <1>2, <1>a DEF Start, Goto, TypeOK
  <2> QED
    BY <1>2, <1>b, <2>1 DEF Start, diskVars, boundVars, histVars, idHist, FilesInv, RenameReady, WritesFile,
              CredentialsWhole, StoreAgreed, StoreCurrent, DaemonUsesCurrent
<1>3. ASSUME NEW p \in Procs, ExitError(p) \/ Crash(p) \/ LoadFail(p) \/ Stop(p)
      PROVE  Kept
  <2>1. pc'[p] = "idle"
    BY <1>3, <1>a, ExitMoves DEF ExitError, Crash, LoadFail, Stop
  <2>2. UNCHANGED <<keyring, credFile, usable, flaps, current, expected>>
    BY <1>3 DEF ExitError, Crash, LoadFail, Stop, diskVars, boundVars, histVars, idHist
  <2> QED
    BY <1>b, <2>1, <2>2 DEF FilesInv, RenameReady, WritesFile,
              CredentialsWhole, StoreAgreed, StoreCurrent, DaemonUsesCurrent
<1>4. ASSUME NEW p \in Procs, \/ StartWithId(p) \/ ReadId(p) \/ Misread(p) \/ FindNoId(p)
                               \/ TruncateId(p) \/ WriteId(p)
      PROVE  Kept
  <2>1. UNCHANGED <<store, token, keyring, credFile, tmpFile, usable, flaps, current, expected>>
    BY <1>4 DEF StartWithId, ReadId, Misread, FindNoId, TruncateId, WriteId, diskVars, boundVars, histVars
  <2>2. pc'[p] \in {"newid", "writeid", "request", "open"}
    BY <1>4, <1>a DEF StartWithId, ReadId, Misread, FindNoId, TruncateId, WriteId, UseId, Goto, TypeOK
  <2> QED
    BY <1>b, <2>1, <2>2 DEF FilesInv, RenameReady, WritesFile,
              CredentialsWhole, StoreAgreed, StoreCurrent, DaemonUsesCurrent
<1>7. ASSUME NEW p \in Procs, RequestCode(p) \/ Sleep(p) \/ Pending(p) \/ SlowDown(p) \/ Granted(p)
      PROVE  Kept
  <2>1. pc'[p] \in {"sleep", "poll", "open"}
    BY <1>7, <1>a DEF RequestCode, Sleep, Pending, SlowDown, Granted, Goto, TypeOK
  <2>2. UNCHANGED <<store, diskVars, usable, flaps, current, expected>>
    BY <1>7 DEF RequestCode, Sleep, Pending, SlowDown, Granted, boundVars, histVars, idHist
  <2> QED
    BY <1>b, <2>1, <2>2 DEF diskVars, FilesInv, RenameReady, WritesFile,
              CredentialsWhole, StoreAgreed, StoreCurrent, DaemonUsesCurrent
<1>8. ASSUME NEW p \in Procs, Open(p)
      PROVE  Kept
  <2>1. pc'[p] \in {"save", "clear", "load"}
    BY <1>8, <1>a DEF Open, Goto, After, TypeOK
  <2>2. store'[p] = IF usable THEN "keyring" ELSE "file"
    BY <1>8, <1>a DEF Open, TypeOK
  <2> QED
    BY <1>8, <1>b, <2>1, <2>2 DEF Open, diskVars, boundVars, histVars, idHist, FilesInv, RenameReady, WritesFile,
              CredentialsWhole, StoreAgreed, StoreCurrent, DaemonUsesCurrent
<1>9. ASSUME NEW p \in Procs, SaveKeyring(p)
      PROVE  Kept
  <2>1. pc'[p] = "idle"
    BY <1>9, <1>a, ExitMoves DEF SaveKeyring
  <2> QED
    BY <1>9, <1>b, <2>1 DEF SaveKeyring, boundVars, FilesInv, RenameReady, WritesFile,
              CredentialsWhole, StoreAgreed, StoreCurrent, DaemonUsesCurrent
<1>10. ASSUME NEW p \in Procs, SaveTruncate(p)
       PROVE  Kept
  <2>1. pc'[p] = "tmp" /\ store'[p] = "file"
    BY <1>10, <1>a DEF SaveTruncate, Goto, TypeOK
  <2> QED
    BY <1>10, <1>b, <2>1 DEF SaveTruncate, boundVars, histVars, idHist, FilesInv, RenameReady, WritesFile,
              CredentialsWhole, StoreAgreed, StoreCurrent, DaemonUsesCurrent
<1>11. ASSUME NEW p \in Procs, SaveWrite(p)
       PROVE  Kept
  <2>1. pc'[p] = "rename"
    BY <1>11, <1>a DEF SaveWrite, Goto, TypeOK
  <2> QED
    BY <1>11, <1>b, <2>1 DEF SaveWrite, boundVars, histVars, idHist, FilesInv, RenameReady, WritesFile,
              CredentialsWhole, StoreAgreed, StoreCurrent, DaemonUsesCurrent
<1>12. ASSUME NEW p \in Procs, SaveRename(p)
       PROVE  Kept
  <2>1. pc'[p] = "idle"
    BY <1>12, <1>a, ExitMoves DEF SaveRename
  <2>2. credFile' = token[p] /\ current' = token[p] /\ token[p] \in Tokens
    BY <1>12, <1>a DEF SaveRename, FilesInv, RenameReady, TypeOK
  <2>3. flaps = 0 => ~ usable
    BY <1>12 DEF SaveRename, FilesInv, WritesFile, StoreAgreed
  <2> QED
    BY <1>12, <1>b, <2>1, <2>2, <2>3 DEF SaveRename, boundVars, FilesInv, RenameReady, WritesFile,
              CredentialsWhole, StoreAgreed, StoreCurrent, DaemonUsesCurrent
<1>13. ASSUME NEW p \in Procs, Clear(p)
       PROVE  Kept
  <2>1. pc'[p] = "idle"
    BY <1>13, <1>a, ExitMoves DEF Clear
  <2>2. /\ current' = None
        /\ store[p] = "keyring" => keyring' = None /\ credFile' = credFile
        /\ store[p] # "keyring" => credFile' = None
    BY <1>13 DEF Clear
  <2>3. flaps = 0 => (store[p] = "keyring" <=> usable)
    BY <1>13 DEF Clear, FilesInv, StoreAgreed
  <2>4. UNCHANGED <<usable, flaps>>
    BY <1>13 DEF Clear, boundVars
  <2> QED
    BY <1>a, <1>b, <2>1, <2>2, <2>3, <2>4 DEF FilesInv, RenameReady, WritesFile,
              CredentialsWhole, StoreAgreed, StoreCurrent, DaemonUsesCurrent
<1>14. ASSUME NEW p \in Procs, Load(p)
       PROVE  Kept
  <2>1. UNCHANGED <<diskVars, usable, flaps, current>>
    BY <1>14 DEF Load, boundVars
  <2>2. flaps = 0 => Stored(p) = current
    BY <1>14 DEF Load, Stored, FilesInv, StoreAgreed, StoreCurrent
  <2>3. \/ pc'[p] = "idle"
        \/ pc'[p] = "running" /\ token'[p] = Stored(p) /\ expected'[p] = current
    <3>1. CASE Stored(p) \in {None, Torn}
      BY <1>14, <1>a, <3>1, ExitMoves DEF Load
    <3>2. CASE Stored(p) \notin {None, Torn}
      <4>1. /\ token' = [token EXCEPT ![p] = Stored(p)]
            /\ expected' = [expected EXCEPT ![p] = current]
            /\ pc' = [pc EXCEPT ![p] = "running"]
        BY <1>14, <3>2 DEF Load, Goto
      <4> QED
        BY <1>a, <4>1 DEF TypeOK
    <3> QED
      BY <3>1, <3>2
  <2> QED
    BY <1>b, <2>1, <2>2, <2>3 DEF diskVars, FilesInv, RenameReady, WritesFile,
              CredentialsWhole, StoreAgreed, StoreCurrent, DaemonUsesCurrent
<1>15. ASSUME Flap
       PROVE  Kept
  <2>1. flaps' # 0
    BY <1>15, <1>a DEF Flap, TypeOK
  <2> QED
    BY <1>15, <2>1 DEF Flap, procVars, diskVars, histVars, idHist, FilesInv, RenameReady, WritesFile,
              CredentialsWhole, DaemonUsesCurrent
<1> QED
  BY <1>1, <1>2, <1>3, <1>4, <1>7, <1>8, <1>9, <1>10, <1>11, <1>12, <1>13, <1>14, <1>15 DEF Next

\* The promises about the files, together: nothing is stored and no command runs at first.
LEMMA FilesKept ==
  ASSUME OneProcess
  PROVE  Spec => [](TypeInv /\ FilesInv)
<1>1. Init => TypeInv
  BY TypeInit
<1>2. Init => FilesInv
  <2>1. None \in Tokens
    BY EnrollmentAssumption DEF Tokens, None
  <2> QED
    BY <2>1 DEF Init, FilesInv, RenameReady, WritesFile, CredentialsWhole, StoreAgreed, StoreCurrent,
                DaemonUsesCurrent
<1>3. TypeInv /\ FilesInv /\ [Next]_vars => (TypeInv /\ FilesInv)'
  BY TypeStep, FilesStep
<1> QED
  BY <1>1, <1>2, <1>3, PTL DEF Spec

\* "a crash mid-write cannot leave a truncated credentials file" (credstore/file.go:47):
\* after any number of enrollments, sign-outs, failures and crashes, one command at a
\* time, credentials.json is absent or holds a whole token.
THEOREM FileWhole ==
  ASSUME OneProcess
  PROVE  Spec => []CredentialsWhole
<1>1. FilesInv => CredentialsWhole
  BY DEF FilesInv
<1> QED
  BY <1>1, FilesKept, PTL

\* While the keyring is always usable or never, the daemon that starts runs with the
\* token of the last enrollment that was saved and not signed out.
THEOREM StartsWithCurrent ==
  ASSUME OneProcess
  PROVE  Spec => []DaemonUsesCurrent
<1>1. FilesInv => DaemonUsesCurrent
  BY DEF FilesInv
<1> QED
  BY <1>1, FilesKept, PTL

-----------------------------------------------------------------------------
(* The installation IDs, for any number of processes.  The processes that are   *)
(* making an ID are counted together with the IDs in use: each brings at most   *)
(* one more.  When nobody is making one, a file that is empty was left so by a  *)
(* crash or an error, and the next command's ID is still owed.                  *)

IdsInv ==
  /\ IsFiniteSet(Making) /\ IsFiniteSet(used)
  /\ Cardinality(used) + Cardinality(Making) <= 1 + misreads + races
  /\ Whole(idFile) => idFile \in used
  /\ ~ Whole(idFile) /\ Making = {} => Cardinality(used) <= misreads + races

\* Numbers the steps below reckon with.
LEMMA IdsTypes ==
  ASSUME TypeInv, IdsInv
  PROVE  /\ Cardinality(used) \in Nat /\ Cardinality(Making) \in Nat
         /\ misreads \in Nat /\ races \in Nat
         /\ Cardinality(used) <= 1 + misreads + races
<1>1. Cardinality(used) \in Nat /\ Cardinality(Making) \in Nat
  BY FS_CardinalityType DEF IdsInv
<1>2. misreads \in Nat /\ races \in Nat
  BY EnrollmentAssumption DEF TypeInv, TypeOK
<1> QED
  BY <1>1, <1>2 DEF IdsInv

\* A step of one process that leaves the file and the counters alone, and after which
\* it is not making an ID unless it was.
LEMMA IdsFrame ==
  ASSUME TypeInv, IdsInv, NEW p \in Procs, UNCHANGED <<idFile, idHist>>,
         pc'[p] \in {"newid", "writeid"} => p \in Making,
         \A q \in Procs \ {p} : pc'[q] = pc[q]
  PROVE  IdsInv'
<1>1. Making' = Making \/ (p \in Making /\ Making' = Making \ {p})
  BY DEF Making
<1>2. UNCHANGED <<idFile, used, misreads, races>>
  BY DEF idHist
<1>3. CASE Making' = Making
  BY <1>2, <1>3 DEF IdsInv
<1>4. CASE p \in Making /\ Making' = Making \ {p}
  <2>1. IsFiniteSet(Making') /\ Cardinality(Making') = Cardinality(Making) - 1
    BY <1>4, FS_RemoveElement DEF IdsInv
  <2>2. Cardinality(Making') \in Nat
    BY <2>1, FS_CardinalityType
  <2>3. Cardinality(used) <= misreads + races
    BY <2>1, <2>2, IdsTypes DEF IdsInv
  <2>4. Cardinality(used) + Cardinality(Making') <= 1 + misreads + races
    BY <2>1, IdsTypes DEF IdsInv
  <2> QED
    BY <1>2, <2>1, <2>3, <2>4 DEF IdsInv
<1> QED
  BY <1>1, <1>3, <1>4

\* A process turns to making an ID.
LEMMA IdsMore ==
  ASSUME TypeInv, IdsInv, NEW p \in Procs, pc[p] = "id", Goto(p, "newid"), UNCHANGED <<idFile, used>>
  PROVE  /\ Making' = Making \cup {p} /\ IsFiniteSet(Making')
         /\ Cardinality(Making') = Cardinality(Making) + 1
<1>1. p \notin Making /\ Making' = Making \cup {p}
  BY DEF Making, Goto, TypeInv, TypeOK
<1> QED
  BY <1>1, FS_AddElement DEF IdsInv

\* Every step keeps the account.
LEMMA IdsStep ==
  ASSUME TypeInv, IdsInv, [Next]_vars
  PROVE  IdsInv'
<1>a. TypeOK
  BY DEF TypeInv
<1>1. CASE UNCHANGED vars \/ Flap
  BY <1>1 DEF Flap, vars, procVars, diskVars, histVars, idHist, IdsInv, Making
<1>2. ASSUME NEW p \in Procs,
             \/ \E c \in {"enroll", "sign-out", "daemon"} : Start(p, c)
             \/ StartWithId(p) \/ ExitError(p) \/ Crash(p)
             \/ RequestCode(p) \/ Sleep(p) \/ Pending(p) \/ SlowDown(p) \/ Granted(p)
             \/ Open(p) \/ SaveKeyring(p) \/ SaveTruncate(p) \/ SaveWrite(p) \/ SaveRename(p) \/ Clear(p)
             \/ Load(p) \/ LoadFail(p) \/ Stop(p)
      PROVE  IdsInv'
  <2>1. UNCHANGED <<idFile, idHist>>
    BY <1>2 DEF Start, StartWithId, ExitError, Crash, RequestCode, Sleep, Pending, SlowDown, Granted, Open,
                SaveKeyring, SaveTruncate, SaveWrite, SaveRename, Clear, Load, LoadFail, Stop, diskVars, histVars
  <2>2. \E l \in Pcs \ {"newid", "writeid"} : Goto(p, l)
    BY <1>2 DEF Start, StartWithId, ExitError, Crash, RequestCode, Sleep, Pending, SlowDown, Granted, Open,
                SaveKeyring, SaveTruncate, SaveWrite, SaveRename, Clear, Load, LoadFail, Stop, Exit, After, Pcs, Failing
  <2> QED
    BY <1>a, <2>1, <2>2, IdsFrame, GotoMoves
<1>3. ASSUME NEW p \in Procs, ReadId(p)
      PROVE  IdsInv'
  <2>1. pc[p] = "id" /\ Whole(idFile) /\ UNCHANGED <<idFile, misreads, races>> /\ UseId(p, idFile)
    BY <1>3 DEF ReadId, diskVars
  <2>2. used' = used
    BY <2>1 DEF UseId, IdsInv
  <2>3. \E l \in {"request", "open"} : Goto(p, l)
    BY <2>1 DEF UseId
  <2>4. /\ pc'[p] \in {"request", "open"}
        /\ \A q \in Procs \ {p} : pc'[q] = pc[q]
    BY <1>a, <2>3 DEF Goto, TypeOK
  <2> QED
    BY <2>1, <2>2, <2>4, IdsFrame DEF idHist
<1>4. ASSUME NEW p \in Procs, Misread(p)
      PROVE  IdsInv'
  <2>1. /\ pc[p] = "id" /\ Whole(idFile) /\ misreads' = misreads + 1
        /\ Goto(p, "newid") /\ UNCHANGED <<idFile, used, races>>
    BY <1>4 DEF Misread, diskVars
  <2>2. IsFiniteSet(Making') /\ Cardinality(Making') = Cardinality(Making) + 1
    BY <2>1, IdsMore
  <2>3. Cardinality(used) + Cardinality(Making') <= 1 + misreads' + races
    BY <2>1, <2>2, IdsTypes DEF IdsInv
  <2> QED
    BY <2>1, <2>2, <2>3 DEF IdsInv, Whole
<1>5. ASSUME NEW p \in Procs, FindNoId(p)
      PROVE  IdsInv'
  <2>1. /\ pc[p] = "id" /\ ~ Whole(idFile) /\ Goto(p, "newid") /\ UNCHANGED <<idFile, used, misreads>>
        /\ races' = IF Making = {} THEN races ELSE races + 1
    BY <1>5 DEF FindNoId, diskVars
  <2>2. Making' = Making \cup {p} /\ IsFiniteSet(Making') /\ Cardinality(Making') = Cardinality(Making) + 1
    BY <2>1, IdsMore
  <2>3. Cardinality(used) + Cardinality(Making') <= 1 + misreads + races'
    <3>1. CASE Making = {}
      <4>1. Cardinality(Making) = 0 /\ races' = races /\ Cardinality(used) <= misreads + races
        BY <2>1, <3>1, FS_EmptySet DEF IdsInv
      <4> QED
        BY <2>2, <4>1, IdsTypes
    <3>2. CASE Making # {}
      <4>1. races' = races + 1
        BY <2>1, <3>2
      <4> QED
        BY <2>2, <4>1, IdsTypes DEF IdsInv
    <3> QED
      BY <3>1, <3>2
  <2> QED
    BY <2>1, <2>2, <2>3 DEF IdsInv, Whole
<1>6. ASSUME NEW p \in Procs, TruncateId(p)
      PROVE  IdsInv'
  <2>1. pc[p] = "newid" /\ idFile' = Torn /\ Goto(p, "writeid") /\ UNCHANGED <<used, misreads, races>>
    BY <1>6 DEF TruncateId, histVars, idHist
  <2>2. Making' = Making /\ p \in Making
    BY <1>a, <2>1 DEF Making, Goto, TypeOK
  <2> QED
    BY <2>1, <2>2 DEF IdsInv, Whole
<1>7. ASSUME NEW p \in Procs, WriteId(p)
      PROVE  IdsInv'
  <2>1. /\ pc[p] = "writeid" /\ idFile' = id[p] /\ used' = used \cup {id[p]} /\ UNCHANGED <<misreads, races>>
        /\ \E l \in {"request", "open"} : Goto(p, l)
    BY <1>7 DEF WriteId, UseId
  <2>2. Making' = Making \ {p} /\ p \in Making
    BY <1>a, <2>1 DEF Making, Goto, TypeOK
  <2>3. IsFiniteSet(Making') /\ Cardinality(Making') = Cardinality(Making) - 1
    BY <2>2, FS_RemoveElement DEF IdsInv
  <2>4. /\ IsFiniteSet(used')
        /\ Cardinality(used') = Cardinality(used) \/ Cardinality(used') = Cardinality(used) + 1
    BY <2>1, FS_AddElement DEF IdsInv
  <2>5. Cardinality(used') + Cardinality(Making') <= 1 + misreads + races
    BY <2>3, <2>4, IdsTypes DEF IdsInv
  <2>6. Whole(idFile)'
    BY <1>a, <2>1 DEF TypeInv, WritesAnId, TypeOK, Whole, None, Torn
  <2> QED
    BY <2>1, <2>3, <2>4, <2>5, <2>6 DEF IdsInv
<1> QED
  BY <1>1, <1>2, <1>3, <1>4, <1>5, <1>6, <1>7 DEF Next

\* However many commands run at once, crash or fail, the IDs of the file that commands go
\* on with are one, and one more for each failed read of a whole ID and for each command
\* that found none while another one was making it.
THEOREM OneId == Spec => []IdsExplained
<1>1. Init => TypeInv /\ IdsInv
  <2>1. Init => Making = {} /\ used = {} /\ misreads = 0 /\ races = 0 /\ ~ Whole(idFile)
    BY DEF Init, Making, Whole
  <2> QED
    BY <2>1, TypeInit, FS_EmptySet DEF IdsInv
<1>2. TypeInv /\ IdsInv /\ [Next]_vars => (TypeInv /\ IdsInv)'
  BY TypeStep, IdsStep
<1>3. TypeInv /\ IdsInv => IdsExplained
  BY IdsTypes DEF IdsExplained
<1> QED
  BY <1>1, <1>2, <1>3, PTL DEF Spec
=============================================================================
