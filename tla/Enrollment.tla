----------------------------- MODULE Enrollment -----------------------------
(***************************************************************************)
(* Enrollment and what it leaves on disk: cmd/bridge (enroll, sign-out and *)
(* the start of the daemon), internal/enroll (the device authorization     *)
(* grant), internal/credstore (keyring and file) and internal/config (the  *)
(* installation ID and Load).                                              *)
(*                                                                         *)
(* Each process runs one command after another and may crash anywhere.     *)
(* The file system and the keyring outlive it.  Tokens and installation    *)
(* IDs are numbered as they are issued; times are in units of 5 seconds.   *)
(***************************************************************************)
EXTENDS Integers, FiniteSets

CONSTANTS
  Procs,       \* processes of this user
  Intervals,   \* poll intervals the server may ask for; 0 if it omits one
  MaxTokens,   \* bound: tokens issued
  MaxIds,      \* bound: installation IDs generated
  MaxSlow,     \* bound: slow_down answers to one enrollment
  MaxCrashes,  \* bound: crashes
  MaxFlaps,    \* bound: changes in the keyring's availability
  MaxMisreads, \* bound: failed reads of an installation ID that is there
  MaxRaces     \* bound: commands that make an ID while another one is making one

ASSUME EnrollmentAssumption ==
  /\ Intervals \subseteq Nat /\ Intervals # {}
  /\ {MaxTokens, MaxIds, MaxSlow, MaxCrashes, MaxFlaps, MaxMisreads, MaxRaces} \subseteq Nat

VARIABLES
  pc,        \* where each process stands
  cmd,       \* the command it runs: "enroll", "sign-out" or "daemon"
  id,        \* the installation ID it uses, None if it is given one
  store,     \* the credential store Open selected
  token,     \* the token it holds
  interval,  \* Poll's interval
  idFile,    \* the file installation_id
  keyring,   \* the item in the OS credential store
  credFile,  \* credentials.json
  tmpFile,   \* credentials.json.tmp
  usable,    \* the keyring can be written now
  ids, tokens, crashes, flaps, slow,
  current,   \* history: the token last saved and not signed out
  expected,  \* history: current, when the process loaded its token
  asked,     \* history: the interval the server is entitled to
  used,      \* history: installation IDs of the file that processes have gone on with
  misreads,  \* history: failed reads of an ID that was there
  races      \* history: reads without an ID while another process was making one

procVars  == <<pc, cmd, id, store, token, interval>>
diskVars  == <<idFile, keyring, credFile, tmpFile>>
boundVars == <<ids, tokens, crashes, flaps, slow>>
idHist    == <<used, misreads, races>>
histVars  == <<current, expected, asked, idHist>>
vars == <<procVars, diskVars, usable, boundVars, histVars>>

None == 0     \* no token, no ID, no such file
Torn == -1    \* a file that is there, but not whole

Init ==
  /\ pc = [p \in Procs |-> "idle"]
  /\ cmd = [p \in Procs |-> "daemon"]
  /\ id = [p \in Procs |-> None]
  /\ store = [p \in Procs |-> "keyring"]
  /\ token = [p \in Procs |-> None]
  /\ interval = [p \in Procs |-> 1]
  /\ idFile = None /\ keyring = None /\ credFile = None /\ tmpFile = None
  /\ usable \in BOOLEAN
  /\ ids = 0 /\ tokens = 0 /\ crashes = 0 /\ flaps = 0 /\ slow = [p \in Procs |-> 0]
  /\ current = None
  /\ expected = [p \in Procs |-> None]
  /\ asked = [p \in Procs |-> 1]
  /\ used = {} /\ misreads = 0 /\ races = 0

-----------------------------------------------------------------------------
Goto(p, l) == pc' = [pc EXCEPT ![p] = l]

\* main dispatches on the subcommand.  sign-out needs no installation ID.
Start(p, c) ==
  /\ pc[p] = "idle"
  /\ cmd' = [cmd EXCEPT ![p] = c]
  /\ Goto(p, IF c = "sign-out" THEN "open" ELSE "id")
  /\ UNCHANGED <<id, store, token, interval, diskVars, usable, boundVars, histVars>>

\* -installation-id or BRIDGE_INSTALLATION_ID gives the daemon an ID, and the file is left
\* alone.  enroll knows neither.
StartWithId(p) ==
  /\ pc[p] = "idle"
  /\ cmd' = [cmd EXCEPT ![p] = "daemon"]
  /\ id' = [id EXCEPT ![p] = None]
  /\ Goto(p, "open")
  /\ UNCHANGED <<store, token, interval, diskVars, usable, boundVars, histVars>>

Exit(p) ==
  /\ Goto(p, "idle")
  /\ token' = [token EXCEPT ![p] = None]

\* The command fails: the directory cannot be made ("id"), there is no randomness
\* ("newid"), a write or a request returns an error, or the 15 minutes of runEnroll are
\* over.  A failed read of the ID is no error (Misread).
Failing == {"id", "newid", "writeid", "request", "sleep", "poll", "save", "tmp", "rename", "clear"}

ExitError(p) ==
  /\ pc[p] \in Failing
  /\ Exit(p)
  /\ tmpFile' = IF pc[p] = "rename" THEN None ELSE tmpFile
  /\ UNCHANGED <<cmd, id, store, interval, idFile, keyring, credFile, usable, boundVars, histVars>>

-----------------------------------------------------------------------------
(* loadOrCreateInstallationID *)

\* enroll goes on to RequestCode, the daemon to its credentials.
UseId(p, i) ==
  /\ id' = [id EXCEPT ![p] = i]
  /\ used' = used \cup {i}
  /\ Goto(p, IF cmd[p] = "enroll" THEN "request" ELSE "open")

Whole(i) == i \notin {None, Torn}
Making   == {p \in Procs : pc[p] \in {"newid", "writeid"}}

\* An ID is there and is read.
ReadId(p) ==
  /\ pc[p] = "id" /\ Whole(idFile)
  /\ UseId(p, idFile)
  /\ UNCHANGED <<cmd, store, token, interval, diskVars, usable, boundVars,
                 current, expected, asked, misreads, races>>

\* An ID is there, but ReadFile returns an error, which is treated like a missing file.
Misread(p) ==
  /\ pc[p] = "id" /\ Whole(idFile) /\ misreads < MaxMisreads
  /\ misreads' = misreads + 1
  /\ Goto(p, "newid")
  /\ UNCHANGED <<cmd, id, store, token, interval, diskVars, usable, boundVars,
                 current, expected, asked, used, races>>

\* The file is missing or blank.
FindNoId(p) ==
  /\ pc[p] = "id" /\ ~ Whole(idFile)
  /\ IF Making = {}
     THEN UNCHANGED races
     ELSE races < MaxRaces /\ races' = races + 1
  /\ Goto(p, "newid")
  /\ UNCHANGED <<cmd, id, store, token, interval, diskVars, usable, boundVars,
                 current, expected, asked, used, misreads>>

\* os.WriteFile, first half: the file is created or emptied.
TruncateId(p) ==
  /\ pc[p] = "newid" /\ ids < MaxIds
  /\ ids' = ids + 1
  /\ id' = [id EXCEPT ![p] = ids + 1]
  /\ idFile' = Torn
  /\ Goto(p, "writeid")
  /\ UNCHANGED <<cmd, store, token, interval, keyring, credFile, tmpFile, usable,
                 tokens, crashes, flaps, slow, histVars>>

\* Mutant of WriteId: the ID is used though it could not be written.
WriteIdNotPersisted(p) ==
  /\ pc[p] = "writeid"
  /\ UseId(p, id[p])
  /\ UNCHANGED <<cmd, store, token, interval, diskVars, usable, boundVars,
                 current, expected, asked, misreads, races>>

WriteId(p) ==
  /\ pc[p] = "writeid"
  /\ idFile' = id[p]
  /\ UseId(p, id[p])
  /\ UNCHANGED <<cmd, store, token, interval, keyring, credFile, tmpFile, usable, boundVars,
                 current, expected, asked, misreads, races>>

-----------------------------------------------------------------------------
(* enroll.Client *)

\* DeviceAuth.interval: the RFC's default when the server omits it.
Interval(n) == IF n <= 0 THEN 1 ELSE n

RequestCode(p) ==
  /\ pc[p] = "request"
  /\ \E n \in Intervals :
       /\ interval' = [interval EXCEPT ![p] = Interval(n)]
       /\ asked' = [asked EXCEPT ![p] = Interval(n)]
  /\ slow' = [slow EXCEPT ![p] = 0]
  /\ Goto(p, "sleep")
  /\ UNCHANGED <<cmd, id, store, token, diskVars, usable, ids, tokens, crashes, flaps,
                 current, expected, idHist>>

Sleep(p) ==
  /\ pc[p] = "sleep"
  /\ Goto(p, "poll")
  /\ UNCHANGED <<cmd, id, store, token, interval, diskVars, usable, boundVars, histVars>>

Pending(p) ==
  /\ pc[p] = "poll"
  /\ Goto(p, "sleep")
  /\ UNCHANGED <<cmd, id, store, token, interval, diskVars, usable, boundVars, histVars>>

\* pollOnce returns 5 seconds, which Poll takes as its new interval.
SlowDown(p) ==
  /\ pc[p] = "poll" /\ slow[p] < MaxSlow
  /\ slow' = [slow EXCEPT ![p] = @ + 1]
  /\ interval' = [interval EXCEPT ![p] = 1]
  /\ asked' = [asked EXCEPT ![p] = @ + 1]
  /\ Goto(p, "sleep")
  /\ UNCHANGED <<cmd, id, store, token, diskVars, usable, ids, tokens, crashes, flaps,
                 current, expected, idHist>>

Granted(p) ==
  /\ pc[p] = "poll" /\ tokens < MaxTokens
  /\ tokens' = tokens + 1
  /\ token' = [token EXCEPT ![p] = tokens + 1]
  /\ Goto(p, "open")
  /\ UNCHANGED <<cmd, id, store, interval, diskVars, usable, ids, crashes, flaps, slow, histVars>>

-----------------------------------------------------------------------------
(* credstore *)

After(c) == CASE c = "enroll" -> "save" [] c = "sign-out" -> "clear" [] OTHER -> "load"

\* Open probes the keyring.
Open(p) ==
  /\ pc[p] = "open"
  /\ store' = [store EXCEPT ![p] = IF usable THEN "keyring" ELSE "file"]
  /\ Goto(p, After(cmd[p]))
  /\ UNCHANGED <<cmd, id, token, interval, diskVars, usable, boundVars, histVars>>

SaveKeyring(p) ==
  /\ pc[p] = "save" /\ store[p] = "keyring" /\ usable
  /\ keyring' = token[p]
  /\ current' = token[p]
  /\ Exit(p)
  /\ UNCHANGED <<cmd, id, store, interval, idFile, credFile, tmpFile, usable, boundVars,
                 expected, asked, idHist>>

\* Mutant of SaveTruncate: the credentials file itself is opened for writing.
SaveInPlace(p) ==
  /\ pc[p] = "save" /\ store[p] = "file"
  /\ credFile' = Torn
  /\ Goto(p, "tmp")
  /\ UNCHANGED <<cmd, id, store, token, interval, idFile, keyring, tmpFile, usable, boundVars, histVars>>

\* fileStore.Save: write a temporary file, then rename it.
SaveTruncate(p) ==
  /\ pc[p] = "save" /\ store[p] = "file"
  /\ tmpFile' = Torn
  /\ Goto(p, "tmp")
  /\ UNCHANGED <<cmd, id, store, token, interval, idFile, keyring, credFile, usable, boundVars, histVars>>

SaveWrite(p) ==
  /\ pc[p] = "tmp"
  /\ tmpFile' = token[p]
  /\ Goto(p, "rename")
  /\ UNCHANGED <<cmd, id, store, token, interval, idFile, keyring, credFile, usable, boundVars, histVars>>

SaveRename(p) ==
  /\ pc[p] = "rename" /\ tmpFile # None
  /\ credFile' = tmpFile /\ tmpFile' = None
  /\ current' = token[p]
  /\ Exit(p)
  /\ UNCHANGED <<cmd, id, store, interval, idFile, keyring, usable, boundVars, expected, asked, idHist>>

\* Mutant of Clear: only the keyring is cleared.
ClearKeyringOnly(p) ==
  /\ pc[p] = "clear"
  /\ keyring' = None
  /\ current' = None
  /\ Exit(p)
  /\ UNCHANGED <<cmd, id, store, interval, idFile, credFile, tmpFile, usable, boundVars,
                 expected, asked, idHist>>

\* Clear: nothing to remove is no error.
Clear(p) ==
  /\ pc[p] = "clear"
  /\ IF store[p] = "keyring"
     THEN usable /\ keyring' = None /\ UNCHANGED credFile
     ELSE credFile' = None /\ UNCHANGED keyring
  /\ current' = None
  /\ Exit(p)
  /\ UNCHANGED <<cmd, id, store, interval, idFile, tmpFile, usable, boundVars, expected, asked, idHist>>

-----------------------------------------------------------------------------
(* The daemon: config.Load *)

Stored(p) == IF store[p] = "keyring" THEN keyring ELSE credFile

\* loadStoredCredentials, then validate: without a token the daemon does not start.
Load(p) ==
  /\ pc[p] = "load"
  /\ store[p] = "keyring" => usable
  /\ IF Stored(p) \in {None, Torn}
     THEN Exit(p) /\ UNCHANGED expected
     ELSE /\ token' = [token EXCEPT ![p] = Stored(p)]
          /\ expected' = [expected EXCEPT ![p] = current]
          /\ Goto(p, "running")
  /\ UNCHANGED <<cmd, id, store, interval, diskVars, usable, boundVars, current, asked, idHist>>

\* The keyring fails after the probe: the daemon does not start.
LoadFail(p) ==
  /\ pc[p] = "load" /\ store[p] = "keyring" /\ ~ usable
  /\ Exit(p)
  /\ UNCHANGED <<cmd, id, store, interval, diskVars, usable, boundVars, histVars>>

Stop(p) ==
  /\ pc[p] = "running"
  /\ Exit(p)
  /\ UNCHANGED <<cmd, id, store, interval, diskVars, usable, boundVars, histVars>>

-----------------------------------------------------------------------------
(* The environment *)

Crash(p) ==
  /\ pc[p] # "idle" /\ crashes < MaxCrashes
  /\ crashes' = crashes + 1
  /\ Exit(p)
  /\ UNCHANGED <<cmd, id, store, interval, diskVars, usable, ids, tokens, flaps, slow, histVars>>

\* The secret service comes with a login session and goes with it.
Flap ==
  /\ flaps < MaxFlaps
  /\ flaps' = flaps + 1
  /\ usable' = ~ usable
  /\ UNCHANGED <<procVars, diskVars, ids, tokens, crashes, slow, histVars>>

Next ==
  \/ \E p \in Procs :
       \/ \E c \in {"enroll", "sign-out", "daemon"} : Start(p, c)
       \/ StartWithId(p) \/ ExitError(p) \/ Crash(p)
       \/ ReadId(p) \/ Misread(p) \/ FindNoId(p) \/ TruncateId(p) \/ WriteId(p)
       \/ RequestCode(p) \/ Sleep(p) \/ Pending(p) \/ SlowDown(p) \/ Granted(p)
       \/ Open(p) \/ SaveKeyring(p) \/ SaveTruncate(p) \/ SaveWrite(p) \/ SaveRename(p) \/ Clear(p)
       \/ Load(p) \/ LoadFail(p) \/ Stop(p)
  \/ Flap

Spec == Init /\ [][Next]_vars

-----------------------------------------------------------------------------
(* Properties *)

Tokens == None .. MaxTokens
Pcs == Failing \cup {"idle", "open", "load", "running"}

\* The type invariant: among it, Poll never runs with an interval of zero.
TypeOK ==
  /\ pc \in [Procs -> Pcs]
  /\ cmd \in [Procs -> {"enroll", "sign-out", "daemon"}]
  /\ id \in [Procs -> None .. MaxIds]
  /\ store \in [Procs -> {"keyring", "file"}]
  /\ token \in [Procs -> Tokens]
  /\ interval \in [Procs -> Nat \ {0}]
  /\ idFile \in Torn .. MaxIds
  /\ keyring \in Tokens /\ {credFile, tmpFile} \subseteq Tokens \cup {Torn}
  /\ usable \in BOOLEAN
  /\ ids \in 0 .. MaxIds /\ tokens \in 0 .. MaxTokens
  /\ crashes \in 0 .. MaxCrashes /\ flaps \in 0 .. MaxFlaps
  /\ slow \in [Procs -> 0 .. MaxSlow]
  /\ current \in Tokens /\ expected \in [Procs -> Tokens]
  /\ asked \in [Procs -> Nat \ {0}]
  /\ used \subseteq 1 .. MaxIds
  /\ misreads \in 0 .. MaxMisreads /\ races \in 0 .. MaxRaces

\* "a crash mid-write cannot leave a truncated credentials file" (credstore/file.go:47):
\* credentials.json is absent or holds a whole token, whatever crashes or fails.
CredentialsWhole == credFile \in Tokens

\* The daemon starts with the token of the last enrollment that was saved, and does
\* not start after a sign-out, across crashes and failed commands, as long as the
\* keyring is always usable or never.
DaemonUsesCurrent ==
  flaps = 0 => \A p \in Procs : pc[p] = "running" => token[p] = expected[p]

\* Commands whose ID comes from the file go on with one and the same ID, except for one
\* more each time a whole ID could not be read and each time a command found none
\* because another one was still making it.  A crash in between costs none, though it
\* leaves the file empty.
IdsExplained == Cardinality(used) <= 1 + misreads + races

-----------------------------------------------------------------------------
(* What the documents say and the code does not do *)

\* installid.go:30: the installation ID is "stable across restarts".  Refuted by a read
\* that fails, after which the file is overwritten with a new ID, and by two commands that
\* are started together.
IdStable == Cardinality(used) <= 1

\* enroll.go:182: "slow_down (RFC 8628 section 3.5): increase the interval by 5s and keep
\* polling".  Refuted: the interval becomes 5s, whatever it was.
SlowDownHonoured == \A p \in Procs : pc[p] = "sleep" => interval[p] >= asked[p]

\* cmd/bridge/enroll.go:93: sign-out "removes the stored credentials so the bridge is
\* no longer enrolled".  Refuted when the keyring was not usable at the time of the
\* enrollment and is at the sign-out: the file stays, and is used once the keyring
\* is away again.
SignedOutStaysOut == \A p \in Procs : pc[p] = "running" => expected[p] # None
=============================================================================
