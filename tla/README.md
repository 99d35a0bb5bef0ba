# brotherConnect in TLA+

brotherConnect is a bridge between a print server in the cloud and label
printers on a desk. It keeps one websocket connection to the server, receives
jobs, prints them one after another on each printer (Brother QL printers through
CUPS, NIIMBOT printers over Bluetooth or a serial port), and reports the state
of jobs and printers. This directory holds a model of it: modules with the
state and the steps of each component, TLC configurations that check them on
small instances, and TLAPS proofs that hold for every instance.

Contents: [the system](#the-system), [modules](#modules-and-the-code),
[runs](#runs-bounds-and-what-they-show), [fairness](#fairness),
[proofs](#proofs), [disagreements](#disagreements-between-documents-and-code),
[limits](#what-is-not-modelled), [plan](#plan).

## The system

| Component | State it keeps | Operations | Talks to |
|---|---|---|---|
| Print queue (`internal/queue`) | worker map, closed flag, one mutex; per worker a channel of 64 jobs; dedup store of terminal job IDs with time stamps | `Submit`, `Close`, the worker goroutines, `seenRecently`, `record` | called by read loops; calls `driver.Print` and the status sink |
| Job life cycle (`internal/job`) | a tracker per job | `Validate`, `CanTransition`, `Tracker.To` | used by the worker |
| Bridge (`internal/bridge`) | printers, a ring of 20 job records, connection flag | `onMessage`, `handleJobDeliver`, `onJobTransition`, `recordJob`, `watchPrinters` | joins all others |
| Server connection (`internal/transport`) | outbound channel of 128 messages, backoff, one connection with two loops | `Run`, `connectAndServe`, `handshake`, `Send`, `readLoop`, `writeLoop` | websocket; handler of the bridge |
| NIIMBOT backend (`internal/printer/niimbot.go`) | device map under `mu`, radio under `linkMu` | `poll`, `identify`, `Print`, `Status` | events to the bridge; the protocol client |
| NIIMBOT client (`internal/niimbot/client.go`) | buffer of 64 packets, request mutex, the model | `request`, `await`, `drain`, `requestRetry`, `Identify`, `Serial`, `Print` | the link |
| NIIMBOT link and framing (`ble.go`, `serial.go`, `readLoop`, `packet.go`) | channel of 64 chunks, parse buffer | notification callback, serial reader, connect handler, `Close`; `Feed`, `Marshal` | Bluetooth library, serial port; feeds the client |
| Labels (`render.go`, `image.go`) | none between calls | `decodeToImage`, `Fit`, `Encode`, `RowPackets` | called by the NIIMBOT backend before it opens the link |
| Brother backend (`usb_darwin.go`, `cups_darwin.go`) | known devices; registered printers and cached IPP endpoints | `poll`, `Register`, `Print`, `Status`, `LoadedMedia` | system_profiler, lpstat, lp, ippfind, ipptool |
| Enrollment (`internal/enroll`, `credstore`, `config`, `cmd/bridge`) | installation ID file, credentials in keyring or file | `enroll`, `sign-out`, start of the daemon | authorization server, disk, keyring |
| Autostart (`internal/autostart`) | a launchd property list | install, uninstall | launchd, which restarts the bridge |
| Status UI, virtual and stub printers, command line | none of their own worth modelling | | |

What is hard in it:

* **Goroutines that outlive their purpose.** `connectAndServe` returns on the
  first error of its two loops and waits for neither. A read loop of a dead
  connection may be inside `Submit` while the next connection delivers jobs; a
  write loop of a dead connection may still take a message.
* **Answers that come late.** A NIIMBOT reply may arrive after its request was
  given up, a revocation after a write error, a redelivery before the first
  copy ended.
* **State that is read, let go of, and used.** The dedup store is asked in
  `Submit` and written by the worker; the endpoint cache is filled once; the
  credential store is chosen anew by each process.
* **Full channels.** Job channels, the outbound buffer, the event channels and
  the packet buffer each have a policy (wait, refuse, wait, drop the oldest).
* **Crashes and losses.** Between truncating and writing a file, in the middle
  of a print sequence, with a message in hand, with the whole memory of the
  bridge: dedup store, queue and outbound buffer do not survive a restart.
* **Walks over bytes.** Frames cut by chunks, operands that look like commands,
  runs at their limit, sizes and boxes that are rounded separately.

What makes each component correct: the queue prints a printer's jobs one at a
time in order, forgets none while it is open, suppresses redeliveries and stops
when closed; the connection delivers messages in order and at most once, loses
at most one per connection in a failed write, beyond those written before the
loss is noticed, and ends when told; the bridge brings every acknowledged
delivery to one outcome, and the newest row of a job in the status UI is true;
the backends report the printers that are there,
and a status that is not their own has a known cause; the NIIMBOT client never skips a command, never reports
success for a label that was not printed and does not leave a printer in the
middle of a job; the link hands on what was sent whatever the chunks, and ends its read loop when it
is lost; the packets of a label show the picture of its payload; enrollment
survives crashes, and another installation ID has its cause; and between server
and label a job is completed only if the printer, or the spool of CUPS, has taken
it, taken again only for a known reason, and in the end answered or in
one known gap. The hazards, each at its line, are in
`PROJECT.json`.

## Modules and the code

| Module | Models | Kind |
|---|---|---|
| `PrintSpool` | what the queue promises | abstract specification |
| `JobQueue` | `internal/queue`, `internal/job` | component; refines `PrintSpool` |
| `Bridge`, `BridgeProofs` | `internal/bridge` around the queue | composition: EXTENDS `JobQueue`; the theorems on both |
| `Transport`, `TransportProofs` | `internal/transport` | component with theorems |
| `Delivery`, `DeliveryProofs` | server, connections, bridge, queue, printer and restarts, end to end | composition with theorems, at a coarser grain |
| `NiimbotBackend`, `NiimbotBackendProofs` | `printer/niimbot.go`, events, `watchPrinters` | component with theorems |
| `NiimbotClient`, `NiimbotClientProofs` | `niimbot/client.go`, one session; `identify`; `niimbot print` | component with its environment, with theorems |
| `Packets` | `niimbot/packet.go` | algorithm |
| `NiimbotLink` | `ble.go`, `serial.go`, `readLoop` | composition: EXTENDS `Packets` |
| `BrotherRaster` | `render.go`: the walk over a raster payload | algorithm |
| `LabelRaster` | `niimbot/image.go` from the binarised rows on | algorithm |
| `Label`, `LabelProofs` | `decodeToImage`, `Fit`, down to the packets | composition: EXTENDS `BrotherRaster`, `LabelRaster`; the theorems on all three |
| `BrotherBackend`, `BrotherBackendProofs` | `usb_darwin.go`, `cups_darwin.go`, `watchPrinters` | component with theorems |
| `Enrollment`, `EnrollmentProofs` | `enroll`, `credstore`, `installid.go`, commands | component with theorems |
| `MCBridge`, `MCBrotherBackend`, `MCJobQueue`, `MCLabel`, `MCNiimbotLink` | | instances for TLC, where a constant needs a definition; the other configurations name the component itself |

`PROJECT.json` maps each definition to its lines. A step is what one goroutine does
between two accesses of state that another may see: code under a mutex is one
step unless it waits inside, and then the holder of the mutex is a variable.

**JobQueue.** `Submit` is split at its dedup look-up, the mutex, the look-up of
the worker, its creation, the unlock and the send on the channel, because
several read loops and `Close` run in between. A worker is named by its printer
and the submitter that created it, so that two workers of one printer could be
expressed. `wpc` names the state a worker is about to report; `Emit` is
`Tracker.To`. The clock ticks freely. Histories: `handledAt` (time of a
terminal report), `accepted`, `finished`.

**Bridge.** A read loop offers the acknowledgement, calls `Submit` and handles
its result; a worker's emit calls the sink, which records and then sends. The
outbound buffer refuses when full, and an answer refused is counted apart
(`refused`): it never leaves, since the code only logs or drops it. A duplicate's
outcome is silence. The steps of the queue are those of
`JobQueue`, with the bridge's variables unchanged or, for a transition, the
sink entered.

**Transport.** Connections are numbered; each has a reader, a writer, an inbox and
an error channel of two. Errors are the four classes that `Run` tells apart. Messages
are numbered in the order of `Send`; one written to a connection already dead is
`vain`, one in hand at a failed write is `lost`. A message that cannot be decoded is
an error on a connection that may be in perfect health (`Undecodable`). The handler
may take its time.

**NiimbotBackend.** Poller, watcher and one print per printer. `mu` is held
between steps only where the expiry loop emits. The refresh interval is
abstracted: any printer may be due.

**Delivery.** One printer, the server's last word about each of its jobs and about
the printer, and the bridge process around them: outbound buffer, read loops
inside `handleJobDeliver`, worker, dedup store, watcher. It is coarser than
`JobQueue` and `Transport`, whose results it takes over (one job at a time in
order; a message written at most once, in order). Added are what only the whole
has: a connection that is dead before anyone notices, write loops that outlive
it, a write timeout that ends `Run`, the death of the process with its memory,
and launchd's restart. The server is external: it delivers, on every new
connection, each job of which it holds no terminal status. The printer is there or
not and has a status in which it prints or not; an update carries both, and the
status may turn without an event. `Print` returns nil when the printer has taken
the job or, with `Spools`, when `lp` has: `lp` returns once the job is spooled, so
that completed does not say that a label came out. Histories: jobs taken
per process life, deliveries let through while an earlier one was not
yet recorded (`extra`), what will never be received (`gone`), a status that has
turned since the last update (`turned`).

**NiimbotClient.** A session is the backend's print, its `identify`, or the
command `niimbot print`, which identifies first and has a deadline. Each is a
script of requests; a device type outside the table speaks the default task.
The printer executes, refuses, fails and prints at its own pace; the link loses
and delays but does not reorder. Replies carry a mark that says whether they
belong to the last request; the client never looks at it.

**NiimbotLink.** Bytes arrive in chunks of the lengths `Sizes`, which may end inside
a frame or span several, by notification (dropped when `rx` is
full) or through the serial reader (which waits); `readLoop` parses one packet
per step and makes room in the packet channel in two steps, between which the
consumer may take one. `rx` is closed by the connect handler, by `Close` or by
the reader.

**Label.** A payload is a PDF or image, whose picture is given, or a Brother raster
payload of a few commands with operands that look like commands, cut off
anywhere; the walk takes one step per command. Pictures are sets of black dots.
`Fit` works on integers; where a quotient is exact and the scale is not a binary
fraction both roundings of the float are possible.

**BrotherBackend.** The device is its serial number and uuid; models are a
relation of containment between names, since queues and endpoints are matched
by substring. Endpoints are numbers that ipp-usb gives out, also to a second device
after a restart (`owners` is the history of who had which); `Flaky` says whether
commands may fail.
The commands inside one look-up by ippfind are one step.

**Enrollment.** Every write to disk is split where a crash can fall: truncate,
write, rename. A failed read of the installation ID is treated like a missing file
and a new ID replaces the old one (`Misread`); the daemon may be given an ID and
leave the file alone (`StartWithId`). Times are in units of five seconds.

**Packets.** Bytes of `Width` bits that keep the patterns 0101.. and 1010.. of
head and tail.

**LabelRaster.** A row is a sequence of bytes, a byte a set of black pixels, so
that counting is `Cardinality`; `ByteMax` and `CheckEvery` replace 255 and 200.

## Runs, bounds and what they show

Each run is `tlc -config <run>.cfg <module>` in this directory. Deadlock is not
checked: every instance ends when its bounded inputs are used up, and the
waits that matter are liveness properties instead.

| Run | Properties | What it shows |
|---|---|---|
| `JobQueueSafety` | `NothingLost`, `SequentialPerPrinter`, `QuietAfterClose`, `TerminalRemembered`, `ImplementsSpool`, `HandledNotAccepted` | Two read loops, three submissions of two jobs, more than a retention period, `Close` at any time: one worker per printer, nothing accepted disappears while the queue is open, silence after `Close`, suppression to the last tick, refinement of the spool. |
| `JobQueueReprint` | `NoReprintOfHandled` (violated) | A redelivery queued before the first copy ended is printed after the job was reported terminal. |
| `Bridge` | `EveryAckAnswered`, `NewestRowTruthful`, `AckedIsAnswered`, `CallsReturn` | Two printers, a channel and a buffer of one, a ring of two: each delivery the handler takes comes to exactly one outcome (an answer in the buffer, one that `Send` refused, or the silence for a duplicate); the newest row of a job in the UI is true, older rows may not be (`BridgeRows`); neither `Submit` nor `Close` waits for ever. |
| `Delivery` | `CompletedWasTaken`, `ReprintExplained`, `ViewExplained`, `FinishedStaysFinished`, `JobsAnswered` | A job over two connections, a full buffer and a restart: completed means taken by the printer or spooled by `lp`; a second label needs a delivery that overtook the record, or a restart; the server's view of the printer is wrong only while, or because, the one update is missing or the status has turned since; every job is answered, or its answer was lost and every redelivery is swallowed. |
| `TransportSafety` | `TypeOK`, `HandedInOrder`, `Accounted`, `ConnectedIsServing` | Three messages over two connections with loops that outlive them: order, one place for each message, at most one lost per connection in a failed write (those written in vain counted apart), a truthful status, a delay that stays at its cap. |
| `TransportLive` | `RunEnds` | Cancellation and revocation end `Run`, whichever error is reported first. |
| `NiimbotSafety` | `BusyIsPrinting`, `PresenceTracked`, `NoExpiryDuringPrint` | A serial and a BLE printer, a print, power changes, channels of two. |
| `NiimbotClient` | `GapFree`, `SuccessMeansDone`, `NotLeftMidJob`, `SessionReturns` | Identification, print and command for each task and for a type that is not listed, two copies, three mishaps (losses, refusals, faults, a lost link) at any point. |
| `Link` | `TypeOK`, `DeliversSent`, `NewestKept`, `LoopEnds` | Streams of two items, good frames, corrupt frames, a corrupt length and heads without a frame, byte by byte and in chunks that end inside an item or span both, `rx` and packets of one, a dropped notification, loss and `Close` at any moment. |
| `Label` | `PayloadWalked`, `PictureOfLines`, `RowPacketsExact`, `InkPrinted` | Payloads of up to three commands after a preamble, also cut short, and five pictures on labels of seven sizes, through both ways of counting pixels. |
| `Brother` | `StatusExplained`, `PresenceFollows` | Two printers, the model name of one within that of the other, two endpoints for three changes on the bus, failing commands: another printer's status has one of two causes, such a name or an endpoint that passed from one printer to the other. |
| `EnrollmentCrash` | `CredentialsWhole`, `DaemonUsesCurrent`, `IdsExplained` | Two enrollments, sign-outs and starts, two crashes anywhere, a keyring that comes and goes, a failed read of the installation ID. |

Four more configurations look at one property under other bounds, and pass.
`JobQueueLive` repeats `CallsReturn` on the queue alone with two read loops that
block on one full channel. `DeliveryView` repeats `ViewExplained` without jobs, with
four changes of the printer, three connections and two crashes. `LinkCuts` repeats
`DeliversSent` with chunks of every size from 1 to 18, two frames at once.
`EnrollmentIds` repeats `IdsExplained` with two commands at once.

Why the bounds are enough. The queue's hazards need two submitters, a duplicate
and a channel that is full or holds two different jobs: three submissions give
all of them; retention is one tick and the clock passes it. In the connection two
generations are what it takes for an old loop to meet a new connection, and
three messages for one to be written, one in hand and one waiting. In the
discoveries two printers and channels of two make the poller wait for the
watcher and events overtake each other. Between server and label one job is
enough, since jobs meet only in the queue: a second connection redelivers it
while the first delivery is queued, printing or recorded, a buffer of two fills
with its reports, and one restart forgets it. In the client three mishaps lose a
command and both its retries, and a fault can meet a lost reset; the packet
buffer of two overflows. On the link two items put a corrupt frame in front
of or behind a good one and two good ones behind each other, which together with
channels of one fills both. Between server and printer one change of its presence
or status is enough to make the one update stale, lost or missing. For runs and check
lines the limits are small enough that one run fills the repeat byte, and one
holds two check lines; the labels are wider and taller, smaller and larger than
the pictures, with scales that are binary fractions and scales that are not. The
passing runs between them take every action of every module; every property is
violated by a mutated definition of the code it speaks of (`PROJECT.json`,
mutants).

Symmetry is used in `JobQueueSafety` only, over the read loops.

## Fairness

* `JobQueue`, `Bridge`: goroutines that can run do run (weak fairness per
  goroutine). A waiter for a Go mutex is eventually given it (the starvation
  mode of `sync.Mutex`), and a select on the send case and the done case picks a
  ready one: strong fairness of `Lock`, `CloseLock` and the send. That
  `driver.Print` returns is assumed here; `NiimbotClient` shows when it does.
* `Transport`: as above, and the handler returns (`CallsReturn`). A select
  picks at random among ready cases, so a done context is eventually noticed
  (strong fairness of `WriterDone`). A message that stays receivable is
  received. For the revocation a dial that is repeated for ever is some time
  answered by the server; without that a bridge without network could not learn
  of its revocation.
* `Delivery`: goroutines run, a restarted process connects, the last connection of
  a behaviour stays up, and `driver.Print` returns. Write loops of lost
  connections stop, so that they do not starve the present one.
* `NiimbotLink`: the read loop and the serial reader run, reading a port that is
  gone fails, and the Bluetooth library reports a disconnect.
* `NiimbotClient`: the client and its read loop run, the printer answers what
  reaches it and goes on printing unless it has a fault, which it reports.
  `Print` has no deadline of its own, so this assumption is needed: with a
  printer that stays silent in the middle of a label the polls go on.
* `BrotherBackend`: the ticker and the watcher run, commands end (ippfind by its
  own timeout), scans do not fail for ever.

No fairness is assumed of the environment otherwise: connections need not come
up, printers need not be plugged in, nobody has to enroll.

## Proofs

TLAPS proves the following for every value of the constants: any sets of
printers, jobs, read loops and processes, any capacities, retention periods and
ring lengths, any number of connections, crashes and restarts, any pictures,
payloads, heads and sizes of label.

| Module | Theorem | Property | Rests on |
|---|---|---|---|
| `BridgeProofs` | `TypeCorrect` | `TypeOK` of the queue | itself, action by action |
| | `Sequential` | `SequentialPerPrinter` | `QueueInv` |
| | `Quiet` | `QuietAfterClose` | `QueueInv` |
| | `Remembered` | `TerminalRemembered` | `RememberInv` |
| | `Suppressed` | `HandledNotAccepted`, an action property | `RememberInv` |
| | `Lossless` | `NothingLost` | `ServiceInv` |
| | `Refines` | `ImplementsSpool`, the refinement of `PrintSpool` | `ServiceInv` |
| | `RunsQueue` | `BridgeSpec => Spec`: the bridge runs the queue | `BridgeIsQueue` |
| | `BridgeTypeCorrect` | `BridgeTypeOK` | itself |
| | `RingTruthful` | `NewestRowTruthful` | `RingInv` |
| | `AcksAnswered` | `EveryAckAnswered` | `AckInv` |
| `TransportProofs` | `TypeCorrect` | `TypeOK`, with the delay within its cap | `BaseInv` |
| | `StatusTruthful` | `ConnectedIsServing` | `ConnInv` |
| | `InOrder` | `HandedInOrder` | `OrderInv`, `PlaceInv` |
| | `Conserved` | `Accounted` | `PlaceInv`, `LossInv` |
| `DeliveryProofs` | `TypeCorrect` | `TypeOK` | `TypeInv` |
| | `CompletedTrue` | `CompletedWasTaken` | `CompletedInv` |
| | `ReprintsCounted` | `ReprintExplained` | `CountInv` |
| | `ViewTrue` | `ViewExplained` | `ViewInv` |
| | `FinishedStays` | `FinishedStaysFinished`, an action property | `EndedInv` |
| `NiimbotBackendProofs` | `TypeCorrect` | `TypeOK` | `TypeInv` |
| | `Busy` | `BusyIsPrinting` | `LinkInv` |
| | `NoExpiry` | `NoExpiryDuringPrint`, an action property | `LinkInv` |
| | `ListFollows` | `PresenceTracked` | itself, with lemmas on `Settles` |
| `NiimbotClientProofs` | `TypeCorrect` | `TypeOK`, with the packet buffer within its capacity | `TypeInv` |
| | `NotLeftMid` | `NotLeftMidJob` | `CalmInv` |
| | `GapFreeHolds` | `GapFree` | `GapInv` |
| | `SuccessTrue` | `SuccessMeansDone` | `GapInv`, `DoneInv`, `Known` |
| `LabelProofs` | `WalkStaysInSync` | `PayloadWalked` | `WalkInv` |
| | `LinesPictured` | `PictureOfLines` | `StaticInv`, `PictureInv` |
| | `InkReachesHead` | `InkPrinted` | `PageInv`, `PictureInv`, `PlacedInv` |
| | `PacketsExact` | `RowPacketsExact` | `StaticInv`, `PageInv` |
| `BrotherBackendProofs` | `TypeCorrect` | `TypeOK` | `TypeInv` |
| | `OwnStatus` | `StatusExplained` | `OwnInv` |
| `EnrollmentProofs` | `TypeCorrect` | `TypeOK` | `TypeInv` |
| | `FileWhole` | `CredentialsWhole`, under `OneProcess` | `FilesInv` |
| | `StartsWithCurrent` | `DaemonUsesCurrent`, under `OneProcess` | `FilesInv` |
| | `OneId` | `IdsExplained` | `IdsInv` |

*Assumptions.* Those named in the modules (`QueueAssumption`,
`BackendAssumption` and so on) say that capacities and periods are positive,
that a marker value such as `NoOne` is none of the processes or jobs, and, in
`Delivery`, that the server has finitely many jobs; TLC evaluates them on every
run. Two theorems of `EnrollmentProofs`, on the credentials, hold for one command at
a time (`OneProcess`): two commands share the temporary file. No other theorem has
a hypothesis of its own.

`Label` assumes a head (`HeadAssumption`) of whole groups of bytes for counting by
thirds, pictures that lie within their width and height, and payloads
of whole commands whose lines hold 1 to 128 bytes (`CommandAssumption`; the code
uses 90): the ESC i commands that a QL job uses have fixed lengths, and about a
payload with others `escCommandLen` promises nothing.

*Why the invariants are needed.*

* **Queue.** That no printer has two workers does not follow from itself: a
  submitter between its look-up and `newWorker` is about to create one. `QueueInv`
  adds who holds the mutex when (`LockDiscipline`), that a submitter about to
  create a worker sees an empty entry and an open queue (`CreatorSeesNone`),
  `StartedIsMapped` and `ClosedByCloser`. `Quiet` then follows because `Close`
  returns only when every worker is gone and none is created once the queue is
  closed. `RememberInv` adds that no entry of the store is dated after the clock,
  which is what makes pruning remove only entries past their period. `ServiceInv`
  says that a submitter past the mutex holds the worker that serves its printer,
  that a worker has only jobs of its printer, and that its tracker is where its
  program counter says: without the first an accepted job could go to a channel
  nobody reads, without the last the life cycle of the spool would not follow.
  The refinement maps a printer's line, the job in service and its status to
  those of its one worker.
* **Bridge.** Every step of the bridge is a step of the queue or leaves it alone, so
  that the theorems on the queue hold inside it. `StandInv` ties a read loop in
  `Submit` to its handler and a sink call to a busy worker. `RingInv` speaks of
  the newest record of a job only; older ones may be out of date and are
  evicted first. `AckInv` counts the three places of an acknowledged delivery
  (handler, channel, worker) as finite sets, and each action moves one element
  from one of them to the next, or to the answers.
* **Connection.** `BaseInv` says which of the loops of a connection exist and who
  holds a message, `ConnInv` that every connection but the present one is
  closed; `PlaceInv` that sent, buffered, held, written and lost messages
  partition what `Send` was given; `OrderInv` that the buffer is newer than all
  that left it, and what the write loop of an open connection holds newer than
  all that was written; `LossInv` that no more messages are lost than write
  loops have ended. That the delay
  stays within its cap is an induction over the loop of `Backoff.Next`, whose
  recursive function is first shown to exist (`GrownEquation`).
* **Delivery.** `CompletedInv` follows a completed status from the worker through
  the buffer to the server. `CountInv` counts, per job and life of the process,
  the copies on the channel, in a handler, with the worker and in the store: a
  life has room for one of them, plus `extra`. `ViewInv` keeps the updates in the
  buffer ordered and below the last one, `EndedInv` says that after a terminal
  status nothing that would reopen the job is behind it in the buffer.
* **NIIMBOT backend.** `LinkInv` adds the bookkeeping of `linkMu`: the poller holds
  it exactly while it is not idle, a print exactly while it connects or prints,
  hence no expiry during a print and no busy mark after it. `PresenceTracked` is
  inductive once the lemmas say what appending and taking an event do to the
  list that the events in flight settle on.
* **NIIMBOT client.** `Standing`, a part of `TypeInv`, says that the requests still to
  be made are the rest of the queries, of the printer's own task or of the reset;
  `ClientMoves` sorts the client's steps by what becomes of them. `CalmInv`: no
  job is open, or a start on its way, before the third command of a task, and
  behind the cancel of the reset there is no start. `GapInv`: at most one command
  that carries something out is on its way, and it is the next one; while the client
  waits for its answer it was carried out at most once, and at most one reply
  says so. That is why a late reply cannot make Print skip a command: `drain`
  alone does not prevent it (`NiimbotClientLate`). `DoneInv` keeps the printer's
  ledger (copies and labels due after each command) and says of every status or
  PrintEnd reply under way that it does not promise more than is printed.
* **Brother backend.** `OwnInv`: a printer that is served is among the owners of its
  endpoint (`Resident`), which grow only; every cached endpoint was served to a
  printer whose name contains the one it is cached for (`Cached`); and what the
  look-up in progress holds is explained in the same way (`Answering`).
* **Enrollment.** `FilesInv`: a rename finds the whole token in the temporary file;
  while the keyring has not changed every command opens the store that holds
  the current token. `IdsInv` counts the IDs in use together with the
  commands that are making one: a command begins to make one only while the file
  holds no whole ID and nobody else is at it, and then there is room for one more
  (also after a crash in between), or it is one of the failed reads and races counted.

* **Labels.** `WalkInv`: the payload is a job of sound commands or the beginning
  of one, and the walk stands behind some number of them, in the mode they
  leave and with their lines, or has ended inside the next. That
  each step leads to the next boundary rests on what each command's bytes are and
  on `PackedUnpacks`: a line packed in any of the ways the server may choose is
  unpacked to itself. The concatenation of commands (`FlattenSeq`) and
  `packbitsDecode` are recursive functions; that they exist is shown by an induction
  over a set (`SetInduction`), after which their equations suffice. `PictureInv`
  keeps the picture empty until the lines are complete; mirroring and cropping
  are then a shift and a reflection of a finite set, whose least and greatest
  members move with it. `PageInv` carries the page through the encoder: the runs
  stand for exactly the rows before `y`, the packets for exactly the runs before
  `k`, and the check lines for the due rows before `nextCheck`, each behind the
  packet that holds its row. Counts are cardinalities, so that the thirds of a
  row add up to the row. `PlacedInv` ties the page to the picture; the rest is the
  arithmetic of `Fit`, two divisions that must not lose a dot between them.
  Two faults of the model came to light: `SplitsOf` allowed a repeated run of one
  byte, which PackBits has no code for, and the cases of `escCommandLen`
  overlapped, which TLC resolves in their order and the logic does not.

*Only model-checked.* The liveness properties, as the prover handles neither
fairness nor ENABLED: `AckedIsAnswered`, `CallsReturn`, `JobsAnswered`, `RunEnds`,
`SessionReturns`, `LoopEnds`, `PresenceFollows`. The
invariants of `NiimbotLink` (`TypeOK`, `DeliversSent`, `NewestKept`): its parser
uses the bitwise operators of `Packets`, which the prover does not know.

## Disagreements between documents and code

`JobQueueReprint` is a listed run. The following properties state what a comment
or a document says in the same way and TLC refutes each with the configuration
named; they are kept for whoever changes the code.

| Configuration, property | What the text says | What the code does |
|---|---|---|
| `JobQueueReprint`, `NoReprintOfHandled` | `job.go:46`: the bridge must not reprint a job it has terminally handled | only `Submit` asks the dedup store; a duplicate already queued is printed |
| `JobQueueDrain`, `DrainedOnClose` | `queue.go:110`, `bridge.go:150`: drains on shutdown | a worker may take the done case with jobs on its channel |
| `TransportStop`, `LossReconnects` | `client.go:81`: until cancelled or revoked, reconnects on loss | a write timeout is a DeadlineExceeded, on which `Run` returns |
| `NiimbotStatus`, `StatusReported` | `server-contract.md:99`: an update on every status change | `Print` changes the cached status without an event |
| `NiimbotEmit`, `EmitNeverStuck` | `events.go:5`: without blocking on a slow consumer | `emit` waits, in the expiry loop with `mu` held, and the watcher waits for `mu` (needs more pending events than the channels hold, 32 in the code) |
| `NiimbotClientLate`, `LateReplyRejected` | `niimbot/client.go:120`: a late reply is not mistaken | `drain` sees only what has arrived |
| `EnrollmentSlowDown`, `SlowDownHonoured` | `enroll.go:182`: increase the interval by 5s | the interval becomes 5s |
| `EnrollmentSignOut`, `SignedOutStaysOut` | `cmd/bridge/enroll.go:93`: no longer enrolled | only the store selected at that moment is cleared |
| `EnrollmentMisread`, `IdStable` | `installid.go:30`: stable across restarts | an error on reading the file is treated like a missing file: a new ID replaces the old one (two first runs at once also use two) |
| `BridgeRows`, `EveryRowTruthful` | `bridge.go:41`: a compact record of a job's latest state | `recordJob` replaces the trailing record only: with two printers at work an older row of the job stays and shows a state it has left |
| `LinkResync`, `Resynchronises` | `packet.go:66`: resynchronises on the next 0x55 0x55 after corrupt input | one head byte in front of a frame makes the frame's first byte the second half of a head; the parser skips both and loses the frame |
| `NiimbotClientIdentity`, `IdIsSerial` | `printer.go:40`: the ID is stable across reconnects | on a serial port, when both reads of the serial number fail, the ID is made of the port's path |
| `BrotherRegister`, `KnownIsResolved` | `bridge.go:176`: registered so that a job can be resolved | jobs are delivered before the watcher has registered a known printer |
| `BrotherQueue`, `PrintsOnOwn` | `cups_parse.go:102`: the queue serving the printer | the queue of another printer of the model, if it is the only one |
| `BrotherEndpoint`, `StatusIsOwn` | `cups_darwin.go:147`: the printer's live status | a cached endpoint is not asked whose it is |
| `BrotherStatus`, `StatusFollows` | `server-contract.md:99`: an update on every status change | a Brother printer's status is read when it appears |

## What is not modelled

* The text of messages, logs and command output: JSON, IPP attributes, lpstat
  lines, the fields of a heartbeat or RFID reply. What they say is modelled
  where it decides something.
* Colour, transparency and error diffusion in the raster encoder, its preview
  image, image decoding and PDF rendering: libraries and external programs.
* The status UI (it reads `Snapshot`), installing the launchd agent (one file and
  two commands without state of their own), the commands `niimbot scan`, `niimbot
  info` and the listing of printers (they only read).
* Scanning and connecting over Bluetooth, which the library does. The connect
  handler is set on the adapter, not on the link: that a disconnect of an earlier
  link, or a notification behind a disconnect, does not arrive late is assumed.
* `MultiDriver` (it chooses by ID prefix), the virtual printer and the test
  doubles.
* A NIIMBOT printer that is reachable at two addresses, and printers without a
  serial number, which share an ID.

## Plan

In order of importance; all but the last part is done.

1. Done: queue with spool and first theorems, bridge, connection, NIIMBOT
   backend and client, framing, raster, Brother backend, enrollment.
2. Done: delivery end to end with a server that redelivers and a process that
   restarts; the link under the NIIMBOT client; identification and deadlines of
   its sessions; labels from the payload to the packets.
3. Done: the safety properties of the queue, the bridge, the connection, the
   delivery, both backends, the NIIMBOT client, labels and enrollment for every
   instance, and the refinement of `PrintSpool`.
4. Further modelling, if the code grows there: one printer at two addresses; media
   sizes in the Brother driver; routing with the virtual backend.
