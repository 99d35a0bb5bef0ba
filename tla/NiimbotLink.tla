---------------------------- MODULE NiimbotLink -----------------------------
(***************************************************************************)
(* The way of the printer's bytes to the client: the notification callback *)
(* of ble.go or the reader goroutine of serial.go puts chunks on the       *)
(* channel rx, the read loop of client.go feeds them to the parser and     *)
(* pushes the packets on the channel packets, from which await and drain   *)
(* take them.  The link may be lost or closed at any moment.               *)
(***************************************************************************)
EXTENDS Packets

CONSTANTS
  Good,       \* packets the printer may send
  Noise,      \* byte sequences that may be on the stream and are not frames
  MaxItems,   \* bound: packets and noise in a stream
  MaxDrops,   \* bound: notifications dropped
  Sizes,      \* bound: the numbers of bytes that may arrive together
  RxCap,      \* capacity of rx (64)
  PacketsCap  \* capacity of packets (64)

ASSUME LinkAssumption ==
  /\ \A p \in Good : p.cmd \in Byte /\ p.data \in Seq(Byte)
  /\ {MaxItems, MaxDrops} \subseteq Nat /\ {RxCap, PacketsCap} \cup Sizes \subseteq Nat \ {0}

VARIABLES
  kind,     \* Transport.Kind()
  items,    \* what the printer sends: packets and noise
  fed,      \* bytes of the stream the host has read or was notified of
  link,     \* "up", or "down" once lost or closed
  rx,       \* the channel of chunks
  closes,   \* times rx was closed
  reader,   \* serial: the chunk the reader goroutine holds
  closing,  \* Close has disconnected and is about to close rx
  told,     \* BLE: the connect handler has run for the loss of this link
  loop,     \* Client.readLoop: "range", "drop", "send" or "done"
  pushed,   \* packets of out put on the channel so far
  packets,  \* the channel of packets
  drops,    \* notifications dropped
  missing   \* history: the positions in the stream of the bytes that were dropped

dropVars == <<drops, missing>>
linkVars == <<link, closes, closing, told>>
loopVars == <<loop, pushed, packets>>
vars == <<kind, items, fed, rx, reader, dropVars, parserVars, linkVars, loopVars>>

\* What may be on the stream: the bytes, and the packet they stand for, if any.
Items == {[bytes |-> Marshal(p), sent |-> <<p>>] : p \in Good}
           \cup {[bytes |-> b, sent |-> <<>>] : b \in Noise}

Stream == FlattenSeq([i \in 1 .. Len(items) |-> items[i].bytes])

\* The bytes of the stream in front of item i.
Before(i) == FoldLeft(LAMBDA n, x : n + Len(x.bytes), 0, SubSeq(items, 1, i - 1))

Init ==
  /\ kind \in {"ble", "serial"}
  /\ items \in [1 .. MaxItems -> Items]
  /\ fed = 0 /\ link = "up" /\ rx = <<>> /\ closes = 0
  /\ reader = <<>> /\ closing = FALSE /\ told = FALSE
  /\ ParserInit
  /\ loop = "range" /\ pushed = 0 /\ packets = <<>>
  /\ drops = 0 /\ missing = {}

\* The bytes that arrive together, wherever packets begin and end.
Arrives(n) ==
  /\ link = "up"
  /\ fed' = fed + n /\ fed' <= Len(Stream)

Chunk(n) == SubSeq(Stream, fed + 1, fed + n)

-----------------------------------------------------------------------------
(* BLETransport *)

\* A full channel drops the notification.
Notify(n) ==
  /\ kind = "ble" /\ Arrives(n)
  /\ \/ /\ Len(rx) < RxCap
        /\ rx' = Append(rx, Chunk(n))
        /\ UNCHANGED dropVars
     \/ /\ Len(rx) = RxCap /\ drops < MaxDrops
        /\ drops' = drops + 1
        /\ missing' = missing \cup (fed + 1 .. fed')
        /\ UNCHANGED rx
  /\ UNCHANGED <<kind, items, reader, parserVars, linkVars, loopVars>>

\* Mutant of closeRx: closed without the sync.Once.
closeRxAgain == closes' = closes + 1

closeRx == closes' = IF closes = 0 THEN 1 ELSE closes

\* The handler set by SetConnectHandler: the peripheral is gone, by itself or because
\* Close disconnected it.
ConnectHandler ==
  /\ kind = "ble" /\ link = "down" /\ ~ told
  /\ told' = TRUE
  /\ closeRx
  /\ UNCHANGED <<kind, items, fed, rx, reader, dropVars, link, closing, parserVars, loopVars>>

-----------------------------------------------------------------------------
(* SerialTransport.readLoop *)

\* Read returned n bytes.
Read(n) ==
  /\ kind = "serial" /\ reader = <<>> /\ closes = 0 /\ Arrives(n)
  /\ reader' = Chunk(n)
  /\ UNCHANGED <<kind, items, rx, dropVars, parserVars, linkVars, loopVars>>

ReaderSend ==
  /\ reader # <<>> /\ Len(rx) < RxCap
  /\ rx' = Append(rx, reader)
  /\ reader' = <<>>
  /\ UNCHANGED <<kind, items, fed, dropVars, parserVars, linkVars, loopVars>>

\* Read failed: the goroutine ends and closes rx.
ReadError ==
  /\ kind = "serial" /\ reader = <<>> /\ link = "down" /\ closes = 0
  /\ closeRx
  /\ UNCHANGED <<kind, items, fed, rx, reader, dropVars, link, closing, told, parserVars, loopVars>>

-----------------------------------------------------------------------------
(* Close, and the loss of the link *)

LinkLost ==
  /\ link = "up"
  /\ link' = "down"
  /\ UNCHANGED <<kind, items, fed, rx, reader, dropVars, closes, closing, told, parserVars, loopVars>>

Close ==
  /\ ~ closing
  /\ link' = "down"
  /\ closing' = (kind = "ble")
  /\ UNCHANGED <<kind, items, fed, rx, reader, dropVars, closes, told, parserVars, loopVars>>

CloseRx ==
  /\ closing
  /\ closeRx
  /\ closing' = FALSE
  /\ UNCHANGED <<kind, items, fed, rx, reader, dropVars, link, told, parserVars, loopVars>>

-----------------------------------------------------------------------------
(* Client.readLoop *)

LoopChunk ==
  /\ loop = "range" /\ pushed = Len(out) /\ rx # <<>>
  /\ Feed(Head(rx))
  /\ rx' = Tail(rx)
  /\ UNCHANGED <<kind, items, fed, reader, dropVars, linkVars, loopVars>>

LoopParse ==
  /\ ParserStep
  /\ UNCHANGED <<kind, items, fed, rx, reader, dropVars, linkVars, loopVars>>

\* Feed has returned packets: the next one goes on the channel if there is room.
LoopPush ==
  /\ loop = "range" /\ ~ parsing /\ pushed < Len(out)
  /\ \/ /\ Len(packets) < PacketsCap
        /\ packets' = Append(packets, out[pushed + 1])
        /\ pushed' = pushed + 1
        /\ UNCHANGED loop
     \/ /\ Len(packets) = PacketsCap
        /\ loop' = "drop"
        /\ UNCHANGED <<packets, pushed>>
  /\ UNCHANGED <<kind, items, fed, rx, reader, dropVars, parserVars, linkVars>>

\* Mutant of LoopDrop: no room is made.
LoopDropNothing ==
  /\ loop = "drop"
  /\ loop' = "send"
  /\ UNCHANGED <<kind, items, fed, rx, reader, dropVars, parserVars, linkVars, pushed, packets>>

\* Mutant of LoopDrop: the packet in hand is dropped and not the oldest.
LoopDropNewest ==
  /\ loop = "drop"
  /\ pushed' = pushed + 1
  /\ loop' = "range"
  /\ UNCHANGED <<kind, items, fed, rx, reader, dropVars, parserVars, linkVars, packets>>

\* The channel was full: the oldest packet is dropped, if the consumer left one.
LoopDrop ==
  /\ loop = "drop"
  /\ packets' = IF packets = <<>> THEN packets ELSE Tail(packets)
  /\ loop' = "send"
  /\ UNCHANGED <<kind, items, fed, rx, reader, dropVars, parserVars, linkVars, pushed>>

LoopSend ==
  /\ loop = "send" /\ Len(packets) < PacketsCap
  /\ packets' = Append(packets, out[pushed + 1])
  /\ pushed' = pushed + 1
  /\ loop' = "range"
  /\ UNCHANGED <<kind, items, fed, rx, reader, dropVars, parserVars, linkVars>>

\* rx is closed and empty: done is closed.
LoopDone ==
  /\ loop = "range" /\ ~ parsing /\ pushed = Len(out) /\ rx = <<>> /\ closes > 0
  /\ loop' = "done"
  /\ UNCHANGED <<kind, items, fed, rx, reader, dropVars, parserVars, linkVars, pushed, packets>>

LoopStep == LoopChunk \/ LoopParse \/ LoopPush \/ LoopDrop \/ LoopSend \/ LoopDone

\* await or drain takes a packet.
Take ==
  /\ packets # <<>>
  /\ packets' = Tail(packets)
  /\ UNCHANGED <<kind, items, fed, rx, reader, dropVars, parserVars, linkVars, loop, pushed>>

Next ==
  \/ \E n \in Sizes : Notify(n) \/ Read(n)
  \/ ConnectHandler \/ ReaderSend \/ ReadError
  \/ LinkLost \/ Close \/ CloseRx
  \/ LoopStep \/ Take

\* Goroutines run, Read fails on a port that is gone, and the Bluetooth stack reports a
\* disconnect.  Nobody has to send, to take packets or to close the link.
Fairness ==
  /\ WF_vars(LoopStep)
  /\ WF_vars(ReaderSend) /\ WF_vars(ReadError)
  /\ WF_vars(ConnectHandler) /\ WF_vars(CloseRx)

Spec == Init /\ [][Next]_vars /\ Fairness

-----------------------------------------------------------------------------
(* Properties *)

\* The channels keep to their capacity, rx is closed at most once (closing it again would
\* panic), whoever of the connect handler, Close and the reader comes first, and the
\* parser's buffer does not pile up garbage.
TypeOK ==
  /\ kind \in {"ble", "serial"} /\ link \in {"up", "down"}
  /\ fed \in 0 .. Len(Stream)
  /\ Len(rx) <= RxCap /\ Len(packets) <= PacketsCap
  /\ closes \in 0 .. 1 /\ closing \in BOOLEAN /\ told \in BOOLEAN
  /\ loop \in {"range", "drop", "send", "done"} /\ pushed \in 0 .. Len(out)
  /\ drops \in 0 .. MaxDrops /\ missing \subseteq 1 .. fed
  /\ ParserTypeOK /\ NoBacklog

\* An item of which every byte, or only some, were dropped.
Bytes(i)   == Before(i) + 1 .. Before(i + 1)
Skipped(i) == Bytes(i) \subseteq missing
Damaged(i) == ~ Skipped(i) /\ Bytes(i) \cap missing # {}

\* The packets of the items before item n that were not dropped whole.
Sent(n) == FlattenSeq([i \in 1 .. n - 1 |-> IF Skipped(i) THEN <<>> ELSE items[i].sent])

\* The first damaged item, and the first that the parser has not left behind: a byte of
\* it is in the buffer, or has not arrived.
FirstDamaged == Min({i \in 1 .. Len(items) : Damaged(i)} \cup {Len(items) + 1})
Arrived(n)   == Cardinality((1 .. n) \ missing)
FirstOpen    ==
  Min({i \in 1 .. Len(items) : Before(i + 1) > fed \/ Arrived(Before(i + 1)) > Arrived(fed) - Len(buf)}
        \cup {Len(items) + 1})

\* Everything the host has read went through the parser.
Quiet == ~ parsing /\ rx = <<>> /\ reader = <<>>

\* For every chunking, and whatever noise is between them, no packet is invented or
\* reordered, and none is passed over: a packet that arrived is out, or still in the
\* buffer, behind a stray head or a corrupt length that announces more bytes than have
\* arrived (NoBacklog: fewer than the longest frame), where Feed does not return "every
\* complete packet now available" (packet.go:73).  Packets dropped whole are missing; a
\* notification dropped in the middle of an item leaves the packets in front of it alone.
DeliversSent ==
  /\ \/ IsPrefix(out, Sent(FirstDamaged))
     \/ FirstDamaged <= Len(items) /\ IsPrefix(Sent(FirstDamaged), out)
  /\ Quiet => IsPrefix(Sent(Min({FirstDamaged, FirstOpen})), out)

\* The same of a packet behind any garbage.  packet.go:66-67: the parser "resynchronises on
\* the next 0x55 0x55 after corrupt input".  Refuted: a single head byte in front of a
\* frame makes the frame's own first byte the second half of a head, and the resync skips
\* both.
Resynchronises == Quiet /\ missing = {} => IsPrefix(Sent(FirstOpen), out)

\* "drop the oldest to keep the newest" (client.go:83): whatever the consumer takes in
\* between, the channel holds the last packets parsed, in order and without a gap.
NewestKept == packets = SubSeq(out, pushed - Len(packets) + 1, pushed)

\* transport.go:16 and client.go:48: once the link is lost or closed the read loop ends,
\* and with it every await, even if rx is full and nobody takes packets.
LoopEnds == link = "down" ~> loop = "done"
=============================================================================
