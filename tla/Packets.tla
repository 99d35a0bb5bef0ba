------------------------------ MODULE Packets -------------------------------
(***************************************************************************)
(* The framing of the NIIMBOT protocol: internal/niimbot/packet.go.  A     *)
(* byte stream reaches the parser in arbitrary chunks (NiimbotLink brings  *)
(* them); Feed takes frames and garbage from the front of its buffer until *)
(* it needs more bytes, one step per pass of its loop.  Bytes have Width   *)
(* bits (8 in the code), so that the head 0101... and the tail 1010...     *)
(* stay what they are.                                                     *)
(***************************************************************************)
EXTENDS Integers, Sequences, FiniteSets, FiniteSetsExt, SequencesExt, Bitwise

CONSTANTS
  Width,     \* bits of a byte
  HeadByte,  \* 0x55
  TailByte   \* 0xAA

Byte == 0 .. 2^Width - 1

ASSUME PacketsAssumption ==
  /\ Width \in Nat \ {0}
  /\ {HeadByte, TailByte} \subseteq Byte

VARIABLES
  buf,     \* Parser.buf
  out,     \* the packets returned so far
  parsing  \* Feed's loop is running

parserVars == <<buf, out, parsing>>

PacketOverhead == 7
MaxData == 2^Width - 1

checksum(cmd, data) == FoldLeft(LAMBDA a, b : a ^^ b, cmd ^^ Len(data), data)

\* Defined for data of at most MaxData bytes; the code returns an error for more.
Marshal(p) ==
  <<HeadByte, HeadByte, p.cmd, Len(p.data)>> \o p.data \o <<checksum(p.cmd, p.data), TailByte, TailByte>>

Drop(n) == buf' = SubSeq(buf, n + 1, Len(buf))

ParserInit == buf = <<>> /\ out = <<>> /\ parsing = FALSE

Feed(chunk) ==
  /\ ~ parsing
  /\ buf' = buf \o chunk
  /\ parsing' = TRUE
  /\ UNCHANGED out

-----------------------------------------------------------------------------
(* next *)

Heads == {i \in 1 .. Len(buf) - 1 : buf[i] = HeadByte /\ buf[i + 1] = HeadByte}

AtHead   == Heads # {} /\ Min(Heads) = 1
Total    == buf[4] + PacketOverhead
Complete == AtHead /\ Len(buf) >= 4 /\ Len(buf) >= Total
Data     == SubSeq(buf, 5, 4 + buf[4])

\* Mutant of Valid: the checksum is not looked at.
ValidTailOnly == buf[Total] = TailByte /\ buf[Total - 1] = TailByte

Valid    == /\ buf[Total] = TailByte /\ buf[Total - 1] = TailByte
            /\ buf[Total - 2] = checksum(buf[3], Data)

\* No head: keep a possible first half of one.  With nothing to drop, Feed returns.
SkipNoHead ==
  /\ parsing /\ Heads = {}
  /\ LET n == IF buf # <<>> /\ buf[Len(buf)] = HeadByte THEN Len(buf) - 1 ELSE Len(buf) IN
     /\ Drop(n)
     /\ parsing' = (n > 0)
  /\ UNCHANGED out

SkipToHead ==
  /\ parsing /\ Heads # {} /\ ~ AtHead
  /\ Drop(Min(Heads) - 1)
  /\ UNCHANGED <<out, parsing>>

NeedMore ==
  /\ parsing /\ AtHead /\ ~ Complete
  /\ parsing' = FALSE
  /\ UNCHANGED <<buf, out>>

\* A corrupt frame: skip its head.
SkipHead ==
  /\ parsing /\ Complete /\ ~ Valid
  /\ Drop(2)
  /\ UNCHANGED <<out, parsing>>

Produce ==
  /\ parsing /\ Complete /\ Valid
  /\ out' = Append(out, [cmd |-> buf[3], data |-> Data])
  /\ Drop(Total)
  /\ UNCHANGED parsing

\* One pass of Feed's loop.
ParserStep == SkipNoHead \/ SkipToHead \/ NeedMore \/ SkipHead \/ Produce

ParserTypeOK ==
  /\ buf \in Seq(Byte)
  /\ out \in Seq([cmd : Byte, data : Seq(Byte)])
  /\ parsing \in BOOLEAN

\* Between two calls of Feed the buffer holds nothing, half a head, or the beginning
\* of a frame: garbage does not pile up.
NoBacklog == ~ parsing => Len(buf) <= 1 \/ (AtHead /\ ~ Complete)
=============================================================================
