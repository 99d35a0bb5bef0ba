---------------------------- MODULE LabelRaster -----------------------------
(***************************************************************************)
(* How an image becomes NIIMBOT row packets: internal/niimbot/image.go,    *)
(* from the binarised rows on (Encode's merging of equal rows into runs,   *)
(* RowPackets and pixelCounts).  One step per row, then per packet.  The   *)
(* rows come from Fit (module Label).                                      *)
(*                                                                         *)
(* A row is the sequence of its bytes; a byte is a set of black pixels.    *)
(***************************************************************************)
EXTENDS Integers, Sequences, FiniteSets, FiniteSetsExt

CONSTANTS
  ByteMax,     \* largest value of a byte (255 in the code)
  CheckEvery,  \* rows between two check lines (200 in the code)
  HeadBytes    \* headPixels / 8: bytes across the print head

ASSUME RasterAssumption ==
  /\ ByteMax \in Nat \ {0} /\ CheckEvery \in Nat \ {0} /\ HeadBytes \in Nat

VARIABLES
  mode,       \* CountMode: "split" (printB1, printD110) or "total" (printB21V1)
  rows,       \* the binarised image, row 0 first
  y,          \* rows encoded so far
  runs,       \* EncodedImage.Runs
  k,          \* the run that RowPackets works on
  nextCheck,  \* its nextCheck
  packets,    \* its out
  phase       \* "encode", "row", "check" or "done"; before and besides, see Label

rasterVars == <<mode, rows, y, runs, k, nextCheck, packets, phase>>

\* The black pixels of some bytes of a row, and their number.
Dots(r, idx)  == UNION {{i} \X r[i] : i \in idx}
Count(r, idx) == Cardinality(Dots(r, idx))
Black(r)      == Count(r, 1 .. Len(r))

Height == Cardinality(DOMAIN rows)

RasterInit ==
  /\ mode = "split"
  /\ rows = <<>>
  /\ y = 0 /\ runs = <<>> /\ k = 1 /\ nextCheck = CheckEvery - 1 /\ packets = <<>>

\* Encode: a blank row has no bits; a row equal to the last run's lengthens it, as
\* long as the repeat counter is below the largest byte.
Bits(r) == IF Black(r) = 0 THEN <<>> ELSE r

\* Mutant of CanMerge: rows with the same count are taken as equal.
CanMergeByCount ==
  /\ runs # <<>>
  /\ runs[Len(runs)].repeat < ByteMax
  /\ runs[Len(runs)].black = Black(rows[y])

CanMerge ==
  /\ runs # <<>>
  /\ runs[Len(runs)].repeat < ByteMax
  /\ runs[Len(runs)].black = Black(rows[y]) /\ runs[Len(runs)].bits = Bits(rows[y])

EncodeRow ==
  /\ phase = "encode" /\ y < Height
  /\ runs' = IF CanMerge
             THEN [runs EXCEPT ![Len(runs)].repeat = @ + 1]
             ELSE Append(runs, [index |-> y, repeat |-> 1, bits |-> Bits(rows[y]), black |-> Black(rows[y])])
  /\ y' = y + 1
  /\ UNCHANGED <<mode, rows, k, nextCheck, packets, phase>>

\* Client.Print chooses the way of printing, and with it the counts, by the model.
Encoded ==
  /\ phase = "encode" /\ y = Height
  /\ mode' \in {"split", "total"}
  /\ phase' = IF runs = <<>> THEN "done" ELSE "row"
  /\ UNCHANGED <<rows, y, runs, k, nextCheck, packets>>

\* pixelCounts: with CountSplit a byte per third of the head, saturated; the total in
\* two bytes with CountTotal, or when the row does not fit the thirds.
Chunk == HeadBytes \div 3
Splits(bits) == mode = "split" /\ Chunk > 0 /\ Len(bits) <= 3 * Chunk
Low(n) == IF n < ByteMax THEN n ELSE ByteMax

\* Mutant of Third: the bytes are counted from 1.
ThirdFromOne(bits, t) == Count(bits, {i \in 1 .. Len(bits) : i \div Chunk = t})

Third(bits, t) == Count(bits, {i \in 1 .. Len(bits) : (i - 1) \div Chunk = t})

PixelCounts(bits) ==
  IF Splits(bits)
  THEN <<Low(Third(bits, 0)), Low(Third(bits, 1)), Low(Third(bits, 2))>>
  ELSE <<0, Black(bits) % (ByteMax + 1), Black(bits) \div (ByteMax + 1)>>

RowPacket(r) ==
  [cmd |-> IF r.black = 0 THEN "empty" ELSE "bitmap", index |-> r.index, repeat |-> r.repeat,
   counts |-> IF r.black = 0 THEN <<>> ELSE PixelCounts(r.bits), bits |-> r.bits]

SendRow ==
  /\ phase = "row"
  /\ packets' = Append(packets, RowPacket(runs[k]))
  /\ phase' = "check"
  /\ UNCHANGED <<mode, rows, y, runs, k, nextCheck>>

\* RowPackets' inner loop: printB21V1 asks for check lines (and is the one that asks
\* for CountTotal); each follows the run that holds its row.
LastRow(r) == r.index + r.repeat - 1
checkLine == mode = "total"
CheckDue  == checkLine /\ nextCheck <= LastRow(runs[k])
Check(n)  == [cmd |-> "check", index |-> n, repeat |-> 0, counts |-> <<>>, bits |-> <<>>]

\* Mutant of CheckLine: at most one check line per run.
CheckLineOnce ==
  /\ phase = "check" /\ CheckDue
  /\ packets' = Append(packets, Check(nextCheck))
  /\ nextCheck' = nextCheck + CheckEvery
  /\ IF k < Len(runs) THEN k' = k + 1 /\ phase' = "row" ELSE phase' = "done" /\ UNCHANGED k
  /\ UNCHANGED <<mode, rows, y, runs>>

CheckLine ==
  /\ phase = "check" /\ CheckDue
  /\ packets' = Append(packets, Check(nextCheck))
  /\ nextCheck' = nextCheck + CheckEvery
  /\ UNCHANGED <<mode, rows, y, runs, k, phase>>

NextRun ==
  /\ phase = "check" /\ ~CheckDue
  /\ IF k < Len(runs) THEN k' = k + 1 /\ phase' = "row" ELSE phase' = "done" /\ UNCHANGED k
  /\ UNCHANGED <<mode, rows, y, runs, nextCheck, packets>>

RasterStep == EncodeRow \/ Encoded \/ SendRow \/ CheckLine \/ NextRun

-----------------------------------------------------------------------------
(* Properties *)

\* Repeat and count bytes are bytes.
RasterTypeOK ==
  /\ mode \in {"split", "total"}
  /\ \A i \in 1 .. Len(runs) : runs[i].index \in 0 .. Height - 1 /\ runs[i].repeat \in 1 .. ByteMax
  /\ k \in Nat \ {0} /\ nextCheck \in Nat
  /\ \A i \in 1 .. Len(packets) : \A c \in 1 .. Len(packets[i].counts) : packets[i].counts[c] \in 0 .. ByteMax

Checks    == {i \in 1 .. Len(packets) : packets[i].cmd = "check"}
RowsOf(i) == packets[i].index .. packets[i].index + packets[i].repeat - 1
Before(i) == Max({j \in 1 .. i : packets[j].cmd # "check"})

\* printB21V1's check lines name every CheckEvery-th row and no other, each after the
\* packet that holds the row and before the next one, also when one run holds several.
ChecksExact ==
  /\ \A i \in Checks : packets[i].index \in RowsOf(Before(i))
  /\ phase = "done" =>
       {packets[i].index : i \in Checks} =
         {n \in 0 .. Height - 1 : checkLine /\ (n + 1) % CheckEvery = 0}
  /\ \A i, j \in Checks : i < j => packets[i].index < packets[j].index

\* What the printer lays down from RowPackets' packets is the image: every row is
\* covered by exactly one row packet, which carries its bits.
PagePrinted ==
  phase = "done" =>
    \A n \in 0 .. Height - 1 :
      \E i \in (1 .. Len(packets)) \ Checks :
        /\ n \in RowsOf(i) /\ packets[i].bits = Bits(rows[n])
        /\ \A j \in (1 .. Len(packets)) \ (Checks \cup {i}) : n \notin RowsOf(j)

\* The three count bytes account for every black pixel of the row.  None of them
\* saturates for the heads of the model table: a third of a head of 384 pixels has 128.
CountsAddUp ==
  \A i \in 1 .. Len(packets) :
    packets[i].cmd = "bitmap" =>
      LET c == packets[i].counts
          r == rows[packets[i].index]
      IN  Black(r) = IF mode = "split" THEN c[1] + c[2] + c[3] ELSE c[2] + (ByteMax + 1) * c[3]

\* The packets that RowPackets makes of an encoded image stand for that image in every
\* field the printer reads: the rows, the counts and the check lines.
RowPacketsExact == PagePrinted /\ CountsAddUp /\ ChecksExact
=============================================================================
