---------------------------- MODULE LabelProofs -----------------------------
(***************************************************************************)
(* Proofs about Label for any head, pictures, label sizes and resolution:  *)
(*   - the NIIMBOT row packets stand for the page (PacketsExact),          *)
(*   - the picture of a raster payload is that of its lines, taken once    *)
(*     (LinesPictured),                                                    *)
(*   - what is printed shows ink, and a picture that is not made smaller   *)
(*     is printed but for its last line and column (InkReachesHead),       *)
(*   - the walk over a payload stays on command boundaries                 *)
(*     (WalkStaysInSync).                                                  *)
(* Each starts from lemmas about the operators of LabelRaster, Packets and *)
(* BrotherRaster, and ends in an invariant with one step per action.       *)
(***************************************************************************)
EXTENDS Label, FiniteSetTheorems, SequenceTheorems, WellFoundedInduction, TLAPS

-----------------------------------------------------------------------------
(* Counting pixels *)

Pixel == 0 .. ByteBits - 1

\* A row of n bytes.
Row(n) == [1 .. n -> SUBSET Pixel]

\* The pixels of some bytes are finitely many, at most ByteBits of them in a byte.
LEMMA CountType ==
  ASSUME NEW n \in Nat, NEW r \in Row(n), NEW idx \in SUBSET (1 .. n)
  PROVE  /\ IsFiniteSet(Dots(r, idx)) /\ IsFiniteSet(idx)
         /\ Count(r, idx) \in Nat /\ Cardinality(idx) \in Nat
         /\ Count(r, idx) <= Cardinality(idx) * ByteBits
<1>1. IsFiniteSet(idx) /\ Cardinality(idx) \in Nat
  <2>1. IsFiniteSet(1 .. n)
    BY FS_Interval
  <2>2. IsFiniteSet(idx)
    BY <2>1, FS_Subset
  <2> QED BY <2>2, FS_CardinalityType
<1>2. IsFiniteSet(Pixel) /\ Cardinality(Pixel) = ByteBits
  <2>1. 0 \in Int /\ ByteBits - 1 \in Int /\ ~ 0 > ByteBits - 1 /\ ByteBits - 1 - 0 + 1 = ByteBits
    BY LabelAssumption
  <2>2. IsFiniteSet(0 .. ByteBits - 1) /\ Cardinality(0 .. ByteBits - 1) = ByteBits - 1 - 0 + 1
    BY <2>1, FS_Interval
  <2> QED BY <2>1, <2>2 DEF Pixel
<1>3. IsFiniteSet(idx \X Pixel) /\ Cardinality(idx \X Pixel) = Cardinality(idx) * ByteBits
  BY <1>1, <1>2, FS_Product
<1>4. Dots(r, idx) \in SUBSET (idx \X Pixel)
  <2>1. ASSUME NEW i \in idx PROVE {i} \X r[i] \subseteq idx \X Pixel
    BY DEF Row
  <2> QED BY <2>1 DEF Dots
<1>5. IsFiniteSet(Dots(r, idx)) /\ Cardinality(Dots(r, idx)) <= Cardinality(idx \X Pixel)
  BY <1>3, <1>4, FS_Subset
<1> QED BY <1>1, <1>3, <1>5, FS_CardinalityType DEF Count

\* The pixels of two disjoint sets of bytes add up.
LEMMA CountAdds ==
  ASSUME NEW n \in Nat, NEW r \in Row(n), NEW a \in SUBSET (1 .. n), NEW b \in SUBSET (1 .. n), a \cap b = {}
  PROVE  Count(r, a \cup b) = Count(r, a) + Count(r, b)
<1>1. Dots(r, a \cup b) = Dots(r, a) \cup Dots(r, b)
  BY DEF Dots
<1>2. Dots(r, a) \cap Dots(r, b) = {}
  BY DEF Dots
<1>3. /\ IsFiniteSet(Dots(r, a)) /\ IsFiniteSet(Dots(r, b))
      /\ Cardinality(Dots(r, a)) \in Nat /\ Cardinality(Dots(r, b)) \in Nat
  BY CountType DEF Count
<1>4. Cardinality(Dots(r, a) \cup Dots(r, b)) = Cardinality(Dots(r, a)) + Cardinality(Dots(r, b)) - Cardinality({})
  BY <1>2, <1>3, FS_Union
<1>5. Cardinality({}) = 0
  BY FS_EmptySet
<1>6. Cardinality(Dots(r, a \cup b)) = Cardinality(Dots(r, a) \cup Dots(r, b))
  BY <1>1, Zenon
<1> QED BY <1>3, <1>4, <1>5, <1>6 DEF Count

\* A row of no black pixels is blank everywhere.
LEMMA BlankRow ==
  ASSUME NEW n \in Nat, NEW r \in Row(n)
  PROVE  Black(r) \in Nat /\ (Black(r) = 0 <=> \A i \in 1 .. n : r[i] = {})
<1>1. Len(r) = n
  BY DEF Row
<1>2. IsFiniteSet(Dots(r, 1 .. n)) /\ Count(r, 1 .. n) \in Nat
  BY CountType
<1>3. Dots(r, 1 .. n) = {} <=> \A i \in 1 .. n : r[i] = {}
  <2>1. ASSUME NEW i \in 1 .. n, r[i] # {} PROVE Dots(r, 1 .. n) # {}
    <3> PICK x \in r[i] : TRUE
      BY <2>1
    <3> <<i, x>> \in Dots(r, 1 .. n)
      BY DEF Dots
    <3> QED OBVIOUS
  <2> QED BY <2>1 DEF Dots
<1> QED BY <1>1, <1>2, <1>3, FS_EmptySet DEF Black, Count

-----------------------------------------------------------------------------
(* The count bytes *)

\* The bytes across a third of the head, from which pixelCounts' index is taken.
LEMMA Thirds ==
  /\ Chunk \in Nat /\ HeadBytes = 3 * Chunk
  /\ HeadBytes # 0 => Chunk > 0
  /\ ByteBits * Chunk <= ByteMax
  BY HeadAssumption, RasterAssumption, LabelAssumption DEF Chunk

\* Bytes 0, 1 and 2 of pixelCounts' division are the only ones, each for Chunk bytes.
LEMMA ThirdBytes ==
  ASSUME NEW c \in Nat \ {0}, NEW n \in 0 .. 3 * c, NEW i \in 1 .. n
  PROVE  /\ (i - 1) \div c \in 0 .. 2
         /\ \A t \in 0 .. 2 : (i - 1) \div c = t => i \in t * c + 1 .. (t + 1) * c
  OBVIOUS

\* The three counts of a row add up to its black pixels, and none of them saturates.
LEMMA CountsOfThirds ==
  ASSUME NEW n \in 0 .. HeadBytes, NEW r \in Row(n), HeadBytes # 0
  PROVE  /\ \A t \in 0 .. 2 : Third(r, t) \in 0 .. ByteMax
         /\ Black(r) = Third(r, 0) + Third(r, 1) + Third(r, 2)
<1> DEFINE T(t) == {i \in 1 .. n : (i - 1) \div Chunk = t}
<1>1. Chunk \in Nat \ {0} /\ n \in 0 .. 3 * Chunk /\ n \in Nat /\ Len(r) = n
  BY Thirds, RasterAssumption DEF Row
<1>2. \A t \in 0 .. 2 : T(t) \in SUBSET (1 .. n) /\ Third(r, t) = Count(r, T(t))
  BY <1>1 DEF Third
<1>3. ASSUME NEW t \in 0 .. 2 PROVE Third(r, t) \in 0 .. ByteMax
  <2>1. T(t) \in SUBSET (t * Chunk + 1 .. (t + 1) * Chunk)
    BY <1>1, ThirdBytes
  <2>2. t * Chunk \in Int /\ (t + 1) * Chunk = t * Chunk + Chunk
    BY <1>1
  <2> DEFINE I == t * Chunk + 1 .. (t + 1) * Chunk
  <2>3. Cardinality(T(t)) <= Chunk
    <3>1. IsFiniteSet(I) /\ Cardinality(I) = Chunk
      <4>1. t * Chunk + 1 \in Int /\ (t + 1) * Chunk \in Int
        BY <1>1, <2>2
      <4>2. /\ IsFiniteSet(I)
            /\ Cardinality(I) = IF t * Chunk + 1 > (t + 1) * Chunk THEN 0 ELSE (t + 1) * Chunk - (t * Chunk + 1) + 1
        BY <4>1, FS_Interval
      <4> QED BY <1>1, <2>2, <4>2
    <3> HIDE DEF T, I
    <3>2. Cardinality(T(t)) <= Cardinality(I)
      BY <2>1, <3>1, FS_Subset DEF I
    <3> QED BY <3>1, <3>2
  <2> HIDE DEF T
  <2>4. Count(r, T(t)) \in Nat /\ Cardinality(T(t)) \in Nat /\ Count(r, T(t)) <= Cardinality(T(t)) * ByteBits
    BY <1>1, <1>2, CountType
  <2>5. Cardinality(T(t)) * ByteBits <= ByteBits * Chunk
    <3>1. PICK c \in Nat : c = Cardinality(T(t))
      BY <2>4
    <3>2. c <= Chunk /\ Chunk \in Nat /\ ByteBits \in Nat
      BY <2>3, <3>1, <1>1, LabelAssumption
    <3>3. c * ByteBits <= ByteBits * Chunk
      BY <3>2
    <3> QED BY <3>1, <3>3
  <2> QED BY <1>1, <1>2, <2>4, <2>5, Thirds, LabelAssumption, RasterAssumption
<1>4. 1 .. n = (T(0) \cup T(1)) \cup T(2)
  BY <1>1, ThirdBytes
<1>5. T(0) \cap T(1) = {} /\ (T(0) \cup T(1)) \cap T(2) = {}
  OBVIOUS
<1>6. T(0) \in SUBSET (1 .. n) /\ T(1) \in SUBSET (1 .. n) /\ T(2) \in SUBSET (1 .. n)
  OBVIOUS
<1>10. \A t \in 0 .. 2 : Third(r, t) = Count(r, T(t))
  BY <1>2
<1> HIDE DEF T
<1>7. Count(r, 1 .. n) = Count(r, T(0) \cup T(1)) + Count(r, T(2))
  <2>1. T(0) \cup T(1) \in SUBSET (1 .. n)
    BY <1>6
  <2>2. Count(r, (T(0) \cup T(1)) \cup T(2)) = Count(r, T(0) \cup T(1)) + Count(r, T(2))
    BY <1>1, <2>1, <1>5, <1>6, CountAdds
  <2> QED BY <2>2, <1>4, Zenon
<1>8. Count(r, T(0) \cup T(1)) = Count(r, T(0)) + Count(r, T(1))
  BY <1>1, <1>6, <1>5, CountAdds
<1>9. Black(r) = Third(r, 0) + Third(r, 1) + Third(r, 2)
  BY <1>1, <1>10, <1>7, <1>8 DEF Black
<1> QED BY <1>3, <1>9

\* pixelCounts gives bytes that account for the row, whichever way it counts.
LEMMA PixelCountsExact ==
  ASSUME NEW n \in 0 .. HeadBytes, NEW r \in Row(n), HeadBytes # 0, mode \in {"split", "total"}
  PROVE  LET c == PixelCounts(r) IN
         /\ c \in Seq(0 .. ByteMax) /\ Len(c) = 3
         /\ Black(r) = IF mode = "split" THEN c[1] + c[2] + c[3] ELSE c[2] + (ByteMax + 1) * c[3]
<1>1. /\ \A t \in 0 .. 2 : Third(r, t) \in 0 .. ByteMax
      /\ Black(r) = Third(r, 0) + Third(r, 1) + Third(r, 2)
  BY CountsOfThirds
<1>2. ByteMax \in Nat \ {0} /\ Len(r) = n /\ HeadBytes \in Nat
  BY RasterAssumption DEF Row
<1>3. CASE mode = "split"
  <2>1. Splits(r)
    BY <1>2, <1>3, Thirds DEF Splits
  <2>2. PixelCounts(r) = <<Third(r, 0), Third(r, 1), Third(r, 2)>>
    BY <1>1, <1>2, <2>1 DEF PixelCounts, Low
  <2> QED BY <1>1, <1>3, <2>2
<1>4. CASE mode = "total"
  <2>1. PixelCounts(r) = <<0, Black(r) % (ByteMax + 1), Black(r) \div (ByteMax + 1)>>
    BY <1>4 DEF PixelCounts, Splits
  <2>2. Black(r) \in Nat /\ Black(r) <= 3 * ByteMax
    BY <1>1, <1>2
  <2>3. \A b \in Nat : b <= 3 * ByteMax =>
          /\ b % (ByteMax + 1) \in 0 .. ByteMax /\ b \div (ByteMax + 1) \in 0 .. ByteMax
          /\ b = (b % (ByteMax + 1)) + (ByteMax + 1) * (b \div (ByteMax + 1))
    BY <1>2
  <2>4. PICK low \in 0 .. ByteMax, high \in 0 .. ByteMax :
          PixelCounts(r) = <<0, low, high>> /\ Black(r) = low + (ByteMax + 1) * high
    BY <2>1, <2>2, <2>3
  <2> QED BY <1>2, <1>4, <2>4
<1> QED BY <1>3, <1>4


-----------------------------------------------------------------------------
(* Rows and runs *)

RowsIn(r) == r.index .. LastRow(r)

RowBits    == Seq(SUBSET Pixel)
RunType    == [index : Nat, repeat : 1 .. ByteMax, bits : RowBits, black : Nat]
PacketType == [cmd : {"empty", "bitmap", "check"}, index : Nat, repeat : Nat,
               counts : Seq(0 .. ByteMax), bits : RowBits]

\* The page that Fit has made.
PageType ==
  /\ Height \in Nat \ {0} /\ HeadBytes # 0
  /\ \E n \in 0 .. HeadBytes : rows \in [0 .. Height - 1 -> Row(n)]

\* A run stands for rows that are all alike, and the runs for the rows encoded so far.
RunsExact ==
  /\ \A i \in 1 .. Len(runs) : \A n \in RowsIn(runs[i]) :
       n \in 0 .. y - 1 /\ runs[i].bits = Bits(rows[n]) /\ runs[i].black = Black(rows[n])
  /\ \A i, j \in 1 .. Len(runs) : i < j => LastRow(runs[i]) < runs[j].index
  /\ \A n \in 0 .. y - 1 : \E i \in 1 .. Len(runs) : n \in RowsIn(runs[i])
  /\ runs # <<>> => LastRow(runs[Len(runs)]) = y - 1

EncodeInv ==
  /\ y \in 0 .. Height /\ runs \in Seq(RunType)
  /\ RunsExact

\* The runs that have their packet.
Sent == IF phase = "row" THEN k - 1 ELSE k

\* A packet that is a check line; a row packet carries a run.
IsCheck(i) == packets[i].cmd = "check"
Carries(p, r) == p.cmd \in {"empty", "bitmap"} /\ p.index = r.index /\ p.repeat = r.repeat /\ p.bits = r.bits

\* The row packets carry the runs sent, in their order.
RowsSent ==
  /\ \A i \in 1 .. Len(packets) : ~ IsCheck(i) => \E m \in 1 .. Sent : Carries(packets[i], runs[m])
  /\ \A m \in 1 .. Sent : \E i \in 1 .. Len(packets) : Carries(packets[i], runs[m])
  /\ \A i, j \in 1 .. Len(packets) :
       i < j /\ ~ IsCheck(i) /\ ~ IsCheck(j) =>
         packets[i].index + packets[i].repeat <= packets[j].index

\* The check lines name the rows before nextCheck that are due, in their order, and each
\* stands behind the packet that holds its row; nextCheck is not overdue.
ChecksSent ==
  /\ nextCheck \in Nat /\ (nextCheck + 1) % CheckEvery = 0
  /\ \A i \in 1 .. Len(packets) : IsCheck(i) =>
       /\ checkLine /\ packets[i].index < nextCheck /\ packets[i].index < Height
       /\ (packets[i].index + 1) % CheckEvery = 0
       /\ \E p \in 1 .. i : /\ ~ IsCheck(p) /\ packets[i].index \in RowsOf(p)
                           /\ \A j \in p + 1 .. i : IsCheck(j)
  /\ \A i, j \in 1 .. Len(packets) : IsCheck(i) /\ IsCheck(j) /\ i < j => packets[i].index < packets[j].index
  /\ checkLine => \A n \in 0 .. nextCheck - 1 : (n + 1) % CheckEvery = 0 =>
                    \E i \in 1 .. Len(packets) : IsCheck(i) /\ packets[i].index = n
  /\ checkLine => IF phase = "done" THEN Height <= nextCheck ELSE runs[k].index <= nextCheck

\* The last row packet is that of the run whose check lines are being sent.
LastRowPacket ==
  phase = "check" =>
    \E p \in 1 .. Len(packets) :
      Carries(packets[p], runs[k]) /\ \A j \in p + 1 .. Len(packets) : IsCheck(j)

PackInv ==
  /\ phase \in {"row", "check", "done"}
  /\ y = Height /\ k \in 1 .. Len(runs) /\ (phase = "done" => k = Len(runs))
  /\ packets \in Seq(PacketType)
  /\ RowsSent /\ ChecksSent /\ LastRowPacket /\ CountsAddUp

\* What holds before RowPackets begins.
Unpacked == packets = <<>> /\ k = 1 /\ nextCheck = CheckEvery - 1

PageInv ==
  /\ phase \in {"print", "decode", "fit", "failed"} => rows = <<>> /\ y = 0 /\ runs = <<>> /\ Unpacked
  /\ phase = "encode" => PageType /\ EncodeInv /\ Unpacked
  /\ phase \in {"row", "check", "done"} => PageType /\ EncodeInv /\ PackInv

\* What Encode reads of a row has the type of a run's fields.
LEMMA RowFields ==
  ASSUME NEW n \in Nat, NEW r \in Row(n)
  PROVE  Bits(r) \in RowBits /\ Black(r) \in Nat /\ (Black(r) # 0 => Bits(r) = r)
<1>1. Black(r) \in Nat
  BY BlankRow
<1>2. r \in RowBits /\ <<>> \in RowBits
  BY DEF Row, RowBits
<1> QED BY <1>1, <1>2 DEF Bits

\* The row that EncodeRow reads.
LEMMA NextRowFields ==
  ASSUME PageType, NEW n \in 0 .. Height - 1
  PROVE  Bits(rows[n]) \in RowBits /\ Black(rows[n]) \in Nat
<1>1. PICK c \in 0 .. HeadBytes : rows \in [0 .. Height - 1 -> Row(c)]
  BY DEF PageType
<1>2. c \in Nat /\ rows[n] \in Row(c)
  BY <1>1, RasterAssumption
<1> QED BY <1>2, RowFields

\* The numbers of a run.
LEMMA RunFields ==
  ASSUME NEW s \in Seq(RunType), NEW i \in 1 .. Len(s)
  PROVE  s[i].index \in Nat /\ s[i].repeat \in Nat \ {0} /\ s[i].repeat <= ByteMax
<1>1. s[i] \in RunType
  OBVIOUS
<1> QED BY <1>1, RasterAssumption DEF RunType

\* Lengthening the last run.
Lengthened(s) == [s EXCEPT ![Len(s)].repeat = @ + 1]

\* A merge keeps all runs but the last, and that one but for its repeats.
LEMMA MergeEffect ==
  ASSUME NEW s \in Seq(RunType), NEW t, s # <<>>, s[Len(s)].repeat < ByteMax, t = Lengthened(s)
  PROVE  /\ t \in Seq(RunType) /\ Len(t) = Len(s) /\ Len(s) \in Nat \ {0}
         /\ \A i \in 1 .. Len(s) - 1 : t[i] = s[i]
         /\ \A i \in 1 .. Len(s) : t[i].index = s[i].index /\ t[i].bits = s[i].bits /\ t[i].black = s[i].black
         /\ t[Len(s)].repeat = s[Len(s)].repeat + 1
<1>1. Len(s) \in 1 .. Len(s) /\ s[Len(s)] \in RunType
  OBVIOUS
<1>2. [s[Len(s)] EXCEPT !.repeat = @ + 1] \in RunType
  <2>1. PICK r \in RunType : r = s[Len(s)]
    BY <1>1
  <2>2. r.repeat + 1 \in 1 .. ByteMax
    BY <2>1, RasterAssumption DEF RunType
  <2>3. [r EXCEPT !.repeat = r.repeat + 1] \in RunType
    BY <2>2 DEF RunType
  <2> QED BY <2>1, <2>3
<1>3. t = [s EXCEPT ![Len(s)] = [s[Len(s)] EXCEPT !.repeat = @ + 1]]
  BY DEF Lengthened
<1>4. t \in Seq(RunType) /\ Len(t) = Len(s)
  BY <1>1, <1>2, <1>3
<1>5. \A i \in 1 .. Len(s) - 1 : t[i] = s[i]
  BY <1>3
<1>6. t[Len(s)] = [s[Len(s)] EXCEPT !.repeat = @ + 1]
  BY <1>1, <1>3
<1>7. /\ t[Len(s)].index = s[Len(s)].index /\ t[Len(s)].bits = s[Len(s)].bits /\ t[Len(s)].black = s[Len(s)].black
      /\ t[Len(s)].repeat = s[Len(s)].repeat + 1
  BY <1>1, <1>6 DEF RunType
<1> QED BY <1>1, <1>4, <1>5, <1>7

\* Adding a run behind the others.
LEMMA AddEffect ==
  ASSUME NEW T, NEW s \in Seq(T), NEW e \in T
  PROVE  /\ Append(s, e) \in Seq(T) /\ Len(Append(s, e)) = Len(s) + 1 /\ Len(s) \in Nat
         /\ \A i \in 1 .. Len(s) : Append(s, e)[i] = s[i]
         /\ Append(s, e)[Len(s) + 1] = e
  OBVIOUS

\* EncodeRow takes one more row into the runs.
LEMMA EncodeStep ==
  ASSUME PageType, EncodeInv, EncodeRow
  PROVE  EncodeInv'
<1>1. y \in 0 .. Height - 1 /\ y' = y + 1 /\ Height \in Nat /\ rows' = rows
  BY DEF EncodeInv, EncodeRow, PageType
<1>2. Height' = Height
  BY <1>1 DEF Height
<1>3. PICK bits \in RowBits, black \in Nat : bits = Bits(rows[y]) /\ black = Black(rows[y])
  BY <1>1, NextRowFields
<1>4. ASSUME CanMerge PROVE runs' \in Seq(RunType) /\ RunsExact'
  <2>1. /\ runs # <<>> /\ runs[Len(runs)].repeat < ByteMax
        /\ runs[Len(runs)].bits = bits /\ runs[Len(runs)].black = black
    BY <1>3, <1>4 DEF CanMerge
  <2>2. runs \in Seq(RunType) /\ runs' = Lengthened(runs)
    BY <1>4 DEF EncodeRow, EncodeInv, Lengthened
  <2> DEFINE L == Len(runs)
  <2>3. /\ runs' \in Seq(RunType) /\ Len(runs') = L /\ L \in Nat \ {0}
        /\ \A i \in 1 .. L - 1 : runs'[i] = runs[i]
        /\ \A i \in 1 .. L : runs'[i].index = runs[i].index /\ runs'[i].bits = runs[i].bits
                               /\ runs'[i].black = runs[i].black
        /\ runs'[L].repeat = runs[L].repeat + 1
    BY <2>1, <2>2, MergeEffect
  <2>4. L \in 1 .. L /\ \A i \in 1 .. L : runs[i].index \in Nat /\ runs[i].repeat \in Nat \ {0}
    BY <2>2, <2>3, RunFields
  <2>5. LastRow(runs[L]) = y - 1
    BY <2>1 DEF EncodeInv, RunsExact
  <2>6. /\ \A i \in 1 .. L - 1 : LastRow(runs'[i]) = LastRow(runs[i]) /\ RowsIn(runs'[i]) = RowsIn(runs[i])
        /\ LastRow(runs'[L]) = y
        /\ \A n \in RowsIn(runs'[L]) : n = y \/ n \in RowsIn(runs[L])
        /\ \A n \in RowsIn(runs[L]) \cup {y} : n \in RowsIn(runs'[L])
    <3>1. \A i \in 1 .. L - 1 : LastRow(runs'[i]) = LastRow(runs[i]) /\ RowsIn(runs'[i]) = RowsIn(runs[i])
      BY <2>3
    <3>2. LastRow(runs'[L]) = LastRow(runs[L]) + 1 /\ runs'[L].index = runs[L].index /\ runs[L].index \in Nat
      BY <2>3, <2>4 DEF LastRow
    <3>3. runs[L].index <= y
      BY <2>3, <2>4, <2>5, <1>1 DEF LastRow
    <3> QED BY <3>1, <3>2, <3>3, <2>5, <1>1 DEF RowsIn
  <2>7. \A i \in 1 .. L : \A n \in RowsIn(runs[i]) :
          n \in 0 .. y - 1 /\ runs[i].bits = Bits(rows[n]) /\ runs[i].black = Black(rows[n])
    BY DEF EncodeInv, RunsExact
  <2>8. \A i, j \in 1 .. L : i < j => LastRow(runs[i]) < runs[j].index
    BY DEF EncodeInv, RunsExact
  <2>9. \A n \in 0 .. y - 1 : \E i \in 1 .. L : n \in RowsIn(runs[i])
    BY DEF EncodeInv, RunsExact
  <2> HIDE DEF L
  <2>10. \A i \in 1 .. L : \A n \in RowsIn(runs'[i]) :
           n \in 0 .. y /\ runs'[i].bits = Bits(rows[n]) /\ runs'[i].black = Black(rows[n])
    <3> SUFFICES ASSUME NEW i \in 1 .. L, NEW n \in RowsIn(runs'[i])
                 PROVE  n \in 0 .. y /\ runs'[i].bits = Bits(rows[n]) /\ runs'[i].black = Black(rows[n])
      OBVIOUS
    <3>1. CASE i = L /\ n = y
      BY <3>1, <2>1, <2>3, <1>1, <1>3 DEF L
    <3>2. CASE ~ (i = L /\ n = y)
      <4>1. n \in RowsIn(runs[i])
        BY <3>2, <2>3, <2>6
      <4>2. n \in 0 .. y - 1 /\ runs[i].bits = Bits(rows[n]) /\ runs[i].black = Black(rows[n])
        BY <4>1, <2>7
      <4> QED BY <4>2, <2>3, <1>1
    <3> QED BY <3>1, <3>2
  <2>11. \A i, j \in 1 .. L : i < j => LastRow(runs'[i]) < runs'[j].index
    BY <2>3, <2>6, <2>8
  <2>12. \A n \in 0 .. y : \E i \in 1 .. L : n \in RowsIn(runs'[i])
    <3> SUFFICES ASSUME NEW n \in 0 .. y PROVE \E i \in 1 .. L : n \in RowsIn(runs'[i])
      OBVIOUS
    <3>1. CASE n = y
      BY <3>1, <2>3, <2>6
    <3>2. CASE n # y
      <4>1. PICK i \in 1 .. L : n \in RowsIn(runs[i])
        BY <3>2, <2>9, <1>1
      <4> QED BY <4>1, <2>3, <2>6
    <3> QED BY <3>1, <3>2
  <2>13. 0 .. y' - 1 = 0 .. y /\ y' - 1 = y /\ Len(runs') = L
    BY <2>3, <1>1
  <2>14. LastRow(runs'[Len(runs')]) = y' - 1
    BY <2>6, <2>13
  <2> QED BY <2>3, <2>10, <2>11, <2>12, <2>13, <2>14, <1>1 DEF RunsExact
<1>5. ASSUME ~ CanMerge PROVE runs' \in Seq(RunType) /\ RunsExact'
  <2>1. PICK e \in RunType : e = [index |-> y, repeat |-> 1, bits |-> bits, black |-> black]
    <3>1. y \in Nat /\ 1 \in 1 .. ByteMax
      BY <1>1, RasterAssumption
    <3> QED BY <3>1 DEF RunType
  <2>2. runs \in Seq(RunType) /\ runs' = Append(runs, e)
    BY <1>3, <1>5, <2>1 DEF EncodeRow, EncodeInv
  <2> DEFINE L == Len(runs)
  <2>3. /\ runs' \in Seq(RunType) /\ Len(runs') = L + 1 /\ L \in Nat
        /\ \A i \in 1 .. L : runs'[i] = runs[i]
        /\ runs'[L + 1] = e
    BY <2>2, AddEffect
  <2>4. /\ e.index = y /\ LastRow(e) = y /\ e.bits = bits /\ e.black = black /\ RowsIn(e) = {y}
    BY <2>1, <1>1 DEF LastRow, RowsIn
  <2>5. \A i \in 1 .. L : \A n \in RowsIn(runs[i]) :
          n \in 0 .. y - 1 /\ runs[i].bits = Bits(rows[n]) /\ runs[i].black = Black(rows[n])
    BY DEF EncodeInv, RunsExact
  <2>6. \A i, j \in 1 .. L : i < j => LastRow(runs[i]) < runs[j].index
    BY DEF EncodeInv, RunsExact
  <2>7. \A n \in 0 .. y - 1 : \E i \in 1 .. L : n \in RowsIn(runs[i])
    BY DEF EncodeInv, RunsExact
  <2>8. \A i \in 1 .. L : LastRow(runs[i]) < y
    <3> SUFFICES ASSUME NEW i \in 1 .. L PROVE LastRow(runs[i]) < y
      OBVIOUS
    <3>1. runs[i].index \in Nat /\ runs[i].repeat \in Nat \ {0}
      BY <2>2, RunFields
    <3>2. LastRow(runs[i]) \in RowsIn(runs[i]) /\ LastRow(runs[i]) \in Nat
      BY <3>1 DEF RowsIn, LastRow
    <3> QED BY <3>2, <2>5, <1>1
  <2> HIDE DEF L
  <2>9. \A i \in 1 .. L + 1 : \A n \in RowsIn(runs'[i]) :
          n \in 0 .. y /\ runs'[i].bits = Bits(rows[n]) /\ runs'[i].black = Black(rows[n])
    <3> SUFFICES ASSUME NEW i \in 1 .. L + 1, NEW n \in RowsIn(runs'[i])
                 PROVE  n \in 0 .. y /\ runs'[i].bits = Bits(rows[n]) /\ runs'[i].black = Black(rows[n])
      OBVIOUS
    <3>1. CASE i = L + 1
      BY <3>1, <2>3, <2>4, <1>1, <1>3
    <3>2. CASE i \in 1 .. L
      <4>1. n \in RowsIn(runs[i])
        BY <3>2, <2>3
      <4>2. n \in 0 .. y - 1 /\ runs[i].bits = Bits(rows[n]) /\ runs[i].black = Black(rows[n])
        BY <3>2, <4>1, <2>5
      <4> QED BY <3>2, <4>2, <2>3, <1>1
    <3> QED BY <3>1, <3>2, <2>3
  <2>10. \A i, j \in 1 .. L + 1 : i < j => LastRow(runs'[i]) < runs'[j].index
    <3> SUFFICES ASSUME NEW i \in 1 .. L + 1, NEW j \in 1 .. L + 1, i < j
                 PROVE  LastRow(runs'[i]) < runs'[j].index
      OBVIOUS
    <3>1. i \in 1 .. L /\ (j = L + 1 \/ j \in 1 .. L)
      BY <2>3
    <3> QED BY <3>1, <2>3, <2>4, <2>6, <2>8
  <2>11. \A n \in 0 .. y : \E i \in 1 .. L + 1 : n \in RowsIn(runs'[i])
    <3> SUFFICES ASSUME NEW n \in 0 .. y PROVE \E i \in 1 .. L + 1 : n \in RowsIn(runs'[i])
      OBVIOUS
    <3>1. CASE n = y
      BY <3>1, <2>3, <2>4
    <3>2. CASE n # y
      <4>1. PICK i \in 1 .. L : n \in RowsIn(runs[i])
        BY <3>2, <2>7, <1>1
      <4> QED BY <4>1, <2>3
    <3> QED BY <3>1, <3>2
  <2>13. 0 .. y' - 1 = 0 .. y /\ y' - 1 = y /\ Len(runs') = L + 1
    BY <2>3, <1>1
  <2>14. LastRow(runs'[Len(runs')]) = y' - 1
    BY <2>3, <2>4, <2>13
  <2> QED BY <2>3, <2>9, <2>10, <2>11, <2>13, <2>14, <1>1 DEF RunsExact
<1> QED BY <1>1, <1>2, <1>4, <1>5 DEF EncodeInv

\* Division with remainder, and the multiples of the divisor.
LEMMA Multiples ==
  ASSUME NEW d \in Nat \ {0}
  PROVE  /\ \A x \in Nat : x % d = 0 => \E q \in Nat : x = d * q
         /\ \A q, e \in Nat : d * q < d * e => d * (q + 1) <= d * e
         /\ \A q \in Nat : (d * q) % d = 0
<1>1. ASSUME NEW x \in Nat PROVE x \div d \in Nat /\ x % d \in 0 .. d - 1 /\ x = d * (x \div d) + (x % d)
  OBVIOUS
<1>2. ASSUME NEW x \in Nat, x % d = 0 PROVE \E q \in Nat : x = d * q
  <2>1. x \div d \in Nat /\ x = d * (x \div d)
    BY <1>1, <1>2
  <2> QED BY <2>1
<1>3. ASSUME NEW q \in Nat, NEW e \in Nat, d * q < d * e PROVE d * (q + 1) <= d * e
  <2>1. q < e
    BY <1>3
  <2>2. q + 1 <= e
    BY <2>1
  <2> QED BY <2>2
<1>4. ASSUME NEW q \in Nat PROVE (d * q) % d = 0
  <2>1. PICK x \in Nat : x = d * q
    OBVIOUS
  <2>2. PICK e \in Nat, r \in 0 .. d - 1 : x = d * e + r /\ r = x % d
    BY <1>1
  <2>3. d * e <= d * q /\ d * q < d * e + d
    BY <2>1, <2>2
  <2>4. d * (e + 1) = d * e + d /\ d * e \in Int /\ d * q \in Int
    OBVIOUS
  <2>5. ~ (d * e < d * q)
    BY <1>3, <2>3, <2>4
  <2>6. r = 0
    BY <2>1, <2>2, <2>3, <2>4, <2>5
  <2> QED BY <2>1, <2>2, <2>6
<1> QED BY <1>2, <1>3, <1>4

\* Which numbers are due for a check line after one that is.
LEMMA NextDue ==
  ASSUME NEW d \in Nat \ {0}, NEW m \in Nat, (m + 1) % d = 0
  PROVE  (m + d + 1) % d = 0 /\ \A n \in m + 1 .. m + d - 1 : (n + 1) % d # 0
<1>1. PICK q \in Nat : m + 1 = d * q
  BY Multiples
<1>2. m + d + 1 = d * (q + 1)
  BY <1>1
<1>3. (m + d + 1) % d = 0
  <2>1. (d * (q + 1)) % d = 0
    BY Multiples
  <2> QED BY <1>2, <2>1
<1>4. ASSUME NEW n \in m + 1 .. m + d - 1, (n + 1) % d = 0 PROVE FALSE
  <2>1. PICK e \in Nat : n + 1 = d * e
    <3>1. n + 1 \in Nat
      OBVIOUS
    <3> QED BY <1>4, <3>1, Multiples
  <2>2. d * q < d * e /\ d * e < d * (q + 1)
    BY <1>1, <1>2, <2>1
  <2>3. d * (q + 1) <= d * e
    BY <2>2, Multiples
  <2>4. d * e \in Int /\ d * (q + 1) \in Int
    OBVIOUS
  <2> QED BY <2>2, <2>3, <2>4
<1> QED BY <1>3, <1>4

\* The numbers of a row packet are the bytes of its run's row.
LEMMA RowPacketType ==
  ASSUME NEW n \in 0 .. HeadBytes, HeadBytes # 0, mode \in {"split", "total"}, NEW row \in Row(n),
         NEW r \in RunType, r.bits = Bits(row), r.black = Black(row)
  PROVE  /\ RowPacket(r) \in PacketType /\ Carries(RowPacket(r), r)
         /\ RowPacket(r).cmd = "bitmap" =>
              LET c == RowPacket(r).counts
              IN  Black(row) = IF mode = "split" THEN c[1] + c[2] + c[3] ELSE c[2] + (ByteMax + 1) * c[3]
<1> DEFINE p == RowPacket(r)
<1>1. n \in Nat /\ Black(row) \in Nat /\ (Black(row) # 0 => Bits(row) = row)
  <2>1. n \in Nat
    BY RasterAssumption
  <2> QED BY <2>1, RowFields
<1>2. r.index \in Nat /\ r.repeat \in Nat /\ r.bits \in RowBits
  BY RasterAssumption DEF RunType
<1>3. /\ p.index = r.index /\ p.repeat = r.repeat /\ p.bits = r.bits
      /\ p.cmd = IF r.black = 0 THEN "empty" ELSE "bitmap"
      /\ p.counts = IF r.black = 0 THEN <<>> ELSE PixelCounts(r.bits)
  BY DEF RowPacket
<1>4. CASE r.black = 0
  <2>1. p \in PacketType
    BY <1>2, <1>4 DEF RowPacket, PacketType
  <2> QED BY <1>3, <1>4, <2>1 DEF Carries
<1>5. CASE r.black # 0
  <2>1. r.bits = row
    BY <1>1, <1>5
  <2>2. /\ PixelCounts(row) \in Seq(0 .. ByteMax)
        /\ Black(row) = IF mode = "split" THEN PixelCounts(row)[1] + PixelCounts(row)[2] + PixelCounts(row)[3]
                        ELSE PixelCounts(row)[2] + (ByteMax + 1) * PixelCounts(row)[3]
    BY PixelCountsExact
  <2>3. p \in PacketType
    BY <1>2, <1>5, <2>1, <2>2 DEF RowPacket, PacketType
  <2>4. p.counts = PixelCounts(row)
    BY <1>3, <1>5, <2>1
  <2> QED BY <1>3, <1>5, <2>2, <2>3, <2>4 DEF Carries
<1> QED BY <1>4, <1>5

\* Adjacent runs stand for adjacent rows, the first for row 0.
LEMMA RunsAdjacent ==
  ASSUME EncodeInv
  PROVE  /\ runs # <<>> => runs[1].index = 0
         /\ \A m \in 1 .. Len(runs) - 1 : runs[m + 1].index = LastRow(runs[m]) + 1
<1> DEFINE L == Len(runs)
<1>1. runs \in Seq(RunType) /\ L \in Nat /\ y \in Int
  BY DEF EncodeInv
<1>2. \A i \in 1 .. L : runs[i].index \in Nat /\ LastRow(runs[i]) \in Nat /\ runs[i].index <= LastRow(runs[i])
  BY <1>1, RunFields DEF LastRow
<1>3. \A i \in 1 .. L : LastRow(runs[i]) \in 0 .. y - 1
  <2> SUFFICES ASSUME NEW i \in 1 .. L PROVE LastRow(runs[i]) \in 0 .. y - 1
    OBVIOUS
  <2>1. LastRow(runs[i]) \in RowsIn(runs[i])
    BY <1>2 DEF RowsIn
  <2> QED BY <2>1 DEF EncodeInv, RunsExact
<1>4. \A i, j \in 1 .. L : i < j => LastRow(runs[i]) < runs[j].index
  BY DEF EncodeInv, RunsExact
<1>5. \A n \in 0 .. y - 1 : \E i \in 1 .. L : runs[i].index <= n /\ n <= LastRow(runs[i])
  <2> SUFFICES ASSUME NEW n \in 0 .. y - 1 PROVE \E i \in 1 .. L : runs[i].index <= n /\ n <= LastRow(runs[i])
    OBVIOUS
  <2>1. PICK i \in 1 .. L : n \in RowsIn(runs[i])
    BY DEF EncodeInv, RunsExact
  <2> QED BY <1>2, <2>1 DEF RowsIn
<1>6. ASSUME runs # <<>> PROVE runs[1].index = 0
  <2>1. 1 \in 1 .. L
    BY <1>1, <1>6
  <2>2. 0 \in 0 .. y - 1
    BY <1>1, <1>3, <2>1
  <2>3. PICK i \in 1 .. L : runs[i].index <= 0
    BY <1>5, <2>2
  <2>4. i = 1 \/ 1 < i
    BY <1>1
  <2> HIDE DEF L
  <2> QED BY <1>2, <1>4, <2>1, <2>3, <2>4
<1>7. ASSUME NEW m \in 1 .. L - 1 PROVE runs[m + 1].index = LastRow(runs[m]) + 1
  <2>1. m \in 1 .. L /\ m + 1 \in 1 .. L /\ m < m + 1
    BY <1>1
  <2>2. LastRow(runs[m]) + 1 <= runs[m + 1].index
    BY <1>2, <1>4, <2>1
  <2>3. LastRow(runs[m]) + 1 \in 0 .. y - 1
    BY <1>1, <1>2, <1>3, <2>1, <2>2
  <2>4. PICK i \in 1 .. L : runs[i].index <= LastRow(runs[m]) + 1 /\ LastRow(runs[m]) + 1 <= LastRow(runs[i])
    BY <1>5, <2>3
  <2> HIDE DEF L
  <2>5. ~ (i < m) /\ i # m
    BY <1>2, <1>4, <2>1, <2>4
  <2>6. ~ (m + 1 < i)
    BY <1>2, <1>4, <2>1, <2>2, <2>4
  <2>7. i = m + 1
    BY <1>1, <2>1, <2>5, <2>6
  <2> QED BY <1>2, <2>1, <2>2, <2>4, <2>7
<1> QED BY <1>6, <1>7

\* RowPackets begins with the first run.
LEMMA PackStart ==
  ASSUME PageType, EncodeInv, Unpacked, Encoded
  PROVE  PageType' /\ EncodeInv' /\ PackInv'
<1>1. /\ rows' = rows /\ y' = y /\ runs' = runs /\ k' = k /\ nextCheck' = nextCheck /\ packets' = packets
      /\ y = Height /\ mode' \in {"split", "total"} /\ phase' = IF runs = <<>> THEN "done" ELSE "row"
  BY DEF Encoded
<1>2. Height' = Height
  BY <1>1 DEF Height
<1>3. PageType' /\ EncodeInv'
  BY <1>1, <1>2 DEF PageType, EncodeInv, RunsExact
<1>4. runs \in Seq(RunType) /\ Len(runs) \in Nat \ {0} /\ runs # <<>>
  <2>1. Height \in Nat \ {0} /\ 0 \in 0 .. y - 1
    BY <1>1 DEF PageType
  <2>2. PICK i \in 1 .. Len(runs) : TRUE
    BY <2>1 DEF EncodeInv, RunsExact
  <2> QED BY <2>2 DEF EncodeInv
<1>5. phase' = "row" /\ runs[1].index = 0
  BY <1>1, <1>4, RunsAdjacent
<1>6. packets' = <<>> /\ k' = 1 /\ nextCheck' = CheckEvery - 1
  BY <1>1 DEF Unpacked
<1>7. nextCheck' \in Nat /\ (nextCheck' + 1) % CheckEvery = 0
      /\ \A n \in 0 .. nextCheck' - 1 : (n + 1) % CheckEvery # 0
  BY <1>6, RasterAssumption
<1>8. packets' \in Seq(PacketType) /\ 1 .. Len(packets') = {}
  BY <1>6
<1>9. RowsSent'
  BY <1>5, <1>6, <1>8 DEF RowsSent, Sent
<1>10. ChecksSent'
  BY <1>1, <1>5, <1>6, <1>7, <1>8 DEF ChecksSent
<1>11. LastRowPacket' /\ CountsAddUp'
  BY <1>5, <1>8 DEF LastRowPacket, CountsAddUp
<1>12. k' \in 1 .. Len(runs')
  BY <1>1, <1>4, <1>6
<1> QED BY <1>1, <1>2, <1>3, <1>5, <1>8, <1>9, <1>10, <1>11, <1>12 DEF PackInv

\* What a step of RowPackets leaves alone.
LEMMA PackFrame ==
  ASSUME rows' = rows, y' = y, runs' = runs, PageType, EncodeInv
  PROVE  PageType' /\ EncodeInv' /\ Height' = Height
<1>1. Height' = Height
  BY DEF Height
<1> QED BY <1>1 DEF PageType, EncodeInv, RunsExact

\* The fields of a run that is being sent.
LEMMA RunSent ==
  ASSUME EncodeInv, NEW m \in 1 .. Len(runs)
  PROVE  /\ runs[m] \in RunType /\ runs[m].index \in Nat /\ runs[m].repeat \in Nat \ {0}
         /\ LastRow(runs[m]) = runs[m].index + runs[m].repeat - 1
         /\ runs[m].index \in 0 .. y - 1 /\ LastRow(runs[m]) \in 0 .. y - 1
         /\ runs[m].bits = Bits(rows[runs[m].index]) /\ runs[m].black = Black(rows[runs[m].index])
<1>1. runs \in Seq(RunType) /\ y \in Int
  BY DEF EncodeInv
<1>2. runs[m].index \in Nat /\ runs[m].repeat \in Nat \ {0} /\ runs[m] \in RunType
  BY <1>1, RunFields
<1>3. runs[m].index \in RowsIn(runs[m]) /\ LastRow(runs[m]) \in RowsIn(runs[m])
  BY <1>2 DEF RowsIn, LastRow
<1> QED BY <1>2, <1>3 DEF EncodeInv, RunsExact, LastRow

\* A run's packet behind the others.
LEMMA SendRowStep ==
  ASSUME PageType, EncodeInv, PackInv, mode \in {"split", "total"}, SendRow
  PROVE  PageType' /\ EncodeInv' /\ PackInv'
<1>1. /\ phase = "row" /\ phase' = "check" /\ mode' = mode /\ rows' = rows /\ y' = y /\ runs' = runs /\ k' = k
      /\ nextCheck' = nextCheck /\ packets' = Append(packets, RowPacket(runs[k]))
  BY DEF SendRow
<1>2. PageType' /\ EncodeInv' /\ Height' = Height
  BY <1>1, PackFrame
<1>3. /\ y = Height /\ k \in 1 .. Len(runs) /\ packets \in Seq(PacketType)
      /\ RowsSent /\ ChecksSent /\ CountsAddUp
  BY DEF PackInv
<1>4. /\ runs[k] \in RunType /\ runs[k].index \in Nat /\ runs[k].index \in 0 .. Height - 1
      /\ runs[k].bits = Bits(rows[runs[k].index]) /\ runs[k].black = Black(rows[runs[k].index])
  BY <1>3, RunSent
<1>5. PICK p \in PacketType :
        /\ p = RowPacket(runs[k]) /\ Carries(p, runs[k])
        /\ p.cmd = "bitmap" =>
             Black(rows[p.index]) =
               IF mode = "split" THEN p.counts[1] + p.counts[2] + p.counts[3]
               ELSE p.counts[2] + (ByteMax + 1) * p.counts[3]
  <2>1. PICK n \in 0 .. HeadBytes : rows \in [0 .. Height - 1 -> Row(n)]
    BY DEF PageType
  <2>2. rows[runs[k].index] \in Row(n) /\ HeadBytes # 0
    BY <1>4, <2>1 DEF PageType
  <2>3. /\ RowPacket(runs[k]) \in PacketType /\ Carries(RowPacket(runs[k]), runs[k])
        /\ RowPacket(runs[k]).cmd = "bitmap" =>
             LET c == RowPacket(runs[k]).counts
             IN  Black(rows[runs[k].index]) =
                   IF mode = "split" THEN c[1] + c[2] + c[3] ELSE c[2] + (ByteMax + 1) * c[3]
    BY <1>4, <2>2, RowPacketType
  <2>4. RowPacket(runs[k]).index = runs[k].index
    BY <2>3 DEF Carries
  <2> QED BY <2>3, <2>4
<1>0. PICK L \in Nat : L = Len(packets)
  BY <1>3
<1>6. /\ packets' \in Seq(PacketType) /\ Len(packets') = L + 1 /\ L \in Nat
      /\ \A i \in 1 .. L : packets'[i] = packets[i]
      /\ packets'[L + 1] = p
  BY <1>0, <1>1, <1>3, <1>5, AddEffect
<1>7. p.cmd # "check" /\ p.index = runs[k].index /\ p.index \in Nat
  BY <1>4, <1>5 DEF Carries
<1>8. Sent = k - 1 /\ Sent' = k /\ k \in Nat
  BY <1>1, <1>3 DEF Sent
<1>9. /\ \A i \in 1 .. L : IsCheck(i)' <=> IsCheck(i)
      /\ ~ IsCheck(L + 1)'
  BY <1>6, <1>7 DEF IsCheck
<1>10. RowsSent'
  <2>1. ASSUME NEW i \in 1 .. L + 1, ~ IsCheck(i)' PROVE \E m \in 1 .. k : Carries(packets'[i], runs[m])
    <3>1. CASE i = L + 1
      BY <3>1, <1>3, <1>5, <1>6
    <3>2. CASE i \in 1 .. L
      <4>1. PICK m \in 1 .. k - 1 : Carries(packets[i], runs[m])
        BY <2>1, <3>2, <1>3, <1>8, <1>9, <1>0 DEF RowsSent
      <4>2. m \in 1 .. k
        BY <1>8
      <4> QED BY <3>2, <4>1, <4>2, <1>6
    <3> QED BY <3>1, <3>2, <1>6
  <2>2. ASSUME NEW m \in 1 .. k PROVE \E i \in 1 .. L + 1 : Carries(packets'[i], runs[m])
    <3>1. CASE m = k
      BY <3>1, <1>5, <1>6
    <3>2. CASE m \in 1 .. k - 1
      <4>1. PICK i \in 1 .. L : Carries(packets[i], runs[m])
        BY <3>2, <1>3, <1>8, <1>0 DEF RowsSent
      <4>2. i \in 1 .. L + 1
        BY <1>6
      <4> QED BY <4>1, <4>2, <1>6
    <3> QED BY <3>1, <3>2, <1>8
  <2>3. ASSUME NEW i \in 1 .. L + 1, NEW j \in 1 .. L + 1, i < j, ~ IsCheck(i)', ~ IsCheck(j)'
        PROVE  packets'[i].index + packets'[i].repeat <= packets'[j].index
    <3>1. i \in 1 .. L /\ (j \in 1 .. L \/ j = L + 1)
      BY <2>3, <1>6
    <3>2. CASE j \in 1 .. L
      <4>1. packets[i].index + packets[i].repeat <= packets[j].index
        BY <2>3, <3>1, <3>2, <1>3, <1>9, <1>0 DEF RowsSent
      <4> QED BY <3>1, <3>2, <4>1, <1>6
    <3>3. CASE j = L + 1
      <4>1. PICK m \in 1 .. k - 1 : Carries(packets[i], runs[m])
        BY <2>3, <3>1, <1>3, <1>8, <1>9, <1>0 DEF RowsSent
      <4>2. m \in 1 .. Len(runs) /\ m < k
        BY <1>3, <1>8
      <4>3. LastRow(runs[m]) < runs[k].index
        BY <1>3, <4>2 DEF EncodeInv, RunsExact
      <4>4. runs[m].index \in Nat /\ runs[m].repeat \in Nat /\ LastRow(runs[m]) = runs[m].index + runs[m].repeat - 1
        BY <4>2, RunSent
      <4>5. runs[m].index + runs[m].repeat <= runs[k].index
        BY <4>3, <4>4, <1>4
      <4>6. packets[i].index = runs[m].index /\ packets[i].repeat = runs[m].repeat
        BY <4>1 DEF Carries
      <4> QED BY <3>1, <3>3, <4>5, <4>6, <1>6, <1>7
    <3> QED BY <3>1, <3>2, <3>3
  <2> QED BY <1>1, <1>6, <1>8, <2>1, <2>2, <2>3 DEF RowsSent
<1>11. ChecksSent'
  <2>1. ASSUME NEW i \in 1 .. L + 1, IsCheck(i)'
        PROVE  /\ i \in 1 .. L /\ IsCheck(i) /\ packets'[i] = packets[i]
               /\ checkLine /\ packets[i].index < nextCheck /\ packets[i].index < Height
               /\ (packets[i].index + 1) % CheckEvery = 0
    <3>1. i \in 1 .. L
      BY <2>1, <1>6, <1>9
    <3> QED BY <2>1, <3>1, <1>3, <1>6, <1>9, <1>0 DEF ChecksSent
  <2>2. ASSUME NEW i \in 1 .. L + 1, IsCheck(i)'
        PROVE  \E q \in 1 .. i : /\ ~ IsCheck(q)' /\ packets'[i].index \in RowsOf(q)'
                                 /\ \A j \in q + 1 .. i : IsCheck(j)'
    <3>1. i \in 1 .. L /\ IsCheck(i) /\ packets'[i] = packets[i]
      BY <2>1, <2>2
    <3>2. PICK q \in 1 .. i : ~ IsCheck(q) /\ packets[i].index \in RowsOf(q) /\ \A j \in q + 1 .. i : IsCheck(j)
      BY <3>1, <1>3, <1>0 DEF ChecksSent
    <3>3. q \in 1 .. L /\ \A j \in q + 1 .. i : j \in 1 .. L
      BY <3>1, <1>6
    <3>4. RowsOf(q)' = RowsOf(q)
      BY <3>3, <1>6 DEF RowsOf
    <3> QED BY <3>1, <3>2, <3>3, <3>4, <1>9
  <2>3. ASSUME NEW i \in 1 .. L + 1, NEW j \in 1 .. L + 1, IsCheck(i)', IsCheck(j)', i < j
        PROVE  packets'[i].index < packets'[j].index
    <3>1. /\ i \in 1 .. L /\ IsCheck(i) /\ packets'[i] = packets[i]
          /\ j \in 1 .. L /\ IsCheck(j) /\ packets'[j] = packets[j]
      BY <2>1, <2>3
    <3> QED BY <2>3, <3>1, <1>3, <1>0 DEF ChecksSent
  <2>4. ASSUME checkLine, NEW n \in 0 .. nextCheck - 1, (n + 1) % CheckEvery = 0
        PROVE  \E i \in 1 .. L + 1 : IsCheck(i)' /\ packets'[i].index = n
    <3>1. PICK i \in 1 .. L : IsCheck(i) /\ packets[i].index = n
      BY <2>4, <1>3, <1>0 DEF ChecksSent
    <3>2. i \in 1 .. L + 1
      BY <1>6
    <3> QED BY <3>1, <3>2, <1>6, <1>9
  <2>5. (checkLine' <=> checkLine) /\ (checkLine => runs[k].index <= nextCheck)
    BY <1>1, <1>3 DEF checkLine, ChecksSent
  <2>6. nextCheck \in Nat /\ (nextCheck + 1) % CheckEvery = 0
    BY <1>3 DEF ChecksSent
  <2> QED BY <1>1, <1>2, <1>6, <2>1, <2>2, <2>3, <2>4, <2>5, <2>6 DEF ChecksSent
<1>12. LastRowPacket'
  <2>1. L + 1 \in 1 .. Len(packets') /\ Carries(packets'[L + 1], runs'[k']) /\ L + 1 + 1 .. Len(packets') = {}
    BY <1>1, <1>5, <1>6
  <2> QED BY <2>1 DEF LastRowPacket
<1>13. CountsAddUp'
  <2> SUFFICES ASSUME NEW i \in 1 .. L + 1, packets'[i].cmd = "bitmap"
               PROVE  Black(rows[packets'[i].index]) =
                        IF mode = "split" THEN packets'[i].counts[1] + packets'[i].counts[2] + packets'[i].counts[3]
                        ELSE packets'[i].counts[2] + (ByteMax + 1) * packets'[i].counts[3]
    BY <1>1, <1>6 DEF CountsAddUp
  <2>1. CASE i = L + 1
    BY <2>1, <1>5, <1>6
  <2>2. CASE i \in 1 .. L
    BY <2>2, <1>3, <1>6, <1>0 DEF CountsAddUp
  <2> QED BY <2>1, <2>2, <1>6
<1> QED BY <1>1, <1>2, <1>3, <1>6, <1>10, <1>11, <1>12, <1>13 DEF PackInv

\* A check line behind the packets.
LEMMA CheckLineStep ==
  ASSUME PageType, EncodeInv, PackInv, CheckLine
  PROVE  PageType' /\ EncodeInv' /\ PackInv'
<1>1. /\ phase = "check" /\ phase' = "check" /\ mode' = mode /\ rows' = rows /\ y' = y /\ runs' = runs /\ k' = k
      /\ nextCheck' = nextCheck + CheckEvery /\ packets' = Append(packets, Check(nextCheck))
      /\ checkLine /\ nextCheck <= LastRow(runs[k])
  BY DEF CheckLine, CheckDue
<1>2. PageType' /\ EncodeInv' /\ Height' = Height
  BY <1>1, PackFrame
<1>3. /\ y = Height /\ k \in 1 .. Len(runs) /\ packets \in Seq(PacketType) /\ Height \in Nat
      /\ RowsSent /\ ChecksSent /\ LastRowPacket /\ CountsAddUp
  BY DEF PackInv, PageType
<1>4. /\ runs[k].index \in Nat /\ runs[k].repeat \in Nat \ {0}
      /\ LastRow(runs[k]) = runs[k].index + runs[k].repeat - 1 /\ LastRow(runs[k]) \in 0 .. Height - 1
  BY <1>3, RunSent
<1>5. /\ nextCheck \in Nat /\ (nextCheck + 1) % CheckEvery = 0 /\ runs[k].index <= nextCheck
      /\ nextCheck < Height /\ CheckEvery \in Nat \ {0}
  BY <1>1, <1>3, <1>4, RasterAssumption DEF ChecksSent
<1>14. nextCheck' = nextCheck + CheckEvery /\ nextCheck' \in Nat /\ nextCheck < nextCheck'
  <2>1. nextCheck' = nextCheck + CheckEvery
    BY <1>1
  <2>2. nextCheck + CheckEvery \in Nat /\ nextCheck < nextCheck + CheckEvery
    BY <1>5
  <2> QED BY <2>1, <2>2
<1>6. PICK p \in PacketType : p = Check(nextCheck) /\ p.cmd = "check" /\ p.index = nextCheck
  <2>1. Check(nextCheck) \in PacketType
    BY <1>5 DEF Check, PacketType, RowBits
  <2> QED BY <2>1 DEF Check
<1>0. PICK L \in Nat : L = Len(packets)
  BY <1>3
<1>7. /\ packets' \in Seq(PacketType) /\ Len(packets') = L + 1
      /\ \A i \in 1 .. L : packets'[i] = packets[i]
      /\ packets'[L + 1] = p
  BY <1>0, <1>1, <1>3, <1>6, AddEffect
<1>8. Sent = k /\ Sent' = k
  BY <1>1 DEF Sent
<1>9. /\ \A i \in 1 .. L : IsCheck(i)' <=> IsCheck(i)
      /\ IsCheck(L + 1)'
  BY <1>6, <1>7 DEF IsCheck
<1>10. RowsSent'
  <2>1. ASSUME NEW i \in 1 .. L + 1, ~ IsCheck(i)' PROVE i \in 1 .. L /\ ~ IsCheck(i) /\ packets'[i] = packets[i]
    BY <2>1, <1>7, <1>9
  <2>2. ASSUME NEW i \in 1 .. L + 1, ~ IsCheck(i)' PROVE \E m \in 1 .. k : Carries(packets'[i], runs[m])
    BY <2>1, <2>2, <1>0, <1>3, <1>8 DEF RowsSent
  <2>3. ASSUME NEW m \in 1 .. k PROVE \E i \in 1 .. L + 1 : Carries(packets'[i], runs[m])
    <3>1. PICK i \in 1 .. L : Carries(packets[i], runs[m])
      BY <1>0, <1>3, <1>8 DEF RowsSent
    <3>2. i \in 1 .. L + 1
      OBVIOUS
    <3> QED BY <3>1, <3>2, <1>7
  <2>4. ASSUME NEW i \in 1 .. L + 1, NEW j \in 1 .. L + 1, i < j, ~ IsCheck(i)', ~ IsCheck(j)'
        PROVE  packets'[i].index + packets'[i].repeat <= packets'[j].index
    <3>1. /\ i \in 1 .. L /\ ~ IsCheck(i) /\ packets'[i] = packets[i]
          /\ j \in 1 .. L /\ ~ IsCheck(j) /\ packets'[j] = packets[j]
      BY <2>1, <2>4
    <3> QED BY <2>4, <3>1, <1>0, <1>3 DEF RowsSent
  <2> QED BY <1>1, <1>7, <1>8, <2>2, <2>3, <2>4 DEF RowsSent
<1>11. ChecksSent'
  <2>1. ASSUME NEW i \in 1 .. L, IsCheck(i)
        PROVE  /\ packets'[i] = packets[i] /\ checkLine
               /\ packets[i].index < nextCheck /\ packets[i].index < Height /\ packets[i].index \in Nat
               /\ (packets[i].index + 1) % CheckEvery = 0
    <3>1. packets[i] \in PacketType
      BY <1>0, <1>3
    <3>2. packets[i].index \in Nat
      BY <3>1 DEF PacketType
    <3> QED BY <2>1, <3>2, <1>0, <1>3, <1>7 DEF ChecksSent
  <2>2. ASSUME NEW i \in 1 .. L + 1, IsCheck(i)'
        PROVE  /\ checkLine' /\ packets'[i].index < nextCheck' /\ packets'[i].index < Height
               /\ (packets'[i].index + 1) % CheckEvery = 0
    <3>1. checkLine'
      BY <1>1 DEF checkLine
    <3>2. CASE i = L + 1
      BY <3>1, <3>2, <1>1, <1>5, <1>6, <1>7
    <3>3. CASE i \in 1 .. L
      <4>1. IsCheck(i)
        BY <2>2, <3>3, <1>9
      <4>2. packets'[i].index < nextCheck /\ packets'[i].index \in Nat /\ packets'[i].index < Height
            /\ (packets'[i].index + 1) % CheckEvery = 0
        BY <2>1, <3>3, <4>1
      <4>3. packets'[i].index < nextCheck'
        BY <4>2, <1>5, <1>14
      <4> QED BY <3>1, <4>2, <4>3
    <3> QED BY <3>2, <3>3
  <2>3. ASSUME NEW i \in 1 .. L + 1, IsCheck(i)'
        PROVE  \E q \in 1 .. i : /\ ~ IsCheck(q)' /\ packets'[i].index \in RowsOf(q)'
                                 /\ \A j \in q + 1 .. i : IsCheck(j)'
    <3>1. CASE i \in 1 .. L
      <4>1. IsCheck(i) /\ packets'[i] = packets[i]
        BY <2>3, <3>1, <1>7, <1>9
      <4>2. PICK q \in 1 .. i : ~ IsCheck(q) /\ packets[i].index \in RowsOf(q) /\ \A j \in q + 1 .. i : IsCheck(j)
        BY <3>1, <4>1, <1>0, <1>3 DEF ChecksSent
      <4>3. q \in 1 .. L /\ \A j \in q + 1 .. i : j \in 1 .. L
        BY <3>1
      <4>4. RowsOf(q)' = RowsOf(q)
        BY <4>3, <1>7 DEF RowsOf
      <4> QED BY <4>1, <4>2, <4>3, <4>4, <1>9
    <3>2. CASE i = L + 1
      <4>1. PICK q \in 1 .. L : Carries(packets[q], runs[k]) /\ \A j \in q + 1 .. L : IsCheck(j)
        BY <1>0, <1>1, <1>3 DEF LastRowPacket
      <4>2. packets'[q].index = runs[k].index /\ packets'[q].repeat = runs[k].repeat /\ packets[q].cmd # "check"
        BY <4>1, <1>7 DEF Carries
      <4>3. ~ IsCheck(q)
        BY <4>2 DEF IsCheck
      <4>4. nextCheck \in packets'[q].index .. packets'[q].index + packets'[q].repeat - 1
        BY <4>2, <1>1, <1>4, <1>5
      <4>5. packets'[i].index \in RowsOf(q)'
        BY <4>4, <3>2, <1>6, <1>7 DEF RowsOf
      <4>6. \A j \in q + 1 .. i : IsCheck(j)'
        <5> SUFFICES ASSUME NEW j \in q + 1 .. L + 1 PROVE IsCheck(j)'
          BY <3>2
        <5>1. CASE j = L + 1
          BY <5>1, <1>9
        <5>2. CASE j \in q + 1 .. L
          <6>1. j \in 1 .. L
            BY <5>2
          <6> QED BY <5>2, <6>1, <4>1, <1>9
        <5> QED BY <5>1, <5>2
      <4>7. q \in 1 .. i
        BY <3>2
      <4> QED BY <4>3, <4>5, <4>6, <4>7, <1>9
    <3> QED BY <3>1, <3>2
  <2>4. ASSUME NEW i \in 1 .. L + 1, NEW j \in 1 .. L + 1, IsCheck(i)', IsCheck(j)', i < j
        PROVE  packets'[i].index < packets'[j].index
    <3>1. i \in 1 .. L /\ IsCheck(i) /\ packets'[i] = packets[i]
      <4>1. i \in 1 .. L
        BY <2>4
      <4> QED BY <2>4, <4>1, <1>7, <1>9
    <3>2. CASE j = L + 1
      BY <3>1, <3>2, <2>1, <1>6, <1>7
    <3>3. CASE j \in 1 .. L
      <4>1. IsCheck(j) /\ packets'[j] = packets[j]
        BY <2>4, <3>3, <1>7, <1>9
      <4> QED BY <2>4, <3>1, <3>3, <4>1, <1>0, <1>3 DEF ChecksSent
    <3> QED BY <3>2, <3>3
  <2>5. ASSUME NEW n \in 0 .. nextCheck + CheckEvery - 1, (n + 1) % CheckEvery = 0
        PROVE  \E i \in 1 .. L + 1 : IsCheck(i)' /\ packets'[i].index = n
    <3>1. CASE n < nextCheck
      <4>1. n \in 0 .. nextCheck - 1
        BY <3>1, <1>5
      <4>2. PICK i \in 1 .. L : IsCheck(i) /\ packets[i].index = n
        BY <2>5, <4>1, <1>0, <1>1, <1>3 DEF ChecksSent
      <4>3. i \in 1 .. L + 1
        OBVIOUS
      <4> QED BY <4>2, <4>3, <1>7, <1>9
    <3>2. CASE n = nextCheck
      <4>1. L + 1 \in 1 .. L + 1
        OBVIOUS
      <4> QED BY <3>2, <4>1, <1>6, <1>7, <1>9
    <3>3. CASE nextCheck < n
      <4>1. n \in nextCheck + 1 .. nextCheck + CheckEvery - 1
        BY <3>3, <1>5
      <4> QED BY <2>5, <4>1, <1>5, NextDue
    <3> QED BY <3>1, <3>2, <3>3, <1>5
  <2>6. /\ nextCheck' \in Nat /\ (nextCheck' + 1) % CheckEvery = 0
        /\ runs[k].index <= nextCheck'
    <3>1. (nextCheck + CheckEvery + 1) % CheckEvery = 0
      BY <1>5, NextDue
    <3>2. runs[k].index <= nextCheck'
      BY <1>4, <1>5, <1>14
    <3> QED BY <3>1, <3>2, <1>14
  <2>7. nextCheck' - 1 = nextCheck + CheckEvery - 1
    BY <1>5, <1>14
  <2> QED BY <1>1, <1>2, <1>7, <2>2, <2>3, <2>4, <2>5, <2>6, <2>7 DEF ChecksSent
<1>12. LastRowPacket'
  <2>1. PICK q \in 1 .. L : Carries(packets[q], runs[k]) /\ \A j \in q + 1 .. L : IsCheck(j)
    BY <1>0, <1>1, <1>3 DEF LastRowPacket
  <2>2. \A j \in q + 1 .. L + 1 : IsCheck(j)'
    <3> SUFFICES ASSUME NEW j \in q + 1 .. L + 1 PROVE IsCheck(j)'
      OBVIOUS
    <3>1. j \in 1 .. L + 1 /\ (j = L + 1 \/ (j \in q + 1 .. L /\ j \in 1 .. L))
      OBVIOUS
    <3> QED BY <3>1, <2>1, <1>9
  <2>3. q \in 1 .. L + 1
    OBVIOUS
  <2> QED BY <2>1, <2>2, <2>3, <1>1, <1>7 DEF LastRowPacket
<1>13. CountsAddUp'
  <2> SUFFICES ASSUME NEW i \in 1 .. L + 1, packets'[i].cmd = "bitmap"
               PROVE  Black(rows[packets'[i].index]) =
                        IF mode = "split" THEN packets'[i].counts[1] + packets'[i].counts[2] + packets'[i].counts[3]
                        ELSE packets'[i].counts[2] + (ByteMax + 1) * packets'[i].counts[3]
    BY <1>1, <1>7 DEF CountsAddUp
  <2>1. i \in 1 .. L
    BY <1>6, <1>7
  <2> QED BY <2>1, <1>0, <1>3, <1>7 DEF CountsAddUp
<1> QED BY <1>1, <1>2, <1>3, <1>7, <1>10, <1>11, <1>12, <1>13 DEF PackInv

\* No check line is due any more for the run: the next one, or the end.
LEMMA NextRunStep ==
  ASSUME PageType, EncodeInv, PackInv, NextRun
  PROVE  PageType' /\ EncodeInv' /\ PackInv'
<1>1. /\ phase = "check" /\ mode' = mode /\ rows' = rows /\ y' = y /\ runs' = runs
      /\ nextCheck' = nextCheck /\ packets' = packets /\ ~ CheckDue
      /\ IF k < Len(runs) THEN k' = k + 1 /\ phase' = "row" ELSE phase' = "done" /\ k' = k
  BY DEF NextRun
<1>2. PageType' /\ EncodeInv' /\ Height' = Height
  BY <1>1, PackFrame
<1>3. /\ y = Height /\ k \in 1 .. Len(runs) /\ packets \in Seq(PacketType) /\ Height \in Nat
      /\ RowsSent /\ ChecksSent /\ CountsAddUp /\ Len(runs) \in Nat
  BY DEF PackInv, PageType, EncodeInv
<1>4. LastRow(runs[k]) \in Nat /\ nextCheck \in Nat
  BY <1>3, RunSent DEF ChecksSent
<1>5. checkLine => LastRow(runs[k]) + 1 <= nextCheck
  BY <1>1, <1>4 DEF CheckDue
<1>6. Sent = k /\ Sent' = k
  BY <1>1, <1>3 DEF Sent
<1>7. RowsSent'
  BY <1>1, <1>3, <1>6 DEF RowsSent, IsCheck
<1>8. CountsAddUp'
  BY <1>1, <1>3 DEF CountsAddUp
<1>9. checkLine' => IF phase' = "done" THEN Height <= nextCheck ELSE runs[k'].index <= nextCheck
  <2> SUFFICES ASSUME checkLine PROVE IF phase' = "done" THEN Height <= nextCheck ELSE runs[k'].index <= nextCheck
    BY <1>1 DEF checkLine
  <2>1. CASE k < Len(runs)
    <3>1. k \in 1 .. Len(runs) - 1
      BY <1>3, <2>1
    <3>2. runs[k + 1].index = LastRow(runs[k]) + 1
      BY <3>1, RunsAdjacent
    <3> QED BY <1>1, <1>5, <2>1, <3>2
  <2>2. CASE ~ (k < Len(runs))
    <3>1. k = Len(runs) /\ runs # <<>>
      BY <1>3, <2>2
    <3>2. LastRow(runs[k]) = Height - 1
      BY <1>3, <3>1 DEF EncodeInv, RunsExact
    <3> QED BY <1>1, <1>3, <1>4, <1>5, <2>2, <3>2
  <2> QED BY <2>1, <2>2
<1>10. ChecksSent'
  <2>1. \A i : (IsCheck(i)' <=> IsCheck(i)) /\ RowsOf(i)' = RowsOf(i)
    BY <1>1 DEF IsCheck, RowsOf
  <2>2. checkLine' <=> checkLine
    BY <1>1 DEF checkLine
  <2> QED BY <1>1, <1>2, <1>3, <1>9, <2>1, <2>2 DEF ChecksSent
<1>11. phase' \in {"row", "done"} /\ k' \in 1 .. Len(runs) /\ (phase' = "done" => k' = Len(runs))
  BY <1>1, <1>3
<1> QED BY <1>1, <1>2, <1>3, <1>7, <1>8, <1>10, <1>11 DEF PackInv, LastRowPacket

\* The greatest member of a set of integers, once it is known.
LEMMA MaxIs ==
  ASSUME NEW S \in SUBSET Int, NEW m \in S, \A x \in S : x <= m
  PROVE  Max(S) = m
<1>1. \A x \in S : m >= x
  OBVIOUS
<1>2. \A x \in S : (\A z \in S : x >= z) => x = m
  OBVIOUS
<1> QED BY <1>1, <1>2 DEF Max

\* What the invariant says of the packets is what the property says.
LEMMA PageInvExact == PageInv /\ phase \in {"print", "decode", "fit", "failed", "encode", "row", "check", "done"} =>
                        RowPacketsExact
<1> SUFFICES ASSUME PageInv, phase \in {"print", "decode", "fit", "failed", "encode", "row", "check", "done"}
             PROVE  RowPacketsExact
  OBVIOUS
<1>1. CASE phase \in {"print", "decode", "fit", "failed", "encode"}
  <2>1. packets = <<>> /\ 1 .. Len(packets) = {}
    BY <1>1 DEF PageInv, Unpacked
  <2> QED BY <1>1, <2>1 DEF RowPacketsExact, PagePrinted, CountsAddUp, ChecksExact, Checks
<1>2. CASE phase \in {"row", "check", "done"}
  <2>1. /\ EncodeInv /\ y = Height /\ k \in 1 .. Len(runs) /\ (phase = "done" => k = Len(runs))
        /\ packets \in Seq(PacketType) /\ RowsSent /\ ChecksSent /\ CountsAddUp /\ Height \in Nat
    BY <1>2 DEF PageInv, PackInv, PageType
  <2>2. \A i \in 1 .. Len(packets) : packets[i].index \in Nat /\ packets[i].repeat \in Nat
    <3> SUFFICES ASSUME NEW i \in 1 .. Len(packets) PROVE packets[i].index \in Nat /\ packets[i].repeat \in Nat
      OBVIOUS
    <3>1. packets[i] \in PacketType
      BY <2>1
    <3> QED BY <3>1 DEF PacketType
  <2>3. \A i \in 1 .. Len(packets) : i \in Checks <=> IsCheck(i)
    BY DEF Checks, IsCheck
  <2>4. ASSUME phase = "done", NEW n \in 0 .. Height - 1
        PROVE  \E i \in (1 .. Len(packets)) \ Checks :
                 /\ n \in RowsOf(i) /\ packets[i].bits = Bits(rows[n])
                 /\ \A j \in (1 .. Len(packets)) \ (Checks \cup {i}) : n \notin RowsOf(j)
    <3>1. PICK m \in 1 .. Len(runs) : n \in RowsIn(runs[m])
      BY <2>1 DEF EncodeInv, RunsExact
    <3>2. runs[m].bits = Bits(rows[n])
      BY <2>1, <3>1 DEF EncodeInv, RunsExact
    <3>3. PICK i \in 1 .. Len(packets) : Carries(packets[i], runs[m])
      BY <2>1, <2>4, <3>1 DEF RowsSent, Sent
    <3>4. /\ packets[i].index = runs[m].index /\ packets[i].repeat = runs[m].repeat
          /\ packets[i].bits = runs[m].bits /\ packets[i].cmd # "check"
      BY <3>3 DEF Carries
    <3>5. ~ IsCheck(i) /\ n \in RowsOf(i)
      BY <3>1, <3>4 DEF IsCheck, RowsOf, RowsIn, LastRow
    <3>6. packets[i].index <= n /\ n < packets[i].index + packets[i].repeat
      BY <2>2, <3>5 DEF RowsOf
    <3>7. ASSUME NEW j \in (1 .. Len(packets)) \ (Checks \cup {i}), n \in RowsOf(j) PROVE FALSE
      <4>1. j \in 1 .. Len(packets) /\ ~ IsCheck(j) /\ (i < j \/ j < i)
        BY <2>3, <3>7
      <4>2. packets[j].index <= n /\ n < packets[j].index + packets[j].repeat
        BY <2>2, <3>7, <4>1 DEF RowsOf
      <4>3. CASE i < j
        <5>1. packets[i].index + packets[i].repeat <= packets[j].index
          BY <2>1, <3>5, <4>1, <4>3 DEF RowsSent
        <5> QED BY <5>1, <2>2, <3>6, <4>1, <4>2
      <4>4. CASE j < i
        <5>1. packets[j].index + packets[j].repeat <= packets[i].index
          BY <2>1, <3>5, <4>1, <4>4 DEF RowsSent
        <5> QED BY <5>1, <2>2, <3>6, <4>1, <4>2
      <4> QED BY <4>1, <4>3, <4>4
    <3> QED BY <2>3, <3>2, <3>4, <3>5, <3>7
  <2>5. ASSUME NEW i \in Checks PROVE packets[i].index \in RowsOf(Before(i))
    <3>1. i \in 1 .. Len(packets) /\ IsCheck(i)
      BY <2>3 DEF Checks
    <3>2. PICK p \in 1 .. i : ~ IsCheck(p) /\ packets[i].index \in RowsOf(p) /\ \A j \in p + 1 .. i : IsCheck(j)
      BY <2>1, <3>1 DEF ChecksSent
    <3> DEFINE S == {j \in 1 .. i : packets[j].cmd # "check"}
    <3>3. S \in SUBSET Int /\ p \in S
      BY <3>2 DEF IsCheck
    <3>4. ASSUME NEW j \in S PROVE j <= p
      <4>1. j \in 1 .. i /\ ~ IsCheck(j)
        BY DEF IsCheck
      <4>2. j \notin p + 1 .. i
        BY <3>2, <4>1
      <4> QED BY <4>1, <4>2
    <3> HIDE DEF S
    <3>5. Max(S) = p
      BY <3>3, <3>4, MaxIs
    <3>6. Before(i) = p
      BY <3>5 DEF Before, S
    <3> QED BY <3>2, <3>6
  <2>6. ASSUME NEW i \in Checks, NEW j \in Checks, i < j PROVE packets[i].index < packets[j].index
    <3>1. i \in 1 .. Len(packets) /\ IsCheck(i) /\ j \in 1 .. Len(packets) /\ IsCheck(j)
      BY <2>3 DEF Checks
    <3> QED BY <2>1, <2>6, <3>1 DEF ChecksSent
  <2>7. ASSUME phase = "done"
        PROVE  {packets[i].index : i \in Checks} = {n \in 0 .. Height - 1 : checkLine /\ (n + 1) % CheckEvery = 0}
    <3>1. ASSUME NEW i \in Checks
          PROVE  packets[i].index \in 0 .. Height - 1 /\ checkLine /\ (packets[i].index + 1) % CheckEvery = 0
      <4>1. i \in 1 .. Len(packets) /\ IsCheck(i)
        BY <2>3 DEF Checks
      <4>2. packets[i].index < Height /\ checkLine /\ (packets[i].index + 1) % CheckEvery = 0
        BY <2>1, <4>1 DEF ChecksSent
      <4> QED BY <2>1, <2>2, <4>1, <4>2
    <3>2. ASSUME NEW n \in 0 .. Height - 1, checkLine, (n + 1) % CheckEvery = 0
          PROVE  \E i \in Checks : packets[i].index = n
      <4>1. Height <= nextCheck /\ nextCheck \in Nat
        BY <2>1, <2>7, <3>2 DEF ChecksSent
      <4>2. n \in 0 .. nextCheck - 1
        BY <2>1, <4>1
      <4>3. PICK i \in 1 .. Len(packets) : IsCheck(i) /\ packets[i].index = n
        BY <2>1, <3>2, <4>2 DEF ChecksSent
      <4> QED BY <2>3, <4>3
    <3> QED BY <3>1, <3>2
  <2>8. PagePrinted
    BY <2>4 DEF PagePrinted
  <2>9. ChecksExact
    BY <2>5, <2>6, <2>7 DEF ChecksExact
  <2> QED BY <2>1, <2>8, <2>9 DEF RowPacketsExact
<1> QED BY <1>1, <1>2

-----------------------------------------------------------------------------
(* The steps *)

\* The values of what the steps choose from.
Phases == {"print", "decode", "fit", "failed", "encode", "row", "check", "done"}
StaticInv ==
  /\ phase \in Phases /\ mode \in {"split", "total"} /\ magic \in {"none", "pdf", "image"}
  /\ size \in Int \X Int

\* The bytes across the label, and the rows of the binarised page.
RowWidth    == (Cols + ByteBits - 1) \div ByteBits
RowsOfPage(page) ==
  [w \in 0 .. LabelRows - 1 |->
    [b \in 1 .. RowWidth |-> {x \in Pixel : <<ByteBits * (b - 1) + x, w>> \in page}]]

\* Pixels and bytes: enough whole bytes for c pixels, no more than there are.
LEMMA WholeBytes ==
  ASSUME NEW d \in Nat \ {0}, NEW h \in Nat, NEW c \in Nat, d <= c, c <= d * h
  PROVE  /\ (c + d - 1) \div d \in 1 .. h /\ h # 0
         /\ c <= d * ((c + d - 1) \div d)
<1>1. PICK q \in Nat, r \in 0 .. d - 1 : c + d - 1 = d * q + r /\ q = (c + d - 1) \div d
  <2>1. c + d - 1 \in Nat
    OBVIOUS
  <2> QED BY <2>1
<1>2. c <= d * q
  BY <1>1
<1>3. q <= h
  <2>1. d * q <= c + d - 1 /\ c + d - 1 < d * h + d /\ d * h + d = d * (h + 1)
    BY <1>1
  <2>2. d * q < d * (h + 1)
    <3>1. d * q \in Int /\ d * h \in Int
      BY <1>1
    <3> QED BY <2>1, <3>1
  <2>3. q < h + 1
    BY <2>2
  <2> QED BY <2>3
<1>4. q # 0
  BY <1>1, <1>2
<1> QED BY <1>1, <1>2, <1>3, <1>4

\* A label that is not too small has rows and columns, and its columns fit the head.
LEMMA LabelSize ==
  ASSUME size \in Int \X Int, ~ TooSmall
  PROVE  /\ Cols \in Nat \ {0} /\ LabelRows \in Nat \ {0}
         /\ RowWidth \in 1 .. HeadBytes /\ HeadBytes # 0 /\ Cols <= ByteBits * RowWidth
<1>1. ByteBits \in Nat \ {0} /\ HeadBytes \in Nat /\ Dpi \in Nat
  BY LabelAssumption, RasterAssumption
<1>2. \A m \in Int : Pixels(m) \in Int
  BY <1>1 DEF Pixels
<1>3. Pixels(size[1]) \in Int /\ LabelRows \in Int
  BY <1>2 DEF LabelRows
<1>4. ByteBits * HeadBytes \in Int
  BY <1>1
<1>5. Cols \in Int /\ Cols <= ByteBits * HeadBytes
  BY <1>3, <1>4 DEF Cols, Smaller
<1>6. ByteBits <= Cols /\ 1 <= LabelRows
  BY <1>1, <1>3, <1>5 DEF TooSmall
<1>7. Cols \in Nat
  BY <1>1, <1>5, <1>6
<1>8. RowWidth \in 1 .. HeadBytes /\ HeadBytes # 0 /\ Cols <= ByteBits * RowWidth
  BY <1>1, <1>5, <1>6, <1>7, WholeBytes DEF RowWidth
<1> QED BY <1>1, <1>3, <1>6, <1>7, <1>8

\* A page has rows of the same number of bytes, as many as the label.
LEMMA PageRows ==
  ASSUME size \in Int \X Int, ~ TooSmall, NEW page
  PROVE  /\ RowsOfPage(page) \in [0 .. LabelRows - 1 -> Row(RowWidth)]
         /\ Cardinality(DOMAIN RowsOfPage(page)) = LabelRows
<1>1. RowsOfPage(page) \in [0 .. LabelRows - 1 -> Row(RowWidth)]
  BY DEF RowsOfPage, Row
<1>2. DOMAIN RowsOfPage(page) = 0 .. LabelRows - 1
  BY <1>1
<1>3. Cardinality(0 .. LabelRows - 1) = LabelRows
  BY LabelSize, FS_Interval
<1> QED BY <1>1, <1>2, <1>3

\* Fit makes a page.
LEMMA PageMade ==
  ASSUME size \in Int \X Int, ~ TooSmall, NEW page, rows' = RowsOfPage(page)
  PROVE  PageType' /\ Height' = LabelRows
<1>1. LabelRows \in Nat \ {0} /\ RowWidth \in 1 .. HeadBytes /\ HeadBytes # 0
  BY LabelSize
<1>2. rows' \in [0 .. LabelRows - 1 -> Row(RowWidth)] /\ Height' = LabelRows
  BY PageRows DEF Height
<1>3. RowWidth \in 0 .. HeadBytes /\ Height' \in Nat \ {0} /\ rows' \in [0 .. Height' - 1 -> Row(RowWidth)]
  <2>1. RowWidth \in 0 .. HeadBytes
    BY <1>1, RasterAssumption
  <2> QED BY <2>1, <1>1, <1>2
<1> QED BY <1>1, <1>2, <1>3 DEF PageType

\* Fit ends in failure or with a page to encode.
LEMMA FitStep ==
  ASSUME StaticInv, PageInv, Fit
  PROVE  PageInv'
<1>1. phase = "fit" /\ rows = <<>> /\ y = 0 /\ runs = <<>> /\ Unpacked
  BY DEF Fit, PageInv
<1>2. CASE TooSmall /\ Fails
  BY <1>1, <1>2 DEF Fails, encodeVars, PageInv, Unpacked
<1>3. CASE ~ (TooSmall /\ Fails)
  <2>1. /\ ~ TooSmall /\ rows' = RowsOfPage(Page(fitted')) /\ phase' = "encode"
        /\ y' = 0 /\ runs' = <<>> /\ Unpacked'
    BY <1>1, <1>3 DEF Fit, RowsOfPage, RowWidth, Pixel, Unpacked
  <2>2. PageType' /\ Height' = LabelRows /\ LabelRows \in Nat \ {0}
    BY <2>1, PageMade, LabelSize DEF StaticInv
  <2>3. EncodeInv'
    BY <2>1, <2>2 DEF EncodeInv, RunsExact
  <2> QED BY <2>1, <2>2, <2>3 DEF PageInv
<1> QED BY <1>2, <1>3

\* The steps before Fit touch neither the page nor the packets.
LEMMA BeforeFit ==
  ASSUME PageInv, phase \in {"print", "decode"}, phase' \in {"print", "decode", "fit", "failed"},
         UNCHANGED encodeVars
  PROVE  PageInv'
<1>1. /\ rows' = rows /\ y' = y /\ runs' = runs /\ k' = k /\ nextCheck' = nextCheck /\ packets' = packets
  BY DEF encodeVars
<1> QED BY <1>1 DEF PageInv, Unpacked

\* Every step of Encode and RowPackets.
LEMMA RasterSteps ==
  ASSUME StaticInv, PageInv, RasterStep
  PROVE  PageInv'
<1>1. CASE EncodeRow
  <2>1. phase = "encode" /\ phase' = "encode" /\ PageType /\ EncodeInv /\ Unpacked
    BY <1>1 DEF EncodeRow, PageInv
  <2>2. EncodeInv'
    BY <1>1, <2>1, EncodeStep
  <2>3. PageType' /\ Unpacked'
    BY <1>1, <2>1 DEF EncodeRow, PageType, Unpacked, Height
  <2> QED BY <2>1, <2>2, <2>3 DEF PageInv
<1>2. CASE Encoded
  <2>1. phase = "encode" /\ PageType /\ EncodeInv /\ Unpacked
    BY <1>2 DEF Encoded, PageInv
  <2>2. PageType' /\ EncodeInv' /\ PackInv'
    BY <1>2, <2>1, PackStart
  <2>3. phase' \in {"row", "check", "done"}
    BY <2>2 DEF PackInv
  <2> QED BY <2>2, <2>3 DEF PageInv
<1>3. ASSUME phase \in {"row", "check", "done"} PROVE PageType /\ EncodeInv /\ PackInv
  BY <1>3 DEF PageInv
<1>4. CASE SendRow
  <2>1. PageType' /\ EncodeInv' /\ PackInv'
    BY <1>3, <1>4, SendRowStep DEF SendRow, StaticInv
  <2>2. phase' \in {"row", "check", "done"}
    BY <2>1 DEF PackInv
  <2> QED BY <2>1, <2>2 DEF PageInv
<1>5. CASE CheckLine
  <2>1. PageType' /\ EncodeInv' /\ PackInv'
    BY <1>3, <1>5, CheckLineStep DEF CheckLine
  <2>2. phase' \in {"row", "check", "done"}
    BY <2>1 DEF PackInv
  <2> QED BY <2>1, <2>2 DEF PageInv
<1>6. CASE NextRun
  <2>1. PageType' /\ EncodeInv' /\ PackInv'
    BY <1>3, <1>6, NextRunStep DEF NextRun
  <2>2. phase' \in {"row", "check", "done"}
    BY <2>1 DEF PackInv
  <2> QED BY <2>1, <2>2 DEF PageInv
<1> QED BY <1>1, <1>2, <1>4, <1>5, <1>6 DEF RasterStep

\* A print begins with an empty page.
LEMMA StartsEmpty == Init => StaticInv /\ PageInv
<1> SUFFICES ASSUME Init PROVE StaticInv /\ PageInv
  OBVIOUS
<1>1. RasterInit /\ phase = "print"
  BY DEF Init
<1>2. magic \in {"none", "pdf", "image"} /\ size \in Sizes \cup DocSizes
  BY DEF Init
<1>3. size \in Int \X Int
  BY <1>2, LabelAssumption
<1> QED BY <1>1, <1>2, <1>3 DEF StaticInv, Phases, PageInv, RasterInit, Unpacked

\* No step leaves the values.
LEMMA StaticStep == StaticInv /\ [Next]_vars => StaticInv'
<1> SUFFICES ASSUME StaticInv, [Next]_vars PROVE StaticInv'
  OBVIOUS
<1> USE DEF StaticInv, Phases
<1>1. CASE CheckSize
  BY <1>1 DEF CheckSize, Fails, encodeVars
<1>2. CASE DecodeImage
  BY <1>2 DEF DecodeImage, Fails, encodeVars
<1>3. CASE DecodeUnknown
  BY <1>3 DEF DecodeUnknown, Fails, encodeVars
<1>4. CASE DecodeWalk
  BY <1>4 DEF DecodeWalk, rasterVars
<1>5. CASE DecodeRaster
  BY <1>5 DEF DecodeRaster, encodeVars
<1>6. CASE Fit
  BY <1>6 DEF Fit, Fails, encodeVars
<1>7. CASE EncodeAndPack
  <2>1. UNCHANGED <<magic, size>> /\ RasterStep
    BY <1>7 DEF EncodeAndPack
  <2>2. phase' \in Phases /\ mode' \in {"split", "total"}
    BY <2>1 DEF RasterStep, EncodeRow, Encoded, SendRow, CheckLine, NextRun
  <2> QED BY <2>1, <2>2
<1>8. CASE UNCHANGED vars
  BY <1>8 DEF vars, rasterVars
<1> QED BY <1>1, <1>2, <1>3, <1>4, <1>5, <1>6, <1>7, <1>8 DEF Next

\* Every step keeps page, runs and packets in step.
LEMMA PageStep == StaticInv /\ PageInv /\ [Next]_vars => PageInv'
<1> SUFFICES ASSUME StaticInv, PageInv, [Next]_vars PROVE PageInv'
  OBVIOUS
<1>1. CASE CheckSize
  BY <1>1, BeforeFit DEF CheckSize, Fails
<1>2. CASE DecodeImage
  BY <1>2, BeforeFit DEF DecodeImage, Fails
<1>3. CASE DecodeUnknown
  BY <1>3, BeforeFit DEF DecodeUnknown, Fails
<1>4. CASE DecodeWalk
  <2>1. phase = "decode" /\ phase' = "decode" /\ UNCHANGED encodeVars
    BY <1>4 DEF DecodeWalk, rasterVars, encodeVars
  <2> QED BY <2>1, BeforeFit
<1>5. CASE DecodeRaster
  BY <1>5, BeforeFit DEF DecodeRaster
<1>6. CASE Fit
  BY <1>6, FitStep
<1>7. CASE EncodeAndPack
  BY <1>7, RasterSteps DEF EncodeAndPack
<1>8. CASE UNCHANGED vars
  <2>1. /\ rows' = rows /\ y' = y /\ runs' = runs /\ k' = k /\ nextCheck' = nextCheck /\ packets' = packets
        /\ phase' = phase /\ mode' = mode
    BY <1>8 DEF vars, rasterVars
  <2> QED BY <2>1 DEF PageInv, Unpacked, PageType, Height, EncodeInv, RunsExact, PackInv, RowsSent, ChecksSent,
                      LastRowPacket, CountsAddUp, Sent, IsCheck, checkLine, RowsOf
<1> QED BY <1>1, <1>2, <1>3, <1>4, <1>5, <1>6, <1>7, <1>8 DEF Next

\* For any page of any label on any head of the model table's shape: what RowPackets sends
\* stands for the page in rows, counts and check lines.
THEOREM PacketsExact == Spec => []RowPacketsExact
<1>1. StaticInv /\ PageInv => RowPacketsExact
  BY PageInvExact DEF StaticInv, Phases
<1>2. StaticInv /\ PageInv /\ [Next]_vars => StaticInv' /\ PageInv'
  BY StaticStep, PageStep
<1> QED BY <1>1, <1>2, StartsEmpty, PTL DEF Spec

-----------------------------------------------------------------------------
(* The picture of a raster payload *)

\* A set of integers between two bounds has its least and its greatest member.
LEMMA MinMax ==
  ASSUME NEW a \in Int, NEW b \in Int, NEW S \in SUBSET (a .. b), S # {}
  PROVE  /\ Min(S) \in S /\ \A x \in S : Min(S) <= x
         /\ Max(S) \in S /\ \A x \in S : x <= Max(S)
<1> DEFINE Up   == {n \in Nat : a + n \in S}
           Down == {n \in Nat : b - n \in S}
           R    == OpToRel(<, Nat)
<1>1. Up \subseteq Nat /\ Up # {} /\ Down \subseteq Nat /\ Down # {}
  <2>1. PICK x \in S : TRUE
    OBVIOUS
  <2>2. x - a \in Nat /\ a + (x - a) \in S /\ b - x \in Nat /\ b - (b - x) \in S
    BY <2>1
  <2> QED BY <2>2
<1>2. PICK u \in Up : \A v \in Up : <<v, u>> \notin R
  <2> HIDE DEF Up, Down, R
  <2> QED BY <1>1, NatLessThanWellFounded, WFMin DEF R
<1>3. PICK d \in Down : \A v \in Down : <<v, d>> \notin R
  <2> HIDE DEF Up, Down, R
  <2> QED BY <1>1, NatLessThanWellFounded, WFMin DEF R
<1>4. (\A v \in Up : u <= v) /\ (\A v \in Down : d <= v)
  <2>1. u \in Nat /\ d \in Nat
    OBVIOUS
  <2>2. ASSUME NEW v \in Up PROVE u <= v
    <3>1. ~ (v < u) /\ v \in Nat
      BY <1>2 DEF OpToRel
    <3> QED BY <2>1, <3>1
  <2>3. ASSUME NEW v \in Down PROVE d <= v
    <3>1. ~ (v < d) /\ v \in Nat
      BY <1>3 DEF OpToRel
    <3> QED BY <2>1, <3>1
  <2> QED BY <2>2, <2>3
<1>5. PICK x \in S : x = a + u
  OBVIOUS
<1>6. PICK z \in S : z = b - d
  OBVIOUS
<1>7. ASSUME NEW v \in S PROVE x <= v /\ z >= v
  <2>1. v \in Int /\ v - a \in Up /\ b - v \in Down
    OBVIOUS
  <2>2. u <= v - a /\ d <= b - v
    BY <1>4, <2>1
  <2> QED BY <1>5, <1>6, <2>1, <2>2
<1>8. \E m \in S : \A v \in S : m <= v
  BY <1>7
<1>9. \E m \in S : \A v \in S : m >= v
  BY <1>7
<1>10. Min(S) \in S /\ \A v \in S : Min(S) <= v
  BY <1>8, Zenon DEF Min
<1>11. Max(S) \in S /\ \A v \in S : Max(S) >= v
  BY <1>9, Zenon DEF Max
<1>12. \A v \in S : v <= Max(S)
  BY <1>11
<1> QED BY <1>10, <1>11, <1>12

\* The range of a set of columns or rows, with its margin.
LEMMA BoxBounds ==
  ASSUME NEW n \in Nat, NEW S \in SUBSET (0 .. n - 1), S # {}
  PROVE  LET bx == Box(S, n) IN
         /\ bx[1] \in 0 .. n - 1 /\ bx[2] \in 0 .. n - 1
         /\ bx[1] <= Min(S) /\ Min(S) - bx[1] <= Margin
         /\ Max(S) <= bx[2] /\ bx[2] - Max(S) <= Margin
<1>1. n - 1 \in Int /\ 0 \in Int /\ Margin \in Nat
  BY BrotherRasterAssumption
<1>2. Min(S) \in 0 .. n - 1 /\ Max(S) \in 0 .. n - 1
  BY <1>1, MinMax
<1> QED BY <1>1, <1>2 DEF Box, Larger, Smaller

\* The least and the greatest member of a set of integers, once they are known.
LEMMA MinMaxAre ==
  ASSUME NEW S \in SUBSET Int, NEW l \in S, \A x \in S : l <= x, NEW m \in S, \A x \in S : x <= m
  PROVE  Min(S) = l /\ Max(S) = m
<1>1. \A x \in S : (\A z \in S : x <= z) => x = l
  OBVIOUS
<1>2. Min(S) = l
  BY <1>1 DEF Min
<1>3. Max(S) = m
  BY MaxIs
<1> QED BY <1>2, <1>3

\* The columns and the rows of some dots; numbers lessened, dots moved.
Xs(J) == {p[1] : p \in J}
Ys(J) == {p[2] : p \in J}
Less(S, c)     == {x - c : x \in S}
Moved(I, a, b) == {<<p[1] - a, p[2] - b>> : p \in I}

\* Moving a set of numbers moves its least and its greatest member.
LEMMA MovedMinMax ==
  ASSUME NEW n \in Nat, NEW S \in SUBSET (0 .. n - 1), S # {}, NEW c \in Int,
         NEW T, T = Less(S, c)
  PROVE  Min(T) = Min(S) - c /\ Max(T) = Max(S) - c
<1> USE DEF Less
<1>1. T \in SUBSET Int /\ S \in SUBSET Int /\ n - 1 \in Int /\ 0 \in Int
  OBVIOUS
<1>2. /\ Min(S) \in S /\ \A x \in S : Min(S) <= x
      /\ Max(S) \in S /\ \A x \in S : x <= Max(S)
  BY <1>1, MinMax
<1>3. Min(S) - c \in T /\ Max(S) - c \in T
  BY <1>2
<1>4. ASSUME NEW t \in T PROVE Min(S) - c <= t /\ t <= Max(S) - c
  <2>1. PICK x \in S : t = x - c
    OBVIOUS
  <2>2. x \in Int /\ Min(S) \in Int /\ Max(S) \in Int /\ Min(S) <= x /\ x <= Max(S)
    BY <1>1, <1>2
  <2> QED BY <2>1, <2>2
<1> QED BY <1>1, <1>3, <1>4, MinMaxAre

\* The lines' dots and the picture's are each other's mirror images.
LEMMA Mirror ==
  ASSUME Len(lines) \in Nat
  PROVE  /\ Width \in Nat \ {0}
         /\ \A p \in Inked : p \in Canvas /\ <<Width - 1 - p[1], p[2]>> \in InkedAsSent
         /\ \A d \in InkedAsSent : d \in Canvas /\ <<Width - 1 - d[1], d[2]>> \in Inked
<1>1. Width \in Nat \ {0}
  BY BrotherRasterAssumption DEF Width
<1>2. ASSUME NEW p \in Canvas
      PROVE  /\ <<Width - 1 - p[1], p[2]>> \in Canvas
             /\ Width - 1 - (Width - 1 - p[1]) = p[1]
  BY <1>1, <1>2 DEF Canvas
<1>3. ASSUME NEW p \in Inked PROVE p \in Canvas /\ <<Width - 1 - p[1], p[2]>> \in InkedAsSent
  BY <1>2 DEF Inked, InkedAsSent
<1>4. ASSUME NEW d \in InkedAsSent PROVE d \in Canvas /\ <<Width - 1 - d[1], d[2]>> \in Inked
  BY <1>2 DEF Inked, InkedAsSent
<1> QED BY <1>1, <1>3, <1>4

\* What a picture is: dots inside its width and height.
IsPicture(g) == g.w \in Nat \ {0} /\ g.h \in Nat \ {0} /\ g.ink \subseteq (0 .. g.w - 1) \X (0 .. g.h - 1)

\* A box from l to o around what is between m and n, no more than Margin away.
Fits(l, m, n, o, w) ==
  /\ l \in Int /\ m \in Int /\ n \in Int /\ o \in Int /\ w = o - l + 1
  /\ l <= m /\ m - l <= Margin /\ m <= n /\ n <= o /\ o - n <= Margin

\* Inside such a box, what it holds leaves at most Margin on either side.
LEMMA FitsIn ==
  ASSUME NEW l, NEW m, NEW n, NEW o, NEW w, Fits(l, m, n, o, w)
  PROVE  /\ m - l \in 0 .. Margin /\ w - 1 - (n - l) \in 0 .. Margin /\ w \in Nat \ {0}
         /\ \A x \in m .. n : x - l \in 0 .. w - 1
  BY BrotherRasterAssumption DEF Fits

\* Moving dots moves their columns and their rows.
LEMMA MovedSides ==
  ASSUME NEW I, NEW a \in Int, NEW b \in Int
  PROVE  Xs(Moved(I, a, b)) = Less(Xs(I), a) /\ Ys(Moved(I, a, b)) = Less(Ys(I), b)
<1> DEFINE J == Moved(I, a, b)
<1>1. \A q \in J : \E p \in I : q[1] = p[1] - a /\ q[2] = p[2] - b
  BY DEF Moved
<1>2. \A p \in I : \E q \in J : q[1] = p[1] - a /\ q[2] = p[2] - b
  <2> SUFFICES ASSUME NEW p \in I PROVE \E q \in J : q[1] = p[1] - a /\ q[2] = p[2] - b
    OBVIOUS
  <2>1. <<p[1] - a, p[2] - b>> \in J
    BY DEF Moved
  <2> QED BY <2>1
<1> HIDE DEF J
<1>3. {p[1] : p \in J} = {x - a : x \in {p[1] : p \in I}}
  <2>1. ASSUME NEW q \in J PROVE q[1] \in {x - a : x \in {p[1] : p \in I}}
    <3>1. PICK p \in I : q[1] = p[1] - a
      BY <1>1
    <3>2. p[1] \in {d[1] : d \in I}
      OBVIOUS
    <3> QED BY <3>1, <3>2
  <2>2. ASSUME NEW p \in I PROVE p[1] - a \in {d[1] : d \in J}
    <3>1. PICK q \in J : q[1] = p[1] - a
      BY <1>2
    <3> QED BY <3>1
  <2> QED BY <2>1, <2>2
<1>4. {p[2] : p \in J} = {x - b : x \in {p[2] : p \in I}}
  <2>1. ASSUME NEW q \in J PROVE q[2] \in {x - b : x \in {p[2] : p \in I}}
    <3>1. PICK p \in I : q[2] = p[2] - b
      BY <1>1
    <3>2. p[2] \in {d[2] : d \in I}
      OBVIOUS
    <3> QED BY <3>1, <3>2
  <2>2. ASSUME NEW p \in I PROVE p[2] - b \in {d[2] : d \in J}
    <3>1. PICK q \in J : q[2] = p[2] - b
      BY <1>2
    <3> QED BY <3>1
  <2> QED BY <2>1, <2>2
<1> QED BY <1>3, <1>4 DEF Xs, Ys, Less, J

\* Mirrored, cropped and moved: what rasterRowsToImage does to the dots of the lines.
LEMMA Cropped ==
  ASSUME Len(lines) \in Nat \ {0}, Inked # {}
  PROVE  LET g  == rasterRowsToImage
             xs == {p[1] : p \in g.ink}
             ys == {p[2] : p \in g.ink}
         IN  /\ IsPicture(g)
             /\ \E dx \in 0 .. Width - 1, dy \in 0 .. Len(lines) - 1 :
                  g.ink = {<<dx - d[1], d[2] - dy>> : d \in InkedAsSent}
             /\ Min(xs) \in 0 .. Margin /\ Min(ys) \in 0 .. Margin
             /\ g.w - 1 - Max(xs) \in 0 .. Margin /\ g.h - 1 - Max(ys) \in 0 .. Margin
<1> DEFINE I == Inked
           X == Xs(I)
           Y == Ys(I)
           H == Len(lines)
           g == rasterRowsToImage
           xs == Xs(g.ink)
           ys == Ys(g.ink)
<1>1. /\ Width \in Nat \ {0} /\ H \in Nat \ {0} /\ Margin \in Nat
      /\ \A p \in I : p \in Canvas /\ <<Width - 1 - p[1], p[2]>> \in InkedAsSent
      /\ \A d \in InkedAsSent : d \in Canvas /\ <<Width - 1 - d[1], d[2]>> \in I
  BY Mirror, BrotherRasterAssumption
<1>2. /\ X \in SUBSET (0 .. Width - 1) /\ X # {} /\ Y \in SUBSET (0 .. H - 1) /\ Y # {}
  BY <1>1 DEF Canvas, Xs, Ys
<1>3. PICK bx \in Int \X Int, by \in Int \X Int : bx = Box(X, Width) /\ by = Box(Y, H)
  <2>1. Box(X, Width)[1] \in Int /\ Box(X, Width)[2] \in Int /\ Box(Y, H)[1] \in Int /\ Box(Y, H)[2] \in Int
    <3> HIDE DEF X, Y, H
    <3> QED BY <1>1, <1>2, BoxBounds
  <2> HIDE DEF X, Y, H
  <2> QED BY <2>1 DEF Box
<1>4. /\ bx[1] \in 0 .. Width - 1 /\ bx[2] \in 0 .. Width - 1
      /\ bx[1] <= Min(X) /\ Min(X) - bx[1] <= Margin /\ Max(X) <= bx[2] /\ bx[2] - Max(X) <= Margin
      /\ by[1] \in 0 .. H - 1 /\ by[2] \in 0 .. H - 1
      /\ by[1] <= Min(Y) /\ Min(Y) - by[1] <= Margin /\ Max(Y) <= by[2] /\ by[2] - Max(Y) <= Margin
  <2> HIDE DEF X, Y, H
  <2> QED BY <1>1, <1>2, <1>3, BoxBounds
<1>5. /\ Min(X) \in X /\ \A x \in X : Min(X) <= x /\ x <= Max(X)
      /\ Min(Y) \in Y /\ \A x \in Y : Min(Y) <= x /\ x <= Max(Y)
      /\ Max(X) \in X /\ Max(Y) \in Y
  <2>1. 0 \in Int /\ Width - 1 \in Int /\ H - 1 \in Int
    BY <1>1
  <2> HIDE DEF X, Y, H
  <2> QED BY <1>2, <2>1, MinMax
<1>6. g = [w |-> bx[2] - bx[1] + 1, h |-> by[2] - by[1] + 1, ink |-> {<<p[1] - bx[1], p[2] - by[1]>> : p \in I}]
  BY <1>3 DEF rasterRowsToImage, Xs, Ys
<1>7. /\ g.w = bx[2] - bx[1] + 1 /\ g.h = by[2] - by[1] + 1
      /\ g.ink = {<<p[1] - bx[1], p[2] - by[1]>> : p \in I}
  BY <1>6
<1>8. \A p \in I : p[1] \in Min(X) .. Max(X) /\ p[2] \in Min(Y) .. Max(Y)
  <2>1. \A p \in I : p[1] \in X /\ p[2] \in Y /\ p[1] \in Int /\ p[2] \in Int
    BY <1>2 DEF Xs, Ys
  <2>2. Min(X) \in Int /\ Max(X) \in Int /\ Min(Y) \in Int /\ Max(Y) \in Int
    BY <1>2, <1>5
  <2> HIDE DEF X, Y
  <2> QED BY <1>5, <2>1, <2>2
<1>9. /\ Min(X) \in 0 .. Width - 1 /\ Max(X) \in 0 .. Width - 1 /\ Min(X) <= Max(X)
      /\ Min(Y) \in 0 .. H - 1 /\ Max(Y) \in 0 .. H - 1 /\ Min(Y) <= Max(Y)
  <2> HIDE DEF X, Y
  <2> QED BY <1>2, <1>5
<1>0. /\ Fits(bx[1], Min(X), Max(X), bx[2], g.w)
      /\ Fits(by[1], Min(Y), Max(Y), by[2], g.h)
  <2>1. bx[1] \in Int /\ bx[2] \in Int /\ by[1] \in Int /\ by[2] \in Int
    OBVIOUS
  <2> HIDE DEF X, Y, g, H
  <2> QED BY <1>4, <1>7, <1>9, <2>1 DEF Fits
<1>20. /\ Min(X) - bx[1] \in 0 .. Margin /\ Min(Y) - by[1] \in 0 .. Margin
       /\ g.w \in Nat \ {0} /\ g.h \in Nat \ {0}
       /\ g.w - 1 - (Max(X) - bx[1]) \in 0 .. Margin /\ g.h - 1 - (Max(Y) - by[1]) \in 0 .. Margin
       /\ \A x \in Min(X) .. Max(X) : x - bx[1] \in 0 .. g.w - 1
       /\ \A x \in Min(Y) .. Max(Y) : x - by[1] \in 0 .. g.h - 1
  <2> HIDE DEF X, Y, g
  <2> QED BY <1>0, FitsIn
<1>10. IsPicture(g)
  <2>1. g.w \in Nat \ {0} /\ g.h \in Nat \ {0}
    BY <1>20
  <2>2. ASSUME NEW p \in I PROVE p[1] - bx[1] \in 0 .. g.w - 1 /\ p[2] - by[1] \in 0 .. g.h - 1
    BY <1>8, <1>20, Zenon
  <2> HIDE DEF g
  <2> QED BY <1>7, <2>1, <2>2 DEF IsPicture
<1>11. \E dx \in 0 .. Width - 1, dy \in 0 .. H - 1 : g.ink = {<<dx - d[1], d[2] - dy>> : d \in InkedAsSent}
  <2> DEFINE dx == Width - 1 - bx[1]
             D  == {<<dx - d[1], d[2] - by[1]>> : d \in InkedAsSent}
  <2>1. dx \in 0 .. Width - 1 /\ by[1] \in 0 .. H - 1
    BY <1>1, <1>4
  <2>2. ASSUME NEW q \in g.ink PROVE q \in D
    <3>1. PICK p \in I : q = <<p[1] - bx[1], p[2] - by[1]>>
      BY <1>7
    <3>2. p \in Canvas /\ <<Width - 1 - p[1], p[2]>> \in InkedAsSent
      BY <1>1
    <3>3. dx - (Width - 1 - p[1]) = p[1] - bx[1]
      BY <1>1, <1>4, <3>2 DEF Canvas
    <3> HIDE DEF dx, I
    <3>4. <<dx - (Width - 1 - p[1]), p[2] - by[1]>> \in D
      BY <3>2
    <3> QED BY <3>1, <3>3, <3>4
  <2>3. ASSUME NEW q \in D PROVE q \in g.ink
    <3>1. PICK d \in InkedAsSent : q = <<dx - d[1], d[2] - by[1]>>
      OBVIOUS
    <3>2. d \in Canvas /\ <<Width - 1 - d[1], d[2]>> \in I
      BY <1>1
    <3>3. dx - d[1] = (Width - 1 - d[1]) - bx[1]
      BY <1>1, <1>4, <3>2 DEF Canvas
    <3> HIDE DEF dx, I, g
    <3>4. <<(Width - 1 - d[1]) - bx[1], d[2] - by[1]>> \in g.ink
      BY <1>7, <3>2
    <3> QED BY <3>1, <3>3, <3>4
  <2>4. g.ink = D
    <3> HIDE DEF D, g
    <3> QED BY <2>2, <2>3
  <2> HIDE DEF dx, g
  <2> QED BY <2>1, <2>4
<1>12. xs = Less(X, bx[1]) /\ ys = Less(Y, by[1])
  <2>1. bx[1] \in Int /\ by[1] \in Int
    OBVIOUS
  <2>2. g.ink = Moved(I, bx[1], by[1])
    BY <1>7 DEF Moved
  <2> HIDE DEF g, I
  <2> QED BY <2>1, <2>2, MovedSides
<1>13. /\ Min(xs) = Min(X) - bx[1] /\ Max(xs) = Max(X) - bx[1]
       /\ Min(ys) = Min(Y) - by[1] /\ Max(ys) = Max(Y) - by[1]
  <2>1. Width \in Nat /\ H \in Nat /\ bx[1] \in Int /\ by[1] \in Int
    BY <1>1
  <2> HIDE DEF X, Y, xs, ys, H
  <2> QED BY <1>2, <1>12, <2>1, MovedMinMax
<1>14. /\ Min(xs) \in 0 .. Margin /\ Min(ys) \in 0 .. Margin
       /\ g.w - 1 - Max(xs) \in 0 .. Margin /\ g.h - 1 - Max(ys) \in 0 .. Margin
  <2> HIDE DEF X, Y, xs, ys, g
  <2> QED BY <1>13, <1>20, Zenon
<1> QED BY <1>10, <1>11, <1>14 DEF Xs, Ys

\* Some lines make a picture.
LEMMA LinesMakePicture ==
  ASSUME Len(lines) \in Nat \ {0}
  PROVE  IsPicture(rasterRowsToImage)
<1>1. CASE Inked = {}
  <2>1. rasterRowsToImage = [w |-> Width, h |-> Len(lines), ink |-> {}]
    BY <1>1 DEF rasterRowsToImage
  <2> QED BY <2>1, Mirror DEF IsPicture
<1>2. CASE Inked # {}
  BY <1>2, Cropped
<1> QED BY <1>1, <1>2

\* The picture made of some lines is that of the lines' dots.
LEMMA PictureMade ==
  ASSUME Len(lines) \in Nat \ {0}, picture = rasterRowsToImage
  PROVE  IsPicture(picture) /\ PictureOfLines
<1>1. InkedAsSent = {p \in Canvas : Bit(lines[p[2] + 1], p[1])}
  BY DEF InkedAsSent
<1>2. CASE Inked = {}
  <2>1. InkedAsSent = {}
    BY <1>2, Mirror
  <2>2. picture = [w |-> Width, h |-> Len(lines), ink |-> {}]
    BY <1>2 DEF rasterRowsToImage
  <2>3. IsPicture(picture) /\ picture.ink = {}
    BY <2>2, Mirror DEF IsPicture
  <2> QED BY <1>1, <2>1, <2>3 DEF PictureOfLines, IsPicture
<1>3. CASE Inked # {}
  <2> DEFINE xs == {p[1] : p \in picture.ink}
             ys == {p[2] : p \in picture.ink}
  <2>1. /\ IsPicture(picture)
        /\ \E dx \in 0 .. Width - 1, dy \in 0 .. Len(lines) - 1 :
             picture.ink = {<<dx - d[1], d[2] - dy>> : d \in InkedAsSent}
        /\ Min(xs) \in 0 .. Margin /\ Min(ys) \in 0 .. Margin
        /\ picture.w - 1 - Max(xs) \in 0 .. Margin /\ picture.h - 1 - Max(ys) \in 0 .. Margin
    BY <1>3, Cropped
  <2>2. InkedAsSent # {}
    BY <1>3, Mirror
  <2> QED BY <1>1, <2>1, <2>2, Zenon DEF PictureOfLines, IsPicture
<1> QED BY <1>2, <1>3

\* The picture is taken once, from the lines of a raster payload or from Pictures.
PictureInv ==
  /\ phase \in {"print", "decode"} => picture = NoPicture
  /\ magic = "none" \/ lines = <<>>
  /\ \E S : lines \in Seq(S)
  /\ picture # NoPicture =>
       IF magic = "none" THEN lines # <<>> /\ picture = rasterRowsToImage ELSE picture \in Pictures
  /\ phase \notin {"print", "decode", "failed"} => picture # NoPicture

\* A line behind the others.
LEMMA AnotherLine ==
  ASSUME NEW s, \E S : s \in Seq(S), NEW l
  PROVE  \E S : Append(s, l) \in Seq(S)
<1>1. PICK S : s \in Seq(S)
  OBVIOUS
<1>2. s \in Seq(S \cup {l}) /\ l \in S \cup {l}
  BY <1>1
<1> QED BY <1>2

\* A walk step leaves the picture alone and keeps the lines a sequence.
LEMMA WalkLines ==
  ASSUME WalkStep, \E S : lines \in Seq(S)
  PROVE  picture' = picture /\ \E S : lines' \in Seq(S)
<1>1. CASE lines' = lines /\ picture' = picture
  BY <1>1
<1>2. ASSUME ~ (lines' = lines /\ picture' = picture)
      PROVE  picture' = picture /\ \E l : lines' = Append(lines, l)
  BY <1>2 DEF WalkStep, Skip, Mode, Blank, Graphics, Escape
<1>3. CASE ~ (lines' = lines /\ picture' = picture)
  <2>1. PICK l : lines' = Append(lines, l)
    BY <1>2, <1>3
  <2>2. \E S : Append(lines, l) \in Seq(S)
    BY AnotherLine
  <2> QED BY <1>2, <1>3, <2>1, <2>2
<1> QED BY <1>1, <1>3

\* The steps that leave the payload's lines and the picture alone.
LEMMA PictureFrame ==
  ASSUME PictureInv, lines' = lines, picture' = picture, magic' = magic,
         phase' \in {"print", "decode"} => phase \in {"print", "decode"},
         phase \in {"print", "decode"} => phase' \in {"print", "decode", "failed"},
         phase = "failed" => phase' = "failed"
  PROVE  PictureInv'
<1>1. rasterRowsToImage' = rasterRowsToImage
  BY DEF rasterRowsToImage, Inked, Canvas, Bit, Box, Width
<1>2. /\ phase' \in {"print", "decode"} => picture' = NoPicture
      /\ magic' = "none" \/ lines' = <<>>
      /\ \E S : lines' \in Seq(S)
  BY DEF PictureInv
<1>3. picture' # NoPicture =>
        IF magic' = "none" THEN lines' # <<>> /\ picture' = rasterRowsToImage' ELSE picture' \in Pictures
  BY <1>1 DEF PictureInv
<1>4. phase' \notin {"print", "decode", "failed"} => picture' # NoPicture
  BY DEF PictureInv
<1> QED BY <1>2, <1>3, <1>4 DEF PictureInv

\* The picture that is taken is one.
LEMMA PictureTaken ==
  ASSUME PictureInv, picture # NoPicture
  PROVE  IsPicture(picture) /\ (magic = "none" => PictureOfLines)
<1>1. CASE magic = "none"
  <2>1. lines # <<>> /\ picture = rasterRowsToImage /\ \E S : lines \in Seq(S)
    BY <1>1 DEF PictureInv
  <2>2. PICK S : lines \in Seq(S)
    BY <2>1
  <2>3. Len(lines) \in Nat \ {0}
    BY <2>1, <2>2
  <2> QED BY <2>1, <2>3, PictureMade
<1>2. CASE magic # "none"
  BY <1>2, LabelAssumption DEF PictureInv, IsPicture
<1> QED BY <1>1, <1>2

\* No picture of the table, and none that a raster payload makes, is the empty one.
LEMMA SomePicture ==
  ASSUME NEW g, IsPicture(g)
  PROVE  g # NoPicture
  BY DEF IsPicture, NoPicture

\* Each step keeps the picture that of its payload.
LEMMA PictureStep == StaticInv /\ PictureInv /\ [Next]_vars => PictureInv'
<1> SUFFICES ASSUME StaticInv, PictureInv, [Next]_vars PROVE PictureInv'
  OBVIOUS
<1>1. CASE CheckSize
  <2>1. phase = "print" /\ phase' \in {"decode", "failed"} /\ lines' = lines /\ picture' = picture /\ magic' = magic
    BY <1>1 DEF CheckSize, Fails, walkVars
  <2> QED BY <2>1, PictureFrame
<1>2. ASSUME phase = "decode", phase' = "failed", lines' = lines, picture' = picture, magic' = magic PROVE PictureInv'
  BY <1>2, PictureFrame
<1>3. CASE DecodeImage
  <2>1. phase = "decode" /\ magic # "none" /\ lines' = lines /\ magic' = magic
    BY <1>3 DEF DecodeImage, Fails, walkVars
  <2>2. CASE picture' \in Pictures /\ phase' = "fit"
    <3>1. IsPicture(picture')
      BY <2>2, LabelAssumption DEF IsPicture
    <3>2. picture' # NoPicture
      BY <3>1, SomePicture
    <3> QED BY <2>1, <2>2, <3>2 DEF PictureInv
  <2>3. CASE Fails
    BY <2>1, <2>3, <1>2 DEF Fails, walkVars
  <2> QED BY <1>3, <2>2, <2>3 DEF DecodeImage
<1>4. CASE DecodeUnknown
  BY <1>2, <1>4 DEF DecodeUnknown, Fails, walkVars
<1>5. CASE DecodeWalk
  <2>1. phase = "decode" /\ phase' = "decode" /\ magic = "none" /\ magic' = magic /\ WalkStep
    BY <1>5 DEF DecodeWalk, rasterVars
  <2>2. picture = NoPicture /\ \E S : lines \in Seq(S)
    BY <2>1 DEF PictureInv
  <2>3. picture' = picture /\ \E S : lines' \in Seq(S)
    BY <2>1, <2>2, WalkLines
  <2> QED BY <2>1, <2>2, <2>3 DEF PictureInv
<1>6. CASE DecodeRaster
  <2>1. /\ phase' = "fit" /\ magic = "none" /\ magic' = magic /\ lines # <<>> /\ lines' = lines
        /\ picture' = rasterRowsToImage
    BY <1>6 DEF DecodeRaster
  <2>2. picture' = rasterRowsToImage'
    BY <2>1 DEF rasterRowsToImage, Inked, Canvas, Bit, Box, Width
  <2>3. picture' # NoPicture
    <3>1. PICK S : lines \in Seq(S)
      BY DEF PictureInv
    <3>2. Len(lines) \in Nat \ {0}
      BY <2>1, <3>1
    <3> QED BY <2>1, <3>2, LinesMakePicture, SomePicture
  <2> QED BY <2>1, <2>2, <2>3 DEF PictureInv
<1>7. CASE Fit
  <2>1. phase = "fit" /\ phase' \in {"encode", "failed"} /\ lines' = lines /\ picture' = picture /\ magic' = magic
    BY <1>7 DEF Fit, Fails, walkVars
  <2> QED BY <2>1, PictureFrame
<1>8. CASE EncodeAndPack
  <2>1. lines' = lines /\ picture' = picture /\ magic' = magic /\ RasterStep
    BY <1>8 DEF EncodeAndPack, walkVars
  <2>2. phase \in {"encode", "row", "check"} /\ phase' \in {"encode", "row", "check", "done"}
    BY <2>1 DEF RasterStep, EncodeRow, Encoded, SendRow, CheckLine, NextRun
  <2> QED BY <2>1, <2>2, PictureFrame
<1>9. CASE UNCHANGED vars
  <2>1. lines' = lines /\ picture' = picture /\ magic' = magic /\ phase' = phase
    BY <1>9 DEF vars, walkVars, rasterVars
  <2> QED BY <2>1, PictureFrame
<1> QED BY <1>1, <1>3, <1>4, <1>5, <1>6, <1>7, <1>8, <1>9 DEF Next

\* A print begins without a picture.
LEMMA StartsBlank == Init => PictureInv
<1> SUFFICES ASSUME Init PROVE PictureInv
  OBVIOUS
<1>1. phase = "print" /\ picture = NoPicture /\ lines = <<>>
  BY DEF Init, DocInit
<1>2. <<>> \in Seq({})
  OBVIOUS
<1> QED BY <1>1, <1>2 DEF PictureInv

\* Whatever lines the walk finds, the picture holds their dots and no other, mirrored and
\* cropped to the margin.
LEMMA PictureExact == StaticInv /\ PictureInv => PictureOfLines
<1> SUFFICES ASSUME StaticInv, PictureInv PROVE PictureOfLines
  OBVIOUS
<1>1. CASE picture # NoPicture /\ lines # <<>>
  <2>1. magic = "none"
    BY <1>1 DEF PictureInv
  <2> QED BY <1>1, <2>1, PictureTaken
<1>2. CASE ~ (picture # NoPicture /\ lines # <<>>)
  BY <1>2 DEF PictureOfLines
<1> QED BY <1>1, <1>2

\* A raster payload's picture is the label as the head would have printed it.
THEOREM LinesPictured == Spec => []PictureOfLines
<1>1. Init => StaticInv /\ PictureInv
  BY StartsEmpty, StartsBlank
<1>2. StaticInv /\ PictureInv /\ [Next]_vars => StaticInv' /\ PictureInv'
  BY StaticStep, PictureStep
<1> QED BY <1>1, <1>2, PictureExact, PTL DEF Spec

-----------------------------------------------------------------------------
(* Fit's arithmetic *)

\* Division with remainder has one result.
LEMMA DivIs ==
  ASSUME NEW c \in Nat \ {0}, NEW x \in Nat, NEW q \in Nat, c * q <= x, x < c * q + c
  PROVE  x \div c = q /\ x % c = x - c * q
<1>1. PICK e \in Nat, r \in 0 .. c - 1 : x = c * e + r /\ e = x \div c /\ r = x % c
  OBVIOUS
<1>2. c * e \in Int /\ c * q \in Int /\ c * (e + 1) = c * e + c /\ c * (q + 1) = c * q + c
  OBVIOUS
<1>3. ~ (c * q < c * e)
  <2>1. c * q < c * e => c * (q + 1) <= c * e
    BY Multiples
  <2> QED BY <1>1, <1>2, <2>1
<1>4. ~ (c * e < c * q)
  <2>1. c * e < c * q => c * (e + 1) <= c * q
    BY Multiples
  <2> QED BY <1>1, <1>2, <2>1
<1>5. c * e = c * q
  BY <1>2, <1>3, <1>4
<1>6. e = q
  BY <1>5
<1> QED BY <1>1, <1>5, <1>6

\* The least multiple of c that is not below x.
LEMMA RoundUp ==
  ASSUME NEW c \in Nat \ {0}, NEW x \in Nat
  PROVE  \E q \in Nat : x <= c * q /\ c * q < x + c
<1>1. PICK e \in Nat, r \in 0 .. c - 1 : x = c * e + r
  <2>1. x \div c \in Nat /\ x % c \in 0 .. c - 1 /\ x = c * (x \div c) + (x % c)
    OBVIOUS
  <2> QED BY <2>1
<1>2. c * e \in Int /\ c * (e + 1) = c * e + c
  OBVIOUS
<1>3. CASE r = 0
  BY <1>1, <1>2, <1>3
<1>4. CASE r # 0
  <2>1. x <= c * (e + 1) /\ c * (e + 1) < x + c
    BY <1>1, <1>2, <1>4
  <2>2. e + 1 \in Nat
    OBVIOUS
  <2> QED BY <2>1, <2>2
<1> QED BY <1>3, <1>4

\* What the scale has: a copy no smaller than the picture is not shortened at scale 1.
IsScale(f) ==
  /\ f.num \in Nat \ {0} /\ f.den \in Nat \ {0} /\ f.short \in BOOLEAN
  /\ f.short => f.num % f.den # 0

\* The length of a side of the copy.
Scaled(len, f) == (2 * len * f.num + f.den) \div (2 * f.den)

\* Where the edge of a pixel of the copy is among the pixels of the picture.
LEMMA EdgeIs ==
  ASSUME NEW f, IsScale(f), NEW n \in Nat, NEW q \in Nat,
         f.num * q <= f.den * n, f.den * n < f.num * q + f.num
  PROVE  Edge(f, n) = IF f.short /\ n > 0 /\ f.den * n = f.num * q THEN q - 1 ELSE q
<1>1. PICK c \in Nat \ {0}, d \in Nat \ {0} : c = f.num /\ d = f.den
  BY DEF IsScale
<1>2. n * d = d * n /\ d * n \in Nat /\ c * q \in Nat
  OBVIOUS
<1>3. (d * n) \div c = q /\ (d * n) % c = d * n - c * q
  BY <1>1, <1>2, DivIs
<1>4. (n * f.den) \div f.num = q /\ (n * f.den) % f.num = d * n - c * q
  BY <1>1, <1>2, <1>3
<1>5. (n * f.den) % f.num = 0 <=> f.den * n = f.num * q
  BY <1>1, <1>2, <1>4
<1> QED BY <1>4, <1>5 DEF Edge

\* The edge is at the next pixel at most.
LEMMA EdgeBelow ==
  ASSUME NEW f, IsScale(f), NEW n \in Nat, NEW q \in Nat,
         f.num * q <= f.den * n, f.den * n < f.num * q + 2 * f.num
  PROVE  Edge(f, n) \in Int /\ Edge(f, n) <= q + 1
<1>1. f.num \in Nat /\ f.den \in Nat /\ f.num * q \in Int /\ f.den * n \in Int
  BY DEF IsScale
<1>2. CASE f.den * n < f.num * q + f.num
  BY <1>1, <1>2, EdgeIs
<1>3. CASE ~ (f.den * n < f.num * q + f.num)
  <2>1. q + 1 \in Nat /\ f.num * (q + 1) = f.num * q + f.num
    <3>1. PICK c \in Nat : c = f.num
      BY <1>1
    <3>2. c * (q + 1) = c * q + c
      OBVIOUS
    <3>3. f.num * (q + 1) = f.num * q + f.num
      BY <3>1, <3>2, Zenon
    <3> QED BY <3>3
  <2>2. f.num * (q + 1) <= f.den * n /\ f.den * n < f.num * (q + 1) + f.num
    BY <1>1, <1>3, <2>1
  <2>3. Edge(f, n) = q + 1 \/ Edge(f, n) = q + 1 - 1
    BY <2>1, <2>2, EdgeIs
  <2> QED BY <2>1, <2>3
<1> QED BY <1>2, <1>3

\* A span that begins at a pixel and ends at the next is that pixel.
LEMMA SpanIs ==
  ASSUME NEW f, NEW n \in Nat, NEW len \in Nat, NEW a \in 0 .. len - 1,
         Edge(f, n) = a, Edge(f, n + 1) \in Int, Edge(f, n + 1) <= a + 1
  PROVE  Span(f, n, len) = {a}
  BY DEF Span, Smaller, Larger

\* Magnified, every pixel of the picture but the last has a pixel of the copy to itself.
LEMMA PixelShown ==
  ASSUME NEW f, IsScale(f), f.den <= f.num, NEW len \in Nat \ {0}, NEW a \in 0 .. len - 2
  PROVE  \E n \in 0 .. Scaled(len, f) - 1 : Span(f, n, len) = {a}
<1>0. PICK d : d = Scaled(len, f)
  OBVIOUS
<1> SUFFICES \E n \in 0 .. d - 1 : Span(f, n, len) = {a}
  BY <1>0
<1>1. PICK c \in Nat \ {0}, e \in Nat \ {0} : c = f.num /\ e = f.den /\ e <= c
  BY DEF IsScale
<1>2. PICK A \in Nat, P \in Nat : A = c * a /\ P = c * len
  OBVIOUS
<1>3. A + 2 * c <= P
  <2>1. c * (a + 2) <= c * len
    OBVIOUS
  <2>2. c * (a + 2) = A + 2 * c
    BY <1>2
  <2> QED BY <1>2, <2>1, <2>2
<1>4. d \in Nat /\ e * d \in Nat /\ 2 * P < 2 * (e * d) + e
  <2>1. 2 * len * c = 2 * P
    BY <1>2
  <2>2. d = (2 * P + e) \div (2 * e)
    BY <1>0, <1>1, <2>1 DEF Scaled
  <2>3. PICK m \in Nat \ {0}, x \in Nat : m = 2 * e /\ x = 2 * P + e
    OBVIOUS
  <2>4. x \div m \in Nat /\ x % m \in 0 .. m - 1 /\ x = m * (x \div m) + (x % m)
    OBVIOUS
  <2>5. d = x \div m
    BY <2>2, <2>3
  <2>6. PICK r \in 0 .. m - 1 : d \in Nat /\ x = m * d + r
    BY <2>4, <2>5
  <2>7. d \in Nat /\ x < m * d + m
    <3>1. m * d \in Nat
      BY <2>6
    <3> QED BY <2>6, <3>1
  <2>8. m * d = 2 * (e * d) /\ e * d \in Nat
    BY <2>3, <2>7
  <2> QED BY <2>3, <2>7, <2>8
<1>5. PICK t \in Nat : A <= e * t /\ e * t < A + e
  BY RoundUp
<1>6. ASSUME NEW n \in Nat, e * n + e < P
      PROVE  n \in 0 .. d - 1
  <2>1. e * n \in Nat /\ e * n < e * d
    BY <1>4, <1>6
  <2>2. n < d
    BY <1>4, <2>1
  <2> QED BY <1>4, <2>2
<1>7. ASSUME NEW n \in Nat, A <= e * n, e * n < A + c, e * n + e < A + 2 * c,
             f.short /\ n > 0 => e * n # A, e * n + e < P
      PROVE  \E m \in 0 .. d - 1 : Span(f, m, len) = {a}
  <2>1. a \in Nat /\ a \in 0 .. len - 1 /\ n + 1 \in Nat
    OBVIOUS
  <2>2. Edge(f, n) = a
    BY <1>1, <1>2, <1>7, <2>1, EdgeIs
  <2>3. e * (n + 1) = e * n + e /\ e * n \in Nat
    OBVIOUS
  <2>4. A <= e * (n + 1) /\ e * (n + 1) < A + 2 * c
    BY <1>7, <2>3
  <2>5. Edge(f, n + 1) \in Int /\ Edge(f, n + 1) <= a + 1
    BY <1>1, <1>2, <2>1, <2>4, EdgeBelow
  <2>6. Span(f, n, len) = {a}
    BY <2>1, <2>2, <2>5, SpanIs
  <2> QED BY <1>6, <1>7, <2>6
<1>8. e * t \in Nat
  OBVIOUS
<1>9. CASE ~ (f.short /\ t > 0 /\ e * t = A)
  <2>1. e * t < A + c /\ e * t + e < A + 2 * c /\ e * t + e < P
    BY <1>1, <1>3, <1>5, <1>8
  <2> QED BY <1>5, <1>7, <1>9, <2>1
<1>10. CASE f.short /\ t > 0 /\ e * t = A
  <2>1. e < c
    <3>1. c % e # 0 /\ e % e = 0
      BY <1>1, <1>10 DEF IsScale
    <3>2. e # c
      BY <3>1
    <3> QED BY <1>1, <3>2
  <2>2. t + 1 \in Nat /\ e * (t + 1) = A + e
    BY <1>10
  <2>3. /\ A <= e * (t + 1) /\ e * (t + 1) < A + c /\ e * (t + 1) + e < A + 2 * c
        /\ e * (t + 1) # A /\ e * (t + 1) + e < P
    BY <1>1, <1>3, <2>1, <2>2
  <2> QED BY <1>7, <2>2, <2>3
<1> QED BY <1>9, <1>10

\* Rounded to the nearest: no larger than a number that the quotient does not exceed.
LEMMA Rounded ==
  ASSUME NEW d \in Nat \ {0}, NEW p \in Nat, NEW c \in Nat, p <= c * d
  PROVE  (2 * p + d) \div (2 * d) \in 0 .. c
<1>1. PICK m \in Nat \ {0}, x \in Nat : m = 2 * d /\ x = 2 * p + d
  OBVIOUS
<1>2. x \div m \in Nat /\ x % m \in 0 .. m - 1 /\ x = m * (x \div m) + (x % m)
  OBVIOUS
<1>3. PICK q \in Nat, r \in 0 .. m - 1 : q = x \div m /\ x = m * q + r
  BY <1>2
<1>4. m * c = 2 * (c * d) /\ m * c \in Nat /\ c * d \in Nat
  BY <1>1
<1>5. m * q \in Nat /\ m * q < m * c + m /\ m * (c + 1) = m * c + m
  BY <1>1, <1>3, <1>4
<1>6. q < c + 1
  <2>1. m * q < m * (c + 1)
    BY <1>4, <1>5
  <2> QED BY <2>1
<1> QED BY <1>1, <1>3, <1>6

\* In the middle of what is left.
LEMMA Centred ==
  ASSUME NEW c \in Nat, NEW d \in 0 .. c
  PROVE  (c - d) \div 2 \in Nat /\ (c - d) \div 2 + d <= c
  OBVIOUS

\* The copy of a picture fits the label.
LEMMA PlacedFits ==
  ASSUME Cols \in Nat \ {0}, LabelRows \in Nat \ {0},
         NEW g, IsPicture(g), NEW exact \in BOOLEAN, NEW f, f = Placed(g, exact)
  PROVE  /\ f.g = g /\ IsScale(f)
         /\ f.dw = Scaled(g.w, f) /\ f.dh = Scaled(g.h, f)
         /\ f.dw \in 0 .. Cols /\ f.dh \in 0 .. LabelRows
         /\ f.ox \in Nat /\ f.ox + f.dw <= Cols
         /\ f.oy \in Nat /\ f.oy + f.dh <= LabelRows
<1> DEFINE wide == Cols * g.h <= LabelRows * g.w
           num  == IF wide THEN Cols ELSE LabelRows
           den  == IF wide THEN g.w ELSE g.h
           dw   == (2 * g.w * num + den) \div (2 * den)
           dh   == (2 * g.h * num + den) \div (2 * den)
           cut  == ~ exact /\ \A e \in 0 .. 8 : (num * 2^e) % den # 0
<1>1. f = [g |-> g, num |-> num, den |-> den, short |-> cut, dw |-> dw, dh |-> dh,
           ox |-> (Cols - dw) \div 2, oy |-> (LabelRows - dh) \div 2]
  BY DEF Placed
<1>2. num \in Nat \ {0} /\ den \in Nat \ {0} /\ g.w \in Nat \ {0} /\ g.h \in Nat \ {0}
  BY DEF IsPicture
<1>3. dw \in 0 .. Cols /\ dh \in 0 .. LabelRows
  <2>1. PICK c \in Nat \ {0}, r \in Nat \ {0}, w \in Nat \ {0}, h \in Nat \ {0} :
          c = Cols /\ r = LabelRows /\ w = g.w /\ h = g.h
    BY <1>2
  <2>2. CASE wide
    <3>1. w * c \in Nat /\ w * c <= c * w /\ h * c \in Nat /\ h * c <= r * w
      BY <2>1, <2>2
    <3>2. (2 * (w * c) + w) \div (2 * w) \in 0 .. c /\ (2 * (h * c) + w) \div (2 * w) \in 0 .. r
      BY <3>1, Rounded
    <3>3. 2 * w * c = 2 * (w * c) /\ 2 * h * c = 2 * (h * c)
      OBVIOUS
    <3> QED BY <2>1, <2>2, <3>2, <3>3
  <2>3. CASE ~ wide
    <3>1. w * r \in Nat /\ w * r <= c * h /\ h * r \in Nat /\ h * r <= r * h
      BY <2>1, <2>3
    <3>2. (2 * (w * r) + h) \div (2 * h) \in 0 .. c /\ (2 * (h * r) + h) \div (2 * h) \in 0 .. r
      BY <3>1, Rounded
    <3>3. 2 * w * r = 2 * (w * r) /\ 2 * h * r = 2 * (h * r)
      OBVIOUS
    <3> QED BY <2>1, <2>3, <3>2, <3>3
  <2> QED BY <2>2, <2>3
<1>4. cut \in BOOLEAN /\ (cut => num % den # 0)
  <2>1. cut => (num * 2^0) % den # 0
    <3> HIDE DEF num, den
    <3> QED OBVIOUS
  <2>2. num * 2^0 = num
    <3> HIDE DEF num
    <3> QED BY <1>2
  <2> HIDE DEF num, den
  <2> QED BY <2>1, <2>2
<1> HIDE DEF wide, num, den, dw, dh, cut
<1>5. /\ f.g = g /\ f.num = num /\ f.den = den /\ f.short = cut /\ f.dw = dw /\ f.dh = dh
      /\ f.ox = (Cols - dw) \div 2 /\ f.oy = (LabelRows - dh) \div 2
  BY <1>1
<1>6. /\ f.ox \in Nat /\ f.ox + f.dw <= Cols
      /\ f.oy \in Nat /\ f.oy + f.dh <= LabelRows
  BY <1>3, <1>5, Centred
<1>7. IsScale(f)
  BY <1>2, <1>4, <1>5 DEF IsScale
<1>8. f.dw = Scaled(g.w, f) /\ f.dh = Scaled(g.h, f)
  BY <1>5 DEF dw, dh, Scaled
<1> QED BY <1>3, <1>5, <1>6, <1>7, <1>8

-----------------------------------------------------------------------------
(* Ink *)

\* A box that is one pixel of the ink is dark, and a dark box has ink.
LEMMA DarkIs ==
  ASSUME NEW f, NEW x, NEW w,
         NEW box, box = Span(f, x, f.g.w) \X Span(f, w, f.g.h)
  PROVE  /\ \A s \in f.g.ink : box = {s} => Dark(f, x, w)
         /\ IsFiniteSet(box) /\ Dark(f, x, w) => \E s \in box : s \in f.g.ink
<1>1. Dark(f, x, w) <=> box # {} /\ 255 * Cardinality(box \ f.g.ink) < 128 * Cardinality(box)
  BY Zenon DEF Dark
<1>2. ASSUME NEW s \in f.g.ink, box = {s} PROVE Dark(f, x, w)
  <2>1. Cardinality(box) = 1
    BY <1>2, FS_Singleton
  <2>2. box \ f.g.ink = {}
    BY <1>2
  <2>3. Cardinality(box \ f.g.ink) = 0
    BY <2>2, FS_EmptySet, Zenon
  <2>4. box # {}
    BY <1>2
  <2> QED BY <1>1, <2>1, <2>3, <2>4
<1>3. ASSUME IsFiniteSet(box), \A s \in box : s \notin f.g.ink PROVE ~ Dark(f, x, w)
  <2>1. box \ f.g.ink = box
    BY <1>3
  <2>2. Cardinality(box \ f.g.ink) = Cardinality(box)
    BY <2>1, Zenon
  <2>3. Cardinality(box) \in Nat
    BY <1>3, FS_CardinalityType
  <2>4. ~ (255 * Cardinality(box) < 128 * Cardinality(box))
    BY <2>3
  <2> QED BY <1>1, <2>2, <2>4, Zenon
<1> QED BY <1>2, <1>3, Zenon

\* The edges of pixels, and so the spans, are of integers.
LEMMA SpanFinite ==
  ASSUME NEW f, IsScale(f), NEW n \in Nat, NEW len \in Nat
  PROVE  IsFiniteSet(Span(f, n, len))
<1>1. ASSUME NEW m \in Nat PROVE Edge(f, m) \in Int
  <2>1. PICK c \in Nat \ {0}, d \in Nat \ {0} : c = f.num /\ d = f.den
    BY DEF IsScale
  <2>2. m * d \in Nat
    BY <2>1
  <2>3. (m * d) \div c \in Int
    BY <2>1, <2>2
  <2> QED BY <2>1, <2>3 DEF Edge
<1>2. Edge(f, n) \in Int /\ Edge(f, n + 1) \in Int
  BY <1>1
<1>3. Smaller(Larger(Edge(f, n + 1), Edge(f, n) + 1), len) - 1 \in Int
  BY <1>2 DEF Smaller, Larger
<1> QED BY <1>2, <1>3, FS_Interval DEF Span

\* Turned, a picture is a picture; its dots are the dots, where the reader sees them.
LEMMA TurnedDots ==
  ASSUME IsPicture(picture), fitted.g = Turned
  PROVE  /\ IsPicture(Turned)
         /\ \A p \in picture.ink : Seen(p) \in Turned.ink
         /\ \A s \in Turned.ink : \E p \in picture.ink : Seen(p) = s
<1>1. CASE Turned = picture
  BY <1>1 DEF Seen
<1>2. CASE Turned # picture
  <2>1. Turned = rotate90(picture)
    BY <1>2, Zenon DEF Turned
  <2>2. /\ Turned.w = picture.h /\ Turned.h = picture.w
        /\ Turned.ink = {<<picture.h - 1 - p[2], p[1]>> : p \in picture.ink}
    BY <2>1 DEF rotate90
  <2>3. \A p \in picture.ink : Seen(p) = <<picture.h - 1 - p[2], p[1]>>
    BY <1>2 DEF Seen
  <2>4. \A p \in picture.ink : picture.h - 1 - p[2] \in 0 .. picture.h - 1 /\ p[1] \in 0 .. picture.w - 1
    BY DEF IsPicture
  <2>5. Turned.ink \subseteq (0 .. picture.h - 1) \X (0 .. picture.w - 1)
    BY <2>2, <2>4
  <2>6. IsPicture(Turned)
    BY <2>2, <2>5 DEF IsPicture
  <2> QED BY <2>2, <2>3, <2>6
<1> QED BY <1>1, <1>2

-----------------------------------------------------------------------------
(* From the picture to the head *)

\* The page is that of the placed picture; a check line has no bits.
Encoding == phase \in {"encode", "row", "check", "done"}
PlacedInv ==
  Encoding => /\ ~ TooSmall /\ rows = RowsOfPage(Page(fitted))
              /\ \E exact \in BOOLEAN : fitted = Placed(Turned, exact)
ChecksBare == \A i \in 1 .. Len(packets) : IsCheck(i) => packets[i].bits = <<>>

\* A packet behind the others, a run's or a bare check line.
LEMMA BareStep ==
  ASSUME ChecksBare, NEW T, packets \in Seq(T), NEW e \in T, packets' = Append(packets, e),
         e.cmd = "check" => e.bits = <<>>
  PROVE  ChecksBare'
<1>0. PICK L \in Nat : L = Len(packets)
  OBVIOUS
<1>1. /\ Len(packets') = L + 1 /\ \A i \in 1 .. L : packets'[i] = packets[i]
      /\ packets'[L + 1] = e
  BY <1>0, AddEffect
<1>2. ASSUME NEW i \in 1 .. L + 1, IsCheck(i)' PROVE packets'[i].bits = <<>>
  <2>1. CASE i = L + 1
    BY <1>1, <1>2, <2>1 DEF IsCheck
  <2>2. CASE i \in 1 .. L
    BY <1>0, <1>1, <1>2, <2>2 DEF IsCheck, ChecksBare
  <2>3. i = L + 1 \/ i \in 1 .. L
    OBVIOUS
  <2> QED BY <2>1, <2>2, <2>3, Zenon
<1> QED BY <1>1, <1>2 DEF ChecksBare

\* Steps that send nothing.
LEMMA BareFrame ==
  ASSUME ChecksBare, packets' = packets
  PROVE  ChecksBare'
  BY DEF ChecksBare, IsCheck

\* Every step sends a run's packet, a bare check line, or nothing.
LEMMA ChecksBareStep == StaticInv /\ PageInv /\ ChecksBare /\ [Next]_vars => ChecksBare'
<1> SUFFICES ASSUME StaticInv, PageInv, ChecksBare, [Next]_vars PROVE ChecksBare'
  OBVIOUS
<1>1. CASE packets' = packets
  BY <1>1, BareFrame
<1>2. ASSUME packets' # packets PROVE SendRow \/ CheckLine
  BY <1>2 DEF Next, vars, rasterVars, encodeVars, CheckSize, Fails, DecodeImage, DecodeUnknown, DecodeWalk,
              DecodeRaster, Fit, EncodeAndPack, RasterStep, EncodeRow, Encoded, NextRun
<1>3. ASSUME phase \in {"row", "check", "done"} PROVE packets \in Seq(PacketType) /\ PackInv /\ EncodeInv
  BY <1>3 DEF PageInv, PackInv
<1>4. CASE SendRow
  <2>1. packets \in Seq(PacketType) /\ packets' = Append(packets, RowPacket(runs[k]))
    BY <1>3, <1>4 DEF SendRow
  <2>2. RowPacket(runs[k]).cmd # "check"
    BY DEF RowPacket
  <2>3. PICK T : T = PacketType \cup {RowPacket(runs[k])}
    OBVIOUS
  <2>4. packets \in Seq(T) /\ RowPacket(runs[k]) \in T
    BY <2>1, <2>3
  <2> QED BY <2>1, <2>2, <2>4, BareStep
<1>5. CASE CheckLine
  <2>1. packets \in Seq(PacketType) /\ packets' = Append(packets, Check(nextCheck))
    BY <1>3, <1>5 DEF CheckLine
  <2>2. Check(nextCheck).bits = <<>>
    BY DEF Check
  <2>3. PICK T : T = PacketType \cup {Check(nextCheck)}
    OBVIOUS
  <2>4. packets \in Seq(T) /\ Check(nextCheck) \in T
    BY <2>1, <2>3
  <2> QED BY <2>1, <2>2, <2>4, BareStep
<1> QED BY <1>1, <1>2, <1>4, <1>5

\* Fit reads the picture and the label's size.
LEMMA FitReads ==
  ASSUME picture' = picture, size' = size
  PROVE  /\ TooSmall' <=> TooSmall
         /\ (\E exact \in BOOLEAN : fitted = Placed(Turned, exact))' <=>
              \E exact \in BOOLEAN : fitted' = Placed(Turned, exact)
         /\ RowsOfPage(Page(fitted))' = RowsOfPage(Page(fitted'))
<1>1. Cols' = Cols /\ LabelRows' = LabelRows
  BY DEF Cols, LabelRows, Pixels, Smaller
<1>2. (TooSmall' <=> TooSmall) /\ RowWidth' = RowWidth
  BY <1>1 DEF TooSmall, RowWidth
<1>3. Turned' = Turned
  BY <1>1 DEF Turned, rotate90
<1>4. \A exact \in BOOLEAN : Placed(Turned, exact)' = Placed(Turned, exact)
  BY <1>1, <1>3 DEF Placed
<1>5. RowsOfPage(Page(fitted))' = RowsOfPage(Page(fitted'))
  BY <1>1, <1>2 DEF RowsOfPage
<1> QED BY <1>2, <1>4, <1>5

\* What Fit reads and makes is not touched by the steps before and after it.
LEMMA PlacedFrame ==
  ASSUME PlacedInv, Encoding' => Encoding,
         rows' = rows, fitted' = fitted, picture' = picture, size' = size
  PROVE  PlacedInv'
<1>1. Encoding' => /\ ~ TooSmall /\ rows' = RowsOfPage(Page(fitted))
                  /\ \E exact \in BOOLEAN : fitted' = Placed(Turned, exact)
  BY DEF PlacedInv
<1> QED BY <1>1, FitReads DEF PlacedInv

\* Fit places the turned picture; the other steps leave what it made.
LEMMA PlacedStep == StaticInv /\ PlacedInv /\ [Next]_vars => PlacedInv'
<1> SUFFICES ASSUME StaticInv, PlacedInv, [Next]_vars PROVE PlacedInv'
  OBVIOUS
<1>1. CASE phase' \in {"decode", "failed", "fit"}
  BY <1>1 DEF PlacedInv, Encoding
<1>2. CASE Fit /\ ~ Fails
  <2>1. /\ ~ TooSmall /\ rows' = RowsOfPage(Page(fitted')) /\ size' = size /\ picture' = picture
        /\ \E exact \in BOOLEAN : fitted' = Placed(Turned, exact)
    BY <1>2 DEF Fit, RowsOfPage, RowWidth, Pixel, walkVars
  <2> QED BY <2>1, FitReads DEF PlacedInv
<1>3. CASE EncodeAndPack
  <2>1. RasterStep /\ fitted' = fitted /\ picture' = picture /\ size' = size
    BY <1>3 DEF EncodeAndPack, walkVars
  <2>2. Encoding /\ rows' = rows
    BY <2>1 DEF RasterStep, EncodeRow, Encoded, SendRow, CheckLine, NextRun, Encoding
  <2> QED BY <2>1, <2>2, PlacedFrame
<1>4. CASE UNCHANGED vars
  <2>1. rows' = rows /\ fitted' = fitted /\ picture' = picture /\ size' = size /\ phase' = phase
    BY <1>4 DEF vars, walkVars, rasterVars
  <2> QED BY <2>1, PlacedFrame DEF Encoding
<1>5. CASE CheckSize \/ DecodeImage \/ DecodeUnknown \/ DecodeWalk \/ DecodeRaster \/ (Fit /\ Fails)
  <2>1. phase' \in {"decode", "failed", "fit"}
    BY <1>5 DEF CheckSize, Fails, DecodeImage, DecodeUnknown, DecodeWalk, rasterVars, DecodeRaster
  <2> QED BY <1>1, <2>1
<1> QED BY <1>2, <1>3, <1>4, <1>5 DEF Next

\* What Fit placed, and where its pixels are on the label.
LEMMA PlacedFacts ==
  ASSUME StaticInv, PlacedInv, PictureInv, Encoding
  PROVE  /\ Cols \in Nat \ {0} /\ LabelRows \in Nat \ {0} /\ RowWidth \in 1 .. HeadBytes
         /\ Cols <= ByteBits * RowWidth
         /\ IsPicture(picture) /\ fitted.g = Turned /\ IsPicture(Turned) /\ IsScale(fitted)
         /\ fitted.dw = Scaled(Turned.w, fitted)
         /\ fitted.dh = Scaled(Turned.h, fitted)
         /\ fitted.dw \in Nat /\ fitted.dh \in Nat
         /\ fitted.ox \in Nat /\ fitted.ox + fitted.dw <= Cols
         /\ fitted.oy \in Nat /\ fitted.oy + fitted.dh <= LabelRows
<1>1. /\ Cols \in Nat \ {0} /\ LabelRows \in Nat \ {0} /\ RowWidth \in 1 .. HeadBytes
      /\ Cols <= ByteBits * RowWidth
  BY LabelSize DEF StaticInv, PlacedInv
<1>2. PICK exact \in BOOLEAN : fitted = Placed(Turned, exact)
  BY DEF PlacedInv
<1>3. fitted.g = Turned
  BY <1>2 DEF Placed
<1>4. IsPicture(picture)
  <2>1. picture # NoPicture
    BY DEF PictureInv, Encoding
  <2> QED BY <2>1, PictureTaken
<1>5. IsPicture(Turned)
  BY <1>3, <1>4, TurnedDots
<1> HIDE DEF Turned
<1> QED BY <1>1, <1>2, <1>3, <1>4, <1>5, PlacedFits

\* The page lies on the label.
LEMMA PageOnLabel ==
  ASSUME StaticInv, PlacedInv, PictureInv, Encoding, NEW q \in Page(fitted)
  PROVE  /\ q = <<q[1], q[2]>> /\ q[1] \in 0 .. Cols - 1 /\ q[2] \in 0 .. LabelRows - 1
         /\ q[1] - fitted.ox \in 0 .. fitted.dw - 1 /\ q[2] - fitted.oy \in 0 .. fitted.dh - 1
         /\ Dark(fitted, q[1] - fitted.ox, q[2] - fitted.oy)
<1>1. /\ q \in (fitted.ox .. fitted.ox + fitted.dw - 1) \X (fitted.oy .. fitted.oy + fitted.dh - 1)
      /\ Dark(fitted, q[1] - fitted.ox, q[2] - fitted.oy)
  BY Zenon DEF Page
<1>2. PICK ox \in Nat, oy \in Nat, dw \in Nat, dh \in Nat, c \in Nat, r \in Nat :
        /\ ox = fitted.ox /\ oy = fitted.oy /\ dw = fitted.dw /\ dh = fitted.dh /\ c = Cols /\ r = LabelRows
        /\ ox + dw <= c /\ oy + dh <= r
  BY PlacedFacts
<1>3. q \in (ox .. ox + dw - 1) \X (oy .. oy + dh - 1)
  BY <1>1, <1>2
<1>4. /\ q = <<q[1], q[2]>> /\ q[1] \in 0 .. c - 1 /\ q[2] \in 0 .. r - 1
      /\ q[1] - ox \in 0 .. dw - 1 /\ q[2] - oy \in 0 .. dh - 1
  BY <1>2, <1>3
<1> QED BY <1>1, <1>2, <1>4

\* A pixel of a row is a pixel of a byte.
LEMMA ByteOf ==
  ASSUME NEW x \in 0 .. Cols - 1, NEW n \in Nat, Cols \in Nat, Cols <= ByteBits * n
  PROVE  \E b \in 1 .. n : \E p \in Pixel : x = ByteBits * (b - 1) + p
<1>1. PICK d \in Nat \ {0} : d = ByteBits
  BY LabelAssumption
<1>2. x \in Nat /\ x < d * n
  BY <1>1
<1>3. x \div d \in Nat /\ x % d \in 0 .. d - 1 /\ x = d * (x \div d) + (x % d)
  BY <1>1, <1>2
<1>4. PICK e \in Nat, p \in 0 .. d - 1 : x = d * e + p
  BY <1>3
<1>5. e < n
  <2>1. d * e \in Nat /\ d * n \in Nat /\ d * e < d * n
    BY <1>1, <1>2, <1>4
  <2> QED BY <1>1, <2>1
<1>6. PICK b \in 1 .. n : b - 1 = e
  <2>1. e + 1 \in 1 .. n /\ (e + 1) - 1 = e
    BY <1>5
  <2> QED BY <2>1
<1>7. x = ByteBits * (b - 1) + p /\ p \in Pixel
  BY <1>1, <1>4, <1>6 DEF Pixel
<1> QED BY <1>7

\* A row's bits, unless it is blank.
LEMMA RowPixels ==
  ASSUME StaticInv, PlacedInv, PictureInv, Encoding, NEW w \in 0 .. LabelRows - 1
  PROVE  /\ rows[w] \in Row(RowWidth) /\ RowWidth \in 1 .. HeadBytes
         /\ \A b \in 1 .. RowWidth : \A x : x \in rows[w][b] <=> x \in Pixel /\ <<ByteBits * (b - 1) + x, w>> \in Page(fitted)
         /\ \A b \in 1 .. RowWidth : \A x \in rows[w][b] : Bits(rows[w]) = rows[w]
         /\ Bits(rows[w]) = rows[w] \/ Bits(rows[w]) = <<>>
<1>1. RowWidth \in 1 .. HeadBytes /\ HeadBytes \in Nat /\ rows = RowsOfPage(Page(fitted))
  BY PlacedFacts, RasterAssumption DEF PlacedInv
<1>2. rows[w] = [b \in 1 .. RowWidth |-> {x \in Pixel : <<ByteBits * (b - 1) + x, w>> \in Page(fitted)}]
  BY <1>1 DEF RowsOfPage
<1>3. rows[w] \in Row(RowWidth)
  BY <1>2 DEF Row
<1>4. \A b \in 1 .. RowWidth : \A x : x \in rows[w][b] <=> x \in Pixel /\ <<ByteBits * (b - 1) + x, w>> \in Page(fitted)
  BY <1>2
<1>5. Bits(rows[w]) = rows[w] \/ Bits(rows[w]) = <<>>
  BY Zenon DEF Bits
<1>6. ASSUME NEW b \in 1 .. RowWidth, NEW x \in rows[w][b] PROVE Bits(rows[w]) = rows[w]
  <2>1. RowWidth \in Nat
    BY <1>1
  <2>2. Black(rows[w]) # 0
    BY <1>3, <2>1, BlankRow
  <2> QED BY <2>2 DEF Bits
<1> QED BY <1>1, <1>3, <1>4, <1>5, <1>6

\* The packets print the page.
LEMMA PrintedIsPage ==
  ASSUME StaticInv, PageInv, PlacedInv, PictureInv, ChecksBare, phase = "done"
  PROVE  Printed = Page(fitted)
<1>1. Encoding /\ PageType /\ EncodeInv /\ PackInv
  BY DEF Encoding, PageInv
<1>2. LabelRows \in Nat /\ Cols \in Nat /\ Cols <= ByteBits * RowWidth /\ RowWidth \in 1 .. HeadBytes
      /\ Height = LabelRows /\ HeadBytes \in Nat
  <2>1. ~ TooSmall /\ rows = RowsOfPage(Page(fitted)) /\ size \in Int \X Int
    BY <1>1 DEF PlacedInv, StaticInv
  <2>2. Height = LabelRows
    BY <2>1, PageRows DEF Height
  <2> QED BY <1>1, <2>2, PlacedFacts, RasterAssumption
<1>3. PagePrinted
  <2>1. RowPacketsExact
    BY PageInvExact
  <2> QED BY <2>1 DEF RowPacketsExact
<1>4. ASSUME NEW q \in Page(fitted) PROVE q \in Printed
  <2>1. q = <<q[1], q[2]>> /\ q[1] \in 0 .. Cols - 1 /\ q[2] \in 0 .. LabelRows - 1
    BY <1>1, PageOnLabel
  <2>2. PICK b \in 1 .. RowWidth : \E p \in Pixel : q[1] = ByteBits * (b - 1) + p
    <3>1. RowWidth \in Nat
      BY <1>2
    <3> QED BY <1>2, <2>1, <3>1, ByteOf
  <2>3. PICK p \in Pixel : q[1] = ByteBits * (b - 1) + p
    BY <2>2
  <2>4. p \in rows[q[2]][b] /\ Bits(rows[q[2]]) = rows[q[2]] /\ rows[q[2]] \in Row(RowWidth)
    <3>1. <<ByteBits * (b - 1) + p, q[2]>> \in Page(fitted)
      BY <2>1, <2>3
    <3> QED BY <1>1, <2>1, <3>1, RowPixels
  <2>5. PICK i \in (1 .. Len(packets)) \ Checks : q[2] \in RowsOf(i) /\ packets[i].bits = Bits(rows[q[2]])
    BY <1>2, <1>3, <2>1 DEF PagePrinted
  <2>6. b \in (1 .. HeadBytes) \cap DOMAIN packets[i].bits /\ p \in packets[i].bits[b]
    BY <1>2, <2>4, <2>5 DEF Row
  <2>7. q = <<ByteBits * (b - 1) + p, q[2]>>
    BY <2>1, <2>3
  <2> QED BY <2>5, <2>6, <2>7 DEF Printed
<1>5. ASSUME NEW q \in Printed PROVE q \in Page(fitted)
  <2>1. PICK i \in 1 .. Len(packets) :
          \E b \in (1 .. HeadBytes) \cap DOMAIN packets[i].bits : \E w \in RowsOf(i) :
            \E p \in packets[i].bits[b] : q = <<ByteBits * (b - 1) + p, w>>
    BY DEF Printed
  <2>2. PICK b \in (1 .. HeadBytes) \cap DOMAIN packets[i].bits : \E w \in RowsOf(i) :
          \E p \in packets[i].bits[b] : q = <<ByteBits * (b - 1) + p, w>>
    BY <2>1
  <2>3. PICK w \in RowsOf(i) : \E p \in packets[i].bits[b] : q = <<ByteBits * (b - 1) + p, w>>
    BY <2>2
  <2>4. PICK p \in packets[i].bits[b] : q = <<ByteBits * (b - 1) + p, w>>
    BY <2>3
  <2>5. ~ IsCheck(i)
    <3>1. packets[i].bits # <<>>
      BY <2>3
    <3> QED BY <3>1 DEF ChecksBare
  <2>6. PICK m \in 1 .. Len(runs) : Carries(packets[i], runs[m])
    <3>1. Sent \in 1 .. Len(runs) /\ RowsSent
      BY <1>1 DEF PackInv, Sent
    <3>2. PICK m \in 1 .. Sent : Carries(packets[i], runs[m])
      BY <2>5, <3>1 DEF RowsSent
    <3>3. m \in 1 .. Len(runs)
      BY <3>1
    <3> QED BY <3>2, <3>3
  <2>7. w \in RowsIn(runs[m]) /\ packets[i].bits = runs[m].bits
    BY <2>3, <2>6 DEF Carries, RowsOf, RowsIn, LastRow
  <2>8. w \in 0 .. LabelRows - 1 /\ runs[m].bits = Bits(rows[w])
    BY <1>1, <1>2, <2>7 DEF EncodeInv, RunsExact, PackInv
  <2>9. Bits(rows[w]) = rows[w] /\ rows[w] \in Row(RowWidth)
    <3>1. rows[w] \in Row(RowWidth) /\ (Bits(rows[w]) = rows[w] \/ Bits(rows[w]) = <<>>)
      BY <1>1, <2>8, RowPixels
    <3>2. Bits(rows[w]) # <<>>
      BY <2>3, <2>7, <2>8
    <3> QED BY <3>1, <3>2
  <2>10. b \in 1 .. RowWidth /\ p \in rows[w][b]
    BY <1>2, <2>3, <2>7, <2>8, <2>9 DEF Row
  <2>11. <<ByteBits * (b - 1) + p, w>> \in Page(fitted)
    BY <1>1, <2>8, <2>10, RowPixels
  <2> QED BY <2>4, <2>11
<1> QED BY <1>4, <1>5

\* What is printed shows ink, and ink that has a pixel to itself is printed.
LEMMA InkShown ==
  ASSUME StaticInv, PageInv, PlacedInv, PictureInv, ChecksBare
  PROVE  InkPrinted
<1> SUFFICES ASSUME phase = "done" PROVE InkPrinted
  BY DEF InkPrinted
<1>1. Encoding /\ Printed = Page(fitted)
  BY PrintedIsPage DEF Encoding
<1>2. /\ IsPicture(picture) /\ fitted.g = Turned /\ IsPicture(Turned) /\ IsScale(fitted)
      /\ fitted.dw = Scaled(Turned.w, fitted)
      /\ fitted.dh = Scaled(Turned.h, fitted)
      /\ fitted.dw \in Nat /\ fitted.dh \in Nat /\ fitted.ox \in Nat /\ fitted.oy \in Nat
  BY <1>1, PlacedFacts
<1>3. PICK w \in Nat \ {0}, h \in Nat \ {0} : w = Turned.w /\ h = Turned.h /\ Turned.ink \subseteq (0 .. w - 1) \X (0 .. h - 1)
  BY <1>2 DEF IsPicture
<1>4. /\ \A p \in picture.ink : Seen(p) \in Turned.ink
      /\ \A s \in Turned.ink : \E p \in picture.ink : Seen(p) = s
  BY <1>2, TurnedDots
<1>5. ASSUME NEW q \in Printed PROVE \E p \in picture.ink : Shows(q, p)
  <2>1. /\ q[1] - fitted.ox \in 0 .. fitted.dw - 1 /\ q[2] - fitted.oy \in 0 .. fitted.dh - 1
        /\ Dark(fitted, q[1] - fitted.ox, q[2] - fitted.oy)
    BY <1>1, PageOnLabel
  <2>2. PICK x \in Nat, u \in Nat : x = q[1] - fitted.ox /\ u = q[2] - fitted.oy
    BY <2>1
  <2> DEFINE box == Span(fitted, x, fitted.g.w) \X Span(fitted, u, fitted.g.h)
  <2>3. IsFiniteSet(box)
    <3>1. IsFiniteSet(Span(fitted, x, w)) /\ IsFiniteSet(Span(fitted, u, h))
      BY <1>2, SpanFinite
    <3> QED BY <1>2, <1>3, <3>1, FS_Product
  <2>4. PICK s \in box : s \in fitted.g.ink
    BY <2>1, <2>2, <2>3, DarkIs
  <2>5. PICK p \in picture.ink : Seen(p) = s
    BY <1>2, <1>4, <2>4
  <2>6. s[1] \in Span(fitted, x, fitted.g.w) /\ s[2] \in Span(fitted, u, fitted.g.h)
    BY <2>4
  <2> QED BY <2>1, <2>2, <2>5, <2>6 DEF Shows
<1>6. ASSUME fitted.num >= fitted.den, NEW p \in picture.ink, Seen(p)[1] # w - 1, Seen(p)[2] # h - 1
      PROVE  \E q \in Printed : Shows(q, p)
  <2>1. PICK a \in 0 .. w - 2, c \in 0 .. h - 2 : Seen(p) = <<a, c>> /\ <<a, c>> \in fitted.g.ink
    <3>1. PICK s \in Turned.ink : s = Seen(p)
      BY <1>4
    <3>2. s \in (0 .. w - 1) \X (0 .. h - 1) /\ s[1] # w - 1 /\ s[2] # h - 1
      BY <1>3, <1>6, <3>1
    <3>3. s = <<s[1], s[2]>> /\ s[1] \in 0 .. w - 2 /\ s[2] \in 0 .. h - 2
      BY <3>2
    <3>4. <<s[1], s[2]>> \in fitted.g.ink
      BY <1>2, <3>1, <3>3
    <3> QED BY <3>1, <3>3, <3>4, Zenon
  <2>2. fitted.den <= fitted.num
    BY <1>2, <1>6 DEF IsScale
  <2>0. ASSUME NEW len \in Nat \ {0}, NEW i \in 0 .. len - 2
        PROVE  \E n \in 0 .. Scaled(len, fitted) - 1 : Span(fitted, n, len) = {i}
    BY <1>2, <2>2, PixelShown, Zenon
  <2>3. PICK x \in 0 .. fitted.dw - 1 : Span(fitted, x, w) = {a}
    <3>1. \E n \in 0 .. Scaled(w, fitted) - 1 : Span(fitted, n, w) = {a}
      BY <2>0, Zenon
    <3>2. fitted.dw = Scaled(w, fitted)
      BY <1>2, <1>3, Zenon
    <3> QED BY <3>1, <3>2, Zenon
  <2>4. PICK u \in 0 .. fitted.dh - 1 : Span(fitted, u, h) = {c}
    <3>1. \E n \in 0 .. Scaled(h, fitted) - 1 : Span(fitted, n, h) = {c}
      BY <2>0, Zenon
    <3>2. fitted.dh = Scaled(h, fitted)
      BY <1>2, <1>3, Zenon
    <3> QED BY <3>1, <3>2, Zenon
  <2>5. Span(fitted, x, fitted.g.w) \X Span(fitted, u, fitted.g.h) = {<<a, c>>}
    BY <1>2, <1>3, <2>3, <2>4
  <2>6. Dark(fitted, x, u)
    BY <2>1, <2>5, DarkIs
  <2>7. PICK q : q = <<fitted.ox + x, fitted.oy + u>>
    OBVIOUS
  <2>8. q[1] - fitted.ox = x /\ q[2] - fitted.oy = u
    BY <1>2, <2>3, <2>4, <2>7
  <2>9. q \in Page(fitted)
    <3>1. fitted.ox + x \in fitted.ox .. fitted.ox + fitted.dw - 1
          /\ fitted.oy + u \in fitted.oy .. fitted.oy + fitted.dh - 1
      BY <1>2
    <3> QED BY <2>6, <2>7, <2>8, <3>1 DEF Page
  <2>10. Shows(q, p)
    BY <1>2, <1>3, <2>1, <2>3, <2>4, <2>8 DEF Shows
  <2> QED BY <1>1, <2>9, <2>10
<1>7. w = fitted.g.w /\ h = fitted.g.h
  BY <1>2, <1>3
<1> QED BY <1>5, <1>6, <1>7 DEF InkPrinted

\* For any picture, label size, resolution and head: every pixel the packets print shows
\* ink of the picture, at any scale; and every dot of a picture that is not made smaller
\* is printed, but for those of its last line and column, which the copy's rounding may
\* cut.  Of a picture that is made smaller nothing is said about which dots are printed.
THEOREM InkReachesHead == Spec => []InkPrinted
<1>1. Init => StaticInv /\ PageInv /\ PictureInv /\ PlacedInv /\ ChecksBare
  <2> SUFFICES ASSUME Init PROVE StaticInv /\ PageInv /\ PictureInv /\ PlacedInv /\ ChecksBare
    OBVIOUS
  <2>1. packets = <<>> /\ phase = "print"
    BY DEF Init, RasterInit
  <2>2. PlacedInv /\ ChecksBare
    BY <2>1 DEF PlacedInv, Encoding, ChecksBare
  <2> QED BY <2>2, StartsEmpty, StartsBlank
<1>2. StaticInv /\ PageInv /\ PictureInv /\ PlacedInv /\ ChecksBare /\ [Next]_vars =>
        StaticInv' /\ PageInv' /\ PictureInv' /\ PlacedInv' /\ ChecksBare'
  BY StaticStep, PageStep, PictureStep, PlacedStep, ChecksBareStep
<1> QED BY <1>1, <1>2, InkShown, PTL DEF Spec
-----------------------------------------------------------------------------
(* Concatenation *)

\* A set of numbers with 0 that is closed under successor holds every number.
LEMMA SetInduction ==
  ASSUME NEW S, 0 \in S, \A n \in Nat : n \in S => n + 1 \in S
  PROVE  \A n \in Nat : n \in S
<1> DEFINE T == {n \in Nat : n \notin S}
           R == OpToRel(<, Nat)
<1> SUFFICES ASSUME T # {} PROVE FALSE
  OBVIOUS
<1>1. PICK x \in T : \A w \in T : <<w, x>> \notin R
  <2> HIDE DEF R
  <2> QED BY NatLessThanWellFounded, WFMin DEF R
<1>2. x \in Nat /\ x # 0 /\ x - 1 \in Nat /\ x - 1 < x
  OBVIOUS
<1>3. <<x - 1, x>> \in R
  BY <1>2 DEF OpToRel
<1>4. x - 1 \in S
  BY <1>1, <1>2, <1>3
<1> QED BY <1>2, <1>4

\* The first i sequences of s, one behind the other, if h has them up to i - 1.
Joined(h, s, i) == IF i = 1 THEN s[i] ELSE h[i - 1] \o s[i]

Flats(T, s, n) == {h \in [1 .. n -> Seq(T)] : \A i \in 1 .. n : h[i] = Joined(h, s, i)}

\* Sequences can be concatenated.
LEMMA FlatsExist ==
  ASSUME NEW T, NEW n \in Nat, NEW s \in [1 .. n -> Seq(T)]
  PROVE  Flats(T, s, n) # {}
<1> DEFINE S == {m \in Nat : m <= n => Flats(T, s, m) # {}}
<1>1. 0 \in S
  <2>1. <<>> \in [1 .. 0 -> Seq(T)] /\ \A i \in 1 .. 0 : FALSE
    OBVIOUS
  <2>2. <<>> \in Flats(T, s, 0)
    BY <2>1 DEF Flats
  <2> QED BY <2>2
<1>2. ASSUME NEW m \in Nat, m \in S PROVE m + 1 \in S
  <2> SUFFICES ASSUME m + 1 <= n PROVE Flats(T, s, m + 1) # {}
    OBVIOUS
  <2>1. PICK h \in [1 .. m -> Seq(T)] : \A i \in 1 .. m : h[i] = Joined(h, s, i)
    BY <1>2 DEF Flats
  <2> DEFINE last == Joined(h, s, m + 1)
             g == [i \in 1 .. m + 1 |-> IF i = m + 1 THEN last ELSE h[i]]
  <2>3. last \in Seq(T)
    <3>1. CASE m = 0
      BY <3>1 DEF Joined
    <3>2. CASE m # 0
      <4>1. h[m] \in Seq(T) /\ s[m + 1] \in Seq(T)
        BY <3>2
      <4> QED BY <3>2, <4>1 DEF Joined
    <3> QED BY <3>1, <3>2
  <2>8. last = Joined(h, s, m + 1)
    OBVIOUS
  <2> HIDE DEF last
  <2>2. g[m + 1] = last /\ \A i \in 1 .. m : g[i] = h[i]
    OBVIOUS
  <2>4. g = [i \in 1 .. m + 1 |-> g[i]]
    OBVIOUS
  <2> HIDE DEF g
  <2>5. ASSUME NEW i \in 1 .. m + 1 PROVE g[i] \in Seq(T)
    <3>1. i = m + 1 \/ i \in 1 .. m
      OBVIOUS
    <3> QED BY <2>2, <2>3, <3>1
  <2>6. g \in [1 .. m + 1 -> Seq(T)]
    BY <2>4, <2>5
  <2>7. ASSUME NEW i \in 1 .. m + 1 PROVE g[i] = Joined(g, s, i)
    <3>1. CASE i = m + 1
      <4>1. m # 0 => g[m] = h[m]
        BY <2>2
      <4> QED BY <2>2, <2>8, <3>1, <4>1 DEF Joined
    <3>2. CASE i # m + 1
      <4>1. i \in 1 .. m /\ (i # 1 => i - 1 \in 1 .. m)
        BY <3>2
      <4> QED BY <2>1, <2>2, <4>1 DEF Joined
    <3> QED BY <3>1, <3>2
  <2> QED BY <2>6, <2>7 DEF Flats
<1> HIDE DEF S
<1>3. \A m \in Nat : m \in S
  BY <1>1, <1>2, SetInduction
<1> QED BY <1>3 DEF S

\* FlattenSeq concatenates.
LEMMA FlattenIs ==
  ASSUME NEW T, NEW n \in Nat \ {0}, NEW s \in [1 .. n -> Seq(T)]
  PROVE  \E h \in Flats(T, s, n) : FlattenSeq(s) = h[n]
<1>1. Len(s) = n
  OBVIOUS
<1>2. PICK h \in Flats(T, s, n) : TRUE
  BY FlatsExist
<1>3. h \in [1 .. n -> Seq(T)] /\ \A i \in 1 .. n : h[i] = Joined(h, s, i)
  BY <1>2 DEF Flats
<1>4. h = [i \in 1 .. n |-> Joined(h, s, i)]
  BY <1>3
<1> DEFINE f == CHOOSE f : f = [i \in 1 .. Len(s) |-> Joined(f, s, i)]
<1>5. FlattenSeq(s) = f[Len(s)]
  BY <1>1 DEF FlattenSeq, Joined
<1>6. f = [i \in 1 .. Len(s) |-> Joined(f, s, i)]
  BY <1>1, <1>4
<1> HIDE DEF f
<1>7. \A i \in 1 .. n : f[i] = Joined(f, s, i)
  BY <1>1, <1>6
<1> DEFINE S == {i \in Nat : i < n => f[i + 1] = h[i + 1]}
<1>8. 0 \in S
  BY <1>3, <1>7 DEF Joined
<1>9. ASSUME NEW i \in Nat, i \in S PROVE i + 1 \in S
  <2> SUFFICES ASSUME i + 1 < n PROVE f[(i + 1) + 1] = h[(i + 1) + 1]
    OBVIOUS
  <2>1. f[i + 1] = h[i + 1]
    BY <1>9
  <2>2. (i + 1) + 1 \in 1 .. n /\ (i + 1) + 1 # 1 /\ ((i + 1) + 1) - 1 = i + 1
    OBVIOUS
  <2>3. Joined(f, s, (i + 1) + 1) = Joined(h, s, (i + 1) + 1)
    BY <2>1, <2>2 DEF Joined
  <2> QED BY <1>3, <1>7, <2>2, <2>3
<1> HIDE DEF S
<1>10. \A i \in Nat : i \in S
  BY <1>8, <1>9, SetInduction
<1>11. n - 1 \in S /\ n - 1 < n /\ (n - 1) + 1 = n
  BY <1>10
<1>12. f[n] = h[n]
  BY <1>11 DEF S
<1> QED BY <1>1, <1>2, <1>5, <1>12

\* One more sequence goes behind the others.
LEMMA FlattenOneMore ==
  ASSUME NEW T, NEW n \in Nat, NEW s \in [1 .. n + 1 -> Seq(T)], NEW r \in [1 .. n -> Seq(T)],
         \A i \in 1 .. n : r[i] = s[i]
  PROVE  FlattenSeq(r) \in Seq(T) /\ FlattenSeq(s) = FlattenSeq(r) \o s[n + 1]
<1>0. n + 1 \in Nat \ {0}
  OBVIOUS
<1>1. PICK h \in Flats(T, s, n + 1) : FlattenSeq(s) = h[n + 1]
  BY <1>0, FlattenIs
<1>2. /\ h \in [1 .. n + 1 -> Seq(T)]
      /\ \A i \in 1 .. n + 1 : h[i] = Joined(h, s, i)
  BY <1>1 DEF Flats
<1>3. CASE n = 0
  <2>1. r = <<>> /\ Len(r) = 0
    BY <1>3
  <2>2. FlattenSeq(r) = <<>>
    BY <2>1 DEF FlattenSeq
  <2>3. s[1] \in Seq(T) /\ h[1] = s[1] /\ <<>> \o s[1] = s[1]
    BY <1>2, <1>3 DEF Joined
  <2> QED BY <1>1, <1>3, <2>2, <2>3
<1>4. CASE n # 0
  <2>1. PICK g \in Flats(T, r, n) : FlattenSeq(r) = g[n]
    BY <1>4, FlattenIs
  <2>2. /\ g \in [1 .. n -> Seq(T)]
        /\ \A i \in 1 .. n : g[i] = Joined(g, r, i)
    BY <2>1 DEF Flats
  <2> DEFINE S == {i \in Nat : i < n => g[i + 1] = h[i + 1]}
  <2>3. 0 \in S
    BY <1>2, <2>2 DEF Joined
  <2>4. ASSUME NEW i \in Nat, i \in S PROVE i + 1 \in S
    <3> SUFFICES ASSUME i + 1 < n PROVE g[(i + 1) + 1] = h[(i + 1) + 1]
      OBVIOUS
    <3>1. g[i + 1] = h[i + 1]
      BY <2>4
    <3>2. (i + 1) + 1 \in 1 .. n /\ (i + 1) + 1 # 1 /\ ((i + 1) + 1) - 1 = i + 1
      OBVIOUS
    <3>3. r[(i + 1) + 1] = s[(i + 1) + 1]
      BY <3>2
    <3>4. Joined(g, r, (i + 1) + 1) = Joined(h, s, (i + 1) + 1)
      BY <3>1, <3>2, <3>3 DEF Joined
    <3> QED BY <1>2, <2>2, <3>2, <3>4
  <2> HIDE DEF S
  <2>5. \A i \in Nat : i \in S
    BY <2>3, <2>4, SetInduction
  <2>6. n - 1 \in S /\ n - 1 < n /\ (n - 1) + 1 = n
    BY <1>4, <2>5
  <2>7. g[n] = h[n]
    BY <2>6 DEF S
  <2>8. h[n + 1] = h[n] \o s[n + 1]
    <3>1. n + 1 \in 1 .. n + 1 /\ n + 1 # 1 /\ (n + 1) - 1 = n
      BY <1>4
    <3> QED BY <1>2, <3>1 DEF Joined
  <2> QED BY <1>1, <1>4, <2>1, <2>2, <2>7, <2>8
<1> QED BY <1>3, <1>4
-----------------------------------------------------------------------------
(* PackBits *)

Octet == 0 .. 255

\* What the bytes of src from i on expand to, if f has what those from later ones do.
Expanded(f, src, i) ==
  IF i > Len(src) THEN <<>>
  ELSE CASE src[i] < 128 -> SubSeq(src, i + 1, Smaller(Len(src), i + 1 + src[i])) \o f[i + 2 + src[i]]
         [] src[i] > 128 -> IF i = Len(src) THEN <<>>
                            ELSE [t \in 1 .. 257 - src[i] |-> src[i + 1]] \o f[i + 2]
         [] OTHER        -> f[i + 1]

\* The expansion only depends on what lies behind.
LEMMA ExpandsBehind ==
  ASSUME NEW src \in Seq(Octet), NEW i \in 1 .. Len(src) + 130, NEW f, NEW g,
         \A j \in 1 .. Len(src) + 130 : j > i => f[j] = g[j]
  PROVE  Expanded(f, src, i) = Expanded(g, src, i)
<1>1. CASE i > Len(src)
  BY <1>1 DEF Expanded
<1>0. PICK L \in Nat : L = Len(src)
  OBVIOUS
<1>2. CASE i <= Len(src)
  <2>0. i \in 1 .. L
    BY <1>0, <1>2
  <2>1. src[i] \in Octet
    BY <1>0, <2>0, ElementOfSeq
  <2>2. PICK v \in Octet : v = src[i]
    BY <2>1
  <2>3. v < 128 => i + 2 + v \in 1 .. L + 130 /\ i + 2 + v > i
    BY <2>0 DEF Octet
  <2>4. i + 2 \in 1 .. L + 130 /\ i + 1 \in 1 .. L + 130 /\ i + 2 > i /\ i + 1 > i
    BY <2>0
  <2>5. (v < 128 => f[i + 2 + v] = g[i + 2 + v]) /\ f[i + 2] = g[i + 2] /\ f[i + 1] = g[i + 1]
    BY <1>0, <2>3, <2>4
  <2>6. CASE v < 128
    BY <1>2, <2>2, <2>5, <2>6 DEF Expanded, Octet
  <2>7. CASE v > 128
    BY <1>2, <2>2, <2>5, <2>7 DEF Expanded, Octet
  <2>8. CASE v = 128
    BY <1>2, <2>2, <2>5, <2>8 DEF Expanded, Octet
  <2> QED BY <2>6, <2>7, <2>8 DEF Octet
<1> QED BY <1>1, <1>2

\* packbitsDecode is defined for all bytes: it begins with what those from 1 on expand to.
LEMMA DecodeIs ==
  ASSUME NEW src \in Seq(Octet)
  PROVE  \E f : /\ packbitsDecode(src) = f[1]
                /\ \A i \in 1 .. Len(src) + 130 : f[i] = Expanded(f, src, i)
<1>1. PICK n \in Nat : n = Len(src) + 130
  OBVIOUS
<1> DEFINE Good(f, m) == f = [i \in 1 .. n |-> f[i]] /\ \A i \in 1 .. n : i > n - m => f[i] = Expanded(f, src, i)
           S == {m \in Nat : \E f : Good(f, m)}
<1>2. 0 \in S
  <2> DEFINE f0 == [i \in 1 .. n |-> 0]
  <2>1. f0 = [i \in 1 .. n |-> f0[i]]
    OBVIOUS
  <2> HIDE DEF f0
  <2>2. Good(f0, 0)
    BY <2>1
  <2> QED BY <2>2
<1>3. ASSUME NEW m \in Nat, m \in S PROVE m + 1 \in S
  <2>1. PICK f : Good(f, m)
    BY <1>3
  <2> DEFINE e == Expanded(f, src, n - m)
             g == [i \in 1 .. n |-> IF i = n - m THEN e ELSE f[i]]
  <2>2. \A i \in 1 .. n : g[i] = IF i = n - m THEN e ELSE f[i]
    OBVIOUS
  <2>3. g = [i \in 1 .. n |-> g[i]]
    OBVIOUS
  <2> HIDE DEF g
  <2>4. ASSUME NEW i \in 1 .. n, i > n - (m + 1) PROVE g[i] = Expanded(g, src, i)
    <3>1. \A j \in 1 .. Len(src) + 130 : j > i => f[j] = g[j]
      BY <1>1, <2>2, <2>4
    <3>2. i \in 1 .. Len(src) + 130
      BY <1>1
    <3>3. Expanded(f, src, i) = Expanded(g, src, i)
      BY <3>1, <3>2, ExpandsBehind
    <3>4. CASE i = n - m
      BY <2>2, <3>3, <3>4
    <3>5. CASE i # n - m
      <4>1. i > n - m
        BY <2>4, <3>5
      <4>2. f[i] = Expanded(f, src, i)
        BY <2>1, <4>1
      <4> QED BY <2>2, <3>3, <3>5, <4>2
    <3> QED BY <3>4, <3>5
  <2>5. Good(g, m + 1)
    BY <2>3, <2>4
  <2> QED BY <2>5
<1> HIDE DEF S
<1>4. n \in S
  BY <1>2, <1>3, SetInduction
<1>5. PICK f : Good(f, n)
  BY <1>4 DEF S
<1>6. f = [i \in 1 .. Len(src) + 130 |-> Expanded(f, src, i)]
  BY <1>1, <1>5
<1> DEFINE from == CHOOSE h : h = [i \in 1 .. Len(src) + 130 |-> Expanded(h, src, i)]
<1>7. packbitsDecode(src) = from[1]
  BY DEF packbitsDecode, Expanded
<1>8. from = [i \in 1 .. Len(src) + 130 |-> Expanded(from, src, i)]
  BY <1>6
<1> HIDE DEF from
<1>9. \A i \in 1 .. Len(src) + 130 : from[i] = Expanded(from, src, i)
  BY <1>8
<1> QED BY <1>7, <1>9

\* One byte in front.
LEMMA OneFirst ==
  ASSUME NEW T, NEW s \in Seq(T), NEW a \in T
  PROVE  /\ <<a>> \o s \in Seq(T) /\ Len(<<a>> \o s) = Len(s) + 1
         /\ (<<a>> \o s)[1] = a /\ \A t \in 1 .. Len(s) : (<<a>> \o s)[t + 1] = s[t]
<1>1. <<a>> \in Seq(T) /\ Len(<<a>>) = 1 /\ <<a>>[1] = a
  OBVIOUS
<1> QED BY <1>1, ConcatProperties

\* Two bytes behind.
LEMMA TwoLast ==
  ASSUME NEW T, NEW s \in Seq(T), NEW a \in T, NEW b \in T, NEW n \in Nat, Len(s) = n
  PROVE  /\ s \o <<a, b>> \in Seq(T) /\ Len(s \o <<a, b>>) = n + 2
         /\ (s \o <<a, b>>)[n + 1] = a /\ (s \o <<a, b>>)[n + 2] = b
         /\ \A t \in 1 .. n : (s \o <<a, b>>)[t] = s[t]
<1>1. <<a, b>> \in Seq(T) /\ Len(<<a, b>>) = 2 /\ <<a, b>>[1] = a /\ <<a, b>>[2] = b
  OBVIOUS
<1> QED BY <1>1, ConcatProperties

\* Two bytes in front.
LEMMA Prefixed ==
  ASSUME NEW T, NEW s \in Seq(T), NEW a \in T, NEW b \in T
  PROVE  /\ <<a, b>> \o s \in Seq(T) /\ Len(<<a, b>> \o s) = Len(s) + 2
         /\ (<<a, b>> \o s)[1] = a /\ (<<a, b>> \o s)[2] = b
         /\ \A t \in 1 .. Len(s) : (<<a, b>> \o s)[t + 2] = s[t]
<1>1. <<a, b>> \in Seq(T) /\ Len(<<a, b>>) = 2 /\ <<a, b>>[1] = a /\ <<a, b>>[2] = b
  OBVIOUS
<1> QED BY <1>1, ConcatProperties

\* A line that has been packed is unpacked to the same bytes, wherever the runs part.
LEMMA PackedUnpacks ==
  ASSUME NEW d \in Seq(Octet), Len(d) \in 1 .. 128, NEW n \in SplitsOf(d)
  PROVE  /\ Packed(d, n) \in Seq(Octet) /\ Len(Packed(d, n)) <= 130
         /\ packbitsDecode(Packed(d, n)) = d
<1>1. PICK L \in 1 .. 128 : L = Len(d)
  OBVIOUS
<1>2. n \in 0 .. L /\ n # L - 1 /\ \A t \in n + 1 .. L : d[t] = d[L]
  BY <1>1 DEF SplitsOf
<1>3. CASE n = L
  <2> DEFINE src == <<128, L - 1>> \o d
  <2>1. /\ src \in Seq(Octet) /\ Len(src) = L + 2 /\ src[1] = 128 /\ src[2] = L - 1
        /\ \A t \in 1 .. L : src[t + 2] = d[t]
    <3>1. 128 \in Octet /\ L - 1 \in Octet
      BY DEF Octet
    <3> QED BY <1>1, <3>1, Prefixed
  <2>2. Packed(d, n) = src
    BY <1>1, <1>3 DEF Packed
  <2> HIDE DEF src
  <2>3. PICK f : packbitsDecode(src) = f[1] /\ \A i \in 1 .. Len(src) + 130 : f[i] = Expanded(f, src, i)
    BY <2>1, DecodeIs
  <2>13. Len(src) \in Nat /\ 1 \in 1 .. Len(src) + 130 /\ 2 \in 1 .. Len(src) + 130 /\ L + 3 \in 1 .. Len(src) + 130
    BY <2>1
  <2>4. f[1] = f[1 + 1]
    <3>2. ~ 1 > Len(src)
      BY <2>1
    <3>3. ~ 128 > 128 /\ ~ 128 < 128
      OBVIOUS
    <3>1. Expanded(f, src, 1) = f[1 + 1]
      BY <2>1, <3>2, <3>3, Zenon DEF Expanded
    <3> QED BY <2>3, <2>13, <3>1, Zenon
  <2>5. f[2] = SubSeq(src, 2 + 1, Smaller(L + 2, 2 + 1 + (L - 1))) \o f[2 + 2 + (L - 1)]
    <3>1. Expanded(f, src, 2) = SubSeq(src, 2 + 1, Smaller(Len(src), 2 + 1 + src[2])) \o f[2 + 2 + src[2]]
      <4>1. ~ 2 > Len(src) /\ src[2] < 128 /\ ~ src[2] > 128
        BY <2>1
      <4> QED BY <4>1, Zenon DEF Expanded
    <3>2. f[2] = Expanded(f, src, 2)
      BY <2>3, <2>13, Zenon
    <3> QED BY <2>1, <3>1, <3>2, Zenon
  <2>8. 1 + 1 = 2 /\ 2 + 1 = 3 /\ Smaller(L + 2, 2 + 1 + (L - 1)) = L + 2 /\ 2 + 2 + (L - 1) = L + 3
    BY DEF Smaller
  <2>6. f[L + 3] = <<>>
    <3>1. L + 3 > Len(src)
      BY <2>1
    <3> QED BY <2>3, <2>13, <3>1, Zenon DEF Expanded
  <2>7. SubSeq(src, 3, L + 2) = d
    BY <1>1, <2>1
  <2>9. f[1] = d \o <<>>
    BY <2>4, <2>5, <2>6, <2>7, <2>8, Zenon
  <2>10. d \o <<>> = d
    OBVIOUS
  <2>11. packbitsDecode(src) = d
    BY <2>3, <2>9, <2>10
  <2>12. Len(src) <= 130
    BY <2>1
  <2> QED BY <2>1, <2>2, <2>11, <2>12
<1>4. CASE n # L
  <2>1. PICK m \in 2 .. 128 : m = L - n
    BY <1>2, <1>4
  <2> DEFINE rest == [t \in 1 .. m |-> d[n + 1]]
  <2>2. rest \in Seq(Octet) /\ Len(rest) = m /\ \A t \in 1 .. m : rest[t] = d[n + t]
    <3>1. \A t \in 1 .. m : n + t \in n + 1 .. L /\ n + t \in 1 .. L
      BY <1>2, <2>1
    <3>2. n + 1 \in n + 1 .. L /\ n + 1 \in 1 .. L
      BY <1>2, <2>1
    <3>3. d[n + 1] = d[L] /\ \A t \in 1 .. m : d[n + t] = d[L]
      BY <1>2, <3>1, <3>2
    <3>4. d[n + 1] \in Octet
      BY <1>1, <3>2, ElementOfSeq
    <3> QED BY <3>3, <3>4
  <2>3. CASE n = 0
    <3> DEFINE src == <<257 - m, d[1]>>
    <3>1. d[1] \in Octet
      BY <1>1, ElementOfSeq
    <3>2. src \in Seq(Octet) /\ Len(src) = 2 /\ src[1] = 257 - m /\ src[2] = d[1]
      <4>1. 257 - m \in Octet
        BY DEF Octet
      <4> QED BY <3>1, <4>1
    <3>3. Packed(d, n) = src
      <4>1. n # Len(d) /\ Len(d) - n = m /\ n + 1 = 1
        BY <1>1, <2>1, <2>3
      <4>2. Packed(d, n) = <<>> \o <<257 - m, d[1]>>
        BY <2>3, <4>1, Zenon DEF Packed
      <4>3. <<>> \o <<257 - m, d[1]>> = <<257 - m, d[1]>>
        BY <3>2, ConcatEmptySeq
      <4> QED BY <4>2, <4>3
    <3> HIDE DEF src
    <3>4. PICK f : packbitsDecode(src) = f[1] /\ \A i \in 1 .. Len(src) + 130 : f[i] = Expanded(f, src, i)
      BY <3>2, DecodeIs
    <3>5. f[1] = [t \in 1 .. 257 - src[1] |-> src[1 + 1]] \o f[1 + 2]
      <4>1. ~ 1 > Len(src) /\ src[1] > 128 /\ ~ src[1] < 128 /\ 1 # Len(src) /\ 1 \in 1 .. Len(src) + 130
        BY <3>2
      <4>2. Expanded(f, src, 1) = [t \in 1 .. 257 - src[1] |-> src[1 + 1]] \o f[1 + 2]
        BY <4>1, Zenon DEF Expanded
      <4> QED BY <3>4, <4>1, <4>2, Zenon
    <3>6. f[3] = <<>>
      BY <3>2, <3>4 DEF Expanded
    <3>7. 257 - src[1] = m /\ src[1 + 1] = d[n + 1] /\ 1 + 2 = 3
      BY <2>3, <3>2
    <3>8. f[1] = rest \o <<>>
      BY <3>5, <3>6, <3>7, Zenon
    <3> HIDE DEF rest
    <3>9. rest = d
      BY <1>1, <2>1, <2>2, <2>3
    <3>10. rest \o <<>> = rest
      BY <2>2
    <3>11. packbitsDecode(src) = d
      BY <3>4, <3>8, <3>9, <3>10
    <3>12. Len(src) <= 130
      BY <3>2
    <3> QED BY <3>2, <3>3, <3>11, <3>12, Zenon
  <2>4. CASE n # 0
    <3>0. n \in 1 .. 126
      BY <1>2, <2>1, <2>4
    <3> DEFINE first == SubSeq(d, 1, n)
               src == <<n - 1>> \o first \o <<257 - m, d[n + 1]>>
    <3>13. n + 1 \in 1 .. L /\ n <= L
      BY <1>2, <2>1
    <3>14. d[n + 1] \in Octet
      BY <1>1, <3>13, ElementOfSeq
    <3>1. d[n + 1] \in Octet /\ first \in Seq(Octet) /\ Len(first) = n /\ \A t \in 1 .. n : first[t] = d[t]
      BY <1>1, <3>0, <3>13, <3>14
    <3>2. Packed(d, n) = src
      BY <1>1, <2>1, <2>4, <1>4 DEF Packed
    <3> HIDE DEF first
    <3>3. /\ src \in Seq(Octet) /\ Len(src) = n + 3 /\ src[1] = n - 1
          /\ src[n + 2] = 257 - m /\ src[n + 3] = d[n + 1] /\ \A t \in 1 .. n : src[t + 1] = first[t]
      <4>1. n - 1 \in Octet /\ 257 - m \in Octet
        BY <2>1, <3>0 DEF Octet
      <4>2. /\ <<n - 1>> \o first \in Seq(Octet) /\ Len(<<n - 1>> \o first) = n + 1
            /\ (<<n - 1>> \o first)[1] = n - 1 /\ \A t \in 1 .. n : (<<n - 1>> \o first)[t + 1] = first[t]
        BY <3>0, <3>1, <4>1, OneFirst
      <4> DEFINE lead == <<n - 1>> \o first
      <4>3. lead \in Seq(Octet) /\ Len(lead) = n + 1 /\ lead[1] = n - 1 /\ \A t \in 1 .. n : lead[t + 1] = first[t]
        BY <4>2
      <4>4. src = lead \o <<257 - m, d[n + 1]>>
        OBVIOUS
      <4> HIDE DEF lead, src
      <4>5. /\ src \in Seq(Octet) /\ Len(src) = (n + 1) + 2
            /\ src[(n + 1) + 1] = 257 - m /\ src[(n + 1) + 2] = d[n + 1]
            /\ \A t \in 1 .. n + 1 : src[t] = lead[t]
        <5>1. n + 1 \in Nat
          BY <3>0
        <5> QED BY <3>14, <4>1, <4>3, <4>4, <5>1, TwoLast
      <4>6. 1 \in 1 .. n + 1 /\ \A t \in 1 .. n : t + 1 \in 1 .. n + 1
        BY <3>0
      <4>7. (n + 1) + 2 = n + 3 /\ (n + 1) + 1 = n + 2
        BY <3>0
      <4>8. src[1] = n - 1 /\ \A t \in 1 .. n : src[t + 1] = first[t]
        BY <4>3, <4>5, <4>6
      <4> QED BY <4>5, <4>7, <4>8
    <3> HIDE DEF src
    <3>4. PICK f : packbitsDecode(src) = f[1] /\ \A i \in 1 .. Len(src) + 130 : f[i] = Expanded(f, src, i)
      BY <3>3, DecodeIs
    <3>5. f[1] = SubSeq(src, 2, n + 1) \o f[n + 2]
      <4>1. 1 + 2 + (n - 1) = n + 2 /\ 1 + 1 + (n - 1) = n + 1 /\ Smaller(n + 3, n + 1) = n + 1 /\ n - 1 < 128 /\ 1 + 1 = 2
        BY <3>0 DEF Smaller
      <4>3. ~ 1 > Len(src) /\ src[1] < 128 /\ ~ src[1] > 128 /\ 1 \in 1 .. Len(src) + 130
        BY <3>0, <3>3
      <4>2. Expanded(f, src, 1) = SubSeq(src, 1 + 1, Smaller(Len(src), 1 + 1 + src[1])) \o f[1 + 2 + src[1]]
        BY <4>3, Zenon DEF Expanded
      <4> QED BY <3>3, <3>4, <4>1, <4>2, <4>3, Zenon
    <3>6. f[n + 2] = [t \in 1 .. 257 - src[n + 2] |-> src[(n + 2) + 1]] \o f[(n + 2) + 2]
      <4>1. /\ ~ n + 2 > Len(src) /\ src[n + 2] > 128 /\ ~ src[n + 2] < 128 /\ n + 2 # Len(src)
            /\ n + 2 \in 1 .. Len(src) + 130
        BY <2>1, <3>0, <3>3
      <4>2. Expanded(f, src, n + 2) = [t \in 1 .. 257 - src[n + 2] |-> src[(n + 2) + 1]] \o f[(n + 2) + 2]
        BY <4>1, Zenon DEF Expanded
      <4> QED BY <3>4, <4>1, <4>2, Zenon
    <3>7. f[n + 4] = <<>>
      <4>1. n + 4 > Len(src) /\ n + 4 \in 1 .. Len(src) + 130
        BY <3>0, <3>3
      <4> QED BY <3>4, <4>1 DEF Expanded
    <3>8. 257 - src[n + 2] = m /\ src[(n + 2) + 1] = d[n + 1] /\ (n + 2) + 2 = n + 4
      BY <3>0, <3>3, <2>1
    <3>9. f[n + 2] = rest \o <<>>
      BY <3>6, <3>7, <3>8
    <3>10. SubSeq(src, 2, n + 1) = first
      BY <3>0, <3>1, <3>3
    <3> HIDE DEF rest
    <3>11. f[1] = first \o rest
      <4>1. rest \o <<>> = rest
        BY <2>2
      <4> QED BY <3>5, <3>9, <3>10, <4>1, Zenon
    <3>12. first \o rest = d
      <4>1. first \o rest \in Seq(Octet) /\ Len(first \o rest) = L
        BY <2>1, <2>2, <3>0, <3>1
      <4>2. ASSUME NEW j \in 1 .. L PROVE (first \o rest)[j] = d[j]
        <5>1. CASE j <= n
          BY <3>0, <3>1, <2>2, <5>1
        <5>2. CASE j > n
          <6>1. j - n \in 1 .. m /\ n + (j - n) = j
            BY <2>1, <3>0, <5>2
          <6>3. j \in 1 .. Len(first) + Len(rest) /\ ~ j <= Len(first)
            BY <2>1, <2>2, <3>0, <3>1, <5>2
          <6>2. (first \o rest)[j] = rest[j - n]
            BY <2>2, <3>1, <6>3, ConcatProperties
          <6> QED BY <2>2, <6>1, <6>2
        <5>3. j <= n \/ j > n
          BY <3>0
        <5> QED BY <5>1, <5>2, <5>3, Zenon
      <4> HIDE DEF first
      <4> QED BY <1>1, <4>1, <4>2, SeqEqual
    <3>15. packbitsDecode(src) = d
      BY <3>4, <3>11, <3>12
    <3>16. Len(src) <= 130
      BY <3>0, <2>1, <1>2, <3>3
    <3> QED BY <3>2, <3>3, <3>15, <3>16
  <2> QED BY <2>3, <2>4
<1> QED BY <1>3, <1>4

-----------------------------------------------------------------------------
(* The bytes and the lines of a job *)

\* A command as the server renders it.
Sound(c) ==
  \/ c.cmd = "header" /\ c.data \in Seq(Octet) /\ Whole(c.data)
  \/ c.cmd = "mode" /\ c.data \in {<<0>>, <<2>>}
  \/ c.cmd = "blank" /\ c.data = <<>>
  \/ c.cmd = "line" /\ c.data \in Seq(Octet) /\ Len(c.data) \in 1 .. 128 /\ c.split \in SplitsOf(c.data)

IsLine(c) == c.cmd = "line"

\* Small numbers are bytes.
LEMMA SmallOctets == /\ \A l \in Nat : l <= 130 => l \in Octet
                     /\ \A l \in 1 .. 128 : l <= 130
                     /\ 103 \in Octet /\ 0 \in Octet
  BY DEF Octet

\* The header of a line, and what follows it.
LEMMA ThreeFirst ==
  ASSUME NEW s \in Seq(Octet), NEW a \in Octet, NEW b \in Octet, NEW l \in Octet
  PROVE  /\ <<a, b, l>> \o s \in Seq(Octet) /\ Len(<<a, b, l>> \o s) = 3 + Len(s)
         /\ (<<a, b, l>> \o s)[1] = a /\ (<<a, b, l>> \o s)[3] = l
         /\ \A t \in 1 .. Len(s) : (<<a, b, l>> \o s)[3 + t] = s[t]
<1>1. /\ <<a, b, l>> \in Seq(Octet) /\ Len(<<a, b, l>>) = 3
      /\ <<a, b, l>>[1] = a /\ <<a, b, l>>[3] = l
  OBVIOUS
<1> QED BY <1>1, ConcatProperties

\* What follows the length of a line's command.
Wired(cs, c) == IF ModeAt(cs, c) THEN Packed(cs[c].data, cs[c].split) ELSE cs[c].data

\* The bytes of a line's command are the number of those that follow, and they.
LEMMA LineBytes ==
  ASSUME NEW cs, NEW c, Sound(cs[c]), IsLine(cs[c])
  PROVE  /\ Bytes(cs, c) \in Seq(Octet) /\ Len(Bytes(cs, c)) = 3 + Len(Wired(cs, c))
         /\ Bytes(cs, c)[1] = 103 /\ Bytes(cs, c)[3] = Len(Wired(cs, c))
         /\ Wired(cs, c) \in Seq(Octet)
         /\ \A t \in 1 .. Len(Wired(cs, c)) : Bytes(cs, c)[3 + t] = Wired(cs, c)[t]
<1>1. cs[c].data \in Seq(Octet) /\ Len(cs[c].data) \in 1 .. 128 /\ cs[c].split \in SplitsOf(cs[c].data)
  BY DEF Sound, IsLine
<1>2. Wired(cs, c) \in Seq(Octet) /\ Len(Wired(cs, c)) <= 130
  <2>1. Packed(cs[c].data, cs[c].split) \in Seq(Octet) /\ Len(Packed(cs[c].data, cs[c].split)) <= 130
    BY <1>1, PackedUnpacks
  <2>2. Len(cs[c].data) <= 130
    BY <1>1, SmallOctets, Zenon
  <2> QED BY <1>1, <2>1, <2>2, Zenon DEF Wired
<1>3. PICK s \in Seq(Octet) : s = Wired(cs, c) /\ Len(s) <= 130
  BY <1>2
<1>4. Bytes(cs, c) = <<103, 0, Len(s)>> \o s
  BY <1>3 DEF Bytes, Wired, IsLine
<1>6. Len(s) \in Octet /\ 103 \in Octet /\ 0 \in Octet
  <2>1. Len(s) \in Nat
    OBVIOUS
  <2> QED BY <1>3, <2>1, SmallOctets, Zenon
<1>5. /\ Bytes(cs, c) \in Seq(Octet) /\ Len(Bytes(cs, c)) = 3 + Len(s)
      /\ Bytes(cs, c)[1] = 103 /\ Bytes(cs, c)[3] = Len(s)
      /\ \A t \in 1 .. Len(s) : Bytes(cs, c)[3 + t] = s[t]
  <2>1. PICK a \in Octet, b \in Octet, l \in Octet : a = 103 /\ b = 0 /\ l = Len(s)
    BY <1>6
  <2>2. Bytes(cs, c) = <<a, b, l>> \o s
    BY <1>4, <2>1, Zenon
  <2> QED BY <2>1, <2>2, ThreeFirst
<1> QED BY <1>3, <1>5, Zenon

\* The bytes of the other commands.
LEMMA OtherBytes ==
  ASSUME NEW cs, NEW c, Sound(cs[c])
  PROVE  /\ cs[c].cmd = "header" => Bytes(cs, c) = cs[c].data
         /\ cs[c].cmd = "mode" => Bytes(cs, c) = <<77, cs[c].data[1]>> /\ cs[c].data[1] \in {0, 2}
         /\ cs[c].cmd = "blank" => Bytes(cs, c) = <<90>>
<1>1. ASSUME cs[c].cmd = "mode" PROVE Bytes(cs, c) = <<77, cs[c].data[1]>> /\ cs[c].data[1] \in {0, 2}
  <2>1. PICK m \in {0, 2} : cs[c].data = <<m>>
    BY <1>1 DEF Sound
  <2>2. Bytes(cs, c) = <<77>> \o <<m>>
    BY <1>1, <2>1 DEF Bytes
  <2>3. <<77>> \o <<m>> = <<77, m>>
    <3>1. /\ <<m>> \in Seq(Int) /\ <<77, m>> \in Seq(Int) /\ 77 \in Int
          /\ Len(<<m>>) = 1 /\ <<m>>[1] = m /\ Len(<<77, m>>) = 2 /\ <<77, m>>[1] = 77 /\ <<77, m>>[2] = m
      OBVIOUS
    <3>2. /\ <<77>> \o <<m>> \in Seq(Int) /\ Len(<<77>> \o <<m>>) = 2
          /\ (<<77>> \o <<m>>)[1] = 77 /\ (<<77>> \o <<m>>)[2] = m
      BY <3>1, OneFirst
    <3>3. \A i \in 1 .. 2 : i = 1 \/ i = 2
      OBVIOUS
    <3>4. \A i \in 1 .. 2 : (<<77>> \o <<m>>)[i] = <<77, m>>[i]
      BY <3>1, <3>2, <3>3, Zenon
    <3> QED BY <3>1, <3>2, <3>4, SeqEqual, Zenon
  <2> QED BY <2>1, <2>2, <2>3
<1> QED BY <1>1 DEF Bytes

\* Every command has a byte.
LEMMA BytesType ==
  ASSUME NEW cs, NEW c, Sound(cs[c])
  PROVE  Bytes(cs, c) \in Seq(Octet) /\ Len(Bytes(cs, c)) \in Nat \ {0}
<1>0. 77 \in Octet /\ 90 \in Octet /\ 0 \in Octet /\ 2 \in Octet
  BY DEF Octet
<1>1. CASE cs[c].cmd = "header"
  <2>1. Bytes(cs, c) = cs[c].data
    BY <1>1, OtherBytes
  <2>2. cs[c].data \in Seq(Octet) /\ Whole(cs[c].data)
    BY <1>1 DEF Sound
  <2>3. PICK b \in Seq(Octet) : b = cs[c].data /\ Whole(b)
    BY <2>2
  <2>4. Len(b) \in Nat \ {0}
    BY <2>3 DEF Whole
  <2> QED BY <2>1, <2>3, <2>4
<1>2. CASE cs[c].cmd = "mode"
  <2>1. PICK m \in {0, 2} : Bytes(cs, c) = <<77, m>>
    BY <1>2, OtherBytes
  <2> QED BY <1>0, <2>1
<1>3. CASE cs[c].cmd = "blank"
  BY <1>0, <1>3, OtherBytes
<1>4. CASE cs[c].cmd = "line"
  BY <1>4, LineBytes DEF IsLine
<1> QED BY <1>1, <1>2, <1>3, <1>4 DEF Sound

\* One more command adds its bytes.
LEMMA UptoMore ==
  ASSUME NEW cs, NEW n \in Nat, \A c \in 1 .. n : Sound(cs[c]), NEW c \in 0 .. n - 1
  PROVE  Upto(cs, c) \in Seq(Octet) /\ Upto(cs, c + 1) = Upto(cs, c) \o Bytes(cs, c + 1)
<1> DEFINE s == [t \in 1 .. c + 1 |-> Bytes(cs, t)]
           r == [t \in 1 .. c |-> Bytes(cs, t)]
<1>1. \A t \in 1 .. c + 1 : t \in 1 .. n
  OBVIOUS
<1>2. \A t \in 1 .. c + 1 : Bytes(cs, t) \in Seq(Octet)
  BY <1>1, BytesType
<1>3. s \in [1 .. c + 1 -> Seq(Octet)] /\ r \in [1 .. c -> Seq(Octet)] /\ \A t \in 1 .. c : r[t] = s[t]
  BY <1>2
<1>4. s[c + 1] = Bytes(cs, c + 1)
  OBVIOUS
<1>5. Upto(cs, c + 1) = FlattenSeq(s) /\ Upto(cs, c) = FlattenSeq(r)
  BY DEF Upto
<1> HIDE DEF s, r
<1>6. c \in Nat
  OBVIOUS
<1> QED BY <1>3, <1>4, <1>5, <1>6, FlattenOneMore

\* No command, no byte.
LEMMA UptoNone == ASSUME NEW cs PROVE Upto(cs, 0) = <<>>
<1>1. [t \in 1 .. 0 |-> Bytes(cs, t)] = <<>>
  OBVIOUS
<1>2. Len(<<>>) = 0
  OBVIOUS
<1>3. FlattenSeq(<<>>) = <<>>
  BY <1>2 DEF FlattenSeq
<1> QED BY <1>1, <1>3 DEF Upto

\* The bytes of a job's commands are bytes.
LEMMA UptoType ==
  ASSUME NEW cs, NEW n \in Nat, \A c \in 1 .. n : Sound(cs[c]), NEW c \in 0 .. n
  PROVE  Upto(cs, c) \in Seq(Octet) /\ Len(Upto(cs, c)) \in Nat
<1>1. CASE c = 0
  <2>1. Upto(cs, c) = <<>>
    BY <1>1, UptoNone, Zenon
  <2> QED BY <2>1
<1>2. CASE c # 0
  <2>1. c - 1 \in 0 .. n - 1 /\ (c - 1) + 1 = c /\ c \in 1 .. n
    BY <1>2
  <2>2. PICK u \in Seq(Octet) : u = Upto(cs, c - 1) /\ Upto(cs, c) = u \o Bytes(cs, c)
    BY <2>1, UptoMore
  <2>3. Bytes(cs, c) \in Seq(Octet)
    BY <2>1, BytesType
  <2> QED BY <2>2, <2>3
<1> QED BY <1>1, <1>2

\* The bytes of the first commands are the first bytes.
LEMMA UptoPrefix ==
  ASSUME NEW cs, NEW n \in Nat, \A c \in 1 .. n : Sound(cs[c])
  PROVE  \A m \in Nat : m <= n =>
           \A c \in 0 .. m :
             /\ Len(Upto(cs, c)) <= Len(Upto(cs, m))
             /\ \A t \in 1 .. Len(Upto(cs, c)) : Upto(cs, m)[t] = Upto(cs, c)[t]
<1> DEFINE Goal(m) ==
             \A c \in 0 .. m :
               /\ Len(Upto(cs, c)) <= Len(Upto(cs, m))
               /\ \A t \in 1 .. Len(Upto(cs, c)) : Upto(cs, m)[t] = Upto(cs, c)[t]
           S == {m \in Nat : m <= n => Goal(m)}
<1>1. 0 \in S
  <2>1. \A c \in 0 .. 0 : c = 0
    OBVIOUS
  <2>2. Len(Upto(cs, 0)) \in Nat
    BY UptoType
  <2> QED BY <2>1, <2>2
<1>2. ASSUME NEW m \in Nat, m \in S PROVE m + 1 \in S
  <2> SUFFICES ASSUME m + 1 <= n PROVE Goal(m + 1)
    OBVIOUS
  <2>1. m \in 0 .. n - 1 /\ m + 1 \in 1 .. n /\ m <= n
    OBVIOUS
  <2>2. PICK u \in Seq(Octet) : u = Upto(cs, m) /\ Upto(cs, m + 1) = u \o Bytes(cs, m + 1)
    BY <2>1, UptoMore
  <2>3. PICK b \in Seq(Octet) : b = Bytes(cs, m + 1)
    BY <2>1, BytesType
  <2>8. u \o b \in Seq(Octet)
    OBVIOUS
  <2>4. PICK v \in Seq(Octet) : v = Upto(cs, m + 1) /\ v = u \o b
    BY <2>2, <2>3, <2>8, Zenon
  <2>5. Len(u) <= Len(v) /\ \A t \in 1 .. Len(u) : v[t] = u[t]
    BY <2>4, ConcatProperties
  <2>6. \A c \in 0 .. m : Len(Upto(cs, c)) \in Nat /\ Len(Upto(cs, c)) <= Len(u)
                          /\ \A t \in 1 .. Len(Upto(cs, c)) : u[t] = Upto(cs, c)[t]
    <3>1. Goal(m)
      BY <1>2, <2>1
    <3>2. \A c \in 0 .. m : Len(Upto(cs, c)) \in Nat
      BY <2>1, UptoType
    <3> QED BY <2>2, <3>1, <3>2
  <2>7. ASSUME NEW c \in 0 .. m + 1
        PROVE  Len(Upto(cs, c)) <= Len(v) /\ \A t \in 1 .. Len(Upto(cs, c)) : v[t] = Upto(cs, c)[t]
    <3>1. CASE c = m + 1
      <4>1. Len(v) \in Nat
        OBVIOUS
      <4> QED BY <2>4, <3>1, <4>1
    <3>2. CASE c # m + 1
      <4>1. c \in 0 .. m
        BY <3>2
      <4>2. PICK l \in Nat : l = Len(Upto(cs, c))
        BY <2>6, <4>1
      <4>3. l <= Len(u) /\ \A t \in 1 .. l : u[t] = Upto(cs, c)[t]
        BY <2>6, <4>1, <4>2
      <4>4. l <= Len(v) /\ \A t \in 1 .. l : v[t] = Upto(cs, c)[t]
        BY <2>5, <4>3
      <4> QED BY <4>2, <4>4
    <3> QED BY <3>1, <3>2
  <2> QED BY <2>4, <2>7
<1> HIDE DEF S
<1>3. \A m \in Nat : m \in S
  BY <1>1, <1>2, SetInduction
<1> QED BY <1>3 DEF S

\* Behind the first c commands stands the next one.
LEMMA CommandAt ==
  ASSUME NEW cs, NEW n \in Nat, \A c \in 1 .. n : Sound(cs[c]), NEW c \in 0 .. n - 1
  PROVE  /\ Len(Upto(cs, c + 1)) = Len(Upto(cs, c)) + Len(Bytes(cs, c + 1))
         /\ \A j \in 1 .. Len(Bytes(cs, c + 1)) : Upto(cs, n)[Len(Upto(cs, c)) + j] = Bytes(cs, c + 1)[j]
<1>1. c + 1 \in 1 .. n /\ c + 1 \in 0 .. n
  OBVIOUS
<1>2. PICK u \in Seq(Octet) : u = Upto(cs, c) /\ Upto(cs, c + 1) = u \o Bytes(cs, c + 1)
  BY UptoMore
<1>3. PICK b \in Seq(Octet) : b = Bytes(cs, c + 1)
  BY <1>1, BytesType
<1>7. u \o b \in Seq(Octet)
  OBVIOUS
<1>4. PICK v \in Seq(Octet) : v = Upto(cs, c + 1) /\ v = u \o b
  BY <1>2, <1>3, <1>7, Zenon
<1>5. Len(v) = Len(u) + Len(b) /\ \A j \in 1 .. Len(b) : v[Len(u) + j] = b[j] /\ Len(u) + j \in 1 .. Len(v)
  BY <1>4, ConcatProperties
<1>6. \A t \in 1 .. Len(v) : Upto(cs, n)[t] = v[t]
  <2>1. n <= n /\ c + 1 \in 0 .. n
    OBVIOUS
  <2>2. \A t \in 1 .. Len(Upto(cs, c + 1)) : Upto(cs, n)[t] = Upto(cs, c + 1)[t]
    BY <2>1, UptoPrefix
  <2> QED BY <1>4, <2>2, Zenon
<1> QED BY <1>2, <1>3, <1>4, <1>5, <1>6

\* The mode changes with a mode command only.
LEMMA ModeMore ==
  ASSUME NEW cs, NEW c \in Nat
  PROVE  ModeAt(cs, c + 1) = IF cs[c + 1].cmd = "mode" THEN cs[c + 1].data = <<2>> ELSE ModeAt(cs, c)
<1> DEFINE ms(n) == {m \in 1 .. n : cs[m].cmd = "mode"}
<1>1. CASE cs[c + 1].cmd = "mode"
  <2>1. c + 1 \in ms(c + 1) /\ \A x \in ms(c + 1) : x <= c + 1
    BY <1>1
  <2>2. ms(c + 1) \in SUBSET Int
    OBVIOUS
  <2>3. ModeAt(cs, c + 1) = (ms(c + 1) # {} /\ cs[Max(ms(c + 1))].data = <<2>>)
    BY DEF ModeAt
  <2> HIDE DEF ms
  <2>4. Max(ms(c + 1)) = c + 1
    BY <2>1, <2>2, MaxIs
  <2> QED BY <1>1, <2>1, <2>3, <2>4
<1>2. CASE cs[c + 1].cmd # "mode"
  <2>1. ms(c + 1) = ms(c)
    BY <1>2
  <2>2. /\ ModeAt(cs, c + 1) = (ms(c + 1) # {} /\ cs[Max(ms(c + 1))].data = <<2>>)
        /\ ModeAt(cs, c) = (ms(c) # {} /\ cs[Max(ms(c))].data = <<2>>)
    BY DEF ModeAt
  <2> HIDE DEF ms
  <2> QED BY <1>2, <2>1, <2>2, Zenon
<1> QED BY <1>1, <1>2

\* No mode command, no compression.
LEMMA ModeNone == ASSUME NEW cs PROVE ModeAt(cs, 0) = FALSE
<1>1. {m \in 1 .. 0 : cs[m].cmd = "mode"} = {}
  OBVIOUS
<1> QED BY <1>1 DEF ModeAt

\* A command adds its line, if it has one.
LEMMA LinesMore ==
  ASSUME NEW c \in Nat
  PROVE  LinesOf(c + 1) = IF job[c + 1].cmd \in {"line", "blank"}
                          THEN Append(LinesOf(c), Line(job[c + 1].data)) ELSE LinesOf(c)
<1> DEFINE l(t) == IF job[t].cmd \in {"line", "blank"} THEN <<Line(job[t].data)>> ELSE <<>>
           T == {Line(job[t].data) : t \in 1 .. c + 1}
           s == [t \in 1 .. c + 1 |-> l(t)]
           r == [t \in 1 .. c |-> l(t)]
<1>1. \A t \in 1 .. c + 1 : l(t) \in Seq(T)
  <2>1. \A t \in 1 .. c + 1 : Line(job[t].data) \in T
    OBVIOUS
  <2> HIDE DEF T
  <2> QED BY <2>1
<1>2. LinesOf(c + 1) = FlattenSeq(s) /\ LinesOf(c) = FlattenSeq(r)
  BY DEF LinesOf
<1> HIDE DEF T
<1>3. s[c + 1] = l(c + 1)
  OBVIOUS
<1> HIDE DEF l
<1>4. s \in [1 .. c + 1 -> Seq(T)] /\ r \in [1 .. c -> Seq(T)] /\ \A t \in 1 .. c : r[t] = s[t]
  BY <1>1
<1> HIDE DEF s, r
<1>5. LinesOf(c) \in Seq(T) /\ LinesOf(c + 1) = LinesOf(c) \o l(c + 1)
  BY <1>2, <1>3, <1>4, FlattenOneMore
<1>6. CASE job[c + 1].cmd \in {"line", "blank"}
  <2>1. l(c + 1) = <<Line(job[c + 1].data)>>
    BY <1>6 DEF l
  <2>2. \A x : \A q \in Seq(T) : q \o <<x>> = Append(q, x)
    OBVIOUS
  <2> QED BY <1>5, <1>6, <2>1, <2>2
<1>7. CASE job[c + 1].cmd \notin {"line", "blank"}
  <2>1. l(c + 1) = <<>>
    BY <1>7 DEF l
  <2>2. \A q \in Seq(T) : q \o <<>> = q
    OBVIOUS
  <2> QED BY <1>5, <1>7, <2>1, <2>2
<1> QED BY <1>6, <1>7

\* No command, no line.
LEMMA LinesNone == LinesOf(0) = <<>>
<1>1. [t \in 1 .. 0 |-> IF job[t].cmd \in {"line", "blank"} THEN <<Line(job[t].data)>> ELSE <<>>] = <<>>
  OBVIOUS
<1>2. Len(<<>>) = 0
  OBVIOUS
<1>3. FlattenSeq(<<>>) = <<>>
  BY <1>2 DEF FlattenSeq
<1> QED BY <1>1, <1>3 DEF LinesOf

-----------------------------------------------------------------------------
(* The walk *)

\* The payload is a job of n commands, or begins it.
Rendered(n) ==
  /\ Len(job) = n /\ \A c \in 1 .. n : Sound(job[c])
  /\ Len(doc) \in Nat /\ Len(doc) <= Len(Upto(job, n)) /\ doc = SubSeq(Upto(job, n), 1, Len(doc))

\* The walk stands behind c commands, in their mode, or has ended inside the next one.
StandsAt(n, c) ==
  /\ lines = LinesOf(c)
  /\ \/ at = Len(Upto(job, c)) /\ compressed = ModeAt(job, c)
     \/ at >= Len(doc) /\ c < n /\ Len(doc) < Len(Upto(job, c + 1))

OnTrack(n) == Rendered(n) /\ at \in Nat /\ \E c \in 0 .. n : StandsAt(n, c)

WalkInv == magic = "none" /\ phase \in {"print", "decode"} => \E n \in Nat : OnTrack(n)

\* The walk has come to command c + 1.
Facing(n, c) ==
  /\ Rendered(n) /\ at \in Nat /\ c \in 0 .. n - 1
  /\ at = Len(Upto(job, c)) /\ compressed = ModeAt(job, c) /\ lines = LinesOf(c)
  /\ at < Len(doc)

\* While it goes on, it faces a command.
LEMMA Faces ==
  ASSUME NEW n \in Nat, OnTrack(n), Walking
  PROVE  \E c \in 0 .. n - 1 : Facing(n, c)
<1>1. PICK c \in 0 .. n : StandsAt(n, c)
  BY DEF OnTrack
<1>2. PICK e \in Nat : e = Len(doc) /\ e <= Len(Upto(job, n))
  <2>1. Len(Upto(job, n)) \in Nat
    BY UptoType DEF OnTrack, Rendered
  <2> QED BY <2>1 DEF OnTrack, Rendered
<1>3. at \in Nat /\ at < e
  BY <1>2 DEF OnTrack, Walking
<1>4. at = Len(Upto(job, c)) /\ compressed = ModeAt(job, c) /\ lines = LinesOf(c)
  BY <1>1, <1>2, <1>3 DEF StandsAt
<1>5. c # n
  <2> SUFFICES ASSUME c = n PROVE FALSE
    OBVIOUS
  <2>1. at = Len(Upto(job, n))
    BY <1>4
  <2> QED BY <1>2, <1>3, <2>1
<1>6. c \in 0 .. n - 1
  BY <1>5
<1> QED BY <1>2, <1>3, <1>4, <1>6 DEF Facing, OnTrack

\* What it reads are the bytes of that command.
LEMMA Reads ==
  ASSUME NEW n \in Nat, NEW c \in 0 .. n - 1, Facing(n, c)
  PROVE  \E b \in Seq(Octet), l \in Nat \ {0}, e \in Nat \ {0} :
           /\ b = Bytes(job, c + 1) /\ l = Len(b) /\ e = Left /\ Len(doc) = at + e
           /\ Sound(job[c + 1])
           /\ Len(Upto(job, c + 1)) = at + l
           /\ \A j \in 0 .. l - 1 : j < e => Byte(j) = b[j + 1]
<1>0. Len(job) = n /\ \A d \in 1 .. n : Sound(job[d])
  BY DEF Facing, Rendered
<1>1. c + 1 \in 1 .. n
  OBVIOUS
<1>2. Sound(job[c + 1])
  BY <1>0, <1>1
<1>3. PICK b \in Seq(Octet) : b = Bytes(job, c + 1) /\ Len(b) \in Nat \ {0}
  BY <1>2, BytesType
<1>4. PICK l \in Nat \ {0} : l = Len(b)
  BY <1>3
<1>5. Len(Upto(job, n)) \in Nat /\ Upto(job, n) \in Seq(Octet)
  <2>1. n \in 0 .. n
    OBVIOUS
  <2> QED BY <1>0, <2>1, UptoType
<1>6. PICK u \in Seq(Octet) : u = Upto(job, n)
  BY <1>5
<1>7. PICK q \in Nat : q = Len(doc)
  BY <1>5 DEF Facing, Rendered
<1>8. at \in Nat /\ at < q /\ q <= Len(u) /\ doc = SubSeq(u, 1, q)
  BY <1>5, <1>6, <1>7 DEF Facing, Rendered
<1>9. PICK e \in Nat \ {0} : e = q - at
  BY <1>8
<1>10. e = Left /\ Len(doc) = at + e
  BY <1>7, <1>8, <1>9 DEF Left
<1>11. \A i \in 1 .. q : doc[i] = u[i]
  BY <1>8
<1>12. /\ Len(Upto(job, c + 1)) = Len(Upto(job, c)) + Len(b)
       /\ \A j \in 1 .. Len(b) : u[Len(Upto(job, c)) + j] = b[j]
  <2>1. /\ Len(Upto(job, c + 1)) = Len(Upto(job, c)) + Len(Bytes(job, c + 1))
        /\ \A j \in 1 .. Len(Bytes(job, c + 1)) : Upto(job, n)[Len(Upto(job, c)) + j] = Bytes(job, c + 1)[j]
    BY <1>0, CommandAt
  <2> QED BY <1>3, <1>6, <2>1, Zenon
<1>13. at = Len(Upto(job, c))
  BY DEF Facing
<1>14. Len(Upto(job, c + 1)) = at + l /\ \A j \in 1 .. l : u[at + j] = b[j]
  BY <1>4, <1>12, <1>13, Zenon
<1>15. ASSUME NEW j \in 0 .. l - 1, j < e PROVE Byte(j) = b[j + 1]
  <2>1. j + 1 \in 1 .. l /\ at + (j + 1) = at + j + 1 /\ at + j + 1 \in 1 .. q
    BY <1>8, <1>9, <1>15
  <2>2. u[at + (j + 1)] = b[j + 1]
    BY <1>14, <2>1
  <2>3. doc[at + j + 1] = u[at + j + 1]
    BY <1>11, <2>1
  <2>4. doc[at + j + 1] = b[j + 1]
    BY <2>1, <2>2, <2>3
  <2> QED BY <2>4, Zenon DEF Byte
<1> QED BY <1>2, <1>3, <1>4, <1>10, <1>14, <1>15

\* It steps over the whole command and takes its line and its mode.
LEMMA Advance ==
  ASSUME NEW n \in Nat, NEW c \in 0 .. n - 1, Facing(n, c), job' = job, doc' = doc,
         at' = Len(Upto(job, c + 1)), lines' = LinesOf(c + 1), compressed' = ModeAt(job, c + 1)
  PROVE  OnTrack(n)'
<1>1. Rendered(n)'
  BY DEF Facing, Rendered
<1>2. c + 1 \in 0 .. n
  OBVIOUS
<1>3. Len(job) = n /\ \A d \in 1 .. n : Sound(job[d])
  BY DEF Facing, Rendered
<1>4. at' \in Nat
  BY <1>2, <1>3, UptoType
<1>5. LinesOf(c + 1)' = LinesOf(c + 1)
  BY DEF LinesOf
<1>6. StandsAt(n, c + 1)'
  BY <1>5, Zenon DEF StandsAt
<1> QED BY <1>1, <1>2, <1>4, <1>6 DEF OnTrack

\* The payload has ended inside the command.
LEMMA BreaksOff ==
  ASSUME NEW n \in Nat, NEW c \in 0 .. n - 1, Facing(n, c), job' = job, doc' = doc,
         at' \in Nat, at' >= Len(doc), Len(doc) < Len(Upto(job, c + 1)), lines' = lines
  PROVE  OnTrack(n)'
<1>1. Rendered(n)'
  BY DEF Facing, Rendered
<1>2. c \in 0 .. n /\ c < n
  OBVIOUS
<1>3. LinesOf(c)' = LinesOf(c)
  BY DEF LinesOf
<1>4. lines' = LinesOf(c)'
  BY <1>3 DEF Facing
<1>5. StandsAt(n, c)'
  BY <1>2, <1>4, Zenon DEF StandsAt
<1> QED BY <1>1, <1>2, <1>5 DEF OnTrack

\* Which of its steps the walk takes is told by the first byte.
LEMMA FirstByte ==
  ASSUME WalkStep
  PROVE  /\ Byte(0) \notin {27, 77, 90, 103} => Skip
         /\ Byte(0) = 77 => Mode
         /\ Byte(0) = 90 => Blank
         /\ Byte(0) = 103 => Graphics
         /\ Byte(0) = 27 => Escape
  BY DEF WalkStep, Skip, Mode, Blank, Graphics, Escape

\* A header without a line or a mode changes neither.
LEMMA NoLine ==
  ASSUME NEW n \in Nat, NEW c \in 0 .. n - 1, Facing(n, c), job[c + 1].cmd = "header"
  PROVE  lines = LinesOf(c + 1) /\ compressed = ModeAt(job, c + 1)
<1>1. c \in Nat /\ "header" \notin {"line", "blank"} /\ "header" # "mode"
  OBVIOUS
<1>2. LinesOf(c + 1) = LinesOf(c)
  BY <1>1, LinesMore, Zenon
<1>3. ModeAt(job, c + 1) = ModeAt(job, c)
  BY <1>1, ModeMore, Zenon
<1> QED BY <1>2, <1>3, Zenon DEF Facing

\* What escCommandLen makes of the bytes that are left.
LEMMA EscapeLength ==
  ASSUME NEW e \in Nat \ {0}, e = Left
  PROVE  /\ e = 1 => escCommandLen = 1
         /\ e = 2 => escCommandLen = 2
         /\ e > 2 /\ Byte(1) # 105 => escCommandLen = 2
         /\ e > 2 /\ Byte(1) = 105 => escCommandLen =
              CASE Byte(2) \in {97, 77, 65, 75} -> 4 [] Byte(2) = 100 -> 5 [] Byte(2) = 122 -> 13 [] OTHER -> 3
<1>1. CASE e = 1
  <2>1. Left < 2
    BY <1>1
  <2> QED BY <1>1, <2>1 DEF escCommandLen
<1>2. CASE e = 2
  <2>1. ~ Left < 2 /\ Left = 2
    BY <1>2
  <2> QED BY <1>2, <2>1 DEF escCommandLen
<1>3. CASE e > 2
  <2>1. ~ Left < 2 /\ Left # 2 /\ e # 1 /\ e # 2
    BY <1>3
  <2> QED BY <2>1, Zenon DEF escCommandLen
<1> QED BY <1>1, <1>2, <1>3

\* The lengths of the commands that begin with ESC i are those of the decoder.
LEMMA Agreed ==
  ASSUME NEW w, NEW l, <<w, l>> \in Lengths
  PROVE  (CASE w \in {97, 77, 65, 75} -> 4 [] w = 100 -> 5 [] w = 122 -> 13 [] OTHER -> 3) = l
<1>1. \/ w \in {97, 77, 65, 75} /\ l = 4
      \/ w = 100 /\ l = 5
      \/ w = 122 /\ l = 13
      \/ w = 83 /\ l = 3
  BY DEF Lengths
<1> QED BY <1>1

\* A header is stepped over, whatever its operands look like.
LEMMA HeaderStep ==
  ASSUME NEW n \in Nat, NEW c \in 0 .. n - 1, Facing(n, c), job[c + 1].cmd = "header", WalkStep
  PROVE  OnTrack(n)'
<1>1. PICK b \in Seq(Octet), l \in Nat \ {0}, e \in Nat \ {0} :
             /\ b = Bytes(job, c + 1) /\ l = Len(b) /\ e = Left /\ Len(doc) = at + e
             /\ Sound(job[c + 1])
             /\ Len(Upto(job, c + 1)) = at + l
             /\ \A j \in 0 .. l - 1 : j < e => Byte(j) = b[j + 1]
  BY Reads
<1>2. Whole(b)
  <2>1. b = job[c + 1].data
    BY <1>1, OtherBytes
  <2> QED BY <1>1, <2>1 DEF Sound
<1>3. lines = LinesOf(c + 1) /\ compressed = ModeAt(job, c + 1)
  BY NoLine
<1>4. at \in Nat
  BY DEF Facing
<1>5. Byte(0) = b[1]
  <2>1. 0 \in 0 .. l - 1 /\ 0 < e /\ 0 + 1 = 1
    OBVIOUS
  <2> QED BY <1>1, <2>1
<1>6. (l > 1 /\ e > 1 => Byte(1) = b[2]) /\ (l > 2 /\ e > 2 => Byte(2) = b[3])
  <2>1. (l > 1 => 1 \in 0 .. l - 1) /\ (l > 2 => 2 \in 0 .. l - 1) /\ (e > 1 => 1 < e) /\ (e > 2 => 2 < e)
        /\ 1 + 1 = 2 /\ 2 + 1 = 3
    OBVIOUS
  <2> QED BY <1>1, <2>1
<1>7. ASSUME at' = at + l, UNCHANGED <<job, doc, compressed, lines>> PROVE OnTrack(n)'
  <2>1. at' = Len(Upto(job, c + 1)) /\ lines' = LinesOf(c + 1) /\ compressed' = ModeAt(job, c + 1)
    BY <1>1, <1>3, <1>7
  <2> QED BY <1>7, <2>1, Advance
<1>8. ASSUME at' = at + e, e < l, UNCHANGED <<job, doc, compressed, lines>> PROVE OnTrack(n)'
  <2>1. at' \in Nat /\ at' >= Len(doc) /\ Len(doc) < Len(Upto(job, c + 1))
    BY <1>1, <1>4, <1>8
  <2> QED BY <1>8, <2>1, BreaksOff
<1>9. CASE l = 1 /\ b[1] \notin {27, 77, 90, 103}
  <2>1. Skip
    BY <1>5, <1>9, FirstByte
  <2>2. at' = at + l /\ UNCHANGED <<job, doc, compressed, lines>>
    BY <1>9, <2>1 DEF Skip
  <2> QED BY <1>7, <2>2
<1>10. ASSUME b[1] = 27 PROVE at' = at + escCommandLen /\ UNCHANGED <<job, doc, compressed, lines>>
  <2>1. Escape
    BY <1>5, <1>10, FirstByte
  <2> QED BY <2>1 DEF Escape
<1>11. CASE b = <<27, 64>>
  <2>1. l = 2 /\ b[1] = 27 /\ b[2] = 64
    BY <1>1, <1>11
  <2>2. e > 1 => Byte(1) = 64
    BY <1>6, <2>1
  <2>3. (e = 1 => escCommandLen = 1) /\ (e = 2 => escCommandLen = 2) /\ (e > 2 => escCommandLen = 2)
    <3>1. 64 # 105 /\ (e > 2 => e > 1)
      OBVIOUS
    <3> QED BY <1>1, <2>2, <3>1, EscapeLength, Zenon
  <2>4. e = 1 \/ e = 2 \/ e > 2
    OBVIOUS
  <2>5. CASE e = 1
    BY <1>8, <1>10, <2>1, <2>3, <2>5
  <2>6. CASE e # 1
    BY <1>7, <1>10, <2>1, <2>3, <2>4, <2>6
  <2> QED BY <2>5, <2>6
<1>12. CASE l > 2 /\ b[1] = 27 /\ b[2] = 105 /\ <<b[3], l>> \in Lengths
  <2>1. (e > 1 => Byte(1) = 105) /\ (e > 2 => Byte(2) = b[3])
    BY <1>6, <1>12
  <2>2. e > 2 => escCommandLen = l
    <3>1. CASE e > 2
      <4>1. Byte(1) = 105 /\ Byte(2) = b[3]
        BY <2>1, <3>1
      <4>2. escCommandLen =
              CASE Byte(2) \in {97, 77, 65, 75} -> 4 [] Byte(2) = 100 -> 5 [] Byte(2) = 122 -> 13 [] OTHER -> 3
        BY <1>1, <3>1, <4>1, EscapeLength, Zenon
      <4>3. <<Byte(2), l>> \in Lengths
        BY <1>12, <4>1, Zenon
      <4> QED BY <4>2, <4>3, Agreed, Zenon
    <3> QED BY <3>1
  <2>3. (e = 1 => escCommandLen = 1) /\ (e = 2 => escCommandLen = 2)
    BY <1>1, <2>1, EscapeLength
  <2>4. e = 1 \/ e = 2 \/ e > 2
    OBVIOUS
  <2>5. CASE e > 2
    BY <1>7, <1>10, <1>12, <2>2, <2>5
  <2>6. CASE e = 1 \/ e = 2
    BY <1>8, <1>10, <1>12, <2>3, <2>6
  <2> QED BY <2>4, <2>5, <2>6
<1>13. \/ l = 1 /\ b[1] \notin {27, 77, 90, 103}
       \/ b = <<27, 64>>
       \/ l > 2 /\ b[1] = 27 /\ b[2] = 105 /\ <<b[3], l>> \in Lengths
  <2>1. Len(b) = l
    BY <1>1
  <2> QED BY <1>2, <2>1, Zenon DEF Whole
<1> QED BY <1>9, <1>11, <1>12, <1>13

\* A mode command sets the mode.
LEMMA ModeStep ==
  ASSUME NEW n \in Nat, NEW c \in 0 .. n - 1, Facing(n, c), job[c + 1].cmd = "mode", WalkStep
  PROVE  OnTrack(n)'
<1>1. PICK b \in Seq(Octet), l \in Nat \ {0}, e \in Nat \ {0} :
             /\ b = Bytes(job, c + 1) /\ l = Len(b) /\ e = Left /\ Len(doc) = at + e
             /\ Sound(job[c + 1])
             /\ Len(Upto(job, c + 1)) = at + l
             /\ \A j \in 0 .. l - 1 : j < e => Byte(j) = b[j + 1]
  BY Reads
<1>2. PICK m \in {0, 2} : m = job[c + 1].data[1] /\ b = <<77, m>>
  BY <1>1, OtherBytes
<1>3. l = 2 /\ b[1] = 77 /\ b[2] = m
  BY <1>1, <1>2
<1>4. at \in Nat /\ c \in Nat
  BY DEF Facing
<1>5. Byte(0) = 77 /\ (e > 1 => Byte(1) = m)
  <2>1. 0 \in 0 .. l - 1 /\ 0 < e /\ 0 + 1 = 1 /\ 1 \in 0 .. l - 1 /\ (e > 1 => 1 < e) /\ 1 + 1 = 2
    BY <1>3
  <2> QED BY <1>1, <1>3, <2>1
<1>6. Mode
  BY <1>5, FirstByte
<1>7. LinesOf(c + 1) = lines
  <2>1. "mode" \notin {"line", "blank"}
    OBVIOUS
  <2>2. LinesOf(c + 1) = LinesOf(c)
    BY <1>4, <2>1, LinesMore, Zenon
  <2> QED BY <2>2, Zenon DEF Facing
<1>8. ModeAt(job, c + 1) = (m = 2)
  <2>1. ModeAt(job, c + 1) = (job[c + 1].data = <<2>>)
    BY <1>4, ModeMore, Zenon
  <2>2. PICK d \in {<<0>>, <<2>>} : d = job[c + 1].data
    BY <1>1 DEF Sound
  <2>3. d[1] = m
    BY <1>2, <2>2
  <2>4. (d = <<2>>) = (m = 2)
    BY <2>3
  <2> QED BY <2>1, <2>2, <2>4
<1>9. CASE e > 1
  <2>1. compressed' = (m = 2) /\ at' = at + 2 /\ lines' = lines /\ job' = job /\ doc' = doc
    BY <1>1, <1>5, <1>6, <1>9 DEF Mode
  <2>2. at' = Len(Upto(job, c + 1)) /\ lines' = LinesOf(c + 1) /\ compressed' = ModeAt(job, c + 1)
    BY <1>1, <1>3, <1>7, <1>8, <2>1
  <2> QED BY <2>1, <2>2, Advance
<1>10. CASE ~ e > 1
  <2>1. at' = at + 1 /\ lines' = lines /\ job' = job /\ doc' = doc
    BY <1>1, <1>6, <1>10 DEF Mode
  <2>2. at' \in Nat /\ at' >= Len(doc) /\ Len(doc) < Len(Upto(job, c + 1))
    BY <1>1, <1>3, <1>4, <1>10, <2>1
  <2> QED BY <2>1, <2>2, BreaksOff
<1> QED BY <1>9, <1>10

\* A blank line.
LEMMA BlankStep ==
  ASSUME NEW n \in Nat, NEW c \in 0 .. n - 1, Facing(n, c), job[c + 1].cmd = "blank", WalkStep
  PROVE  OnTrack(n)'
<1>1. PICK b \in Seq(Octet), l \in Nat \ {0}, e \in Nat \ {0} :
             /\ b = Bytes(job, c + 1) /\ l = Len(b) /\ e = Left /\ Len(doc) = at + e
             /\ Sound(job[c + 1])
             /\ Len(Upto(job, c + 1)) = at + l
             /\ \A j \in 0 .. l - 1 : j < e => Byte(j) = b[j + 1]
  BY Reads
<1>2. b = <<90>> /\ job[c + 1].data = <<>>
  BY <1>1, OtherBytes DEF Sound
<1>3. l = 1 /\ b[1] = 90 /\ c \in Nat
  BY <1>1, <1>2
<1>4. Byte(0) = 90
  <2>1. 0 \in 0 .. l - 1 /\ 0 < e /\ 0 + 1 = 1
    OBVIOUS
  <2> QED BY <1>1, <1>3, <2>1
<1>5. lines' = Append(lines, Line(<<>>)) /\ at' = at + 1 /\ job' = job /\ doc' = doc /\ compressed' = compressed
  <2>1. Blank
    BY <1>4, FirstByte
  <2> QED BY <2>1 DEF Blank
<1>6. LinesOf(c + 1) = Append(lines, Line(<<>>))
  <2>1. "blank" \in {"line", "blank"}
    OBVIOUS
  <2>2. LinesOf(c + 1) = Append(LinesOf(c), Line(job[c + 1].data))
    BY <1>3, <2>1, LinesMore, Zenon
  <2>3. lines = LinesOf(c)
    BY DEF Facing
  <2> QED BY <1>2, <2>2, <2>3, Zenon
<1>7. ModeAt(job, c + 1) = compressed
  <2>1. "blank" # "mode"
    OBVIOUS
  <2>2. ModeAt(job, c + 1) = ModeAt(job, c)
    BY <1>3, <2>1, ModeMore, Zenon
  <2> QED BY <2>2, Zenon DEF Facing
<1>8. at' = Len(Upto(job, c + 1)) /\ lines' = LinesOf(c + 1) /\ compressed' = ModeAt(job, c + 1)
  BY <1>1, <1>3, <1>5, <1>6, <1>7
<1> QED BY <1>5, <1>8, Advance

\* A line, compressed or not, is taken as it was before it was packed.
LEMMA LineStep ==
  ASSUME NEW n \in Nat, NEW c \in 0 .. n - 1, Facing(n, c), job[c + 1].cmd = "line", WalkStep
  PROVE  OnTrack(n)'
<1>1. PICK b \in Seq(Octet), l \in Nat \ {0}, e \in Nat \ {0} :
             /\ b = Bytes(job, c + 1) /\ l = Len(b) /\ e = Left /\ Len(doc) = at + e
             /\ Sound(job[c + 1])
             /\ Len(Upto(job, c + 1)) = at + l
             /\ \A j \in 0 .. l - 1 : j < e => Byte(j) = b[j + 1]
  BY Reads
<1>2. PICK s \in Seq(Octet) :
             /\ s = Wired(job, c + 1) /\ l = 3 + Len(s) /\ b[1] = 103 /\ b[3] = Len(s)
             /\ \A t \in 1 .. Len(s) : b[3 + t] = s[t]
  BY <1>1, LineBytes DEF IsLine
<1>3. PICK z \in Nat : z = Len(s)
  OBVIOUS
<1>4. l = 3 + z /\ b[3] = z /\ \A t \in 1 .. z : b[3 + t] = s[t]
  BY <1>2, <1>3
<1>5. at \in Nat /\ c \in Nat
  BY DEF Facing
<1>6. Byte(0) = 103 /\ (e > 2 => Byte(2) = z)
  <2>1. 0 \in 0 .. l - 1 /\ 0 < e /\ 0 + 1 = 1 /\ 2 \in 0 .. l - 1 /\ (e > 2 => 2 < e) /\ 2 + 1 = 3
    BY <1>4
  <2> QED BY <1>1, <1>2, <1>4, <2>1
<1>7. Graphics
  BY <1>6, FirstByte
<1>8. job' = job /\ doc' = doc /\ compressed' = compressed
  BY <1>7 DEF Graphics
<1>9. ModeAt(job, c + 1) = compressed
  <2>1. "line" # "mode"
    OBVIOUS
  <2>2. ModeAt(job, c + 1) = ModeAt(job, c)
    BY <1>5, <2>1, ModeMore, Zenon
  <2> QED BY <2>2, Zenon DEF Facing
<1>10. CASE e > 2 /\ e >= 3 + z
  <2> DEFINE data == SubSeq(doc, at + 4, at + 3 + Byte(2))
  <2>1. at' = at + 3 + Byte(2) /\ lines' = Append(lines, Line(IF compressed THEN packbitsDecode(data) ELSE data))
    BY <1>1, <1>6, <1>7, <1>10 DEF Graphics
  <2>2. data = s
    <3>1. Byte(2) = z
      BY <1>6, <1>10
    <3>2. data = SubSeq(doc, at + 4, at + 3 + z)
      BY <3>1
    <3>3. ASSUME NEW t \in 1 .. z PROVE doc[at + 4 + t - 1] = s[t]
      <4>1. 2 + t \in 0 .. l - 1 /\ 2 + t < e /\ (2 + t) + 1 = 3 + t /\ at + (2 + t) + 1 = at + 4 + t - 1
        <5>1. l = 3 + z
          BY <1>4
        <5> QED BY <5>1, <1>5, <1>10
      <4>2. Byte(2 + t) = b[(2 + t) + 1]
        BY <1>1, <4>1
      <4>3. doc[at + (2 + t) + 1] = b[(2 + t) + 1]
        BY <4>2 DEF Byte
      <4> QED BY <1>4, <4>1, <4>3
    <3>4. ASSUME NEW i \in at + 4 .. at + 3 + z PROVE doc[i] \in Octet
      <4>1. PICK t \in 1 .. z : t = i - (at + 3)
        BY <1>5
      <4>2. at + 4 + t - 1 = i
        BY <1>5, <4>1
      <4>3. s[t] \in Octet
        BY <1>3, ElementOfSeq
      <4> QED BY <3>3, <4>2, <4>3
    <3> DEFINE q == SubSeq(doc, at + 4, at + 3 + z)
    <3>5. q \in Seq(Octet) /\ Len(q) = z /\ \A t \in 1 .. z : q[t] = doc[at + 4 + t - 1]
      <4>1. at + 4 \in Int /\ at + 3 + z \in Int /\ (at + 3 + z) - (at + 4) + 1 = z /\ (at + 4 > at + 3 + z => z = 0)
        BY <1>5
      <4>2. /\ q \in Seq(Octet) /\ Len(q) = IF at + 4 <= at + 3 + z THEN (at + 3 + z) - (at + 4) + 1 ELSE 0
            /\ \A t \in 1 .. (at + 3 + z) - (at + 4) + 1 : q[t] = doc[at + 4 + t - 1]
        BY <3>4, <4>1, SubSeqProperties
      <4> HIDE DEF q
      <4> QED BY <1>5, <4>1, <4>2
    <3> HIDE DEF q
    <3>6. q = s
      BY <1>3, <3>3, <3>5, SeqEqual
    <3> QED BY <3>2, <3>6 DEF q
  <2>3. (IF compressed THEN packbitsDecode(s) ELSE s) = job[c + 1].data
    <3>1. job[c + 1].data \in Seq(Octet) /\ Len(job[c + 1].data) \in 1 .. 128 /\ job[c + 1].split \in SplitsOf(job[c + 1].data)
      BY <1>1 DEF Sound
    <3>2. packbitsDecode(Packed(job[c + 1].data, job[c + 1].split)) = job[c + 1].data
      BY <3>1, PackedUnpacks
    <3>3. s = IF compressed THEN Packed(job[c + 1].data, job[c + 1].split) ELSE job[c + 1].data
      BY <1>2, <1>9, Zenon DEF Wired
    <3> QED BY <3>2, <3>3, Zenon
  <2> HIDE DEF data
  <2>4. lines' = Append(lines, Line(job[c + 1].data))
    BY <2>1, <2>2, <2>3, Zenon
  <2>5. LinesOf(c + 1) = Append(lines, Line(job[c + 1].data))
    <3>1. "line" \in {"line", "blank"}
      OBVIOUS
    <3>2. lines = LinesOf(c)
      BY DEF Facing
    <3>3. LinesOf(c + 1) = Append(LinesOf(c), Line(job[c + 1].data))
      BY <1>5, <3>1, LinesMore, Zenon
    <3> QED BY <3>2, <3>3, Zenon
  <2>6. at' = Len(Upto(job, c + 1))
    <3>1. Byte(2) = z
      BY <1>6, <1>10
    <3>2. at' = at + 3 + z
      BY <2>1, <3>1
    <3> QED BY <1>1, <1>4, <1>5, <3>2
  <2>7. lines' = LinesOf(c + 1) /\ compressed' = ModeAt(job, c + 1)
    BY <1>8, <1>9, <2>4, <2>5, Zenon
  <2> QED BY <1>8, <2>6, <2>7, Advance
<1>11. CASE ~ (e > 2 /\ e >= 3 + z)
  <2>1. ~ (Left > 2 /\ Left >= 3 + Byte(2))
    BY <1>1, <1>6, <1>11
  <2>2. at' = Len(doc) /\ lines' = lines
    BY <1>7, <2>1, Zenon DEF Graphics
  <2>3. at' \in Nat /\ at' >= Len(doc) /\ Len(doc) < Len(Upto(job, c + 1))
    BY <1>1, <1>4, <1>5, <1>11, <2>2
  <2> QED BY <1>8, <2>2, <2>3, BreaksOff
<1> QED BY <1>10, <1>11

\* Every step of the walk is over one command.
LEMMA OnTrackStep ==
  ASSUME NEW n \in Nat, OnTrack(n), WalkStep
  PROVE  OnTrack(n)'
<1>1. Walking
  BY DEF WalkStep, Skip, Mode, Blank, Graphics, Escape
<1>2. PICK c \in 0 .. n - 1 : Facing(n, c)
  BY <1>1, Faces
<1>3. Sound(job[c + 1])
  BY <1>2 DEF Facing, Rendered
<1>4. job[c + 1].cmd \in {"header", "mode", "blank", "line"}
  BY <1>3 DEF Sound
<1>5. CASE job[c + 1].cmd = "header"
  BY <1>2, <1>5, HeaderStep
<1>6. CASE job[c + 1].cmd = "mode"
  BY <1>2, <1>6, ModeStep
<1>7. CASE job[c + 1].cmd = "blank"
  BY <1>2, <1>7, BlankStep
<1>8. CASE job[c + 1].cmd = "line"
  BY <1>2, <1>8, LineStep
<1> QED BY <1>4, <1>5, <1>6, <1>7, <1>8

\* What the server renders are sound commands.
LEMMA CommandsSound ==
  /\ \A p \in Preambles : \A c \in 1 .. Len(p) : Sound(Header(p[c]))
  /\ \A c \in Commands : Sound(c)
<1>1. ASSUME NEW b \in Headers PROVE Sound(Header(b))
  <2>1. b \in Seq(Octet) /\ Whole(b)
    BY BrotherRasterAssumption, CommandAssumption DEF Octet
  <2> QED BY <2>1 DEF Sound, Header
<1>2. ASSUME NEW p \in Preambles, NEW c \in 1 .. Len(p) PROVE Sound(Header(p[c]))
  <2>1. p \in Seq(Seq(Octet)) /\ Whole(p[c])
    BY BrotherRasterAssumption, CommandAssumption DEF Octet
  <2>2. p[c] \in Seq(Octet)
    BY <2>1, ElementOfSeq
  <2> QED BY <2>1, <2>2 DEF Sound, Header
<1>3. ASSUME NEW m \in {0, 2} PROVE Sound([cmd |-> "mode", data |-> <<m>>, split |-> 0])
  BY DEF Sound
<1>4. Sound([cmd |-> "blank", data |-> <<>>, split |-> 0])
  BY DEF Sound
<1>5. ASSUME NEW d \in LineData, NEW t \in SplitsOf(d) PROVE Sound([cmd |-> "line", data |-> d, split |-> t])
  <2>1. d \in Seq(Octet) /\ Len(d) \in 1 .. 128
    BY BrotherRasterAssumption, CommandAssumption DEF Octet
  <2> QED BY <2>1 DEF Sound
<1>6. ASSUME NEW c \in Commands PROVE Sound(c)
  BY <1>1, <1>3, <1>4, <1>5 DEF Commands
<1> QED BY <1>2, <1>6

\* A payload is a job, or begins one, and the walk stands before its first command.
LEMMA WalkStarts == DocInit => \E n \in Nat : OnTrack(n)
<1> SUFFICES ASSUME DocInit PROVE \E n \in Nat : OnTrack(n)
  OBVIOUS
<1>1. PICK p \in Preambles, m \in 0 .. MaxCommands :
        \E body \in [1 .. m -> Commands] :
          /\ job = [c \in 1 .. Len(p) |-> Header(p[c])] \o body
          /\ \E cut \in Len(Upto(job, Len(job) - 1)) .. Len(Upto(job, Len(job))) :
               doc = SubSeq(Upto(job, Len(job)), 1, cut)
  BY DEF DocInit
<1>2. PICK body \in [1 .. m -> Commands] :
          /\ job = [c \in 1 .. Len(p) |-> Header(p[c])] \o body
          /\ \E cut \in Len(Upto(job, Len(job) - 1)) .. Len(Upto(job, Len(job))) :
               doc = SubSeq(Upto(job, Len(job)), 1, cut)
  BY <1>1
<1>3. PICK r \in Nat : r = Len(p)
  BY BrotherRasterAssumption
<1> DEFINE n == r + m
           head == [c \in 1 .. r |-> Header(p[c])]
           All == {Header(p[c]) : c \in 1 .. r} \cup Commands
<1>4. m \in Nat /\ n \in Nat
  BY BrotherRasterAssumption
<1>5. \A c \in All : Sound(c)
  BY <1>3, CommandsSound
<1>6. head \in Seq(All) /\ Len(head) = r
  <2>1. \A c \in 1 .. r : Header(p[c]) \in All
    OBVIOUS
  <2> HIDE DEF All
  <2> QED BY <2>1
<1>7. body \in Seq(All) /\ Len(body) = m
  <2>1. \A c \in 1 .. m : body[c] \in All
    OBVIOUS
  <2> HIDE DEF All
  <2> QED BY <1>4, <2>1
<1>8. job = head \o body
  BY <1>2, <1>3
<1> HIDE DEF head, All
<1>9. job \in Seq(All) /\ Len(job) = n
  BY <1>4, <1>6, <1>7, <1>8, ConcatProperties
<1> HIDE DEF n
<1>10. \A c \in 1 .. n : Sound(job[c])
  <2>1. \A c \in 1 .. n : job[c] \in All
    BY <1>9
  <2> QED BY <1>5, <2>1
<1>11. PICK u \in Seq(Octet) : u = Upto(job, n)
  <2>1. n \in 0 .. n
    BY <1>4
  <2> QED BY <1>4, <1>10, <2>1, UptoType
<1>12. Len(Upto(job, n - 1)) \in Nat
  <2>1. CASE n = 0
    <3>1. [t \in 1 .. n - 1 |-> Bytes(job, t)] = [t \in 1 .. 0 |-> Bytes(job, t)]
      BY <2>1
    <3>2. Upto(job, n - 1) = Upto(job, 0)
      BY <3>1, Zenon DEF Upto
    <3>3. Upto(job, n - 1) = <<>>
      BY <3>2, UptoNone, Zenon
    <3> QED BY <3>3
  <2>2. CASE n # 0
    <3>1. n - 1 \in 0 .. n
      BY <1>4, <2>2
    <3> QED BY <1>4, <1>10, <3>1, UptoType
  <2> QED BY <2>1, <2>2
<1>13. PICK low \in Nat : low = Len(Upto(job, n - 1))
  BY <1>12
<1>14. PICK high \in Nat : high = Len(u)
  OBVIOUS
<1>15. PICK cut \in low .. high : doc = SubSeq(u, 1, cut)
  <2>1. PICK cut \in Len(Upto(job, n - 1)) .. Len(Upto(job, n)) : doc = SubSeq(Upto(job, n), 1, cut)
    BY <1>2, <1>9
  <2> QED BY <1>11, <1>13, <1>14, <2>1, Zenon
<1>16. cut \in Nat /\ cut <= high
  OBVIOUS
<1>17. Len(doc) = cut
  <2>1. \A i \in 1 .. cut : u[i] \in Octet
    BY <1>14, <1>16, ElementOfSeq
  <2>2. Len(SubSeq(u, 1, cut)) = IF 1 <= cut THEN cut - 1 + 1 ELSE 0
    BY <1>16, <2>1, SubSeqProperties
  <2> QED BY <1>15, <1>16, <2>2
<1>18. Rendered(n)
  <2>1. Len(doc) <= Len(Upto(job, n))
    BY <1>11, <1>14, <1>16, <1>17
  <2>2. doc = SubSeq(Upto(job, n), 1, Len(doc))
    BY <1>11, <1>15, <1>17, Zenon
  <2>3. Len(doc) \in Nat
    BY <1>16, <1>17
  <2> QED BY <1>9, <1>10, <2>1, <2>2, <2>3, Zenon DEF Rendered
<1>19. StandsAt(n, 0)
  <2>1. at = 0 /\ compressed = FALSE /\ lines = <<>>
    BY DEF DocInit
  <2>2. Len(Upto(job, 0)) = 0
    BY UptoNone
  <2> QED BY <2>1, <2>2, LinesNone, ModeNone, Zenon DEF StandsAt
<1>20. at \in Nat /\ 0 \in 0 .. n
  BY <1>4 DEF DocInit
<1> QED BY <1>4, <1>18, <1>19, <1>20, Zenon DEF OnTrack

\* Off the walk, what it reads stays.
LEMMA WalkFrame ==
  ASSUME WalkInv, UNCHANGED <<job, doc, at, compressed, lines>>, magic' = magic,
         phase' \in {"print", "decode"} => phase \in {"print", "decode"}
  PROVE  WalkInv'
<1> SUFFICES ASSUME magic' = "none", phase' \in {"print", "decode"} PROVE (\E n \in Nat : OnTrack(n))'
  BY DEF WalkInv
<1>1. PICK n \in Nat : OnTrack(n)
  BY DEF WalkInv
<1>2. Rendered(n)'
  BY <1>1 DEF OnTrack, Rendered
<1>3. PICK c \in 0 .. n : StandsAt(n, c)
  BY <1>1 DEF OnTrack
<1>4. LinesOf(c)' = LinesOf(c)
  BY DEF LinesOf
<1>5. StandsAt(n, c)'
  BY <1>3, <1>4 DEF StandsAt
<1>6. at' \in Nat
  BY <1>1 DEF OnTrack
<1> QED BY <1>2, <1>5, <1>6 DEF OnTrack

\* The walk stays on track.
LEMMA WalkInvStep == WalkInv /\ [Next]_vars => WalkInv'
<1> SUFFICES ASSUME WalkInv, [Next]_vars PROVE WalkInv'
  OBVIOUS
<1>1. ASSUME walkVars' = walkVars, magic' = magic, phase' \in {"print", "decode"} => phase \in {"print", "decode"}
      PROVE  WalkInv'
  BY <1>1, WalkFrame DEF walkVars
<1>2. CASE CheckSize
  BY <1>1, <1>2 DEF CheckSize, Fails
<1>3. ASSUME phase' \notin {"print", "decode"} PROVE WalkInv'
  BY <1>3 DEF WalkInv
<1>4. CASE DecodeImage \/ DecodeUnknown \/ DecodeRaster
  BY <1>3, <1>4 DEF DecodeImage, DecodeUnknown, DecodeRaster, Fails
<1>5. CASE DecodeWalk
  <2>1. phase = "decode" /\ magic = "none" /\ WalkStep /\ magic' = magic
    BY <1>5 DEF DecodeWalk
  <2>2. PICK n \in Nat : OnTrack(n)
    BY <2>1 DEF WalkInv
  <2>3. OnTrack(n)'
    BY <2>1, <2>2, OnTrackStep
  <2> QED BY <2>3 DEF WalkInv
<1>6. CASE Fit
  BY <1>3, <1>6 DEF Fit, Fails
<1>7. CASE EncodeAndPack
  <2>1. walkVars' = walkVars /\ magic' = magic /\ RasterStep
    BY <1>7 DEF EncodeAndPack
  <2>2. phase' \notin {"print", "decode"}
    BY <2>1 DEF RasterStep, EncodeRow, Encoded, SendRow, CheckLine, NextRun
  <2> QED BY <1>3, <2>2
<1>8. CASE UNCHANGED vars
  BY <1>1, <1>8 DEF vars, rasterVars
<1> QED BY <1>2, <1>4, <1>5, <1>6, <1>7, <1>8 DEF Next

\* A payload without a raster preamble has no walk to speak of; the others begin one.
LEMMA WalkInvInit == Init => WalkInv
<1> SUFFICES ASSUME Init, magic = "none" PROVE \E n \in Nat : OnTrack(n)
  BY DEF WalkInv
<1>1. DocInit
  BY DEF Init
<1> QED BY <1>1, WalkStarts

\* A walk on track is in sync.
LEMMA WalkExact == WalkInv => PayloadWalked
<1> SUFFICES ASSUME WalkInv, magic = "none", phase = "decode" PROVE WalkInSync
  BY DEF PayloadWalked
<1>1. PICK n \in Nat : OnTrack(n)
  BY DEF WalkInv
<1>2. PICK c \in 0 .. n : StandsAt(n, c)
  BY <1>1 DEF OnTrack
<1>3. Len(job) = n
  BY <1>1 DEF OnTrack, Rendered
<1>4. c \in 0 .. Len(job)
  BY <1>3
<1>5. lines = LinesOf(c) /\ (at = Len(Upto(job, c)) \/ (at >= Len(doc) /\ Len(doc) < Len(Upto(job, c + 1))))
  BY <1>2 DEF StandsAt
<1> QED BY <1>4, <1>5, Zenon DEF WalkInSync

\* decodeBrotherRaster walks every payload of a QL job, cut short or not, from command to
\* command, and has the lines of those it has passed.
THEOREM WalkStaysInSync == Spec => []PayloadWalked
<1>1. WalkInv /\ UNCHANGED vars => WalkInv'
  BY WalkInvStep
<1> QED BY WalkInvInit, WalkInvStep, WalkExact, PTL DEF Spec
=============================================================================
