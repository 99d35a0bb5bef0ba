--------------------------- MODULE BrotherRaster ----------------------------
(***************************************************************************)
(* A print payload in the Brother QL raster language becomes a picture:    *)
(* looksLikeBrotherRaster, decodeBrotherRaster, packbitsDecode and         *)
(* rasterRowsToImage of internal/printer/render.go.  The payload is made   *)
(* of commands, some of whose operands look like commands, and may end     *)
(* early; the decoder walks its bytes, one step per command.               *)
(***************************************************************************)
EXTENDS Integers, Sequences, FiniteSets, FiniteSetsExt, SequencesExt

CONSTANTS
  BytesPerLine,  \* rasterBytesPerLine (90): the head of a QL-820NWB
  Margin,        \* blank dots kept around the ink (8)
  Preambles,     \* commands a payload may begin with, as sequences of byte sequences
  Headers,       \* commands without a line, as byte sequences
  LineData,      \* what a line may hold, as byte sequences
  MaxCommands    \* bound: commands after the preamble

ASSUME BrotherRasterAssumption ==
  /\ BytesPerLine \in Nat \ {0} /\ Margin \in Nat /\ MaxCommands \in Nat
  /\ \A b \in Headers \cup LineData : b \in Seq(0 .. 255)
  /\ \A p \in Preambles : p \in Seq(Seq(0 .. 255))

\* ESC i commands, as their third byte and their length: status request, switch mode,
\* various mode, auto cut, expanded mode, margins, print information.
Lengths == {<<83, 3>>, <<97, 4>>, <<77, 4>>, <<65, 4>>, <<75, 4>>, <<100, 5>>, <<122, 13>>}

\* b is one command of those that a QL job uses: padding or print, ESC @, or ESC i.
Whole(b) ==
  \/ Len(b) = 1 /\ b[1] \notin {27, 77, 90, 103}
  \/ b = <<27, 64>>
  \/ Len(b) > 2 /\ b[1] = 27 /\ b[2] = 105 /\ <<b[3], Len(b)>> \in Lengths

\* Headers are whole commands; a line has as many bytes as one PackBits run can hold.
ASSUME CommandAssumption ==
  /\ \A b \in Headers : Whole(b)
  /\ \A p \in Preambles : \A c \in 1 .. Len(p) : Whole(p[c])
  /\ \A d \in LineData : Len(d) \in 1 .. 128

VARIABLES
  job,         \* the commands of the payload, the preamble first
  doc,         \* its bytes, from 1
  at,          \* decodeBrotherRaster's i, from 0
  compressed,  \* M chose PackBits
  lines,       \* its rows
  picture      \* the decoded image: width, height and the black dots

walkVars == <<job, doc, at, compressed, lines, picture>>

Larger(a, b)  == IF a < b THEN b ELSE a
Smaller(a, b) == IF a < b THEN a ELSE b

NoPicture == [w |-> 0, h |-> 0, ink |-> {}]

-----------------------------------------------------------------------------
(* The payload (what the server renders; outside the repository) *)

\* PackBits: the first n bytes as a literal run, the others, if they are equal, as a
\* repeated one; with an idle byte 128 in front if nothing is repeated.
Packed(data, n) ==
  IF n = Len(data)
  THEN <<128, n - 1>> \o data
  ELSE (IF n = 0 THEN <<>> ELSE <<n - 1>> \o SubSeq(data, 1, n)) \o <<257 - (Len(data) - n), data[n + 1]>>

\* A repeated run is of two bytes at least.
SplitsOf(data) ==
  {n \in 0 .. Len(data) : n # Len(data) - 1 /\ \A k \in n + 1 .. Len(data) : data[k] = data[Len(data)]}

Header(b) == [cmd |-> "header", data |-> b, split |-> 0]
Commands ==
  {Header(b) : b \in Headers}
    \cup {[cmd |-> "mode", data |-> <<m>>, split |-> 0] : m \in {0, 2}}
    \cup {[cmd |-> "blank", data |-> <<>>, split |-> 0]}
    \cup UNION {{[cmd |-> "line", data |-> d, split |-> n] : n \in SplitsOf(d)} : d \in LineData}

\* The mode in force at command c of cs.
ModeAt(cs, c) == LET ms == {m \in 1 .. c : cs[m].cmd = "mode"} IN ms # {} /\ cs[Max(ms)].data = <<2>>

Bytes(cs, c) ==
  CASE cs[c].cmd = "header" -> cs[c].data
    [] cs[c].cmd = "mode"   -> <<77>> \o cs[c].data
    [] cs[c].cmd = "blank"  -> <<90>>
    [] OTHER -> LET d == IF ModeAt(cs, c) THEN Packed(cs[c].data, cs[c].split) ELSE cs[c].data
                IN  <<103, 0, Len(d)>> \o d

Upto(cs, c) == FlattenSeq([k \in 1 .. c |-> Bytes(cs, k)])

\* Any commands, and an end anywhere in the last one.
DocInit ==
  /\ \E p \in Preambles, n \in 0 .. MaxCommands :
       \E body \in [1 .. n -> Commands] :
         /\ job = [c \in 1 .. Len(p) |-> Header(p[c])] \o body
         /\ \E cut \in Len(Upto(job, Len(job) - 1)) .. Len(Upto(job, Len(job))) :
              doc = SubSeq(Upto(job, Len(job)), 1, cut)
  /\ at = 0 /\ compressed = FALSE /\ lines = <<>> /\ picture = NoPicture

-----------------------------------------------------------------------------
(* decodeBrotherRaster *)

looksLikeBrotherRaster ==
  \E i \in 1 .. Len(doc) - 1 :
    /\ \A k \in 1 .. i - 1 : doc[k] = 0
    /\ doc[i] = 27 /\ doc[i + 1] \in {64, 105}

Byte(i) == doc[at + i + 1]
Left    == Len(doc) - at
Walking == at < Len(doc)

Line(data) == [k \in 1 .. BytesPerLine |-> IF k <= Len(data) THEN data[k] ELSE 0]

\* packbitsDecode, from byte i of src on.  It stops once it has a whole line; what it
\* has beyond that is cut off by the copy into the row.
packbitsDecode(src) ==
  LET from[i \in 1 .. Len(src) + 130] ==
        IF i > Len(src) THEN <<>>
        ELSE CASE src[i] < 128 -> SubSeq(src, i + 1, Smaller(Len(src), i + 1 + src[i])) \o from[i + 2 + src[i]]
               [] src[i] > 128 -> IF i = Len(src) THEN <<>>
                                  ELSE [k \in 1 .. 257 - src[i] |-> src[i + 1]] \o from[i + 2]
               [] OTHER        -> from[i + 1]
  IN  from[1]

\* Padding, print, feed and unknown bytes.
Skip ==
  /\ Walking /\ Byte(0) \notin {77, 90, 103, 27}
  /\ at' = at + 1
  /\ UNCHANGED <<job, doc, compressed, lines, picture>>

Mode ==
  /\ Walking /\ Byte(0) = 77
  /\ IF Left > 1
     THEN compressed' = (Byte(1) = 2) /\ at' = at + 2
     ELSE at' = at + 1 /\ UNCHANGED compressed
  /\ UNCHANGED <<job, doc, lines, picture>>

Blank ==
  /\ Walking /\ Byte(0) = 90
  /\ lines' = Append(lines, Line(<<>>))
  /\ at' = at + 1
  /\ UNCHANGED <<job, doc, compressed, picture>>

\* A graphics transfer; one that ends early ends the walk.
Graphics ==
  /\ Walking /\ Byte(0) = 103
  /\ IF Left > 2 /\ Left >= 3 + Byte(2)
     THEN LET data == SubSeq(doc, at + 4, at + 3 + Byte(2)) IN
          /\ lines' = Append(lines, Line(IF compressed THEN packbitsDecode(data) ELSE data))
          /\ at' = at + 3 + Byte(2)
     ELSE at' = Len(doc) /\ UNCHANGED lines
  /\ UNCHANGED <<job, doc, compressed, picture>>

\* Mutant of escCommandLen: the operands of "print information" are not skipped.
escCommandLenShort ==
  IF Left < 2 THEN 1
  ELSE IF Left = 2 \/ Byte(1) # 105 THEN 2
  ELSE CASE Byte(2) \in {97, 77, 65, 75} -> 4
         [] Byte(2) = 100 -> 5
         [] OTHER -> 3

escCommandLen ==
  IF Left < 2 THEN 1
  ELSE IF Left = 2 \/ Byte(1) # 105 THEN 2
  ELSE CASE Byte(2) \in {97, 77, 65, 75} -> 4
         [] Byte(2) = 100 -> 5
         [] Byte(2) = 122 -> 13
         [] OTHER -> 3

Escape ==
  /\ Walking /\ Byte(0) = 27
  /\ at' = at + escCommandLen
  /\ UNCHANGED <<job, doc, compressed, lines, picture>>

WalkStep == Skip \/ Mode \/ Blank \/ Graphics \/ Escape

-----------------------------------------------------------------------------
(* rasterRowsToImage *)

Width  == 8 * BytesPerLine
Canvas == (0 .. Width - 1) \X (0 .. Len(lines) - 1)

\* Is dot px of a line inked, byte 1 and its highest bit first?
Bit(line, px) == (line[px \div 8 + 1] \div 2^(7 - (px % 8))) % 2 = 1

\* Mutant of Inked: the dots are not mirrored.
InkedAsSent == {p \in Canvas : Bit(lines[p[2] + 1], p[1])}

\* The head's dots run against the picture's x.
Inked == {p \in Canvas : Bit(lines[p[2] + 1], Width - 1 - p[1])}

\* The inked range of xs with its margin, within 0 .. n - 1.
Box(xs, n) == <<Larger(0, Min(xs) - Margin), Smaller(n - 1, Max(xs) + Margin)>>

rasterRowsToImage ==
  IF Inked = {}
  THEN [w |-> Width, h |-> Len(lines), ink |-> {}]
  ELSE LET bx == Box({p[1] : p \in Inked}, Width)
           by == Box({p[2] : p \in Inked}, Len(lines))
       IN  [w |-> bx[2] - bx[1] + 1, h |-> by[2] - by[1] + 1,
            ink |-> {<<p[1] - bx[1], p[2] - by[1]>> : p \in Inked}]

-----------------------------------------------------------------------------
(* Properties *)

\* The lines of the first c commands of the job, as the head would lay them down.
LinesOf(c) ==
  FlattenSeq([k \in 1 .. c |-> IF job[k].cmd \in {"line", "blank"} THEN <<Line(job[k].data)>> ELSE <<>>])

\* The walk never takes an operand or a dot pattern for a command: wherever it stands, it
\* stands behind a whole command and has the lines up to there and no other, compressed
\* or not, and a payload that ends early gives the lines that were complete.
WalkInSync ==
  \E c \in 0 .. Len(job) :
    /\ lines = LinesOf(c)
    /\ at = Len(Upto(job, c)) \/ (at >= Len(doc) /\ Len(doc) < Len(Upto(job, c + 1)))

\* The picture is the label: every inked dot and no other, mirrored, with the same
\* distances between them, inside the picture and with at most Margin around them.
PictureOfLines ==
  picture # NoPicture /\ lines # <<>> =>
    LET dots == {p \in Canvas : Bit(lines[p[2] + 1], p[1])}
        xs   == {p[1] : p \in picture.ink}
        ys   == {p[2] : p \in picture.ink}
    IN  /\ picture.ink \subseteq (0 .. picture.w - 1) \X (0 .. picture.h - 1)
        /\ IF dots = {} THEN picture.ink = {}
           ELSE /\ \E dx \in 0 .. Width - 1, dy \in 0 .. Len(lines) - 1 :
                     picture.ink = {<<dx - d[1], d[2] - dy>> : d \in dots}
                /\ {Min(xs), Min(ys), picture.w - 1 - Max(xs), picture.h - 1 - Max(ys)} \subseteq 0 .. Margin
=============================================================================
