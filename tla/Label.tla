------------------------------- MODULE Label --------------------------------
(***************************************************************************)
(* From a payload to the packets of a NIIMBOT printer, as                  *)
(* NiimbotBackend.Print goes about it before it opens the link:            *)
(* decodeToImage (render.go, with the walk of BrotherRaster), Fit and      *)
(* rotate90 (image.go), then Encode and RowPackets (LabelRaster).          *)
(*                                                                         *)
(* Pictures are opaque and of two colours.  Lengths are whole millimetres; *)
(* the quotients of Fit's floats are exact, but where one is an integer    *)
(* that the scale's rounding may miss, both roundings are possible.        *)
(***************************************************************************)
EXTENDS BrotherRaster, LabelRaster

CONSTANTS
  ByteBits,  \* pixels in a byte of a row (8)
  Pictures,  \* what PNG, JPEG, GIF and PDF payloads decode to
  Sizes,     \* PrintOptions: label widths and heights in millimetres
  DocSizes,  \* bound: those tried with a raster payload
  Dpi        \* the model's resolution

ASSUME LabelAssumption ==
  /\ ByteBits \in Nat \ {0} /\ Dpi \in Nat
  /\ \A g \in Pictures : g.w \in Nat \ {0} /\ g.h \in Nat \ {0} /\ g.ink \subseteq (0 .. g.w - 1) \X (0 .. g.h - 1)
  /\ \A z \in Sizes \cup DocSizes : z \in Int \X Int

\* The heads of the model table have 384 or 96 pixels: whole bytes in every third, and
\* no more pixels in a third than a count byte holds.
ASSUME HeadAssumption == HeadBytes % 3 = 0 /\ ByteBits * (HeadBytes \div 3) <= ByteMax

VARIABLES
  magic,  \* what the payload begins with: "pdf", an "image" format, or neither
  size,   \* PrintOptions' label size
  fitted  \* what Fit chose: the turned picture, the scale, the size and place of its copy

encodeVars == <<mode, rows, y, runs, k, nextCheck, packets>>
vars == <<magic, size, fitted, walkVars, rasterVars>>

NoFit == [g |-> NoPicture, num |-> 1, den |-> 1, short |-> FALSE, dw |-> 0, dh |-> 0, ox |-> 0, oy |-> 0]

Init ==
  /\ \/ magic = "none" /\ DocInit /\ size \in DocSizes
     \/ /\ magic \in {"pdf", "image"} /\ size \in Sizes
        /\ job = <<>> /\ doc = <<>> /\ at = 0 /\ compressed = FALSE /\ lines = <<>> /\ picture = NoPicture
  /\ fitted = NoFit
  /\ RasterInit /\ phase = "print"

Fails ==
  /\ phase' = "failed"
  /\ UNCHANGED <<magic, size, fitted, walkVars, encodeVars>>

\* Print: a label needs both dimensions.
CheckSize ==
  /\ phase = "print"
  /\ \/ size[1] > 0 /\ size[2] > 0 /\ phase' = "decode"
        /\ UNCHANGED <<magic, size, fitted, walkVars, encodeVars>>
     \/ (size[1] <= 0 \/ size[2] <= 0) /\ Fails

-----------------------------------------------------------------------------
(* decodeToImage *)

\* A PDF goes to sips, which may fail; PNG, JPEG and GIF to the image package.
DecodeImage ==
  /\ phase = "decode" /\ magic \in {"pdf", "image"}
  /\ \/ /\ picture' \in Pictures
        /\ phase' = "fit"
        /\ UNCHANGED <<magic, size, fitted, job, doc, at, compressed, lines, encodeVars>>
     \/ magic = "pdf" /\ Fails

\* No preamble, or no line: an unrecognised payload.
DecodeUnknown ==
  /\ phase = "decode" /\ magic = "none"
  /\ ~ looksLikeBrotherRaster \/ (~ Walking /\ lines = <<>>)
  /\ Fails

DecodeWalk ==
  /\ phase = "decode" /\ magic = "none" /\ looksLikeBrotherRaster
  /\ WalkStep
  /\ UNCHANGED <<magic, size, fitted, rasterVars>>

\* The payload is not looked at again: the model forgets it.
DecodeRaster ==
  /\ phase = "decode" /\ magic = "none" /\ looksLikeBrotherRaster
  /\ ~ Walking /\ lines # <<>>
  /\ picture' = rasterRowsToImage
  /\ job' = <<>> /\ doc' = <<>> /\ at' = 0 /\ compressed' = FALSE
  /\ phase' = "fit"
  /\ UNCHANGED <<magic, size, fitted, lines, encodeVars>>

-----------------------------------------------------------------------------
(* Fit *)

\* int(mm / 25.4 * dpi + 0.5)
Pixels(mm) == (10 * mm * Dpi + 127) \div 254

Cols      == Smaller(Pixels(size[1]), ByteBits * HeadBytes)
LabelRows == Pixels(size[2])
TooSmall  == Cols < ByteBits \/ LabelRows < 1

\* Mutant of rotate90: turned about the wrong corner.
rotate90Mirrors(g) == [w |-> g.h, h |-> g.w, ink |-> {<<p[2], p[1]>> : p \in g.ink}]

rotate90(g) == [w |-> g.h, h |-> g.w, ink |-> {<<g.h - 1 - p[2], p[1]>> : p \in g.ink}]

Turned == IF (picture.w > picture.h) # (Cols > LabelRows) THEN rotate90(picture) ELSE picture

\* The scale num / den is the smaller of Cols / w and LabelRows / h; the copy is as
\* large as it makes the picture, rounded, and centred.
Placed(g, exact) ==
  LET wide == Cols * g.h <= LabelRows * g.w
      num  == IF wide THEN Cols ELSE LabelRows
      den  == IF wide THEN g.w ELSE g.h
      dw   == (2 * g.w * num + den) \div (2 * den)
      dh   == (2 * g.h * num + den) \div (2 * den)
  IN  [g |-> g, num |-> num, den |-> den,
       \* A scale that is not a binary fraction is rounded.
       short |-> ~ exact /\ \A e \in 0 .. 8 : (num * 2^e) % den # 0,
       dw |-> dw, dh |-> dh, ox |-> (Cols - dw) \div 2, oy |-> (LabelRows - dh) \div 2]

\* int(n / s): an exact quotient may come out below the integer.
Edge(f, n) ==
  LET q == (n * f.den) \div f.num
  IN  IF f.short /\ n > 0 /\ (n * f.den) % f.num = 0 THEN q - 1 ELSE q

\* The source pixels averaged for pixel n of the copy, along a side of the given length.
Span(f, n, len) == Edge(f, n) .. Smaller(Larger(Edge(f, n + 1), Edge(f, n) + 1), len) - 1

\* The grey is cut to eight bits and compared with one half: Encode's threshold.
Dark(f, x, w) ==
  LET box   == Span(f, x, f.g.w) \X Span(f, w, f.g.h)
      white == Cardinality(box \ f.g.ink)
  IN  box # {} /\ 255 * white < 128 * Cardinality(box)

\* The black pixels of the label.
Page(f) == {p \in (f.ox .. f.ox + f.dw - 1) \X (f.oy .. f.oy + f.dh - 1) : Dark(f, p[1] - f.ox, p[2] - f.oy)}

Fit ==
  /\ phase = "fit"
  /\ \/ TooSmall /\ Fails
     \/ /\ ~ TooSmall
        /\ \E exact \in BOOLEAN : fitted' = Placed(Turned, exact)
        /\ LET page == Page(fitted') IN
           rows' = [w \in 0 .. LabelRows - 1 |->
                     [b \in 1 .. (Cols + ByteBits - 1) \div ByteBits |->
                       {x \in 0 .. ByteBits - 1 : <<ByteBits * (b - 1) + x, w>> \in page}]]
        /\ phase' = "encode"
        /\ UNCHANGED <<magic, size, walkVars, mode, y, runs, k, nextCheck, packets>>

EncodeAndPack == RasterStep /\ UNCHANGED <<magic, size, fitted, walkVars>>

Next ==
  \/ CheckSize
  \/ DecodeImage \/ DecodeUnknown \/ DecodeWalk \/ DecodeRaster
  \/ Fit \/ EncodeAndPack

Spec == Init /\ [][Next]_vars

-----------------------------------------------------------------------------
(* Properties *)

\* What the packets make the head print, as pixels of the label.
Printed ==
  UNION {UNION {{<<ByteBits * (b - 1) + x, w>> : w \in RowsOf(i), x \in packets[i].bits[b]} :
                  b \in (1 .. HeadBytes) \cap DOMAIN packets[i].bits} : i \in 1 .. Len(packets)}

\* Where dot p of the picture is in the turned one: the reader turns it clockwise.
Seen(p) == IF fitted.g = picture THEN p ELSE <<picture.h - 1 - p[2], p[1]>>

\* Pixel q of the label shows dot p of the picture.
Shows(q, p) ==
  LET x == q[1] - fitted.ox
      w == q[2] - fitted.oy
  IN  /\ x \in 0 .. fitted.dw - 1 /\ w \in 0 .. fitted.dh - 1
      /\ Seen(p)[1] \in Span(fitted, x, fitted.g.w) /\ Seen(p)[2] \in Span(fitted, w, fitted.g.h)

\* From the picture to the head: a label at least as large as the picture shows every dot
\* of it, except that the rounding of the copy's size may cut off the last line or column
\* (as the label has it); and no label has ink where the picture has none.
InkPrinted ==
  phase = "done" =>
    /\ \A q \in Printed : \E p \in picture.ink : Shows(q, p)
    /\ fitted.num >= fitted.den =>
         \A p \in picture.ink :
           \/ \E q \in Printed : Shows(q, p)
           \/ Seen(p)[1] = fitted.g.w - 1 \/ Seen(p)[2] = fitted.g.h - 1

\* The walk, while there is a payload to walk.
PayloadWalked == magic = "none" /\ phase = "decode" => WalkInSync
=============================================================================
