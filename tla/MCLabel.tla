------------------------------ MODULE MCLabel -------------------------------
(* Instances of Label for TLC: a QL head of two bytes, a NIIMBOT head of six bytes of
   two pixels, about one pixel to the millimetre. *)
EXTENDS Label

\* ESC @ behind nulls, ESC i a and nulls, and no preamble.
MCPreambles == {<<<<0>>, <<27, 64>>>>, <<<<27, 105, 97, 1>>, <<0>>>>, <<>>}

\* Print information and margins whose operands look like commands; status request; print.
MCHeaders ==
  {<<27, 105, 122, 103, 0, 2, 90, 77, 2, 27, 105, 90, 103>>, <<27, 105, 100, 90, 103>>, <<27, 105, 83>>, <<26>>}

\* Dots that look like commands, a line of equal bytes, a short one.
MCLineData == {<<103, 27>>, <<90, 90>>, <<128>>}

Pic(w, h, ink) == [w |-> w, h |-> h, ink |-> ink]
MCPictures ==
  {Pic(3, 2, {<<0, 0>>, <<1, 0>>, <<1, 1>>}), Pic(2, 5, {<<0, 0>>, <<0, 1>>, <<0, 2>>, <<0, 3>>, <<1, 2>>}),
   Pic(4, 4, (0 .. 3) \X (0 .. 3)), Pic(10, 4, {<<2, 0>>, <<3, 1>>, <<4, 2>>, <<9, 3>>}), Pic(9, 1, {<<4, 0>>})}

MCSizes == {<<11, 5>>, <<12, 6>>, <<5, 9>>, <<3, 2>>, <<20, 7>>, <<0, 5>>, <<1, 5>>}

\* Raster payloads are tried on a wide and on a tall label.
MCDocSizes == {<<12, 6>>, <<5, 9>>}
=============================================================================
