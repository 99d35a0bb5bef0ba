--------------------------- MODULE MCNiimbotLink ----------------------------
(* Instances of NiimbotLink for TLC: bytes of three bits, head 101, tail 010. *)
EXTENDS NiimbotLink

Pkt(c, d) == [cmd |-> c, data |-> d]

\* An empty packet, and data that looks like the tail and holds a head byte.
MCGood == {Pkt(1, <<>>), Pkt(3, <<5, 2>>)}

\* A frame with a bad checksum, one with a bad tail, one whose length was corrupted to
\* more than it holds, and a head, alone or with one byte more.
MCNoise ==
  {<<5, 5, 1, 1, 4, 0, 2, 2>>, <<5, 5, 1, 0, 1, 2, 3>>, <<5, 5, 1, 5, 1, 2, 2>>, <<5, 5>>, <<5, 5, 1>>}

\* Half a head.
MCHalfHead == {<<5>>}

\* Byte by byte, and chunks that end inside a frame or hold two of them.
MCSizes == {1, 4, 10, 18}

\* Every way to cut a stream.
MCAnySize == 1 .. 18
=============================================================================
