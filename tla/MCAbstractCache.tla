--------------------------- MODULE MCAbstractCache ---------------------------
(* A direct-mapped cache of four 16-byte lines and 128 bytes of memory.    *)
EXTENDS AbstractCache

MCTag == 0 .. 1

LineInterval(l) == <<16 * l, 16 * l + 12>>

\* Accesses to each line, to arrays within the first four lines and around
\* the set boundary, to an unknown address, and to a 56-byte array that begins
\* at the end of a line.
MCInterval ==
    { LineInterval(l) : l \in 0 .. 7 }
      \cup { <<16, 44>>, <<0, 60>>, <<28, 68>>, <<60, 64>>, <<44, 80>>, UnknownAddress, <<12, 64>> }
=============================================================================
