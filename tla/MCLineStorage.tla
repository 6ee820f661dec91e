--------------------------- MODULE MCLineStorage ---------------------------
(***************************************************************************)
(* Small instances of LineStorage for TLC: lines of at most LineSize - 1   *)
(* bytes, every byte of a different value, so that a byte tells which line *)
(* and which place it comes from.                                          *)
(***************************************************************************)
EXTENDS LineStorage

CONSTANTS p1, p2

BufferOf(bytes) == [a \in 0..(LineSize - 1) |-> bytes[a + 1]]

\* The empty line of a machine that has just started.
BlankBuffer == BufferOf(<<0, 0, 0>>)
\* A short line, a full one, one without a terminator, one with an LF.
SomeBuffers == {BufferOf(b) : b \in {<<65, 0, 0>>, <<66, 67, 0>>, <<65, 67, 68>>, <<65, LF, 0>>}}
\* Two lines of different length, for two processes.
TwoBuffers == {BufferOf(b) : b \in {<<65, 0, 0>>, <<66, 67, 0>>}}
\* Lines that can be loaded and contents that cannot: too long, an LF, a NUL.
SomeFiles == {NoFile, <<>>, <<69, 70>>, <<69, 70, 71>>, <<69, LF>>, <<0, 70>>}
TwoFiles == {NoFile}

OneProc == {p1}
TwoProcs == {p1, p2}
=============================================================================
