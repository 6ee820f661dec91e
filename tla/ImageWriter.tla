---------------------------- MODULE ImageWriter ----------------------------
(***************************************************************************)
(* The process of tools/write-*-bin.c.  Each of these tools writes one     *)
(* program file: the instruction words from address 0 on, then texts at    *)
(* fixed addresses.  They differ in what they write and in which limits    *)
(* they check first; main() is the same in all of them, and this module    *)
(* follows it down to the calls of the host that may fail.                 *)
(*                                                                         *)
(* A stream holds bytes back.  How many is the host's business, so that    *)
(* when a write fails, or the process is killed, any initial part of the   *)
(* bytes held back may have reached the file.                              *)
(***************************************************************************)
EXTENDS Words, Sequences

CONSTANTS
    Writers,    \* the tools: see Writer
    ArgCounts,  \* the numbers of arguments a tool may be called with
    OldFiles,   \* what the output file may be beforehand
    Absent,     \* it does not exist
    NoExit,     \* no exit status: still running, or killed
    CloseFails, \* whether the write that fclose does may fail
    Cuts        \* bound: after how many bytes a delivery may break off

Unlimited == 1048576

\* A run of bytes with its place in the file.
Place == [at : Nat, bytes : Seq(Byte)]

\* name: the tool; length: the number of its instructions; pieces: the code,
\* then the texts, in the order written; maxInsts: MAX_INSTS; room: the bytes
\* there are for the code.  Tools that check no limit have Unlimited there.
Writer == [name : STRING, length : Nat, pieces : Seq(Place), maxInsts : Nat, room : Nat]

ASSUME WritersAssumption == Writers \subseteq Writer
ASSUME ArgCountsAssumption == ArgCounts \subseteq Nat
ASSUME OldFilesAssumption == Absent \notin Seq(Byte) /\ OldFiles \subseteq Seq(Byte) \cup {Absent}
ASSUME NoExitAssumption == NoExit \notin {0, 1}
ASSUME CloseFailsAssumption == CloseFails \in BOOLEAN
ASSUME CutsAssumption == Cuts \subseteq Nat

VARIABLES
    writer,     \* which tool runs
    argc,
    phase,      \* "start", "open", "write", "done"
    piece,      \* number of the piece to write next
    held,       \* the bytes the stream holds back, and their place
    error,      \* the error indicator of the stream
    file,       \* the output file
    exit,       \* the exit status, once there is one
    old         \* history: the output file beforehand

wvars == <<writer, argc, phase, piece, held, error, file, exit, old>>

Nothing == [at |-> 0, bytes |-> <<>>]

WInit ==
    /\ writer \in Writers /\ argc \in ArgCounts
    /\ file \in OldFiles /\ old = file
    /\ phase = "start" /\ piece = 1 /\ held = Nothing /\ error = FALSE /\ exit = NoExit

-----------------------------------------------------------------------------
(* What a tool writes.                                                     *)

\* The number of instructions that emit() has taken.
Count(w) == IF w.length < w.maxInsts THEN w.length ELSE w.maxInsts

\* A program that has reached MAX_INSTS, or the first text, is refused.
Fits(w) == Count(w) < w.maxInsts /\ 4 * Count(w) <= w.room

-----------------------------------------------------------------------------
(* The host.                                                               *)

\* The first k bytes of a piece.
Cut(p, k) == [at |-> p.at, bytes |-> SubSeq(p.bytes, 1, k)]

\* File f after a piece has reached it.  Behind its end, a hole reads as zeros.
Overlay(f, p) ==
    LET end == p.at + Len(p.bytes)
    IN  IF p.bytes = <<>> THEN f
        ELSE [x \in 1..(IF Len(f) > end THEN Len(f) ELSE end) |->
                IF x \in (p.at + 1)..end THEN p.bytes[x - p.at]
                ELSE IF x <= Len(f) THEN f[x] ELSE 0]

\* The lengths of an initial part of a piece that is not all of it.
Broken(p) == {k \in Cuts : k < Len(p.bytes)}

\* All the bytes held back reach the file, or an initial part of them.
DeliverSome ==
    \E k \in Broken(held) \cup {Len(held.bytes)} : file' = Overlay(file, Cut(held, k))

End(status) == phase' = "done" /\ exit' = status

-----------------------------------------------------------------------------
(* main().                                                                 *)

\* Start that opens the output before it looks at the limits.
StartOpens ==
    /\ phase = "start"
    /\ \/ argc <= 2 /\ Fits(writer) /\ phase' = "open" /\ UNCHANGED <<file, exit>>
       \/ argc <= 2 /\ ~Fits(writer) /\ End(1) /\ file' = <<>>
       \/ argc > 2 /\ End(1) /\ UNCHANGED file
    /\ UNCHANGED <<writer, argc, piece, held, error, old>>

\* The arguments, the program in memory, and its limits.
Start ==
    /\ phase = "start"
    /\ \/ argc <= 2 /\ Fits(writer) /\ phase' = "open" /\ UNCHANGED exit
       \/ argc <= 2 /\ ~Fits(writer) /\ End(1)
       \/ argc > 2 /\ End(1)
    /\ UNCHANGED <<writer, argc, piece, held, error, file, old>>

\* fopen(path, "wb") empties the file, or fails.
Open ==
    /\ phase = "open"
    /\ \/ phase' = "write" /\ file' = <<>> /\ UNCHANGED exit
       \/ End(1) /\ UNCHANGED file
    /\ UNCHANGED <<writer, argc, piece, held, error, old>>

\* WritePiece that passes over the piece behind it.
WritePieceSkips ==
    /\ phase = "write" /\ piece <= Len(writer.pieces)
    /\ file' = Overlay(file, held)
    /\ held' = writer.pieces[piece]
    /\ piece' = piece + 2
    /\ UNCHANGED <<writer, argc, phase, error, exit, old>>

\* The next piece goes to the stream; a text is preceded by an fseek, which
\* has the bytes held back delivered.
WritePiece ==
    /\ phase = "write" /\ piece <= Len(writer.pieces)
    /\ file' = Overlay(file, held)
    /\ held' = writer.pieces[piece]
    /\ piece' = piece + 1
    /\ UNCHANGED <<writer, argc, phase, error, exit, old>>

\* Delivering a part of the next piece fails in one of its fputc calls.  The
\* result of fputc is not looked at, but the stream remembers.  One loss is
\* enough: a second would set the same indicator again.
LosePiece ==
    /\ phase = "write" /\ piece <= Len(writer.pieces)
    /\ ~error
    /\ \E k \in Broken(writer.pieces[piece]) :
          file' = Overlay(Overlay(file, held), Cut(writer.pieces[piece], k))
    /\ held' = Nothing /\ error' = TRUE
    /\ piece' = piece + 1
    /\ UNCHANGED <<writer, argc, phase, exit, old>>

\* fseek fails, for itself or for the bytes it should have delivered.
SeekFails ==
    /\ phase = "write" /\ 1 < piece /\ piece <= Len(writer.pieces)
    /\ DeliverSome
    /\ End(1)
    /\ UNCHANGED <<writer, argc, piece, held, error, old>>

\* Finish without ferror.
FinishUnchecked ==
    /\ phase = "write" /\ piece > Len(writer.pieces)
    /\ file' = Overlay(file, held) /\ End(0)
    /\ UNCHANGED <<writer, argc, piece, held, error, old>>

\* ferror, then fclose.  What fclose returns is not looked at.
Finish ==
    /\ phase = "write" /\ piece > Len(writer.pieces)
    /\ \/ error /\ End(1) /\ DeliverSome
       \/ /\ ~error /\ End(0)
          /\ \E k \in Broken(held) \cup {Len(held.bytes)} :
                /\ ~CloseFails => k = Len(held.bytes)
                /\ file' = Overlay(file, Cut(held, k))
    /\ UNCHANGED <<writer, argc, piece, held, error, old>>

\* The process is killed.
Kill ==
    /\ phase # "done"
    /\ DeliverSome
    /\ End(NoExit)
    /\ UNCHANGED <<writer, argc, piece, held, error, old>>

Proceed == Start \/ Open \/ WritePiece \/ LosePiece \/ SeekFails \/ Finish
WNext == Proceed \/ Kill

WSpec == WInit /\ [][WNext]_wvars

-----------------------------------------------------------------------------
(* Properties.                                                             *)

\* Types.
WTypeOK ==
    /\ writer \in Writers /\ argc \in ArgCounts
    /\ phase \in {"start", "open", "write", "done"}
    /\ piece \in 1..(Len(writer.pieces) + 1)
    /\ held \in Place
    /\ error \in BOOLEAN
    /\ file \in Seq(Byte) \cup {Absent} /\ old \in Seq(Byte) \cup {Absent}
    /\ exit \in {0, 1, NoExit}

\* Piece p is in file f, where it belongs.
Holds(f, p) == \A i \in 1..Len(p.bytes) : p.at + i <= Len(f) /\ f[p.at + i] = p.bytes[i]

\* Tool w means to have byte b at place x of its file.
Intended(w, x, b) ==
    \E k \in 1..Len(w.pieces) :
        LET p == w.pieces[k]
        IN  x - p.at \in 1..Len(p.bytes) /\ b = p.bytes[x - p.at]

\* manual/specs/022-hello-binary-writer.md:15: a tool that cannot write its
\* output does not end as if it had.  Exit status 0 means that the file holds
\* the program and every text, none of them over another.
SuccessIsWhole ==
    exit = 0 => /\ file # Absent
                /\ \A k \in 1..Len(writer.pieces) : Holds(file, writer.pieces[k])

\* A call that is refused leaves the file as it was.  From then on, whatever
\* fails and whenever the tool is killed, nothing of the old file is left: each
\* byte is one the tool means to write there, or a zero.
OldOrNew ==
    /\ phase = "done" /\ (argc > 2 \/ ~Fits(writer)) => file = old
    /\ \/ file = old
       \/ file # Absent /\ \A x \in 1..Len(file) : file[x] = 0 \/ Intended(writer, x, file[x])
=============================================================================
