----------------------------- MODULE StoredLine -----------------------------
(***************************************************************************)
(* What notes/line-storage.h accepts and produces: the line kept in a      *)
(* buffer of LineSize bytes of the machine's memory, and the content of    *)
(* the host file line.txt.  The operators here are pure; VM uses them to   *)
(* say what a whole SYSCALL may do, LineStorage to take it apart into the  *)
(* host calls it makes.                                                    *)
(***************************************************************************)
EXTENDS Integers, Sequences, Words

CONSTANTS
    LineSize,   \* bytes of a line buffer, terminator included (64 in the code)
    NoFile      \* the state of line.txt when the file does not exist

ASSUME LineSizeAssumption == LineSize \in Nat \ {0}
ASSUME NoFileAssumption == NoFile \notin Seq(Byte)

LF == 10
CR == 13

File == Seq(Byte) \cup {NoFile}

\* The lengths at which a savable line ends in the buffer at address a of
\* memory m: at the first NUL, unless a CR, an LF or the end comes earlier.
\* The set is empty or has one element.
SavableLengths(m, a) ==
    {n \in 0..(LineSize - 1) :
        /\ m[a + n] = 0
        /\ \A i \in 0..(n - 1) : m[a + i] \notin {0, CR, LF}}

\* The n bytes at address a of memory m.
BytesAt(m, a, n) == [i \in 1..n |-> m[a + i - 1]]

\* The contents load_stored_line accepts.
Loadable(content) ==
    /\ Len(content) < LineSize
    /\ \A i \in 1..Len(content) : content[i] \notin {0, CR, LF}

\* Memory m after a loaded line and its terminator are copied to address a.
PlaceLine(m, a, content) ==
    [x \in DOMAIN m |->
        IF x \in a..(a + Len(content) - 1) THEN content[x - a + 1]
        ELSE IF x = a + Len(content) THEN 0
        ELSE m[x]]

\* What one save may return and leave in the file: a refused buffer leaves the
\* file alone, a failing open too, and a failing write or close leaves the
\* part of the line that reached the file the open has emptied.
SaveOutcomes(m, inRange, a, file) ==
    IF ~inRange \/ SavableLengths(m, a) = {}
    THEN {[result |-> 1, file |-> file]}
    ELSE LET line == BytesAt(m, a, CHOOSE n \in SavableLengths(m, a) : TRUE)
         IN  {[result |-> 0, file |-> line], [result |-> 1, file |-> file]}
             \cup {[result |-> 1, file |-> SubSeq(line, 1, k)] : k \in 0..Len(line)}

\* What one load may return and leave in memory: any host failure, and any
\* content that is not a line that fits, leaves memory alone.
LoadOutcomes(m, inRange, a, file) ==
    {[result |-> 1, mem |-> m]}
    \cup (IF inRange /\ file # NoFile /\ Loadable(file)
          THEN {[result |-> 0, mem |-> PlaceLine(m, a, file)]}
          ELSE {})
=============================================================================
