----------------------------- MODULE LineEditor -----------------------------
(***************************************************************************)
(* The line editor of programs/line-storage.asm: the command loop and its  *)
(* subroutines on the memory they share.  One step is one line read from   *)
(* the input and all that the program does until it reads the next one; it *)
(* is one thread, and nobody else sees its memory.  The subroutines are    *)
(* functions on memory; registers are their parameters and results.  The   *)
(* earlier stages, line-editor.asm and command-arguments.asm, are the same *)
(* program with fewer commands.                                            *)
(*                                                                         *)
(* The two buffers keep their size (LineSize, 64 in the program) and       *)
(* stand, like those of the program, apart from each other.  Code and      *)
(* constant strings, which lie below them, are left out.                   *)
(***************************************************************************)
EXTENDS StoredLine, EditorWords

CONSTANTS
    Commands,   \* the commands that command_loop compares the line with
    Typed,      \* what may be typed as a command, its LF left out
    Texts,      \* what may be typed where the program asks for a text
    Unfinished, \* what may be typed before the input ends without an LF
    Files       \* what line.txt may hold in the beginning

ASSUME CommandsAssumption == Commands \subseteq EditorCommands
ASSUME TypedAssumption == Typed \cup Texts \cup Unfinished \subseteq Seq(Byte \ {LF})
ASSUME FilesAssumption == Files \subseteq File

VARIABLES
    mem,        \* the memory from 0x500 on
    file,       \* line.txt
    phase,      \* where the program reads: "command", "set", "echo"; or "halted", "eof"
    typed,      \* history: the line typed last
    reply       \* what the program has printed since, prompts left out

vars == <<mem, file, phase, typed, reply>>

Input == 0              \* 0x500
Stored == 2 * LineSize  \* 0x600
Top == 4 * LineSize - 1
Cells == 0..Top

\* The program is loaded into a memory of zeros, and empties the stored line.
Init ==
    /\ mem = [a \in Cells |-> 0] /\ file \in Files
    /\ phase = "command" /\ typed = <<>> /\ reply = Silence

-----------------------------------------------------------------------------
(* The subroutines.                                                        *)

\* The first address from a on that holds one of some bytes.
FirstIn(m, a, bytes) ==
    CHOOSE x \in a..Top : m[x] \in bytes /\ \A y \in a..(x - 1) : m[y] \notin bytes

\* The string at address a, up to its NUL.
StringAt(m, a) == BytesAt(m, a, FirstIn(m, a, {0}) - a)

\* Kept without the comparison that drops a CR.
KeptWithCR(bytes) ==
    LET kept[k \in 0..Len(bytes)] ==
            IF k = 0 THEN <<>>
            ELSE IF Len(kept[k - 1]) = LineSize - 1 THEN kept[k - 1]
            ELSE Append(kept[k - 1], bytes[k])
    IN  kept[Len(bytes)]

\* Kept that compares R1 with 0x540.
KeptOver(bytes) ==
    LET kept[k \in 0..Len(bytes)] ==
            IF k = 0 THEN <<>>
            ELSE IF bytes[k] = CR \/ Len(kept[k - 1]) = LineSize THEN kept[k - 1]
            ELSE Append(kept[k - 1], bytes[k])
    IN  kept[Len(bytes)]

\* Kept without that comparison.
KeptAll(bytes) == SelectSeq(bytes, LAMBDA c : c # CR)

\* The bytes that read_loop keeps of those it has read: no CR, and none once R1
\* has reached 0x53F.
Kept(bytes) ==
    LET kept[k \in 0..Len(bytes)] ==
            IF k = 0 THEN <<>>
            ELSE IF bytes[k] = CR \/ Len(kept[k - 1]) = LineSize - 1 THEN kept[k - 1]
            ELSE Append(kept[k - 1], bytes[k])
    IN  kept[Len(bytes)]

\* read_line when the input ends before an LF: SYSCALL 2 stops the machine
\* before the terminator is written.
ReadPart(m, bytes) ==
    LET kept == Kept(bytes)
    IN  [a \in Cells |-> IF a < Len(kept) THEN kept[a + 1] ELSE m[a]]

ReadLine(m, bytes) == [ReadPart(m, bytes) EXCEPT ![Input + Len(Kept(bytes))] = 0]

\* SplitLine that takes one space for the whole separator.
SplitLineOneSpace(m) ==
    LET start == FirstIn(m, Input, Byte \ {SP})
        end == FirstIn(m, start, {0, SP})
    IN  IF m[end] = 0
        THEN [mem |-> m, R6 |-> end, R7 |-> FALSE]
        ELSE [mem |-> [m EXCEPT ![end] = 0], R6 |-> end + 1, R7 |-> TRUE]

\* split_line: R6 is the address of the argument, R7 whether it is separated.
SplitLine(m) ==
    LET start == FirstIn(m, Input, Byte \ {SP})
        end == FirstIn(m, start, {0, SP})
    IN  IF m[end] = 0
        THEN [mem |-> m, R6 |-> end, R7 |-> FALSE]
        ELSE [mem |-> [m EXCEPT ![end] = 0],
              R6 |-> FirstIn(m, end + 1, Byte \ {SP}), R7 |-> TRUE]

\* compare_command, in a memory that split_line has left.
CompareCommand(m, word) == StringAt(m, FirstIn(m, Input, Byte \ {SP})) = word

\* A stage that knows the word compares the line with it.
Matches(m, word) == word \in Commands /\ CompareCommand(m, word)

\* copy_line from address a, terminator included.
CopyLine(m, a) == PlaceLine(m, Stored, StringAt(m, a))

-----------------------------------------------------------------------------
(* The command loop; m is memory after split_line, R6 and R7 its results.  *)

\* Where the program goes on: it prints r and reads at phase next.
Answer(r, next) == reply' = r /\ phase' = next

DoEcho(m, R6, R7) ==
    /\ Matches(m, EchoWord)
    /\ IF R7 THEN Answer(Shown(StringAt(m, R6)), "command") ELSE Answer(Silence, "echo")
    /\ mem' = m /\ UNCHANGED file

DoSet(m, R6, R7) ==
    /\ Matches(m, SetWord)
    /\ IF R7 THEN mem' = CopyLine(m, R6) /\ Answer(Silence, "command")
             ELSE mem' = m /\ Answer(Silence, "set")
    /\ UNCHANGED file

\* The other commands do not take an argument.
Alone(m, R6, word) == m[R6] = 0 /\ Matches(m, word)

\* SYSCALL 4 and 5 on the stored line, with the outcomes of StoredLine.
DoSave(m, R6) ==
    /\ Alone(m, R6, SaveWord)
    /\ \E o \in SaveOutcomes(m, TRUE, Stored, file) :
          /\ file' = o.file
          /\ Answer(Notice(IF o.result = 0 THEN "saved" ELSE "not saved"), "command")
    /\ mem' = m

DoLoad(m, R6) ==
    /\ Alone(m, R6, LoadWord)
    /\ \E o \in LoadOutcomes(m, TRUE, Stored, file) :
          /\ mem' = o.mem
          /\ Answer(Notice(IF o.result = 0 THEN "loaded" ELSE "not loaded"), "command")
    /\ UNCHANGED file

DoShow(m, R6) ==
    /\ Alone(m, R6, ShowWord)
    /\ Answer(Shown(StringAt(m, Stored)), "command") /\ mem' = m /\ UNCHANGED file

DoHelp(m, R6) ==
    /\ Alone(m, R6, HelpWord)
    /\ Answer(Notice("help"), "command") /\ mem' = m /\ UNCHANGED file

DoQuit(m, R6) ==
    /\ Alone(m, R6, QuitWord)
    /\ Answer(Notice("goodbye"), "halted") /\ mem' = m /\ UNCHANGED file

DoUnknown(m, R6) ==
    /\ \A word \in {EchoWord, SetWord} : ~Matches(m, word)
    /\ \A word \in {SaveWord, LoadWord, ShowWord, HelpWord, QuitWord} : ~Alone(m, R6, word)
    /\ Answer(Notice("unknown"), "command") /\ mem' = m /\ UNCHANGED file

\* read_line, split_line and the comparisons of command_loop.
Command(bytes) ==
    /\ phase = "command" /\ typed' = bytes
    /\ \E s \in {SplitLine(ReadLine(mem, bytes))} :
          \/ DoEcho(s.mem, s.R6, s.R7) \/ DoSet(s.mem, s.R6, s.R7)
          \/ DoSave(s.mem, s.R6) \/ DoLoad(s.mem, s.R6) \/ DoShow(s.mem, s.R6)
          \/ DoHelp(s.mem, s.R6) \/ DoQuit(s.mem, s.R6) \/ DoUnknown(s.mem, s.R6)

\* The second half of do_set without an argument.
SetText(bytes) ==
    /\ phase = "set" /\ typed' = bytes
    /\ mem' = CopyLine(ReadLine(mem, bytes), Input)
    /\ Answer(Silence, "command") /\ UNCHANGED file

\* read_echo_text.
EchoText(bytes) ==
    /\ phase = "echo" /\ typed' = bytes
    /\ \E m \in {ReadLine(mem, bytes)} : mem' = m /\ Answer(Shown(StringAt(m, Input)), "command")
    /\ UNCHANGED file

\* The input ends in the middle of a line.
EndOfInput(bytes) ==
    /\ phase \in {"command", "set", "echo"}
    /\ mem' = ReadPart(mem, bytes)
    /\ Answer(Silence, "eof") /\ UNCHANGED <<file, typed>>

\* The program is started again, in the new machine of the monitor.
Restart ==
    /\ phase \in {"halted", "eof"}
    /\ mem' = [a \in Cells |-> 0] /\ typed' = <<>>
    /\ Answer(Silence, "command") /\ UNCHANGED file

Next ==
    \/ \E bytes \in Typed : Command(bytes)
    \/ \E bytes \in Texts : SetText(bytes) \/ EchoText(bytes)
    \/ \E bytes \in Unfinished : EndOfInput(bytes)
    \/ Restart

Spec == Init /\ [][Next]_vars

-----------------------------------------------------------------------------
(* Properties.                                                             *)

\* Types; and what the program prints of a buffer is never longer than a line.
TypeOK ==
    /\ mem \in [Cells -> Byte]
    /\ file \in File
    /\ phase \in {"command", "set", "echo", "halted", "eof"}
    /\ typed \in Seq(Byte)
    /\ reply.text \in Seq(Byte) /\ Len(reply.text) < LineSize

\* manual/specs/042: no command, however long, writes outside of the two
\* buffers (0x500 to 0x53F, 0x600 to 0x63F): the cells behind each stay zero.
StaysInBuffers ==
    \A a \in Cells :
        a \notin Input..(Input + LineSize - 1) \cup Stored..(Stored + LineSize - 1)
            => mem[a] = 0

\* Whatever was typed, split, copied or loaded, the stored line is one that
\* save_stored_line accepts: it has its terminator, and no CR or LF before.
\* So save fails only where the host does.
LineIsSavable == SavableLengths(mem, Stored) # {}

\* The program does what an editor without buffers does: what earlier lines
\* left behind terminators, in either buffer, is never seen; an incomplete line
\* and a failed load leave the stored line alone.
Abstract == INSTANCE AbstractEditor WITH text <- StringAt(mem, Stored)
IsAnEditor == Abstract!Spec
=============================================================================
