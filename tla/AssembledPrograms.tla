------------------------- MODULE AssembledPrograms -------------------------
(***************************************************************************)
(* A program in assembler from its source to the terminal: small-asm       *)
(* assembles it, and when that has ended with status 0 the machine of      *)
(* notes/vm.c is started with the output.                                  *)
(*                                                                         *)
(* The assembler is Assembler's, the sources SampleSource's and            *)
(* EditorSource's, the machine VM's.  The user waits until the machine     *)
(* asks for input, looks at what it has printed, and types a line.         *)
(* Whenever he looks, memory is to be what it was but for the program's    *)
(* buffers; and of the line editor, which he starts as often as he likes,  *)
(* memory and screen what LineEditor says.                                 *)
(***************************************************************************)
EXTENDS Confinement, EditorWords, FiniteSets, SequencesExt

CONSTANTS
    Days,           \* the programs, by the day they were made: 23 to 43
    EditorLines,    \* what may be typed at the editor before an LF
    EditorEnds,     \* what may be typed at it before the end of the input
    MayType(_, _),  \* what may come next, on a day, behind what has been typed
    Empty,          \* there is no output beforehand
    NoExit

VARIABLES
    \* the assembler's; its line is asm_line
    source, phase, current_pass, asm_line, address, labels, staged, output, exit,
    diagnostic, starts, old,
    day,        \* the program
    mover,      \* who acts next: "assembler", "machine" or "user"
    closed,     \* the input has come to its end
    script,     \* history: all that has been typed, lines and ends of the input
    typed,      \* history: the line typed last since the machine was started
    view        \* history: what the user of the editor has seen last, as LineEditor's state

files == <<source, staged, output>>
assembler == <<files, phase, current_pass, asm_line, address, labels, exit, diagnostic, starts, old>>
user == <<script, typed, view>>
evars == <<vars, assembler, day, mover, closed, user>>

P == INSTANCE SamplePlans WITH BufferSize <- LineSize

Programs == {[day |-> d, source |-> P!Source(d)] : d \in Days}
Sources == {s.source : s \in Programs}
Texts == UNION {UNION {{x.text : x \in {x \in Range(l) : x.kind \in {"name", "mem", "directive"}}}
                        : l \in Range(s)} : s \in Sources}
EditorDays == {d \in Days : d > 40}
A == INSTANCE Assembler
        WITH line <- asm_line, Outputs <- {Empty}, NoFile <- Empty,
             MaxProgram <- MemSize, MaxLabels <- 256

ASSUME EmptyAssumption == Empty \notin Seq(Byte)
ASSUME ExitAssumption == NoExit \notin {0, 1}
ASSUME ProgramAssumption == MemSize <= 1048576 /\ Sources \subseteq Seq(Seq(A!Lexeme))

S == INSTANCE AsmLine

\* LineEditor, of what has been seen.
Editor(d) ==
    INSTANCE LineEditor
        WITH mem <- view.mem, file <- view.file, phase <- view.phase, typed <- view.typed,
             reply <- view.reply, Commands <- P!CommandsOf(d),
             Typed <- EditorLines, Texts <- EditorLines, Unfinished <- EditorEnds

Blank == [a \in 0..(4 * LineSize - 1) |-> 0]

EInit ==
    /\ \E s \in Programs : day = s.day /\ source = s.source
    /\ A!Init
    /\ mem = [a \in Address |-> 0] /\ pc = 0 /\ sp = 0
    /\ regs = [r \in Reg |-> <<0, 0, 0, 0>>] /\ zero = FALSE /\ running = FALSE
    /\ stdin = <<>> /\ stdout = <<>> /\ line \in Files
    /\ mover = "assembler" /\ closed = FALSE /\ script = <<>> /\ typed = <<>>
    /\ view = [mem |-> Blank, file |-> line, phase |-> "command", typed |-> <<>>,
               reply |-> Silence]

-----------------------------------------------------------------------------
(* Assembler and machine.                                                  *)

\* Of the states that the output goes through, the empty one and the whole.
Assemble ==
    /\ mover = "assembler"
    /\ A!Next /\ output' \in {output, <<>>, staged}
    /\ UNCHANGED <<vars, day, mover, closed, user>>

\* init_vm and load_program_file, in the directory where line.txt is.
Load ==
    /\ mem' = Image(output)
    /\ pc' = 0 /\ sp' = MemSize /\ regs' = [r \in Reg |-> <<0, 0, 0, 0>>]
    /\ zero' = FALSE /\ running' = TRUE
    /\ stdin' = <<>> /\ stdout' = <<>> /\ UNCHANGED line
    /\ mover' = "machine" /\ closed' = FALSE /\ typed' = <<>>

\* The machine is started.  Of the assembler, its output is left.
Boot ==
    /\ mover = "assembler" /\ exit = 0 /\ Load
    /\ source' = <<>> /\ staged' = <<>> /\ labels' = <<>> /\ starts' = <<0>> /\ exit' = NoExit
    /\ UNCHANGED <<output, phase, current_pass, asm_line, address, diagnostic, old>>
    /\ UNCHANGED <<day, script, view>>

\* SYSCALL 2 waits for somebody to type.
Waiting == CanFetch /\ ReadU32(mem, pc) = <<96, 0, 0, 2>> /\ stdin = <<>> /\ ~closed
AtRest == Waiting \/ ~running

Turn ==
    /\ mover = "machine" /\ ~AtRest
    /\ FetchFault \/ (CanFetch /\ \E i \in {Fetched} : Execute(i))
    /\ UNCHANGED <<assembler, day, mover, closed, user>>

-----------------------------------------------------------------------------
(* The user.                                                               *)

\* For each of the lines that call READ_LINE, the place it returns to and, by the
\* label before it, what it reads.
ReadsFor == [COMMAND_LOOP |-> "command", DO_SET |-> "set",
             READ_ECHO_TEXT |-> "echo", DO_ECHO |-> "echo"]
Behind(s, j) == 4 * Cardinality({i \in 1..j : S!IsInstruction(s[i])})
LabelBefore(s, j) ==
    S!LabelName(s[CHOOSE i \in 1..j : S!HasLabel(s[i]) /\ \A k \in (i + 1)..j : ~S!HasLabel(s[k])])
Purposes ==
    UNION {{[day |-> s.day, at |-> WordOf(Behind(s.source, j)),
             phase |-> ReadsFor[LabelBefore(s.source, j)]] : j \in P!Calls(s.source)} : s \in Programs}

Halted == ~running /\ ReadU32(mem, pc - 4) = <<1, 0, 0, 0>>
PhaseSeen ==
    LET here == {p \in Purposes : p.day = day /\ sp <= LastWord /\ p.at = ReadU32(mem, sp)}
    IN  CASE running /\ here # {} -> (CHOOSE p \in here : TRUE).phase
          [] Halted -> "halted"
          [] ~running /\ ReadU32(mem, pc - 4) = <<96, 0, 0, 2>> /\ closed -> "eof"
          [] OTHER -> "fault"

BytesOf(symbols) == [i \in DOMAIN symbols |-> S!SymbolByte(symbols[i])]
Notices ==
    { [text |-> BytesOf(P!goodbye_text), is |-> "goodbye"],
      [text |-> BytesOf(P!unknown_text), is |-> "unknown"],
      [text |-> BytesOf(P!saved_text), is |-> "saved"],
      [text |-> BytesOf(P!save_failed_text), is |-> "not saved"],
      [text |-> BytesOf(P!loaded_text), is |-> "loaded"],
      [text |-> BytesOf(P!load_failed_text), is |-> "not loaded"] }
    \cup {[text |-> BytesOf(P!help(d)), is |-> "help"] : d \in EditorDays}

\* What is on the screen, but for the prompt.
ReplySeen ==
    LET prompt == CASE PhaseSeen = "command" -> P!prompt_text
                    [] PhaseSeen \in {"set", "echo"} -> P!text_prompt
                    [] OTHER -> <<>>
        said == SubSeq(stdout, 1, Len(stdout) - Len(prompt))
        notice == {n.is : n \in {n \in Notices : n.text = said}}
    IN  CASE ~IsSuffix(prompt, stdout) -> Notice("no prompt")
          [] said = <<>> -> Silence
          [] notice # {} -> Notice(CHOOSE n \in notice : TRUE)
          [] said # <<>> /\ notice = {} /\ Last(said) = LF -> Shown(Front(said))
          [] OTHER -> Notice("no newline")

\* The two buffers, with what is behind each of them.
BuffersSeen ==
    [a \in 0..(4 * LineSize - 1) |->
        IF a < 2 * LineSize THEN mem[P!INPUT + a] ELSE mem[P!STORED + a - 2 * LineSize]]

\* The user of the editor looks at the new output, others at all of it.
Look ==
    /\ mover = "machine" /\ AtRest
    /\ IF day \in EditorDays
       THEN /\ view' = [mem |-> BuffersSeen, file |-> line, phase |-> PhaseSeen,
                        typed |-> typed, reply |-> ReplySeen]
            /\ stdout' = <<>>
       ELSE UNCHANGED <<view, stdout>>
    /\ mover' = "user"
    /\ UNCHANGED <<mem, pc, sp, regs, zero, running, stdin, line>>
    /\ UNCHANGED <<assembler, day, closed, script, typed>>

Type ==
    /\ mover = "user" /\ running
    /\ \E i \in MayType(day, script) :
          /\ script' = Append(script, i)
          /\ closed' = (i.kind = "end")
          /\ stdin' = IF i.kind = "line" THEN Append(i.bytes, LF) ELSE i.bytes
          /\ typed' = IF i.kind = "line" THEN i.bytes ELSE typed
    /\ mover' = "machine"
    /\ UNCHANGED <<mem, pc, sp, regs, zero, running, stdout, line, assembler, day, view>>

\* Another start of the editor, with what is still to be typed.
Again ==
    /\ mover = "user" /\ ~running /\ day \in EditorDays /\ MayType(day, script) # {}
    /\ Load
    /\ UNCHANGED <<assembler, day, script, view>>

ENext == Assemble \/ Boot \/ Turn \/ Look \/ Type \/ Again

ESpec == EInit /\ [][ENext]_evars
\* The machine is one thread that nobody but the user keeps waiting.
EFairSpec == ESpec /\ WF_<<pc, sp, running>>(Turn)

-----------------------------------------------------------------------------
(* Properties.                                                             *)

\* Each stage of the editor, assembled and run, is LineEditor with that stage's
\* commands: what LineEditor says in one step about a line, its subroutines as
\* functions and its registers as parameters, is what hundreds of turns of the
\* machine do.
RunsAsEditor ==
    /\ \A d \in EditorDays : day = d => Editor(d)!Init
    /\ [][view' # view => \E d \in EditorDays : day = d /\ Editor(d)!Next]_evars

\* Whatever was typed, the program is still as it was assembled when it reads or
\* has stopped, the one frame on the stack is READ_LINE's, and nothing but its
\* buffers was written to.
ReadingDays == {d \in Days : P!Calls(P!Source(d)) # {}}
KeepsItsPlaces ==
    mover = "user" =>
        /\ sp = IF Halted \/ day \notin ReadingDays THEN MemSize ELSE MemSize - 4
        /\ \A a \in Address \ (P!WritesOf(day) \cup Frame) : mem[a] = Image(output)[a]

\* Whatever was typed, the program comes back to ask for more, or stops.
Answers == []<>AtRest
=============================================================================
