--------------------------- MODULE BuiltPrograms ---------------------------
(***************************************************************************)
(* From the writer to the running program: a tool of tools/ writes its     *)
(* file, and when it has ended with status 0 the machine of notes/vm.c is  *)
(* started with that file.  The writer is ImageWriter's, with the programs *)
(* of WriterPrograms, the machine is VM's.                                 *)
(***************************************************************************)
EXTENDS Confinement, ImageWriter, WriterPrograms

CONSTANT Typed  \* what may be typed: name of a program -> set of inputs

ASSUME TypedAssumption == \A w \in Writers : Typed[w.name] \subseteq Seq(Byte)

VARIABLES
    booted, \* the machine has been started with the file
    given   \* history: what the standard input held at the start

machine == <<mem, pc, sp, regs, zero, running, stdin, stdout, line>>
bvars == <<machine, wvars, booted, given>>

BInit ==
    /\ WInit
    /\ mem = [a \in Address |-> 0] /\ pc = 0 /\ sp = 0
    /\ regs = [r \in Reg |-> <<0, 0, 0, 0>>] /\ zero = FALSE /\ running = FALSE
    /\ stdin = <<>> /\ stdout = <<>> /\ line = NoFile
    /\ booted = FALSE /\ given = <<>>

-----------------------------------------------------------------------------
(* The tools.                                                              *)

\* write_u32_be for each instruction; write_string_at ends a text with a NUL.
CodeBytes(code) == [i \in 1..(4 * Len(code)) |-> code[((i - 1) \div 4) + 1][((i - 1) % 4) + 1]]
TextBytes(t) == [at |-> t.at, bytes |-> Append(t.text, 0)]

Tool(name, code, texts, maxInsts, room) ==
    [name |-> name, length |-> Len(code), maxInsts |-> maxInsts, room |-> room,
     pieces |-> << [at |-> 0, bytes |-> CodeBytes(code)] >>
                \o [k \in DOMAIN texts |-> TextBytes(texts[k])]]
Plain(program) == [k \in DOMAIN program |-> program[k].word]

MaxInsts == 256

Tools ==
    { Tool("hello", Plain(hello), <<>>, Unlimited, Unlimited),
      Tool("boot-message", Plain(boot_message), boot_message_texts, Unlimited, Unlimited),
      Tool("line-buffer", Plain(line_buffer), line_buffer_texts, Unlimited, Unlimited),
      Tool("word-command", Patched(word_command), word_command_texts, MaxInsts, Unlimited),
      Tool("word-command-subroutine", Patched(word_command_subroutine),
           word_command_subroutine_texts, MaxInsts, PROMPT_TEXT),
      Tool("word-command-compare", Patched(word_command_compare),
           word_command_compare_texts, MaxInsts, PROMPT_TEXT),
      Tool("word-command-loop", Patched(word_command_loop),
           word_command_loop_texts, MaxInsts, PROMPT_TEXT),
      Tool("echo-command", Patched(echo_command), echo_command_texts, MaxInsts, PROMPT_TEXT) }

-----------------------------------------------------------------------------
(* The tool, then its program.                                             *)

Write == WNext /\ UNCHANGED <<machine, booted, given>>

\* The new program is run: init_vm, and load_program_file with a file that fits.
\* The tool is gone, and only its file is left of it.
Run ==
    /\ phase = "done" /\ exit = 0
    /\ ~booted /\ booted' = TRUE
    /\ mem' = Image(file)
    /\ pc' = 0 /\ sp' = MemSize /\ running' = TRUE
    /\ stdin' \in Typed[writer.name] /\ given' = stdin'
    /\ exit' = NoExit /\ old' = file /\ held' = Nothing
    /\ UNCHANGED <<regs, zero, stdout, line, writer, argc, phase, piece, error, file>>

Turn == booted /\ Next /\ UNCHANGED <<wvars, booted, given>>

BNext == Write \/ Run \/ Turn

BSpec == BInit /\ [][BNext]_bvars

\* Both are processes of one thread that nobody keeps waiting.
BFairSpec == BSpec /\ WF_bvars((Proceed /\ UNCHANGED <<machine, booted, given>>) \/ Run \/ Turn)

-----------------------------------------------------------------------------
(* Properties.                                                             *)

\* The program is about to read a byte.
Waits == CanFetch /\ ReadU32(mem, pc) = <<96, 0, 0, 2>>

\* The bytes a program may write to: its line buffer with the terminator, and
\* the one frame that its calls need.
BufferAt(name) == CASE name = "line-buffer" -> 384..(384 + LineRoom)
                    [] name \in {"hello", "boot-message"} -> {}
                    [] OTHER -> INPUT_BUFFER..INPUT_LIMIT

\* However long the lines are, a program never writes over itself, its texts
\* or what lies behind its buffer, and it never has more than one call open.
KeepsToItsBuffer ==
    booted /\ (Waits \/ ~running) =>
        /\ \A a \in Address \ (BufferAt(writer.name) \cup Frame) : mem[a] = Image(file)[a]
        /\ sp \in {MemSize - 4, MemSize}

\* The certificate to look for (Confinement): the code, with R0 as what a
\* subroutine hands back.
PlanOf(w) == [code |-> w.pieces[1].bytes, writes |-> BufferAt(w.name), zeros |-> {}, kept |-> {0}]

\* A program ends by itself or at the end of its input: none of them runs in
\* circles without reading.
ComesToAnEnd == <>(phase = "done" /\ exit # 0 /\ ~running)
=============================================================================
