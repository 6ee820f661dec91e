# Handmade VM: specifications, model checks and proofs

The repository builds a small virtual machine in C (`notes/vm.c`), a line
storage its programs reach through two system calls (`notes/line-storage.h`), a
two-pass assembler (`tools/small-asm.c`), tools that write program files
(`tools/write-*-bin.c`) and programs for the machine (`programs/*.asm`). This
directory specifies those parts in TLA+, checks small
instances of them with TLC and proves what matters most with TLAPS.

All paths below are relative to the repository's root. Lines are those of the
commit the modules were written from; `PROJECT.json` has the line range of
every definition.

## 1. Inventory

| Part | State it keeps | Operations | Talks to |
|---|---|---|---|
| VM core, `notes/vm.c` 28-335 | 1 MiB of memory, `pc`, `sp`, 8 registers of 32 bits, `zero_flag`, `running` | `fetch`, `decode`, `execute`, `run`: 18 typed instructions, HALT, RET, 6 system calls | program image, standard input and output, line storage |
| Line storage, `notes/line-storage.h` | `line.txt` in the working directory | `save_stored_line`, `load_stored_line` | the VM's memory, the host's stdio, other VM processes in the directory |
| Loader and monitor, `notes/vm.c` 53-77, 390-468 | none between programs but what is left of the standard input | `load_program_file`, `run_program_file`, `run_monitor`, `main` | VM core, standard input shared with the running program |
| Self test, `notes/vm.c` 337-388 | one fixed program | `load_test_program` | VM core |
| Assembler, `tools/small-asm.c` | label table, pass, address, temporary file, output file | two passes of `prepare_line`, `assemble_directive`, `assemble_line`; copy of the staged bytes | source and output file; the VM reads what it writes |
| Line editor, `programs/line-storage.asm` (with `line-editor.asm` and `command-arguments.asm` as earlier stages) | input buffer 0x500-0x53F, stored line 0x600-0x63F, registers as parameters | command loop, `read_line`, `split_line`, `compare_command`, `copy_line` | system calls 0 to 5 |
| Earlier programs, `programs/*.asm` | a register or a buffer | print, read and answer characters (days 23 to 28), call a routine on two bytes in memory (37, 38), print a string (39), a loop of commands (40) | system calls 0 to 3 |
| Binary writers, `tools/write-*-bin.c` | the program in memory, the output file and its stream | emit and patch the instructions, check the limits, write the code and the texts, close | the VM reads what they write |
| The programs they build | a line buffer at 0x500 (0x180 in the first), terminator included | read a line, compare it with the commands, answer | VM core, system calls 0 to 3 |
| Tests, `notes/*-test.c`, `tools/test-*.py` | none | read as evidence of what is intended | - |

What is hard in each, and what makes it correct:

* **VM core.** One thread, so the difficulty is in long sequences of legal
  instructions: the stack shares memory with program and data, programs may
  overwrite themselves, every access has a boundary, and an instruction with
  several checks may fail between them. Correct means: registers and addresses
  stay in range, the stack pointer always agrees with what was pushed, every
  RET and POP takes what was put there, a machine stops precisely and never
  hangs.
* **Line storage.** Opening with `"wb"` destroys the old line before the new
  one is written; every host call may fail, write or read a part, or be the
  last one before a kill; several processes may share the file. Correct means:
  alone, a call is all or nothing as far as its result says; a 0 means that the
  line is there; nothing but an initial part of a line is left by a crash;
  together, what a mixture may and may not contain.
* **Assembler.** The first pass decides addresses the second pass relies on;
  limits (1 MiB, 256 labels, 20 bits) must hold with strings and padding in
  between; a refused source or a failing copy must not pass for a success; the
  machine has to understand the words. Correct means: the output is the
  translation of the source, and nothing else is ever reported as one.
* **Monitor and loader.** The monitor reads commands in pieces of 255 bytes from
  the same stream its programs read from; a program leaves input behind. Correct
  means: the monitor outlives every program, starts only complete images, and
  no byte is both a program's and the monitor's.
* **Binary writers and their programs.** No single write is checked, only the
  stream's error indicator, once, before `fclose`; opening destroys the old
  image; every jump is patched by hand, some hundred lines after it was emitted;
  the code must end below the first text. The programs share registers between
  subroutines, one buffer between lines, and end a line in three different ways.
  Correct means: exit status 0 stands for a whole file, a failed or killed tool
  leaves nothing of another program behind, and the program answers each line
  as its day's manual says, in time, without a write outside of its buffer.
* **Programs in assembler.** Jump targets counted by hand, registers that must
  survive one subroutine and are scratch to the next, code and texts that must end
  below a buffer at a fixed address, loops that only a byte of data ends. Correct
  means: assembled and run, each does what its manual, or `LineEditor`, says.
* **Line editor.** 63 bytes of input and line, a terminator always in the last
  byte, registers clobbered across subroutines, a separator that tells `set `
  from `set`. Correct means: the stored line is always one that SYSCALL 4
  accepts, and the program does what an editor without buffers would.

## 2. Modules

| Module | Models | State and actions |
|---|---|---|
| `Words` | `read_u32_be`, `write_u32_be`, arithmetic on registers | words as four bytes, at full width |
| `Instructions` | `decode`, the instructions `execute` knows | pure |
| `StoredLine` | what one save or load may do, as a whole | pure: sets of outcomes |
| `VM` | `fetch`, `execute`, `run` | variables as in `struct VM`, plus the input left, the last bytes of output and `line.txt`; one action per instruction and system call |
| `Confinement` | the machine again, for all inputs at once: it forgets what memory and input hold and goes both ways where it does not know; certificates, which say where a program writes and how it stops | pure: `Leads`, the states that an instruction leads to |
| `VMStack` | nothing of its own: VM with a history of its stack | `frames`, `clobbered` |
| `LineStorage` | `save_stored_line`, `load_stored_line`, one host call at a time, in several processes | `file`, and per process the buffer, the phase of the call, its stream, its result; actions `StartSave`, `Fwrite`, `Flush`, `CloseWritten`, `StartLoad`, `Fread`, `CloseRead`, and from outside `Edit` and `Restart` |
| `AtomicStorage` | abstract specification of the two calls | one step per call, with the outcomes of `StoredLine` |
| `AsmLine` | one line of a source: label, syntax, size, bytes; and what a translation of a whole source is, without passes (`IsTranslation`) | pure |
| `Assembler` | `main` of the assembler with its table and files | `phase`, `current_pass`, `line`, `address`, `labels`, `staged`, `output`; actions `Open`, `AssembleLine`, `EndPass`, `ReadFailure`, `OpenOutput`, `Copy`, `Close`, `Kill` |
| `Monitor` | `main`, loader, self test and monitor around the machine | VM's variables, and `mode`, `args`, with the histories `seen` and `asked`; actions `Main`, `ReadCommand`, `Return`, and `Turn`, which is VM's `Next` |
| `EditorWords` | the commands of the line editor | pure |
| `LineEditor` | `programs/line-storage.asm` and its earlier stages (which are it with fewer `Commands`), the subroutines as functions on the two buffers | `mem`, `file`, `phase`, `reply`, with the history `typed`; one action per command (`DoEcho` ... `DoUnknown`), `SetText`, `EchoText`, `EndOfInput`, `Restart` |
| `AbstractEditor` | abstract specification of the editor: a line of text, no buffers | a typed line at a time |
| `ImageWriter` | `main` of the binary writers, down to the host calls that may fail | `writer`, `argc`, `phase`, `piece`, `held` (what the stream holds back), `error`, `file`, `exit`, with the history `old`; actions `Start`, `Open`, `WritePiece`, `LosePiece`, `SeekFails`, `Finish`, `Kill` |
| `WriterPrograms` | the eight programs the tools put together, block by block, with their labels, and their texts | pure |
| `CommandSessions` | abstract specification of the eight programs: what each answers to what is typed | pure |
| `BuiltPrograms` | a tool, and then the machine with the file it wrote | the variables of `ImageWriter` and `VM`, `booted`, and the history `given`; actions `Write`, `Run`, `Turn`; and `PlanOf`, the certificate that a program should have |
| `BuiltSessions` | what the programs of `BuiltPrograms` should answer, by `CommandSessions` | no more state: `AnswersAsTyped` |
| `EditorSource` | the source of the line editor's three stages, `programs/command-arguments.asm`, `line-editor.asm` and `line-storage.asm`, line by line | pure |
| `SampleSource` | the source of the nine other programs in assembler, line by line | pure |
| `SampleSessions` | abstract specification of those nine: what each answers to what is typed | pure |
| `AssembledPrograms` | the assembler, and then the machine with its output, and somebody who types | the variables of `Assembler` and `VM`, `day` (the program), `mover`, `closed`, and the histories `script`, `typed`, `view`; actions `Assemble`, `Boot`, `Turn`, `Look`, `Type`, `Again` |
| `AssembledSessions` | what the nine other programs should answer, by `SampleSessions` | no more state: `SamplesAnswer` |
| `SamplePlans` | where each of the twelve programs may write, and whether it reads in a subroutine | pure: `PlanOf` |
| `SampleCertificates` | the translation of each of the twelve, and the machine of `Confinement` on it | `program`, `now`; an instruction at a time |
| `MCVM`, `MCLineStorage`, `MCAssembler`, `MCMonitor`, `MCLineEditor`, `MCBuiltPrograms`, `MCAssembledPrograms` | instances for TLC | - |
| `VMProofs`, `VMStackProofs`, `LineStorageProofs`, `AssemblerProofs`, `MonitorProofs`, `ImageWriterProofs`, `LineEditorProofs`, `AssembledProofs` | proofs | - |

How they fit together: `VM` uses the outcomes of `StoredLine` for SYSCALL 4 and
5. `LineStorage` takes the same calls apart, and `LooksAtomic` shows that for a
process alone they come out as `StoredLine` says, so that the atomic step in
`VM` is justified where no other process writes. `Assembler` and `VM` meet in
`Instructions`: `VMUnderstands` applies the machine's `Decode` to the
assembler's output. `Monitor` extends `VM`: its machine is VM's, reads what the
monitor leaves of the common input, and leaves the monitor what it does not read.
`LineEditor` uses `StoredLine` for its two storage calls, as `VM` does, and
implements `AbstractEditor` with the string at 0x600 for the text.
`BuiltPrograms` extends `ImageWriter` and `VM`: what a tool has left in its file
becomes the memory of the machine; in `BuiltSessions` its output is compared with
`CommandSessions`, which knows of no registers, labels or buffers, and that
module is apart because its recursive operators cannot be proved about.
`AssembledPrograms` puts `Assembler` and `VM` in one behaviour: a source goes
through the assembler's two passes, the output becomes the memory of the machine,
and somebody types at it. The three stages of the editor are compared with
`LineEditor` each time the machine asks for input: the two buffers, the place
that `READ_LINE` will return to, `line.txt` and the screen are the state that
`LineEditor` reaches by one step, and the commands of the stage are its constant
`Commands`. With that, every layer is tied to the next: the source to the words
(`Assembler`), the words to the machine (`VM`), hundreds of turns of the machine to one
step of `LineEditor`, and `LineEditor` to `AbstractEditor`, an editor that has a
line and no buffers. The other nine programs are compared with `SampleSessions`, in
`AssembledSessions`, which is apart for the same reason as `BuiltSessions`.
`Confinement` serves both: the certificates of the programs that the tools build are
in `BuiltPrograms`, those of the programs in assembler in `SamplePlans`, and
`SampleCertificates` shows that the code of the latter has them.

Conventions:

* A turn of `run()` is one step of `VM`; a line of a pass is one step of
  `Assembler`; a typed line and all that is done about it is one step of
  `LineEditor`; a piece of a program file (its code, or one text) is one step of
  `ImageWriter`. Nobody else sees what happens within.
* Registers and words are bytes in the order of memory. Nothing is scaled down
  but memory, the number of registers and the length of a line.
* A name such as `StartSaveOver`, defined just before `StartSave`, is a wrong
  variant of it, the way a plausible bug would change the code. No
  specification uses it: it is there to see that a property notices the
  difference. `PROJECT.json` lists under `mutants` which property notices which.

What the models leave out: the wording of diagnostics and messages on
`stderr`, the count of assembled instructions, characters below the level of a
lexeme (white space, comments, letter case, number bases), the prompts of the
monitor, and of the texts that programs only print everything but their lengths
and first characters. `line.txt` is changed by VM processes only, and a source does not
change between the two passes that read it (the same assumption
`manual/specs/038-small-asm-labels.md` makes). A host that loses written data
when its power fails is not modelled: the code never calls `fsync` and promises
nothing about it.

## 3. Runs

| Run | Configuration | Question |
|---|---|---|
| `vm_programs` | `VMPrograms.cfg` | do all programs of four stack instructions, and all of two instructions over every instruction with good and bad operands, keep the stack discipline, stay well-typed, stop precisely and come to a stop? |
| `storage_alone` | `LineStorageAlone.cfg` | do the calls of a single process look atomic, whatever fails and whenever it is killed? |
| `storage_shared` | `LineStorageShared.cfg` | what do two processes on one file still keep? |
| `asm_sources` | `AsmSources.cfg` | is every reported success the translation of its source, and does the machine understand it; is every mistake found in the pass that should find it, with the output untouched; and do program and label table stay within their limits? |
| `asm_numbers` | `AsmNumbers.cfg` | are accepted numbers in the documented range? No: see section 6 |
| `monitor_sessions` | `MonitorSessions.cfg` | does the monitor ask for what its part of the input names, start every program afresh, and outlive it; and does the self test print what it should? |
| `monitor_too_large` | `MonitorTooLarge.cfg` | is a file larger than memory never run? It is: see section 6 |
| `line_editor` | `LineEditor.cfg` | does the program treat everything that can be typed as an editor without buffers would, and can its line always be saved? |
| `assembled_programs` | `AssembledPrograms.cfg` | are the programs in assembler, through assembler and machine, what `LineEditor` and `SampleSessions` say of them? |
| `sample_certificates` | `SampleCertificates.cfg` | can any of them, whatever it reads, leave its code, write where it should not, leave a frame behind, or fault? |
| `built_programs` | `BuiltPrograms.cfg` | is a file that a tool reports as written the whole program, and does that program, on the modelled machine, answer as its manual says? |
| `writer_close` | `WriterClose.cfg` | is it still the whole program if the write in `fclose` may fail? No: see section 6 |

The properties:

* `StackDepth`, `StackHoldsFrames`, `TakesWhatWasGiven`: the stack pointer
  counts the words pushed and not taken; each of them is still there unless the
  program stored into its stack; RET returns to its caller and POP delivers
  what PUSH was given.
* `StopsPrecisely`: every stop leaves all but `pc` as it was. The one exception
  the code makes is written into the property: a RET whose target is refused
  has already taken its frame.
* `LoopsOrStops`: a program that does not keep jumping backwards stops.
* `HTypeOK`, `TypeOK`: types, with the bounds of memory, program and table.
* `LooksAtomic`, `LoadIsAllOrNothing`: refinement of `AtomicStorage`; a load
  that returns 1 leaves the buffer alone and one that returns 0 leaves exactly
  the line it read.
* `FileIsPrefix`, `SavedIsThere`: while one process at a time saves, the file
  holds an initial part of its line; a save that returned 0 and was not
  overlapped or followed has left its line.
* `BytesKeepTheirPlace`, `CallsReturn`: what remains when saves overlap. Lines
  may mix, holes may appear, but no byte moves to another place and no hole
  reaches a program; and no call is kept for ever by the other process.
* `LabelsKeepTheirPlace`, `OutputIsTranslation`, `VMUnderstands`,
  `RefusedKeepsOutput`, `FirstPassFindsAll`, `Ends`: as their comments in
  `Assembler` say. `FirstPassFindsAll` means that only undefined labels are
  left for the second pass.

* `CommandsInOrder`: the names the monitor asked for are those in the bytes it has
  read, cut at each LF and every `sizeof(line) - 1` bytes, however its reads
  alternated with those of the programs.
* `StartsFresh`: a program starts at address 0 of a new machine with all of its
  file and nothing of the programs, or failed loads, before it.
* `SessionEnds`: the process ends unless a program never does.
* `SelfTestPasses`: the self test prints what `README.md` says.
* `StaysInBuffers`, `LineIsSavable`, `IsAnEditor`: nothing beyond the two buffers
  is written; SYSCALL 4 never has a reason of its own to refuse the stored line;
  the program implements `AbstractEditor`, so no byte that an earlier line left
  behind a terminator is ever seen.
* `RunsAsEditor`: what the user of an assembled stage of the editor sees from one
  line to the next, and what is in its buffers, is a step of `LineEditor`.
* `SamplesAnswer`: whenever another program asks for a byte, or has stopped, it has
  printed exactly what `SampleSessions` answers to the bytes typed so far, and it
  has stopped exactly when it is over or the input is.
* `KeepsItsPlaces`, `Answers`: when a program asks for input, or has stopped, its code
  and texts are as they were assembled, nothing outside of its buffers has been
  written to, and the stack holds the frame of `read_line` or none; and each comes
  back to ask for more, or stops.
* `NeverLost`: with memory and buffers of the code's own sizes, the forgetful
  machine never does anything on the code of the twelve programs that a certificate
  excludes: it stays in the code, stores only into the buffers, calls from the main
  program alone, executes HALT outside of subroutines, and meets nothing that `run()`
  reports as an error. The states it reaches are the certificates that
  `PlacesKept` (section 4) asks for; `PlansAreTranslations`, an assumption that TLC
  evaluates, says that the code is the translation of the source.
* `SuccessIsWhole`, `OldOrNew`: a tool that exits with 0 has left its code and
  all of its texts in the file, each at its address; whatever fails and whenever
  it is killed, the file is the old one or holds only bytes of the new one.
  (`WTypeOK` is their type invariant.)
* `AnswersAsTyped`: whenever a built program asks for a byte, or has stopped, it
  has printed exactly what `CommandSessions` answers to the bytes typed so far,
  and is over exactly when the session is.
* `KeepsToItsBuffer`, `ComesToAnEnd`: nothing but the line buffer and one frame
  of the stack differs from the file, however long the lines are, and never is
  more than one call open; and no program goes on without reading.
* `ToolsCertified`, an assumption that TLC evaluates in the runs of
  `MCBuiltPrograms`: every built program has its certificate. `Reached` finds the
  states of the forgetful machine, 3 to some 700 per program, and `Certifies` checks
  that no step leaves them. In `built_programs` a line has 5 characters, in
  `writer_close` the 63 of the code.

Bounds, and why they are enough:

* VM: 28 bytes of memory, two registers, lines of 4 or 3 bytes, 2 bytes of
  remembered output (`MaxOutput`). Seven words hold four instructions and a
  stack of three frames, or a full stack that has run down into the code: both
  ends of memory, overflow, underflow and self-modification are all reached.
  The registers need a first and a last, hence two. A program is
  any sequence of four from ten instructions on the stack, or of any two of 46, on a
  code area of 24 bytes with four bytes of data behind it.
* Storage: `LineSize` 3, that is lines of 0, 1 and 2 bytes, which is below, at
  and, with file contents of 3, beyond the limit. Two processes are enough for
  every pair of calls to overlap; all bytes differ, so that each tells where it
  comes from.
* Assembler: sources of four lines from nine good ones (a label before and after
  its use, a label on a line of its own, strings of lengths that need padding,
  every kind of operand); all pairs of 26 lines of every form and mistake; and
  sources of four lines that fill a program of 12 bytes and a table of 3 labels
  (`MaxProgram`, `MaxLabels`), so that both fill exactly and both overflow. Immediates have their
  full 20 bits, and numbers the full 64 bits of `strtoul` (as a count of wraps
  and an offset).
* Monitor: reads of 3 bytes (`LineMax` 4) from inputs of up to 5 bytes over six
  values: two lines, a line and a half, an overlong line cut in two, a CR, a NUL,
  and what programs take in between. Programs of at most three instructions, a
  file that just fits and one that does not. Memory is 288 bytes and there are
  all eight registers, because the self test needs them.
* Built programs: all eight tools, and one more whose limit is too small for its
  program; the fragments that reach a file end after 0, 7 or 300 bytes (`Cuts`)
  or are whole, which is before, within and behind the code, and one loss per
  tool is enough, since a second sets the same indicator. A line is up to 5
  characters (`LineRoom`) where the code has 63, so that lines below, at and
  beyond the limit are short; with `LineRoom` 63 the words of `WriterPrograms`
  are those of the images in `programs/*.bin`. Two lines are
  typed at the loops, three at the one that asks for a text, one and what
  follows it at the others.
* Assembled programs: all twelve. Buffers of 7 bytes where the code has 64; with 64,
  the assembled words are those of `programs/*.bin`, to the byte but for the
  characters of printed texts. Memory is 1560 bytes, enough for both buffers at their
  addresses and a stack. At each stage of the editor all pairs of its lines are
  typed (a third one where a text is asked for), and some sessions of four to seven
  lines with new starts in between; at day 40 all pairs of nine lines, with a third
  after `echo`; at the command loop all of two characters out of five, on one
  line or two, at the programs that read one character each of the five, nothing, and the
  end of the input. While `Copy` goes on, only the
  empty and the complete output are told apart: no program is started before the
  assembler has ended.
* Certificates: nothing is scaled down, memory has 1 MiB and a buffer 64 bytes. What
  is typed has no bound because it does not appear.
* Editor: the commands as they are, in buffers of 7 bytes (6 and a terminator),
  with as much room between and behind them, so that a write beyond a buffer would
  be seen. Sessions have no bound; what is typed comes from fourteen commands and,
  where the program asks for a text, from three texts (`Typed` and `Texts`; the
  program accepts the same at both places). An unfinished line is one byte: what it
  leaves in the input buffer is gone with the next start.

Deadlock is not checked for the VM, the monitor, the assembler, the built and the
assembled programs because they stop: a halted machine and a process that has ended take no further step,
and so does the forgetful machine at a HALT. The
editor can always be started again. In
`LineStorage` some process can always do something, and deadlock is checked.

Fairness. `run()` is a loop in a single thread that waits for nobody but its
input, so its next turn comes: `WF(HNext)`. Once a storage call is entered,
host calls return: `WF(Proceed(p))` for each process. The assembler is one
thread as well: `WF(Proceed)`. So is the monitor with its machine: `WF(MNext)`;
its input is finite and there, a terminal on which nobody types is not modelled.
A tool and the machine that runs its program follow each other, each in one
thread: `WF(Proceed \/ Run \/ Turn)`, of which some disjunct is always
enabled until the end. Of the assembled programs only the machine is assumed to go
on: `WF(Turn)`, for the variables `pc`, `sp` and `running` alone, since a turn that
changes none of them may as well not be taken; nobody has to type. No fairness is assumed for edits, for the start
of a call, for failures or for kills: they may never happen.

## 4. Proofs

Everything here holds for all values of the constants that satisfy the named
assumptions of their modules (`MemSizeAssumption`: a multiple of 4 below 2^24
in which a line fits; `LineSizeAssumption`; `MaxProgramAssumption`: a multiple
of 4, at most 2^20, as large as an immediate can address; images, inputs and
files are sequences of bytes; `LineMaxAssumption`: the monitor's array has room
for a byte beside the terminator; the special values differ from the ordinary
ones). The values of the code satisfy them, and TLC evaluates them in the runs.

* `VMProofs`, of words: `AddIsModular`, `SubIsModular` (byte-wise arithmetic with carry
  is arithmetic modulo 2^32), `ReadsBack`, `AddressReadsBack`. Column by
  column, so that no step multiplies.
* `VMProofs.TypeCorrect`: `TypeOK` is inductive; one lemma per instruction.
* `VMProofs.CertificateIsSound`: where a program writes, for inputs of any length.
  An invariant of the machine that says so has to know where the registers point
  at every address of the code, which is different in every program and far too
  long to write down. It is found instead: `Confinement` has a machine that knows of
  each register either its word or nothing, of memory nothing but the code and some
  zeros, and of the input nothing. A set of its states that contains the first one
  and that no instruction leaves (`Certifies`) is a certificate, and the invariant
  is `Confined`: memory outside of the places the plan names is as it was loaded,
  and some state of the certificate describes the machine. The proof has a lemma
  for each group of instructions. That the code is not written over is what makes
  the fetched instruction the one the certificate speaks of (`FetchedIs`); that the
  frame is not is what makes RET go where the state says; an instruction that the
  forgetful machine cannot follow leads to `Lost`, which no certificate contains.
* `VMProofs.StopsInOrder`: a certificate is orderly if no instruction it sees can
  fault (unknown opcodes and system calls, loads from outside of memory), HALT is
  seen only outside of subroutines, and SYSCALL 2 only in one, or only outside of
  one. A program that has such a certificate stops at a HALT with an empty stack, or
  at the end of its input with the stack it always reads with. Faults that depend on
  the stack need no condition: `Confined` has a frame where RET takes one.
* `VMStackProofs`: `HInv == HTypeOK /\ StackDepth /\ StackHoldsFrames` is
  inductive. The depth is needed to know that a POP that finds a word in memory
  finds a frame as well, the types to know that words lie inside memory. Every
  instruction is sorted into one of four effects on the stack (it keeps it,
  grows it, shrinks it, stores somewhere), and the invariant is shown once per
  effect. `TakesCorrect` and `StopCorrect` follow from it for the two action
  properties.
* `LineStorageProofs`: `FileIsPrefix` and `SavedIsThere` say nothing of streams
  that still have bytes to write. `Inv` adds what every stream has accepted and
  written, and that a process which has the file to itself has written exactly
  as much as the file holds. `LoadCorrect` follows from it, because a buffer has
  at most one line and a loadable content, placed with its terminator, is that
  line. `PlacesCorrect` needs a second invariant, `PlacedOK`: the place of every
  byte that a stream for reading has delivered or a buffer or the file holds,
  through the writes that land behind the end of an emptied file. All for any
  number of processes. `AloneIsAtomic` assumes one: `SoleOK` says what its
  stream for reading has delivered of a file nobody else writes, and every step
  is then a call of `AtomicStorage` on the file as the process sees it (until a
  save is over, the old one), or a stutter.
* `AssemblerProofs`, of `AsmLine`: `LineBytesType` (the second pass emits for a
  line as many bytes as the first has counted) and `DecodeOfEncode` (the machine's
  `Decode` undoes `Encode`, the fields never run into each other).
* `AssemblerProofs`, of `Assembler`: none of the six properties is inductive, since none says
  what the first pass has made of the lines it has seen. `Inv` does: each was
  right where it stands, `starts` adds up their sizes and is monotonic, the
  table holds their labels, each once, at the defining line, and the bytes
  staged are those of the lines before. From it follow `TypeCorrect`,
  `LabelsCorrect`, `RefusedCorrect`, `TranslationCorrect`, `MachineUnderstands`
  and the action property `SecondPassCorrect`.
* `AssemblerProofs.OneTranslation`: `TranslationCorrect` says that the output is the
  translation for the starts that the run has found. A source has only one
  (`Like`: with any description of a translation, the lines seen so far begin where it
  says, and the bytes staged are an initial part of its code), so that a certificate
  for it, found beforehand, is one for every output.
* `MonitorProofs`: `MonitorTypes` on top of `VMProofs`; `FreshStart` and, with
  `~ProbeFails`, `LargeStaysOut` from a lemma about every step that starts a
  program. `CommandsCorrect` is about text: `CommandsInOrder` finds the lines and
  names in all that has been read, and `run_monitor` meets them one read at a
  time, with programs reading in between. `HistInv` adds that, while there is
  input, what has been read ends at an LF or with a full piece; then the next
  read is a piece of its own (`NewEnds`), the pieces before it keep their names
  (`OldNames`), and its name is what `strip_line_end` leaves of it
  (`NameIsCommand`). Where a search goes from the front, or from the back, the
  first hit is given by `LeastNumber`.
* `ImageWriterProofs`: neither `SuccessIsWhole` nor `OldOrNew` says anything of a
  stream that still holds bytes back. `Inv` does: without an error, the pieces
  before the current one are in the file or held back, each at its place; and a
  file that is no longer the old one has only intended bytes and zeros. Two
  things are assumed in the theorem that needs them, and named there: that the
  pieces of a tool do not overlap (`Apart`; TLC evaluates it for the eight
  tools as `ToolsApart`), and `~CloseFails` for `SuccessMeansWhole`, which is what
  the finding of section 6 is about. From it follow `WriterTypes`,
  `FileIsOldOrNew` and `SuccessMeansWhole`, for every set of tools.
* `ImageWriterProofs.BufferCorrect` is `KeepsToItsBuffer`, through the tool and
  its program: exit status 0 means that the code is in the file (`SuccessInv`), so that
  the machine starts with the code that the certificate is about (`RunStarts`), and
  from then on `CertificateIsSound` applies turn by turn. It holds for all
  inputs, sizes of memory and numbers of lines; its hypothesis is that every tool
  has a certificate, which `ToolsCertified` shows of the eight.
* `LineEditorProofs`: `TypeOK`, `StaysInBuffers` and `LineIsSavable` are inductive
  together and only together: a copied or shown string is known to end within its
  buffer because of the terminator, and to be savable because no LF is typed, no
  CR kept and no refused file loaded. The subroutines are loops, that is,
  recursive functions over the bytes typed and searches through memory; a fact
  about all turns of a loop is shown by its least counterexample, so that no
  induction theorem is needed. From the invariant follow `EditorTypes`,
  `BuffersCorrect` and `SavableCorrect`, and, step by step,
  `EditorImplements`: `Spec => IsAnEditor`. Its core are `TextIs` (what `read_line` leaves in
  the buffer is the text `AbstractEditor` means) and `ParsedIs` (what `split_line`,
  on the registers, makes of the buffer is the one decomposition of that text). It
  holds for every length of the buffers, and for all that may be typed.

* `AssembledProofs.PlacesKept` is `KeepsItsPlaces`, from the source to the terminal.
  `EInv` joins the invariants of the parts: while the assembler is at work,
  `AssemblerProofs`' `Inv` and `Like` for the code that has the certificate; from
  the first turn of the machine on, `Confined` and `StoppedInOrder` for that
  certificate. `Boot` leads from one to the other (exit status 0 means that the output
  is the code), `Again` back to the beginning of the second, with memory as it was
  loaded. What the user types only has to be bytes (`TypesBytes`). The other
  hypothesis, `Certificates`, is that the translation of every program has an orderly
  certificate; `NeverLost` shows it of the twelve, at the code's sizes. The machine's
  and the assembler's constants are free: inputs, sessions and starts have no bound.
  `KeepsItsPlaces` cannot do without the certificate: which registers point into a
  buffer is a fact about each of hundreds of addresses.

Every inductive invariant was first checked by TLC on the instances of section 3,
except those that hold a certificate (`Confined`, `EInv`): of these TLC checks
the certificate itself and what follows from it.

Model-checked only:

* what the programs in `BuiltPrograms` and `AssembledPrograms` answer
  (`AnswersAsTyped`, `RunsAsEditor`, `SamplesAnswer`): they are
  facts about twenty particular images, and the sessions are recursive;
* that the twenty images have their certificates (`ToolsCertified`, `NeverLost`): a
  certificate is found by computing it;
* liveness (`LoopsOrStops`, `CallsReturn`, `Ends`, `SessionEnds`,
  `SelfTestPasses`, `ComesToAnEnd`, `Answers`): fairness and ENABLED are outside what the
  prover handles.

## 5. Plan

Done: 1. words and instructions; 2. the VM and its stack; 3. the storage, in
detail and abstract; 4. the assembler; 5. the monitor, the loader and the self
test; 6. the line editor, in detail and abstract; 7. the binary writers, their
programs and the machine in one behaviour; 8. proofs about the writers and the
editor, with the editor's refinement; 9. proofs about the storage, with its
refinement; 10. proofs about the monitor; the other proofs of section 4;
11. the programs in assembler, from source through assembler and machine to
`LineEditor` and to their manuals; 12. proofs about where the programs write and how
they stop, for the tools' programs and for those in assembler.

Not planned: the tests, which are evidence of intentions and no part of the
system. What could follow is a proof of `RunsAsEditor` for every size of the buffers,
one subroutine of `EditorSource` at a time, with an invariant of `VM` for each
loop; `LineEditorProofs` already has the part above the machine.

## 6. Findings

`parse_imm20` (`tools/small-asm.c:95`) compares the value `strtoul` returns, and
`strtoul` accepts a minus sign and negates modulo 2^64. A negative number below
-(2^64 - 2^20) is therefore accepted: `CALLI -18446744073709551615` assembles as
`CALLI 1`. `manual/specs/037-small-asm-instructions.md:25` says that the
operand is from 0 to 0xFFFFF, that `-0` counts as 0, and that what is out of
range is refused. The run `asm_numbers` shows the disagreement.

`load_program_file` (`notes/vm.c:70`) finds out whether a file is larger than
memory by reading one byte more, and takes every EOF of that read for the end of
the file; `ferror` has been asked before, not after. When that read fails, the
first megabyte of a larger file is run. `manual/specs/021-binary-loader.md:15`
says that a file that cannot be read or exceeds 1 MB is not executed. The run
`monitor_too_large` shows it, with `ProbeFails` TRUE; with FALSE no
such file is run, as the theorem `LargeStaysOut` says for all files and sizes.

The writers ask `ferror` before `fclose` and do not look at what `fclose` returns
(`tools/write-hello-bin.c:40`, and the same in every other). The bytes the stream
still holds, in `write-hello-bin.c` the whole program, are written by `fclose`:
when that fails, the tool prints `wrote` and exits with 0.
`manual/specs/022-hello-binary-writer.md:15` says that a tool that cannot write its
output ends with an error. The run `writer_close` shows it, with `CloseFails`
TRUE; with FALSE, in `built_programs`, `SuccessIsWhole` holds.
