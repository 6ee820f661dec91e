----------------------------- MODULE Assembler -----------------------------
(***************************************************************************)
(* tools/small-asm.c: it reads its source twice.  The first pass records   *)
(* the labels, the second resolves them and stages the bytes in a          *)
(* temporary file, and only then is the output opened, and overwritten.    *)
(*                                                                         *)
(* One line of one pass is one step, since nothing outside sees what       *)
(* happens within.  The source does not change while it is read and is     *)
(* another file than the output.  Any host call may fail, and the process  *)
(* may be killed at any point.                                             *)
(***************************************************************************)
EXTENDS AsmLine

CONSTANTS
    Sources,    \* the sources to assemble
    MaxProgram, \* MAX_PROGRAM_BYTES, 2^20 in the code
    MaxLabels,  \* MAX_LABELS, 256 in the code
    NoFile,     \* the output does not exist
    Outputs,    \* what the output file may be beforehand
    NoExit      \* no exit status: still running, or killed

\* The last address, MaxProgram - 1, is what an immediate can hold at most.
ASSUME MaxProgramAssumption ==
    MaxProgram \in Nat /\ 4 <= MaxProgram /\ MaxProgram <= 1048576 /\ MaxProgram % 4 = 0
ASSUME MaxLabelsAssumption == MaxLabels \in Nat
ASSUME SourcesAssumption == Sources \subseteq Seq(Seq(Lexeme))
ASSUME OutputsAssumption == NoFile \notin Seq(Byte) /\ Outputs \subseteq Seq(Byte) \cup {NoFile}
ASSUME NoExitAssumption == NoExit \notin {0, 1}

VARIABLES
    source,         \* the lines of the input
    phase,          \* what main() is at
    current_pass,
    line,           \* number of the line to read next
    address,
    labels,         \* the table: names with their addresses
    staged,         \* the bytes in the temporary file
    output,         \* the output file
    exit,           \* the exit status, once there is one
    diagnostic,     \* what is wrong with the source
    starts,         \* history: the address at each line of the first pass, and
                    \*     behind the last one read
    old             \* history: the output beforehand

files == <<source, staged, output>>
history == <<starts, old>>
vars == <<files, phase, current_pass, line, address, labels, exit, diagnostic, history>>

Phase == {"open", "lines", "stage", "copy", "done"}
None == "none"

Init ==
    /\ source \in Sources
    /\ output \in Outputs /\ old = output
    /\ phase = "open"
    /\ current_pass = 1 /\ line = 1 /\ address = 0
    /\ labels = <<>> /\ staged = <<>> /\ starts = <<0>>
    /\ exit = NoExit /\ diagnostic = None

\* The process ends with an exit status, or without one.
End(status, why) == phase' = "done" /\ exit' = status /\ diagnostic' = why

\* fopen of the input and tmpfile.
Open ==
    /\ phase = "open"
    /\ \/ phase' = "lines" /\ UNCHANGED <<exit, diagnostic>>
       \/ End(1, None)
    /\ UNCHANGED <<files, current_pass, line, address, labels, history>>

-----------------------------------------------------------------------------
(* A line.                                                                 *)

\* find_label takes the first entry of that name.
Names == {labels[k].name : k \in DOMAIN labels}
Resolved ==
    [n \in Names |->
        labels[CHOOSE k \in DOMAIN labels :
                  labels[k].name = n /\ \A i \in 1..(k - 1) : labels[i].name # n].address]

\* Complaint that looks for room in the program and in the table too late.
ComplaintFull(l, b) ==
    IF IsLong(l) THEN "line too long"
    ELSE IF BadLabel(l) THEN "invalid label definition"
    ELSE IF ~WellFormed(b) THEN "unsupported or invalid instruction"
    ELSE IF current_pass = 2 /\ ~(References(b) \subseteq Names) THEN "undefined label"
    ELSE IF address >= MaxProgram THEN "program too large"
    ELSE None

\* Complaint that leaves the syntax, and the room, to the second pass.
ComplaintSecond(l, b) ==
    IF IsLong(l) THEN "line too long"
    ELSE IF BadLabel(l) THEN "invalid label definition"
    ELSE IF current_pass = 1 THEN None
    ELSE IF ~WellFormed(b) THEN "unsupported or invalid instruction"
    ELSE IF ~(References(b) \subseteq Names) THEN "undefined label"
    ELSE IF Size(b, address) > MaxProgram - address THEN "program too large"
    ELSE None

\* Complaint that looks for a duplicate in the second pass too.
ComplaintTwice(l, b) ==
    IF IsLong(l) THEN "line too long"
    ELSE IF BadLabel(l) THEN "invalid label definition"
    ELSE IF HasLabel(l) /\ address >= MaxProgram THEN "label address out of range"
    ELSE IF HasLabel(l) /\ LabelName(l) \in Names THEN "duplicate label"
    ELSE IF current_pass = 1 /\ HasLabel(l) /\ Len(labels) = MaxLabels THEN "too many labels"
    ELSE IF ~WellFormed(b) THEN "unsupported or invalid instruction"
    ELSE IF Size(b, address) > MaxProgram - address THEN "program too large"
    ELSE None

\* The first thing that is wrong with a line, in the order of the checks.
Complaint(l, b) ==
    IF IsLong(l) THEN "line too long"
    ELSE IF BadLabel(l) THEN "invalid label definition"
    ELSE IF HasLabel(l) /\ address >= MaxProgram THEN "label address out of range"
    ELSE IF current_pass = 1 /\ HasLabel(l) /\ LabelName(l) \in Names THEN "duplicate label"
    ELSE IF current_pass = 1 /\ HasLabel(l) /\ Len(labels) = MaxLabels THEN "too many labels"
    ELSE IF ~WellFormed(b) THEN "unsupported or invalid instruction"
    ELSE IF current_pass = 2 /\ ~(References(b) \subseteq Names) THEN "undefined label"
    ELSE IF IsInstruction(b) /\ address % 4 # 0 THEN "instruction address is not aligned"
    ELSE IF Size(b, address) > MaxProgram - address THEN "program too large"
    ELSE None

\* AssembleLine that writes to the output as it goes.
AssembleInPlace ==
    /\ phase = "lines" /\ line <= Len(source)
    /\ LET l == source[line]
           b == Body(l)
           why == Complaint(l, b)
       IN  \/ why # None /\ End(1, why)
              /\ UNCHANGED <<current_pass, line, address, labels, files, history>>
           \/ /\ why = None
              /\ line' = line + 1 /\ address' = address + Size(b, address)
              /\ labels' = IF current_pass = 1 /\ HasLabel(l)
                           THEN Append(labels, [name |-> LabelName(l), address |-> address])
                           ELSE labels
              /\ starts' = IF current_pass = 1 THEN Append(starts, address') ELSE starts
              /\ staged' = IF current_pass = 2 THEN staged \o LineBytes(b, address, Resolved)
                           ELSE staged
              /\ output' = IF current_pass = 2 THEN staged' ELSE output
              /\ UNCHANGED <<source, old, phase, current_pass, exit, diagnostic>>

\* A label is recorded before the rest of its line is looked at; when the rest
\* is wrong the table is of no further use.
AssembleLine ==
    /\ phase = "lines" /\ line <= Len(source)
    /\ LET l == source[line]
           b == Body(l)
           why == Complaint(l, b)
       IN  \/ /\ why # None
              /\ End(1, why)
              /\ UNCHANGED <<line, address, labels, staged, starts>>
           \/ /\ why = None
              /\ line' = line + 1
              /\ address' = address + Size(b, address)
              /\ \/ /\ current_pass = 1
                    /\ labels' = IF HasLabel(l)
                                 THEN Append(labels, [name |-> LabelName(l), address |-> address])
                                 ELSE labels
                    /\ starts' = Append(starts, address')
                    /\ UNCHANGED staged
                 \/ /\ current_pass = 2
                    /\ staged' = staged \o LineBytes(b, address, Resolved)
                    /\ UNCHANGED <<labels, starts>>
              /\ UNCHANGED <<phase, exit, diagnostic>>
    /\ UNCHANGED <<source, output, old, current_pass>>

\* EndPass that carries the address over into the second pass.
EndPassOn ==
    /\ phase = "lines" /\ line = Len(source) + 1
    /\ \/ current_pass = 1 /\ current_pass' = 2 /\ line' = 1 /\ UNCHANGED phase
       \/ current_pass = 2 /\ phase' = "stage" /\ UNCHANGED <<current_pass, line>>
    /\ UNCHANGED <<files, address, labels, exit, diagnostic, history>>

\* EndPass that does not count the pass, and begins the first one again.
EndPassAgain ==
    /\ phase = "lines" /\ line = Len(source) + 1
    /\ line' = 1 /\ address' = 0 /\ labels' = <<>> /\ starts' = <<0>>
    /\ UNCHANGED <<files, phase, current_pass, exit, diagnostic, old>>

\* The end of the source: on to the second pass, or to the temporary file.
EndPass ==
    /\ phase = "lines" /\ line = Len(source) + 1
    /\ \/ /\ current_pass = 1
          /\ current_pass' = 2 /\ line' = 1 /\ address' = 0
          /\ UNCHANGED phase
       \/ /\ current_pass = 2
          /\ phase' = "stage"
          /\ UNCHANGED <<current_pass, line, address>>
    /\ UNCHANGED <<files, labels, exit, diagnostic, history>>

\* Reading a line fails, or going back to the beginning.
ReadFailure ==
    /\ phase = "lines"
    /\ End(1, None)
    /\ UNCHANGED <<files, current_pass, line, address, labels, history>>

-----------------------------------------------------------------------------
(* The output.                                                             *)

\* The temporary file proves to be sound, and opening "wb" empties the output;
\* or one of the two fails.
OpenOutput ==
    /\ phase = "stage"
    /\ \/ phase' = "copy" /\ output' = <<>> /\ UNCHANGED <<exit, diagnostic>>
       \/ End(1, None) /\ UNCHANGED output
    /\ UNCHANGED <<source, staged, current_pass, line, address, labels, history>>

\* Some more of the bytes reach the output.
Copy ==
    /\ phase = "copy"
    /\ \E n \in (Len(output) + 1)..Len(staged) : output' = SubSeq(staged, 1, n)
    /\ UNCHANGED <<source, staged, phase, current_pass, line, address, labels,
                   exit, diagnostic, history>>

\* Close that takes the end of the copy for its success.
CloseUnchecked ==
    /\ phase = "copy" /\ End(0, None)
    /\ UNCHANGED <<files, current_pass, line, address, labels, history>>

\* Everything was copied and closed, or something failed on the way.
Close ==
    /\ phase = "copy"
    /\ \/ output = staged /\ End(0, None)
       \/ End(1, None)
    /\ UNCHANGED <<files, current_pass, line, address, labels, history>>

\* The process is killed.
Kill ==
    /\ phase # "done"
    /\ End(NoExit, None)
    /\ UNCHANGED <<files, current_pass, line, address, labels, history>>

Proceed == Open \/ AssembleLine \/ EndPass \/ OpenOutput \/ Copy \/ Close
Next == Proceed \/ ReadFailure \/ Kill

Spec == Init /\ [][Next]_vars
\* One thread that nothing makes wait.
FairSpec == Spec /\ WF_vars(Proceed)

-----------------------------------------------------------------------------
Label == [name : Texts, address : 0..(MaxProgram - 1)]

\* The types, and with them that no program grows past MaxProgram bytes, no
\* table past MaxLabels entries, and that address counts the bytes staged.
TypeOK ==
    /\ source \in Seq(Seq(Lexeme))
    /\ phase \in Phase
    /\ current_pass \in {1, 2}
    /\ line \in 1..(Len(source) + 1)
    /\ address \in 0..MaxProgram
    /\ labels \in Seq(Label) /\ Len(labels) <= MaxLabels
    /\ staged \in Seq(Byte) /\ Len(staged) = IF current_pass = 1 THEN 0 ELSE address
    /\ output \in Seq(Byte) \cup {NoFile} /\ old \in Seq(Byte) \cup {NoFile}
    /\ exit \in {0, 1, NoExit}
    /\ starts \in Seq(0..MaxProgram)

\* In the second pass every label stands at the address the first pass has
\* recorded for it, with strings and padding before it, and on whatever line.
LabelsKeepTheirPlace ==
    current_pass = 2 /\ line <= Len(source) /\ HasLabel(source[line])
        => LabelName(source[line]) \in Names /\ Resolved[LabelName(source[line])] = address

\* When the assembler reports success, the output is the source's translation:
\* the bytes of each line, one line after the other, with every reference to a
\* label replaced by the place of the one line that defines it.
Placed == PlacesOf(source, starts)
OutputIsTranslation == exit = 0 => IsTranslation(source, starts, output)

\* The machine takes every instruction of the output apart into the operation
\* and the operands that its line names, and knows the operation.
VMUnderstands ==
    exit = 0 =>
        \A j \in DOMAIN source :
            LET b == Body(source[j])
                i == Decode(SubSeq(output, starts[j] + 1, starts[j] + 4))
            IN  IsInstruction(b) =>
                    /\ starts[j] % 4 = 0
                    /\ i.type * 16 + i.op = Format[b[1].text].op
                    /\ <<i.type, i.op>> \in Known \/ i.raw \in {<<1, 0, 0, 0>>, <<2, 0, 0, 0>>}
                    /\ i.rd = RegField(b, 1)
                    /\ IF TakesImm(b) THEN i.imm = ImmField(b, Placed)
                                      ELSE i.rs = RegField(b, 2)

\* A source that is refused leaves the output as it was, whichever pass refuses
\* it, and does not create one.
RefusedKeepsOutput == diagnostic # None => output = old

\* The first pass finds everything that is wrong with a source but undefined
\* labels: no other complaint is left for the second pass, where half of the
\* program has been staged.
FirstPassFindsAll ==
    [][current_pass = 2 /\ diagnostic' # diagnostic => diagnostic' = "undefined label"]_vars

\* The assembler comes to an end.
Ends == <>(phase = "done")

\* The numbers a source writes are numbers from 0 to 0xFFFFF.
NumbersInRange ==
    exit = 0 =>
        \A j \in DOMAIN source : \A k \in DOMAIN source[j] :
            LET x == source[j][k]
            IN  x.kind = "number" =>
                    x.wraps = 0 /\ x.offset \in 0..1048575 /\ (x.neg => x.offset = 0)
=============================================================================
