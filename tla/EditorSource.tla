---------------------------- MODULE EditorSource ----------------------------
(***************************************************************************)
(* The three stages of the line editor in assembler, as small-asm reads    *)
(* them: programs/command-arguments.asm (day 41), programs/line-editor.asm *)
(* (day 42) and programs/line-storage.asm (day 43).  Each is the one       *)
(* before with some more commands; the lines they share are written once.  *)
(*                                                                         *)
(* A line is the sequence of its lexemes, as in AsmLine.  The characters   *)
(* of a text that is only printed are of no interest: it is its first one, *)
(* as often as the text is long.  The words that commands are compared     *)
(* with are what they are.                                                 *)
(***************************************************************************)
EXTENDS Integers, SequencesExt, EditorWords

CONSTANT BufferSize     \* bytes of a buffer, terminator included: 64 in the code

\* The input buffer, its last byte, and the stored line.
INPUT == 1280           \* 0x500
INPUT_LIMIT == INPUT + BufferSize - 1
STORED == 1536          \* 0x600

-----------------------------------------------------------------------------
(* Lines.                                                                  *)

Name(t) == [kind |-> "name", text |-> t]
Number(n) == [kind |-> "number", neg |-> FALSE, wraps |-> 0, offset |-> n]
At(r) == [kind |-> "mem", text |-> r]
Colon == [kind |-> "colon"]

Label(t) == <<Name(t), Colon>>
Movi(r, n) == <<Name("MOVI"), Name(r), Number(n)>>
Movi_label(r, t) == <<Name("MOVI"), Name(r), Name(t)>>
Inc(r) == <<Name("INC"), Name(r)>>
Ldb(rd, rs) == <<Name("LDB"), Name(rd), At(rs)>>
Stb(rd, rs) == <<Name("STB"), At(rd), Name(rs)>>
Cmp(rd, rs) == <<Name("CMP"), Name(rd), Name(rs)>>
Go(how, t) == <<Name(how), Name(t)>>
Syscall(n) == <<Name("SYSCALL"), Number(n)>>
Ret == <<Name("RET")>>
Halt == <<Name("HALT")>>

Text(label, symbols) ==
    <<Name(label), Colon, [kind |-> "directive", text |-> ".STRING"],
      [kind |-> "string", symbols |-> symbols]>>

\* A text that is only printed, of n characters.
Of(c, n) == [i \in 1..n |-> c]

-----------------------------------------------------------------------------
(* The command loop.                                                       *)

\* A comparison with one of the words.
Choice(word, target) ==
    << Movi_label("R2", word), Go("CALLI", "COMPARE_COMMAND"),
       Movi("R3", 1), Cmp("R0", "R3"), Go("JZ", target) >>

Say(text) == << Movi_label("R0", text), Syscall(1) >>

\* Lines that came with a day.
Since(first, day, lines) == IF day >= first THEN lines ELSE <<>>

command_loop(day) ==
    FlattenSeq(<<
        Since(42, day, << Movi("R5", STORED), Movi("R0", 0), Stb("R5", "R0") >>),
        << Label("COMMAND_LOOP") >>, Say("PROMPT_TEXT"),
        << Go("CALLI", "READ_LINE"), Go("CALLI", "SPLIT_LINE") >>,
        Choice("ECHO_WORD", "DO_ECHO"),
        Since(42, day, Choice("SET_WORD", "DO_SET")),
        << Ldb("R0", "R6"), Movi("R3", 0), Cmp("R0", "R3"), Go("JNZ", "DO_UNKNOWN") >>,
        Since(43, day, Choice("SAVE_WORD", "DO_SAVE") \o Choice("LOAD_WORD", "DO_LOAD")),
        Since(42, day, Choice("SHOW_WORD", "DO_SHOW")),
        Choice("HELP_WORD", "DO_HELP"),
        Choice("QUIT_WORD", "DO_QUIT"),
        << Go("JUMP", "DO_UNKNOWN") >> >>)

do_set ==
    << Label("DO_SET"), Movi("R3", 0), Cmp("R7", "R3"), Go("JNZ", "STORE_LINE") >>
    \o Say("TEXT_PROMPT") \o
    << Go("CALLI", "READ_LINE"), Movi("R6", INPUT),
       Label("STORE_LINE"), Go("CALLI", "COPY_LINE"), Go("JUMP", "COMMAND_LOOP") >>

do_show == << Label("DO_SHOW"), Movi("R0", STORED), Syscall(1), Go("JUMP", "PRINT_NEWLINE") >>

\* do_save and do_load: a system call on the stored line, and what is said of it.
Storage(label, call, said, failed, failed_text) ==
    << Label(label), Movi("R0", STORED), Syscall(call),
       Movi("R3", 0), Cmp("R0", "R3"), Go("JNZ", failed),
       Movi_label("R0", said), Go("JUMP", "STORAGE_NOTICE"),
       Label(failed), Movi_label("R0", failed_text) >>

do_save ==
    Storage("DO_SAVE", 4, "SAVED_TEXT", "SAVE_FAILED", "SAVE_FAILED_TEXT")
    \o << Go("JUMP", "STORAGE_NOTICE") >>
do_load ==
    Storage("DO_LOAD", 5, "LOADED_TEXT", "LOAD_FAILED", "LOAD_FAILED_TEXT")
    \o << Label("STORAGE_NOTICE"), Syscall(1), Go("JUMP", "COMMAND_LOOP") >>

do_help(day) ==
    << Label("DO_HELP") >> \o Say("HELP_TEXT") \o Since(43, day, Say("STORAGE_HELP_TEXT"))
    \o << Go("JUMP", "COMMAND_LOOP") >>
do_quit == << Label("DO_QUIT") >> \o Say("GOODBYE_TEXT") \o << Halt >>
do_unknown == << Label("DO_UNKNOWN") >> \o Say("UNKNOWN_TEXT") \o << Go("JUMP", "COMMAND_LOOP") >>

NewLine == << Movi("R0", 10), Syscall(3), Go("JUMP", "COMMAND_LOOP") >>

do_echo ==
    << Label("DO_ECHO"), Movi("R3", 0), Cmp("R7", "R3"), Go("JZ", "READ_ECHO_TEXT"),
       Label("PRINT_ARGUMENT"), Ldb("R0", "R6"), Cmp("R0", "R3"), Go("JZ", "PRINT_NEWLINE"),
       Syscall(3), Inc("R6"), Go("JUMP", "PRINT_ARGUMENT"),
       Label("READ_ECHO_TEXT") >> \o Say("TEXT_PROMPT") \o
    << Go("CALLI", "READ_LINE"), Movi("R0", INPUT), Syscall(1), Label("PRINT_NEWLINE") >>
    \o NewLine

-----------------------------------------------------------------------------
(* The subroutines.                                                        *)

\* copy_line that stops at the terminator before it has copied it.
copy_line_open ==
    << Label("COPY_LINE"), Movi("R5", STORED), Movi("R3", 0),
       Label("COPY_BYTE"), Ldb("R0", "R6"),
       Cmp("R0", "R3"), Go("JZ", "COPY_DONE"), Stb("R5", "R0"),
       Inc("R6"), Inc("R5"), Go("JUMP", "COPY_BYTE"),
       Label("COPY_DONE"), Ret >>

copy_line ==
    << Label("COPY_LINE"), Movi("R5", STORED), Movi("R3", 0),
       Label("COPY_BYTE"), Ldb("R0", "R6"), Stb("R5", "R0"),
       Cmp("R0", "R3"), Go("JZ", "COPY_DONE"),
       Inc("R6"), Inc("R5"), Go("JUMP", "COPY_BYTE"),
       Label("COPY_DONE"), Ret >>

\* split_line whose last loop looks at the same byte again and again.
split_line_stuck ==
    << Label("SPLIT_LINE"), Movi("R6", INPUT), Movi("R7", 0), Movi("R2", 32), Movi("R3", 0),
       Label("SKIP_LEADING"), Ldb("R0", "R6"), Cmp("R0", "R2"), Go("JNZ", "SCAN_COMMAND"),
       Inc("R6"), Go("JUMP", "SKIP_LEADING"),
       Label("SCAN_COMMAND"), Cmp("R0", "R3"), Go("JZ", "SPLIT_DONE"),
       Cmp("R0", "R2"), Go("JZ", "SPLIT_SEPARATOR"),
       Inc("R6"), Ldb("R0", "R6"), Go("JUMP", "SCAN_COMMAND"),
       Label("SPLIT_SEPARATOR"), Movi("R0", 0), Stb("R6", "R0"), Movi("R7", 1), Inc("R6"),
       Label("SKIP_SEPARATOR"), Ldb("R0", "R6"), Cmp("R0", "R2"), Go("JZ", "SKIP_SEPARATOR"),
       Label("SPLIT_DONE"), Ret >>

split_line ==
    << Label("SPLIT_LINE"), Movi("R6", INPUT), Movi("R7", 0), Movi("R2", 32), Movi("R3", 0),
       Label("SKIP_LEADING"), Ldb("R0", "R6"), Cmp("R0", "R2"), Go("JNZ", "SCAN_COMMAND"),
       Inc("R6"), Go("JUMP", "SKIP_LEADING"),
       Label("SCAN_COMMAND"), Cmp("R0", "R3"), Go("JZ", "SPLIT_DONE"),
       Cmp("R0", "R2"), Go("JZ", "SPLIT_SEPARATOR"),
       Inc("R6"), Ldb("R0", "R6"), Go("JUMP", "SCAN_COMMAND"),
       Label("SPLIT_SEPARATOR"), Movi("R0", 0), Stb("R6", "R0"), Movi("R7", 1),
       Label("SKIP_SEPARATOR"), Inc("R6"), Ldb("R0", "R6"),
       Cmp("R0", "R2"), Go("JZ", "SKIP_SEPARATOR"),
       Label("SPLIT_DONE"), Ret >>

\* read_line that looks for the limit when it has stored a byte.
read_line_late ==
    << Label("READ_LINE"), Movi("R1", INPUT),
       Label("READ_LOOP"), Syscall(2),
       Movi("R2", 10), Cmp("R0", "R2"), Go("JZ", "FINISH_INPUT"),
       Movi("R2", 13), Cmp("R0", "R2"), Go("JZ", "READ_LOOP"),
       Stb("R1", "R0"),
       Movi("R2", INPUT_LIMIT + 1), Cmp("R1", "R2"), Go("JZ", "READ_LOOP"),
       Inc("R1"), Go("JUMP", "READ_LOOP"),
       Label("FINISH_INPUT"), Movi("R0", 0), Stb("R1", "R0"), Ret >>

read_line ==
    << Label("READ_LINE"), Movi("R1", INPUT),
       Label("READ_LOOP"), Syscall(2),
       Movi("R2", 10), Cmp("R0", "R2"), Go("JZ", "FINISH_INPUT"),
       Movi("R2", 13), Cmp("R0", "R2"), Go("JZ", "READ_LOOP"),
       Movi("R2", INPUT_LIMIT), Cmp("R1", "R2"), Go("JZ", "READ_LOOP"),
       Stb("R1", "R0"), Inc("R1"), Go("JUMP", "READ_LOOP"),
       Label("FINISH_INPUT"), Movi("R0", 0), Stb("R1", "R0"), Ret >>

string_equal ==
    << Label("STRING_EQUAL"), Movi("R4", 0),
       Label("COMPARE_LOOP"), Ldb("R0", "R1"), Ldb("R3", "R2"),
       Cmp("R0", "R3"), Go("JNZ", "NOT_EQUAL"), Cmp("R0", "R4"), Go("JZ", "EQUAL"),
       Inc("R1"), Inc("R2"), Go("JUMP", "COMPARE_LOOP"),
       Label("EQUAL"), Movi("R0", 1), Ret,
       Label("NOT_EQUAL"), Movi("R0", 0), Ret >>

compare_command ==
    << Label("COMPARE_COMMAND"), Movi("R1", INPUT), Movi("R3", 32),
       Label("FIND_COMMAND"), Ldb("R0", "R1"), Cmp("R0", "R3"), Go("JNZ", "STRING_EQUAL"),
       Inc("R1"), Go("JUMP", "FIND_COMMAND") >>
    \o string_equal

-----------------------------------------------------------------------------
(* The texts, and the whole.                                               *)

prompt_text == Of(67, 9)
text_prompt == Of(84, 6)
help_text(day) == Of(67, CASE day = 40 -> 65 [] day = 41 -> 76 [] day > 41 -> 155)
goodbye_text == Of(71, 25)
unknown_text == Of(85, 16)
saved_text == Of(83, 7)
save_failed_text == Of(83, 13)
loaded_text == Of(76, 8)
load_failed_text == Of(76, 13)
storage_help_text == Of(115, 81)

\* All that the command help prints.
help(day) == help_text(day) \o (IF day >= 43 THEN storage_help_text ELSE <<>>)

texts(day) ==
    << Text("PROMPT_TEXT", prompt_text), Text("HELP_TEXT", help_text(day)),
       Text("GOODBYE_TEXT", goodbye_text), Text("UNKNOWN_TEXT", unknown_text),
       Text("HELP_WORD", HelpWord), Text("QUIT_WORD", QuitWord), Text("ECHO_WORD", EchoWord),
       Text("TEXT_PROMPT", text_prompt) >>
    \o Since(42, day, << Text("SET_WORD", SetWord), Text("SHOW_WORD", ShowWord) >>)
    \o Since(43, day,
        << Text("SAVE_WORD", SaveWord), Text("LOAD_WORD", LoadWord),
           Text("SAVED_TEXT", saved_text), Text("SAVE_FAILED_TEXT", save_failed_text),
           Text("LOADED_TEXT", loaded_text), Text("LOAD_FAILED_TEXT", load_failed_text),
           Text("STORAGE_HELP_TEXT", storage_help_text) >>)

EditorSource(day) ==
    FlattenSeq(<< command_loop(day),
        Since(42, day, do_set \o do_show), Since(43, day, do_save \o do_load),
        do_help(day), do_quit, do_unknown, do_echo,
        Since(42, day, copy_line), split_line, read_line, compare_command, texts(day) >>)

\* The commands each stage knows.
CommandsOf(day) ==
    {EchoWord, HelpWord, QuitWord}
    \cup (IF day >= 42 THEN {SetWord, ShowWord} ELSE {})
    \cup (IF day >= 43 THEN {SaveWord, LoadWord} ELSE {})
=============================================================================
