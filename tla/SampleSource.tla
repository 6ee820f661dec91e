---------------------------- MODULE SampleSource ----------------------------
(***************************************************************************)
(* The smaller programs in assembler, as small-asm reads them: days 23 to  *)
(* 28 without labels, with the addresses of their jumps counted by hand,   *)
(* days 37 to 39 that try memory, labels and strings, and day 40, the      *)
(* command loop that the line editor grows from.                           *)
(***************************************************************************)
EXTENDS EditorSource

\* A jump to an address.
To(how, address) == <<Name(how), Number(address)>>

Show(c) == << Movi("R0", c), Syscall(0) >>
ReadKey == << Syscall(2) >>
If(key, address, otherwise) ==
    << Movi("R1", key), Cmp("R0", "R1"), To("JZ", address), To("JNZ", otherwise) >>

hello == Show(65) \o << Halt >>
echo_char == ReadKey \o << Syscall(0), Halt >>
prompt_echo == Show(62) \o ReadKey \o << Syscall(0), Halt >>

one_char_command ==
    Show(62) \o ReadKey \o If(104, 28, 40) \o Show(72) \o << Halt >>
    \o If(113, 68, 56) \o Show(63) \o << Halt, Halt >>

\* command_loop that goes back to the prompt for an Enter.
command_loop_prompts ==
    << Movi("R0", 62), Syscall(3) >> \o ReadKey
    \o If(104, 92, 28) \o If(113, 116, 44) \o If(10, 0, 60) \o If(13, 0, 76) \o If(32, 0, 104)
    \o Show(72) \o << To("JUMP", 0) >> \o Show(63) \o << To("JUMP", 0), Halt >>

command_loop_keys ==
    << Movi("R0", 62), Syscall(3) >> \o ReadKey
    \o If(104, 92, 28) \o If(113, 116, 44) \o If(10, 8, 60) \o If(13, 8, 76) \o If(32, 8, 104)
    \o Show(72) \o << To("JUMP", 0) >> \o Show(63) \o << To("JUMP", 0), Halt >>

\* Two bytes are stored, and printed by a routine that call calls.
TwoBytes(call) ==
    << Movi("R1", INPUT), Movi("R0", 65), Stb("R1", "R0"), Inc("R1"),
       Movi("R0", 66), Stb("R1", "R0"), Movi("R1", INPUT), call, call, Halt >>
print_byte == << Ldb("R0", "R1"), Syscall(0), Inc("R1"), Ret >>

asm_memory_call == TwoBytes(To("CALLI", 40)) \o print_byte
asm_label_call == TwoBytes(Go("CALLI", "PRINT_BYTE")) \o << Label("PRINT_BYTE") >> \o print_byte

asm_string ==
    << Go("JUMP", "START"), Text("MESSAGE", Of(72, 10) \o <<256 + 110>>),
       <<[kind |-> "directive", text |-> ".ALIGN"], Number(4)>>,
       Label("START"), Movi_label("R0", "MESSAGE"), Syscall(1), Halt >>

\* Day 40: the whole line is the command.
Is(word, target) ==
    << Movi("R1", INPUT), Movi_label("R2", word), Go("CALLI", "STRING_EQUAL"),
       Movi("R3", 1), Cmp("R0", "R3"), Go("JZ", target) >>

asm_echo_command ==
    << Label("COMMAND_LOOP") >> \o Say("PROMPT_TEXT") \o << Go("CALLI", "READ_LINE") >>
    \o Is("HELP_WORD", "DO_HELP") \o Is("QUIT_WORD", "DO_QUIT") \o Is("ECHO_WORD", "DO_ECHO")
    \o << Go("JUMP", "DO_UNKNOWN") >> \o do_help(40) \o do_quit \o do_unknown
    \o << Label("DO_ECHO") >> \o Say("TEXT_PROMPT")
    \o << Go("CALLI", "READ_LINE"), Movi("R0", INPUT), Syscall(1) >> \o NewLine
    \o read_line \o string_equal \o texts(40)

Source(day) ==
    CASE day = 23 -> hello
      [] day = 25 -> echo_char
      [] day = 26 -> prompt_echo
      [] day = 27 -> one_char_command
      [] day = 28 -> command_loop_keys
      [] day = 37 -> asm_memory_call
      [] day = 38 -> asm_label_call
      [] day = 39 -> asm_string
      [] day = 40 -> asm_echo_command
      [] day > 40 -> EditorSource(day)
=============================================================================
