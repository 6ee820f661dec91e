--------------------------- MODULE WriterPrograms ---------------------------
(***************************************************************************)
(* The programs that tools/write-*-bin.c put together, instruction by      *)
(* instruction, and the texts they place behind them.  In the code a jump  *)
(* forward is emitted with an empty field and patched when the address of  *)
(* its label is known; here an instruction names the label it jumps to,    *)
(* and address_of says where that is.                                      *)
(*                                                                         *)
(* The characters of a text that is only printed are of no interest: it is *)
(* its first character, repeated as often as the text is long.  The words  *)
(* that input is compared with are what they are.                          *)
(***************************************************************************)
EXTENDS Integers, Sequences, SequencesExt

CONSTANT LineRoom   \* characters of an input line: INPUT_LIMIT - INPUT_BUFFER, 63

ASSUME LineRoomAssumption == LineRoom \in 5..63

PROMPT_TEXT == 768
HELP_TEXT == 832
GOODBYE_TEXT == 928
UNKNOWN_TEXT == 992
HELP_WORD == 1056
QUIT_WORD == 1072
ECHO_WORD == 1088
TEXT_PROMPT == 1120
INPUT_BUFFER == 1280
INPUT_LIMIT == INPUT_BUFFER + LineRoom

-----------------------------------------------------------------------------
(* Instructions.                                                           *)

None == "none"
emit(word) == [word |-> word, to |-> None]

emit_movi(reg, imm) ==
    emit(<<64, reg * 16 + ((imm \div 65536) % 16), (imm \div 256) % 256, imm % 256>>)
emit_ldb(rd, rs) == emit(<<48, rd * 16 + rs, 0, 0>>)
emit_stb(rd, rs) == emit(<<49, rd * 16 + rs, 0, 0>>)
emit_inc(reg) == emit(<<32, reg * 16, 0, 0>>)
emit_cmp(rd, rs) == emit(<<36, rd * 16 + rs, 0, 0>>)
emit_syscall(imm) ==
    emit(<<96, (imm \div 65536) % 16, (imm \div 256) % 256, imm % 256>>)
HALT == emit(<<1, 0, 0, 0>>)
RET == emit(<<2, 0, 0, 0>>)

\* The four transfers, to a label or, where the code has it in hexadecimal, to
\* an address.
JUMP == 104
CALLI == 105
JZ == 106
JNZ == 107
emit_jump_placeholder(opcode, label) == [word |-> <<opcode, 0, 0, 0>>, to |-> label]
patch_jump(word, address) ==
    <<word[1], (address \div 65536) % 16, (address \div 256) % 256, address % 256>>
Fixed(opcode, address) == emit(patch_jump(<<opcode, 0, 0, 0>>, address))

\* A program is a sequence of blocks of instructions, each with a label.
Block(label, body) == [label |-> label, body |-> body]
BodyOf(blocks) == FlattenSeq([b \in DOMAIN blocks |-> blocks[b].body])

address_of(blocks, label) ==
    LET b == CHOOSE b \in DOMAIN blocks : blocks[b].label = label
    IN  4 * Len(BodyOf(SubSeq(blocks, 1, b - 1)))

\* The words of a program after its last patch_jump.
Patched(blocks) ==
    LET body == BodyOf(blocks)
    IN  [k \in DOMAIN body |->
            IF body[k].to = None THEN body[k].word
            ELSE patch_jump(body[k].word, address_of(blocks, body[k].to))]

-----------------------------------------------------------------------------
(* Parts that several of the programs share.                               *)

\* R1 points into the buffer.  An LF, a CR or a full buffer ends the line; what
\* the input has behind it is left there.
ReadLineEarly(last) ==
    << Block("read_loop", <<
           emit_syscall(2),
           emit_movi(2, 10), emit_cmp(0, 2), emit_jump_placeholder(JZ, "finish_input"),
           emit_movi(2, 13), emit_cmp(0, 2), emit_jump_placeholder(JZ, "finish_input"),
           emit_stb(1, 0), emit_inc(1),
           emit_movi(2, INPUT_LIMIT), emit_cmp(1, 2), emit_jump_placeholder(JZ, "finish_input"),
           emit_jump_placeholder(JUMP, "read_loop") >>),
       Block("finish_input", << emit_movi(0, 0), emit_stb(1, 0) >> \o last) >>

\* read_line that does not terminate the line it has read.
ReadLineOpen ==
    << Block("read_line", << emit_movi(1, INPUT_BUFFER) >>),
       Block("read_loop", <<
           emit_syscall(2),
           emit_movi(2, 10), emit_cmp(0, 2), emit_jump_placeholder(JZ, "finish_input"),
           emit_movi(2, 13), emit_cmp(0, 2), emit_jump_placeholder(JZ, "read_loop"),
           emit_movi(2, INPUT_LIMIT), emit_cmp(1, 2), emit_jump_placeholder(JZ, "read_loop"),
           emit_stb(1, 0), emit_inc(1),
           emit_jump_placeholder(JUMP, "read_loop") >>),
       Block("finish_input", << RET >>) >>

\* read_line that waits at the limit instead of reading on.
ReadLineHangs ==
    << Block("read_line", << emit_movi(1, INPUT_BUFFER) >>),
       Block("read_loop", <<
           emit_syscall(2),
           emit_movi(2, 10), emit_cmp(0, 2), emit_jump_placeholder(JZ, "finish_input"),
           emit_movi(2, 13), emit_cmp(0, 2), emit_jump_placeholder(JZ, "read_loop") >>),
       Block("limit", <<
           emit_movi(2, INPUT_LIMIT), emit_cmp(1, 2), emit_jump_placeholder(JZ, "limit"),
           emit_stb(1, 0), emit_inc(1),
           emit_jump_placeholder(JUMP, "read_loop") >>),
       Block("finish_input", << emit_movi(0, 0), emit_stb(1, 0), RET >>) >>

\* The later subroutine: only an LF ends the line, a CR is skipped, and what is
\* beyond the buffer is read and dropped.
ReadLineWhole ==
    << Block("read_line", << emit_movi(1, INPUT_BUFFER) >>),
       Block("read_loop", <<
           emit_syscall(2),
           emit_movi(2, 10), emit_cmp(0, 2), emit_jump_placeholder(JZ, "finish_input"),
           emit_movi(2, 13), emit_cmp(0, 2), emit_jump_placeholder(JZ, "read_loop"),
           emit_movi(2, INPUT_LIMIT), emit_cmp(1, 2), emit_jump_placeholder(JZ, "read_loop"),
           emit_stb(1, 0), emit_inc(1),
           emit_jump_placeholder(JUMP, "read_loop") >>),
       Block("finish_input", << emit_movi(0, 0), emit_stb(1, 0), RET >>) >>

\* R0 tells whether the strings at R1 and R2 are equal; both pointers move.
StringEqual ==
    << Block("string_equal", << emit_movi(4, 0) >>),
       Block("compare_loop", <<
           emit_ldb(0, 1), emit_ldb(3, 2), emit_cmp(0, 3),
           emit_jump_placeholder(JNZ, "not_equal"),
           emit_cmp(0, 4), emit_jump_placeholder(JZ, "equal"),
           emit_inc(1), emit_inc(2), emit_jump_placeholder(JUMP, "compare_loop") >>),
       Block("equal", << emit_movi(0, 1), RET >>),
       Block("not_equal", << emit_movi(0, 0), RET >>) >>

\* The line is compared with the word at an address, by string_equal.
CompareWord(word, hit) ==
    << emit_movi(1, INPUT_BUFFER), emit_movi(2, word),
       emit_jump_placeholder(CALLI, "string_equal"),
       emit_movi(3, 1), emit_cmp(0, 3), emit_jump_placeholder(JZ, hit) >>

\* emit_compare_byte, and the jump on a mismatch, for each byte of a word and
\* its terminator.
emit_compare_byte(offset, expected) ==
    << emit_movi(1, INPUT_BUFFER + offset), emit_ldb(0, 1), emit_movi(2, expected),
       emit_cmp(0, 2) >>
CompareBytes(word, miss, hit) ==
    FlattenSeq([k \in 1..5 |->
        Append(emit_compare_byte(k - 1, Append(word, 0)[k]), emit_jump_placeholder(JNZ, miss))])
    \o << emit_jump_placeholder(JUMP, hit) >>

Show(text) == << emit_movi(0, text), emit_syscall(1) >>

-----------------------------------------------------------------------------
(* The programs.                                                           *)

help == <<104, 101, 108, 112>>
quit == <<113, 117, 105, 116>>
echo == <<101, 99, 104, 111>>

hello == << emit_movi(0, 65), emit_syscall(0), HALT >>

boot_message ==
    << emit_movi(0, 256), emit_syscall(1),
       emit_movi(0, 62), emit_syscall(3), emit_syscall(2),
       emit_movi(1, 104), emit_cmp(0, 1), Fixed(JZ, 100), Fixed(JNZ, 36),
       emit_movi(1, 113), emit_cmp(0, 1), Fixed(JZ, 112), Fixed(JNZ, 52),
       emit_movi(1, 10), emit_cmp(0, 1), Fixed(JZ, 8), Fixed(JNZ, 68),
       emit_movi(1, 13), emit_cmp(0, 1), Fixed(JZ, 8), Fixed(JNZ, 84),
       emit_movi(1, 32), emit_cmp(0, 1), Fixed(JZ, 8), Fixed(JNZ, 124),
       emit_movi(0, 320), emit_syscall(1), Fixed(JUMP, 8),
       emit_movi(0, 384), emit_syscall(1), HALT,
       emit_movi(0, 63), emit_syscall(0), Fixed(JUMP, 8) >>

line_buffer ==
    << emit_movi(0, 256), emit_syscall(1),
       emit_movi(1, 384), emit_syscall(2),
       emit_movi(2, 10), emit_cmp(0, 2), Fixed(JZ, 64),
       emit_movi(2, 13), emit_cmp(0, 2), Fixed(JZ, 64),
       emit_stb(1, 0), emit_inc(1),
       emit_movi(2, 384 + LineRoom), emit_cmp(1, 2), Fixed(JZ, 64),
       Fixed(JUMP, 12),
       emit_movi(0, 0), emit_stb(1, 0),
       emit_movi(0, 320), emit_syscall(1), emit_movi(0, 384), emit_syscall(1),
       emit_movi(0, 10), emit_syscall(3), HALT >>

Answers(next) ==
    << Block("do_help", Append(Show(HELP_TEXT), next)),
       Block("do_quit", Append(Show(GOODBYE_TEXT), HALT)),
       Block("do_unknown", Append(Show(UNKNOWN_TEXT), next)) >>

word_command ==
    << Block("start", Show(PROMPT_TEXT) \o << emit_movi(1, INPUT_BUFFER) >>) >>
    \o ReadLineEarly(<<>>)
    \o << Block("compare_help", CompareBytes(help, "compare_quit", "do_help")),
          Block("compare_quit", CompareBytes(quit, "do_unknown", "do_quit")) >>
    \o Answers(HALT)

word_command_subroutine ==
    << Block("start", Show(PROMPT_TEXT) \o << emit_jump_placeholder(CALLI, "read_line") >>),
       Block("compare_help", CompareBytes(help, "compare_quit", "do_help")),
       Block("compare_quit", CompareBytes(quit, "do_unknown", "do_quit")) >>
    \o Answers(HALT)
    \o << Block("read_line", << emit_movi(1, INPUT_BUFFER) >>) >> \o ReadLineEarly(<< RET >>)

word_command_compare ==
    << Block("start", Show(PROMPT_TEXT) \o << emit_jump_placeholder(CALLI, "read_line") >>
           \o CompareWord(HELP_WORD, "do_help") \o CompareWord(QUIT_WORD, "do_quit")
           \o << emit_jump_placeholder(JUMP, "do_unknown") >>) >>
    \o Answers(HALT)
    \o << Block("read_line", << emit_movi(1, INPUT_BUFFER) >>) >> \o ReadLineEarly(<< RET >>)
    \o StringEqual

word_command_loop ==
    << Block("command_loop", Show(PROMPT_TEXT) \o << emit_jump_placeholder(CALLI, "read_line") >>
           \o CompareWord(HELP_WORD, "do_help") \o CompareWord(QUIT_WORD, "do_quit")
           \o << emit_jump_placeholder(JUMP, "do_unknown") >>) >>
    \o Answers(emit_jump_placeholder(JUMP, "command_loop"))
    \o ReadLineWhole \o StringEqual

echo_command ==
    << Block("command_loop", Show(PROMPT_TEXT) \o << emit_jump_placeholder(CALLI, "read_line") >>
           \o CompareWord(HELP_WORD, "do_help") \o CompareWord(QUIT_WORD, "do_quit")
           \o CompareWord(ECHO_WORD, "do_echo")
           \o << emit_jump_placeholder(JUMP, "do_unknown") >>) >>
    \o Answers(emit_jump_placeholder(JUMP, "command_loop"))
    \o << Block("do_echo", Show(TEXT_PROMPT) \o << emit_jump_placeholder(CALLI, "read_line") >>
              \o Show(INPUT_BUFFER) \o << emit_movi(0, 10), emit_syscall(3),
                                           emit_jump_placeholder(JUMP, "command_loop") >>) >>
    \o ReadLineWhole \o StringEqual

-----------------------------------------------------------------------------
(* The texts, in the order in which they are written.                      *)

At(address, text) == [at |-> address, text |-> text]
Of(first, length) == [i \in 1..length |-> first]

boot_message_texts == << At(256, Of(87, 23)), At(320, Of(67, 26)), At(384, Of(71, 25)) >>
line_buffer_texts == << At(256, Of(84, 25)), At(320, Of(89, 11)) >>
word_command_texts ==
    << At(PROMPT_TEXT, Of(67, 9)), At(HELP_TEXT, Of(99, 37)),
       At(GOODBYE_TEXT, Of(71, 25)), At(UNKNOWN_TEXT, Of(85, 16)) >>
word_command_subroutine_texts ==
    << At(PROMPT_TEXT, Of(67, 9)), At(HELP_TEXT, Of(99, 37)),
       At(GOODBYE_TEXT, Of(71, 25)), At(UNKNOWN_TEXT, Of(85, 16)) >>
word_command_compare_texts ==
    word_command_subroutine_texts \o << At(HELP_WORD, help), At(QUIT_WORD, quit) >>
word_command_loop_texts ==
    << At(PROMPT_TEXT, Of(67, 9)), At(HELP_TEXT, Of(99, 37)),
       At(GOODBYE_TEXT, Of(71, 25)), At(UNKNOWN_TEXT, Of(85, 16)),
       At(HELP_WORD, help), At(QUIT_WORD, quit) >>
echo_command_texts ==
    << At(PROMPT_TEXT, Of(67, 9)), At(HELP_TEXT, Of(99, 65)),
       At(GOODBYE_TEXT, Of(71, 25)), At(UNKNOWN_TEXT, Of(85, 16)),
       At(HELP_WORD, help), At(QUIT_WORD, quit), At(ECHO_WORD, echo),
       At(TEXT_PROMPT, Of(84, 6)) >>
=============================================================================
