-------------------------- MODULE CommandSessions --------------------------
(***************************************************************************)
(* What the programs of WriterPrograms promise, without machine, memory or *)
(* buffer: what each has answered when it has read the bytes s, and        *)
(* whether it is over.  From manual/specs/022, 029, 030 and 032 to 036,    *)
(* for a line of LineRoom characters.                                      *)
(***************************************************************************)
EXTENDS WriterPrograms

EndOfLine == 10
CarriageReturn == 13

Reply(out, over) == [out |-> out, over |-> over]
After(out, reply) == Reply(out \o reply.out, reply.over)

\* A NUL that was typed ends a string early.
UpToNul(t) ==
    LET n == CHOOSE n \in 0..Len(t) :
            (n = Len(t) \/ t[n + 1] = 0) /\ \A i \in 1..n : t[i] # 0
    IN  SubSeq(t, 1, n)

PromptOut == Of(67, 9)
GoodbyeOut == Of(71, 25)
UnknownOut == Of(85, 16)

-----------------------------------------------------------------------------
(* Day 29: one character is a command.                                     *)

RECURSIVE Keys(_)
Keys(s) ==
    IF s = <<>> THEN Reply(<<62>>, FALSE)
    ELSE CASE s[1] = 113 -> Reply(<<62>> \o Of(71, 25), TRUE)
           [] s[1] = 104 -> After(<<62>> \o Of(67, 26), Keys(Tail(s)))
           [] s[1] \in {EndOfLine, CarriageReturn, 32} -> After(<<62>>, Keys(Tail(s)))
           [] OTHER -> After(<<62, 63, EndOfLine>>, Keys(Tail(s)))

-----------------------------------------------------------------------------
(* Days 30 and 32 to 34: the line is over at an LF, a CR, or when it is as *)
(* long as it may be.                                                      *)

EarlyEnds(s) ==
    {n \in 1..Len(s) : /\ s[n] \in {EndOfLine, CarriageReturn} \/ n = LineRoom
                       /\ \A i \in 1..(n - 1) : s[i] \notin {EndOfLine, CarriageReturn}
                                               /\ i # LineRoom}
EarlyLine(s, n) ==
    UpToNul(IF s[n] \in {EndOfLine, CarriageReturn} THEN SubSeq(s, 1, n - 1)
            ELSE SubSeq(s, 1, n))

\* Answers to the one line that is read.
OneLine(s, prompt, AnswerTo(_)) ==
    IF EarlyEnds(s) = {} THEN Reply(prompt, FALSE)
    ELSE Reply(prompt \o AnswerTo(EarlyLine(s, CHOOSE n \in EarlyEnds(s) : TRUE)), TRUE)

TypedBack(word) == Of(89, 11) \o word \o <<EndOfLine>>
WordAnswer(word) ==
    IF word = help THEN Of(99, 37) ELSE IF word = quit THEN GoodbyeOut ELSE UnknownOut

-----------------------------------------------------------------------------
(* Days 35 and 36: a line is over at its LF, without the CRs in it, and    *)
(* what it has too much is ignored.                                        *)

Lines(s) == {n \in 1..Len(s) : s[n] = EndOfLine}
FirstLine(s) == CHOOSE n \in Lines(s) : \A m \in Lines(s) : n <= m
Rest(s) == SubSeq(s, FirstLine(s) + 1, Len(s))

WholeLine(s) ==
    LET kept == SelectSeq(SubSeq(s, 1, FirstLine(s) - 1), LAMBDA b : b # CarriageReturn)
    IN  UpToNul(IF Len(kept) > LineRoom THEN SubSeq(kept, 1, LineRoom) ELSE kept)

RECURSIVE Conversation(_, _, _)
Conversation(s, helpOut, echoes) ==
    IF Lines(s) = {} THEN Reply(PromptOut, FALSE)
    ELSE LET word == WholeLine(s)
             rest == Rest(s)
         IN  IF word = quit THEN Reply(PromptOut \o GoodbyeOut, TRUE)
             ELSE IF word = help
             THEN After(PromptOut \o helpOut, Conversation(rest, helpOut, echoes))
             ELSE IF word = echo /\ echoes
             THEN IF Lines(rest) = {} THEN Reply(PromptOut \o Of(84, 6), FALSE)
                  ELSE After(PromptOut \o Of(84, 6) \o WholeLine(rest) \o <<EndOfLine>>,
                             Conversation(Rest(rest), helpOut, echoes))
             ELSE After(PromptOut \o UnknownOut, Conversation(rest, helpOut, echoes))

-----------------------------------------------------------------------------
Session(name, s) ==
    CASE name = "hello" -> Reply(<<65, EndOfLine>>, TRUE)
      [] name = "boot-message" -> After(Of(87, 23), Keys(s))
      [] name = "line-buffer" -> OneLine(s, Of(84, 25), TypedBack)
      [] name \in {"word-command", "word-command-subroutine", "word-command-compare"} ->
             OneLine(s, PromptOut, WordAnswer)
      [] name = "word-command-loop" -> Conversation(s, Of(99, 37), FALSE)
      [] name = "echo-command" -> Conversation(s, Of(99, 65), TRUE)
=============================================================================
