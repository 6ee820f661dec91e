--------------------------- MODULE SampleSessions ---------------------------
(***************************************************************************)
(* What the programs of SampleSource promise, without machine and memory:  *)
(* what each has answered when it has read the bytes s, and whether it is  *)
(* over.  From manual/specs/023, 025 to 028 and 037 to 040.                *)
(***************************************************************************)
EXTENDS CommandSessions

\* A character that is printed on a line of its own.
Line(c) == <<c, EndOfLine>>

\* A program that answers the one character it reads.
OneKey(s, prompt, AnswerTo(_)) ==
    IF s = <<>> THEN Reply(prompt, FALSE) ELSE Reply(prompt \o AnswerTo(s[1]), TRUE)

Command(key) == CASE key = 104 -> Line(72) [] key = 113 -> <<>> [] OTHER -> Line(63)

\* Day 28: an Enter or a space is not answered, not even by a prompt.
RECURSIVE KeyLoop(_)
KeyLoop(s) ==
    LET keys == {k \in 1..Len(s) : s[k] \notin {EndOfLine, CarriageReturn, 32}}
    IN  IF keys = {} THEN Reply(<<62>>, FALSE)
        ELSE LET k == CHOOSE k \in keys : \A i \in keys : k <= i
             IN  IF s[k] = 113 THEN Reply(<<62>>, TRUE)
                 ELSE After(<<62>> \o Command(s[k]), KeyLoop(SubSeq(s, k + 1, Len(s))))

SampleSession(day, s) ==
    CASE day = 23 -> Reply(Line(65), TRUE)
      [] day = 25 -> OneKey(s, <<>>, Line)
      [] day = 26 -> OneKey(s, Line(62), Line)
      [] day = 27 -> OneKey(s, Line(62), Command)
      [] day = 28 -> KeyLoop(s)
      [] day \in {37, 38} -> Reply(Line(65) \o Line(66), TRUE)
      [] day = 39 -> Reply(Of(72, 10) \o <<EndOfLine>>, TRUE)
      [] day = 40 -> Conversation(s, Of(67, 65), TRUE)
=============================================================================
