------------------------ MODULE MCAssembledPrograms ------------------------
(***************************************************************************)
(* What is typed at the assembled programs: at each stage of the editor    *)
(* all pairs of its lines and some longer sessions, at day 40 the same,    *)
(* and at the programs that read characters all short lines of them.       *)
(***************************************************************************)
EXTENDS AssembledSessions

a == 97
b == 98

SetSpace == SetWord \o <<SP, SP, b, SP>>
Overlong == <<b, CR, b, b, b, b, b, b, b, b>>
EndsInNul == <<SP, 0, b>>

\* Commands with and without spaces, arguments and separators; one that just
\* fits, one that does not, one cut by a NUL; a CR in the middle.
Lines41 ==
    { EchoWord, EchoWord \o <<SP, b>>, Overlong, EndsInNul, <<SP>> \o HelpWord,
      HelpWord \o <<SP, a>>, QuitWord, SetWord }
Lines42 == Lines41 \cup { SetSpace, <<SP>> \o SetWord \o <<SP, a>>, ShowWord \o <<CR>>, SaveWord }
Lines43 == Lines42 \cup { LoadWord, LoadWord \o <<SP, a>> }
Lines40 == { HelpWord, QuitWord, EchoWord, Overlong, EndsInNul, <<>>, <<SP>> \o HelpWord,
             HelpWord \o <<0, b>>, Tail(QuitWord) }
LinesOf(d) == CASE d = 40 -> Lines40 [] d = 41 -> Lines41 [] d = 42 -> Lines42 [] d = 43 -> Lines43

SomeEnds == {<<>>, Overlong}

L(bytes) == [kind |-> "line", bytes |-> bytes]
End(bytes) == [kind |-> "end", bytes |-> bytes]

\* A line that is saved, loaded after a new start and shown; texts that are
\* asked for; what is left in the buffers by a longer line.
Longer ==
    { <<L(SetSpace), L(SaveWord), L(QuitWord), L(LoadWord), L(ShowWord)>>,
      <<L(SetWord), L(Overlong), L(SaveWord), End(Overlong), L(ShowWord), L(LoadWord), L(ShowWord)>>,
      <<L(SetWord), L(Overlong), L(SetSpace), L(ShowWord), L(LoadWord), L(ShowWord)>>,
      <<L(EchoWord), L(Overlong), L(EchoWord), L(EndsInNul), L(EchoWord), End(Overlong)>> }

\* The line that do_set or do_echo asks for does not count.
Short(d, s) ==
    Len(s) < 2 \/ (Len(s) = 2 /\ <<d, s[1]>> \in {<<43, L(SetWord)>>, <<40, L(EchoWord)>>})

\* h, q, Enter, a space and something else.
Keys == {104, 113, CR, SP, b}
KeyLine(n) == UNION {[1..k -> Keys] : k \in 0..n}

SomeMayType(d, s) ==
    CASE d \in {25, 26, 27} /\ s = <<>> -> {L(l) : l \in KeyLine(1)} \cup {End(l) : l \in KeyLine(1)}
      [] d = 28 /\ Len(s) < 2 -> {L(l) : l \in KeyLine(2 - Len(s))} \cup {End(<<>>), End(<<b, SP>>)}
      [] d >= 40 ->
            (IF Short(d, s) THEN {L(l) : l \in LinesOf(d)} \cup {End(e) : e \in SomeEnds} ELSE {})
            \cup {t[Len(s) + 1] : t \in {t \in Longer : d > 40 /\ Len(t) > Len(s) /\ IsPrefix(s, t)}}
      [] OTHER -> {}
SomeLines == Lines43 \cup {ShowWord}
SomeFiles == {<<a, b>>}
=============================================================================
