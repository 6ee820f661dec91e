--------------------------- MODULE AbstractEditor ---------------------------
(***************************************************************************)
(* What programs/line-storage.asm and its earlier stages promise           *)
(* (manual/specs/041 to 043): an editor that keeps one line.  It has no    *)
(* buffers, no terminators and no registers; a command is a decomposition  *)
(* of the text typed.                                                      *)
(***************************************************************************)
EXTENDS StoredLine, EditorWords

CONSTANTS
    Commands,   \* the commands it knows
    Typed,      \* what may be typed as a command, its LF left out
    Texts,      \* what may be typed where a text is asked for
    Files       \* what line.txt may hold in the beginning

VARIABLES
    text,       \* the line kept
    file,       \* line.txt
    phase,      \* "command", "set" or "echo" (it waits for text), "halted", "eof"
    typed,      \* the line typed last
    reply       \* what it was answered

vars == <<text, file, phase, typed, reply>>

\* What is visible of a typed line: its bytes but the CRs.
Visible(bytes) ==
    LET visible[k \in 0..Len(bytes)] ==
            IF k = 0 THEN <<>>
            ELSE IF bytes[k] = CR THEN visible[k - 1]
            ELSE Append(visible[k - 1], bytes[k])
    IN  visible[Len(bytes)]

\* The text of a typed line: what is visible, up to a NUL or the limit.
TextOf(bytes) ==
    LET visible == Visible(bytes)
        limit == IF Len(visible) < LineSize THEN Len(visible) ELSE LineSize - 1
        length == CHOOSE n \in 0..limit :
            /\ n = limit \/ visible[n + 1] = 0
            /\ \A i \in 1..n : visible[i] # 0
    IN  SubSeq(visible, 1, length)

\* t is spaces, a command, spaces that separate it, and an argument: three
\* places where the one ends and the next begins.
Parsed(t) ==
    LET Blank(i) == t[i] = SP
        lead == CHOOSE n \in 0..Len(t) :
            (\A x \in 1..n : Blank(x)) /\ (n < Len(t) => ~Blank(n + 1))
        cut == CHOOSE n \in lead..Len(t) :
            (\A x \in (lead + 1)..n : ~Blank(x)) /\ (n < Len(t) => Blank(n + 1))
        gap == CHOOSE n \in cut..Len(t) :
            (\A x \in (cut + 1)..n : Blank(x)) /\ (n < Len(t) => ~Blank(n + 1))
    IN  [command |-> SubSeq(t, lead + 1, cut),
         separated |-> cut < Len(t),
         argument |-> SubSeq(t, gap + 1, Len(t))]

Init ==
    /\ text = <<>> /\ file \in Files
    /\ phase = "command" /\ typed = <<>> /\ reply = Silence

Answer(r, next) == reply' = r /\ phase' = next

Refuse == Answer(Notice("unknown"), "command") /\ UNCHANGED <<text, file>>

\* What a command does; only set and echo take an argument.
Obey(p) ==
    \/ /\ p.command = EchoWord
       /\ IF p.separated THEN Answer(Shown(p.argument), "command") ELSE Answer(Silence, "echo")
       /\ UNCHANGED <<text, file>>
    \/ /\ p.command = SetWord /\ p.separated
       /\ text' = p.argument /\ Answer(Silence, "command") /\ UNCHANGED file
    \/ /\ p.command = SetWord /\ ~p.separated
       /\ Answer(Silence, "set") /\ UNCHANGED <<text, file>>
    \/ /\ p.command = ShowWord /\ p.argument = <<>>
       /\ Answer(Shown(text), "command") /\ UNCHANGED <<text, file>>
    \/ /\ p.command = HelpWord /\ p.argument = <<>>
       /\ Answer(Notice("help"), "command") /\ UNCHANGED <<text, file>>
    \/ /\ p.command = QuitWord /\ p.argument = <<>>
       /\ Answer(Notice("goodbye"), "halted") /\ UNCHANGED <<text, file>>
    \/ /\ p.command = SaveWord /\ p.argument = <<>>
       /\ \/ file' = text /\ Answer(Notice("saved"), "command")
          \/ /\ file' = file \/ \E n \in 0..Len(text) : file' = SubSeq(text, 1, n)
             /\ Answer(Notice("not saved"), "command")
       /\ UNCHANGED text
    \/ /\ p.command = LoadWord /\ p.argument = <<>>
       /\ \/ /\ file # NoFile /\ Loadable(file)
             /\ text' = file /\ Answer(Notice("loaded"), "command")
          \/ text' = text /\ Answer(Notice("not loaded"), "command")
       /\ UNCHANGED file
    \/ p.command \notin {EchoWord, SetWord} /\ p.argument # <<>> /\ Refuse

Heed(p) == IF p.command \in Commands THEN Obey(p) ELSE Refuse

Command(bytes) == phase = "command" /\ typed' = bytes /\ Heed(Parsed(TextOf(bytes)))

SetText(bytes) ==
    /\ phase = "set" /\ typed' = bytes
    /\ text' = TextOf(bytes) /\ Answer(Silence, "command") /\ UNCHANGED file

EchoText(bytes) ==
    /\ phase = "echo" /\ typed' = bytes
    /\ Answer(Shown(TextOf(bytes)), "command") /\ UNCHANGED <<text, file>>

\* An incomplete line stops the program and does nothing else.
EndOfInput ==
    /\ phase \in {"command", "set", "echo"}
    /\ Answer(Silence, "eof") /\ UNCHANGED <<text, file, typed>>

\* A new start begins with an empty line; line.txt stays.
Restart ==
    /\ phase \in {"halted", "eof"}
    /\ text' = <<>> /\ typed' = <<>> /\ Answer(Silence, "command") /\ UNCHANGED file

Next ==
    \/ \E bytes \in Typed : Command(bytes)
    \/ \E bytes \in Texts : SetText(bytes) \/ EchoText(bytes)
    \/ EndOfInput \/ Restart

Spec == Init /\ [][Next]_vars
=============================================================================
