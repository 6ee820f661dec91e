------------------------- MODULE AssembledSessions -------------------------
(***************************************************************************)
(* What is on the screen of the programs in assembler that came before the *)
(* line editor: whenever the user looks, what SampleSessions says of the   *)
(* program and of all that was typed.                                      *)
(***************************************************************************)
EXTENDS AssembledPrograms

\* The other programs answer what SampleSessions says of all that has been typed
\* so far, wait for more only when they are not over, and stop only when they
\* are, or at the end of the input.
BytesTyped ==
    FlattenSeq([k \in DOMAIN script |->
        IF script[k].kind = "line" THEN Append(script[k].bytes, LF) ELSE script[k].bytes])
W == INSTANCE SampleSessions WITH LineRoom <- LineSize - 1

SamplesAnswer ==
    mover = "user" /\ day \notin EditorDays =>
        LET reply == W!SampleSession(day, BytesTyped)
        IN  /\ stdout = reply.out
            /\ running = (~reply.over /\ ~closed)
=============================================================================
