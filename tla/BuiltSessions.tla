--------------------------- MODULE BuiltSessions ---------------------------
(***************************************************************************)
(* What the programs of BuiltPrograms answer, compared with what their     *)
(* source means to answer (CommandSessions).                               *)
(***************************************************************************)
EXTENDS BuiltPrograms, CommandSessions

\* What has been read so far.
SoFar == SubSeq(given, 1, Len(given) - Len(stdin))

\* Whenever a program reads, it has answered all that has been typed so far,
\* and it is not over; when it has stopped, it has answered everything, and is
\* over or has met the end of its input.  So no answer is late, none is made
\* from what an earlier and longer line left in the buffer, and a byte behind
\* the last one that counts is left to whoever reads next.
AnswersAsTyped ==
    booted /\ (Waits \/ ~running) =>
        LET reply == Session(writer.name, SoFar)
        IN  /\ stdout = reply.out
            /\ running => ~reply.over
            /\ ~running => reply.over \/ stdin = <<>>
=============================================================================
