---------------------------- MODULE EditorWords ----------------------------
(***************************************************************************)
(* The commands of the line editor, programs/line-storage.asm and its two  *)
(* earlier stages, and the kinds of its answers.                           *)
(***************************************************************************)
SP == 32

EchoWord == <<101, 99, 104, 111>>
SetWord == <<115, 101, 116>>
SaveWord == <<115, 97, 118, 101>>
LoadWord == <<108, 111, 97, 100>>
ShowWord == <<115, 104, 111, 119>>
HelpWord == <<104, 101, 108, 112>>
QuitWord == <<113, 117, 105, 116>>

EditorCommands == {EchoWord, SetWord, SaveWord, LoadWord, ShowWord, HelpWord, QuitWord}

\* What is printed: one of the program's own texts, bytes, or nothing.
Notice(name) == [notice |-> name, text |-> <<>>]
Shown(bytes) == [notice |-> "text", text |-> bytes]
Silence == Notice("none")
=============================================================================
