---------------------------- MODULE MCLineEditor ----------------------------
(***************************************************************************)
(* Small instances of LineEditor for TLC: buffers of seven bytes, and what *)
(* may be typed into them.                                                 *)
(***************************************************************************)
EXTENDS LineEditor

a == 97
b == 98

\* Commands with and without spaces, arguments and separators; one that just
\* fits, one that does not, one cut by a NUL; a CR in the middle.
SomeTyped ==
    { SetWord, SetWord \o <<SP>>, <<SP>> \o SetWord \o <<SP, a>>, SetWord \o <<SP, SP, b, SP>>,
      EchoWord, EchoWord \o <<SP, b>>, <<SP, 0, b>>, <<b, CR, b, b, b, b, b, b>>,
      SaveWord, LoadWord, LoadWord \o <<SP, a>>, ShowWord \o <<CR>>, HelpWord, QuitWord }
\* A text that is a command, one that does not fit, one that a NUL empties.
SomeTexts == {QuitWord, <<b, CR, b, a, b, b, b, b, b, b>>, <<0, a>>}
SomeUnfinished == {<<a>>}

\* Files that can be loaded or not: one that just fits, one that does not.
SomeFiles == {NoFile, <<b, LF>>, <<a, b, b, b, b, b>>, <<b, b, b, b, b, b, b>>}
=============================================================================
