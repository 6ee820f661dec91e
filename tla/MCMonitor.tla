----------------------------- MODULE MCMonitor -----------------------------
(***************************************************************************)
(* Small sessions of Monitor for TLC: programs of a few instructions that  *)
(* take more or less of the input, stop or loop, and inputs that name      *)
(* them.                                                                   *)
(***************************************************************************)
EXTENDS Monitor, SequencesExt, TLC

CONSTANTS
    InputLength  \* the longest input

ImageOf(program) ==
    [i \in 1..(4 * Len(program)) |-> program[((i - 1) \div 4) + 1][((i - 1) % 4) + 1]]

a == 97
b == 98
q == 113

\* a takes a byte of the input and pushes it; b takes bytes until there are
\* none; q is a file that no command can name; ab loops; ba fills memory and
\* begins with an unknown instruction; aa is too large.
SmallDisk ==
    << a >>    :> ImageOf(<< <<96,0,0,2>>, <<112,0,0,0>>, <<1,0,0,0>> >>)
 @@ << b >>    :> ImageOf(<< <<96,0,0,2>>, <<104,0,0,0>> >>)
 @@ << q >>    :> ImageOf(<< <<1,0,0,0>> >>)
 @@ << a, b >> :> ImageOf(<< <<104,0,0,0>> >>)
 @@ << b, a >> :> [i \in 1..MemSize |-> 128]
 @@ << a, a >> :> [i \in 1..(MemSize + 1) |-> 0]

Start(arguments, input) == [args |-> arguments, stdin |-> input]
SmallInputs == BoundedSeq({a, b, q, LF, CR, 0}, InputLength)

\* The monitor with every input; the self test; programs, one that does not
\* exist, one that is too large; and more than one argument.
SmallStarts ==
    {Start(<<>>, input) : input \in SmallInputs}
        \cup {Start(arguments, input) :
                arguments \in { <<SelfTestOption>>, << <<a>> >>, << <<b, b>> >>, << <<a, a>> >>,
                                << <<a>>, <<b>> >> },
                input \in BoundedSeq({a, LF}, 2)}
NoFiles == {NoFile}

=============================================================================
