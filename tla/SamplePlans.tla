---------------------------- MODULE SamplePlans ----------------------------
(***************************************************************************)
(* Where the programs in assembler may write, and whether they read in a   *)
(* subroutine: for each day the plan (Confinement) that its code, once it  *)
(* is assembled, has a certificate for.                                    *)
(***************************************************************************)
EXTENDS SampleSource

Buffer(a) == a..(a + BufferSize - 1)

\* The input buffer, from the day that reads a line, and the stored line.
WritesOf(day) ==
    CASE day > 41 -> Buffer(INPUT) \cup Buffer(STORED)
      [] day \in {40, 41} -> Buffer(INPUT)
      [] day \in {37, 38} -> {INPUT, INPUT + 1}
      [] OTHER -> {}

\* The lines of a source that call READ_LINE.
Calls(s) == {j \in DOMAIN s : s[j] = Go("CALLI", "READ_LINE")}

\* The last byte of the input buffer ends every line and is never anything but a
\* NUL.  PRINT_BYTE hands the incremented R1 back; of the subroutines of the
\* later programs it is enough to know that they hand R6 back.
PlanOf(day, code) ==
    [code |-> code, writes |-> WritesOf(day),
     zeros |-> IF day >= 40 THEN {INPUT_LIMIT} ELSE {},
     kept |-> IF day \in {37, 38} THEN {1} ELSE {6},
     reads |-> Calls(Source(day)) # {}]
=============================================================================
