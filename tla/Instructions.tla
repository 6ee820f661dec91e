---------------------------- MODULE Instructions ----------------------------
(***************************************************************************)
(* The instruction words of the machine: how execute() in notes/vm.c takes *)
(* them apart and which of them it knows.                                  *)
(***************************************************************************)
EXTENDS Words

Decode(w) ==
    [raw  |-> w,
     type |-> w[1] \div 16,
     op   |-> w[1] % 16,
     rd   |-> w[2] \div 16,
     rs   |-> w[2] % 16,
     imm  |-> (w[2] % 16) * 65536 + w[3] * 256 + w[4]]

\* The (type, op) pairs execute() knows, HALT and RET apart.
Known ==
    {<<1, 0>>, <<2, 0>>, <<2, 1>>, <<2, 2>>, <<2, 3>>, <<2, 4>>, <<3, 0>>, <<3, 1>>,
     <<4, 0>>, <<5, 0>>, <<5, 1>>, <<6, 0>>, <<6, 8>>, <<6, 9>>, <<6, 10>>, <<6, 11>>,
     <<7, 0>>, <<7, 1>>}
=============================================================================
