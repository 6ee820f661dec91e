-------------------------- MODULE MCBuiltPrograms --------------------------
(***************************************************************************)
(* The eight tools, and what is typed at their programs.                   *)
(***************************************************************************)
EXTENDS BuiltSessions

\* The tools, and one whose MAX_INSTS has become too small for its program.
AllWriters == Tools \cup {[w EXCEPT !.maxInsts = 64] : w \in {w \in Tools : w.name = "echo-command"}}

\* Their pieces do not overlap.
ASSUME ToolsApart ==
    \A w \in AllWriters : \A k, l \in 1..Len(w.pieces) :
        k < l => w.pieces[k].at + Len(w.pieces[k].bytes) <= w.pieces[l].at

\* The states that the forgetful machine reaches, a generation at a time.
RECURSIVE Explore(_, _, _)
Explore(plan, seen, new) ==
    IF new = {} THEN seen
    ELSE LET next == UNION {Leads(plan, s, InstructionAt(plan, s)) : s \in {s \in new : InCode(plan, s)}}
         IN  Explore(plan, seen \cup next, next \ seen)
Reached(plan) == Explore(plan, {Entry}, {Entry})

\* Every program has its certificate, and its code is where a machine begins.
ASSUME ToolsCertified ==
    \A w \in AllWriters :
        /\ IsPlan(PlanOf(w)) /\ Certifies(Reached(PlanOf(w)), PlanOf(w))
        /\ w.pieces[1].at = 0

\* No file, and one that is longer than some of the new ones.
SomeOldFiles == {Absent, [i \in 1..500 |-> 255]}

x == 120
LFs == <<10>>
CRLFs == <<13, 10>>

\* As long as a line may be, and longer; with a NUL, and a CR, in the middle.
Exact == [i \in 1..LineRoom |-> IF i <= 4 THEN help[i] ELSE x]
Long == [i \in 1..(LineRoom + 2) |-> IF i <= 4 THEN quit[i] ELSE x]
WordsTyped == {help, quit, echo, <<104, 101>>, <<>>, Exact, Long,
               help \o <<0>>, <<113, 117, 13, 105, 116>>}
Line == {w \o LFs : w \in WordsTyped} \cup {help \o CRLFs, quit \o CRLFs}

\* A line and something behind it, or a line that is not finished.
OneOf == {l \o <<x>> : l \in Line} \cup {<<>>, quit}
TwoOf == {l \o m : l, m \in Line} \cup {l \o echo : l \in Line} \cup {<<>>}
ThreeOf == TwoOf \cup {echo \o LFs \o l \o m : l \in Line, m \in {Exact \o LFs, quit \o LFs}}
KeysTyped == UNION {[1..n -> {104, 113, 10, 13, 32, x}] : n \in 0..3}

TypedAt ==
    [name \in {w.name : w \in Tools} |->
        CASE name = "hello" -> {<<x>>}
          [] name = "boot-message" -> KeysTyped
          [] name = "word-command-loop" -> TwoOf
          [] name = "echo-command" -> ThreeOf
          [] OTHER -> OneOf]
NoInput == {<<>>}
=============================================================================
