--------------------------- MODULE AtomicStorage ---------------------------
(***************************************************************************)
(* What the two calls of notes/line-storage.h promise a program that is    *)
(* alone in its directory: each happens at once, with one of the outcomes  *)
(* of StoredLine, which are those VM gives to SYSCALL 4 and SYSCALL 5.  A  *)
(* process killed in the middle of a save leaves line.txt as it was, or an *)
(* initial part of its line there.                                         *)
(***************************************************************************)
EXTENDS StoredLine

CONSTANTS Procs, Buffers, Blank, Files, Unset

VARIABLES file, buf, result

vars == <<file, buf, result>>

Init ==
    /\ file \in Files
    /\ buf = [p \in Procs |-> Blank]
    /\ result = [p \in Procs |-> Unset]

Edit(p) ==
    /\ \E b \in Buffers : buf' = [buf EXCEPT ![p] = b]
    /\ UNCHANGED <<file, result>>

\* A call begins: there is no result until it is over.
Begin(p) == result' = [result EXCEPT ![p] = Unset] /\ UNCHANGED <<file, buf>>

Save(p) ==
    /\ \E o \in SaveOutcomes(buf[p], TRUE, 0, file) :
          file' = o.file /\ result' = [result EXCEPT ![p] = o.result]
    /\ UNCHANGED buf

Load(p) ==
    /\ \E o \in LoadOutcomes(buf[p], TRUE, 0, file) :
          buf' = [buf EXCEPT ![p] = o.mem] /\ result' = [result EXCEPT ![p] = o.result]
    /\ UNCHANGED file

Restart(p) ==
    /\ file' = file \/ \E o \in SaveOutcomes(buf[p], TRUE, 0, file) : file' = o.file
    /\ buf' = [buf EXCEPT ![p] = Blank]
    /\ result' = [result EXCEPT ![p] = Unset]

Next == \E p \in Procs : Edit(p) \/ Begin(p) \/ Save(p) \/ Load(p) \/ Restart(p)

Spec == Init /\ [][Next]_vars
=============================================================================
