---------------------------- MODULE LineStorage ----------------------------
(***************************************************************************)
(* The line storage of notes/line-storage.h, one host call at a time.      *)
(* Several VM processes started in the same directory share line.txt and   *)
(* nothing arbitrates between them; each of them runs one call at a time,  *)
(* and any of them may be killed and started again at any point.           *)
(*                                                                         *)
(* A buffer is the LineSize bytes at the address a program passes, taken   *)
(* to lie in memory: VM has the check that refuses the others.  What a     *)
(* call does between two host calls only its own process sees, and goes    *)
(* with the host call before it.                                           *)
(***************************************************************************)
EXTENDS StoredLine

CONSTANTS
    Procs,      \* VM processes in one working directory
    Buffers,    \* what a program may put in its buffer
    Blank,      \* the buffer of a machine that has just started
    Files,      \* what line.txt may hold at first
    Unset       \* no result yet, and no line yet

Buffer == [0..(LineSize - 1) -> Byte]

ASSUME BuffersAssumption == Buffers \subseteq Buffer /\ Blank \in Buffer
ASSUME FilesAssumption == Files \subseteq File
ASSUME UnsetAssumption == Unset \notin Seq(Byte) \cup {0, 1}

VARIABLES
    file,       \* the content of line.txt, or NoFile
    buf,        \* process -> its line buffer
    phase,      \* process -> where its call is
    data,       \* process -> the bytes its stream accepted, or has delivered
    pos,        \* process -> how far into the file its stream is
    failed,     \* process -> the stream came up short
    result,     \* process -> what its last call returned, unset during a call
    alone,      \* history: the line being saved since line.txt was last
                \*     emptied, if one process alone has written to it
    complete,   \* history: the save of that line has returned 0
    before      \* history: what line.txt held before the save being made

local == <<buf, phase, data, pos, failed, result>>
history == <<alone, complete, before>>
vars == <<file, local, history>>

Phase == {"idle", "write", "flush", "read", "check"}

Init ==
    /\ file \in Files
    /\ buf = [p \in Procs |-> Blank]
    /\ phase = [p \in Procs |-> "idle"]
    /\ data = [p \in Procs |-> <<>>]
    /\ pos = [p \in Procs |-> 0]
    /\ failed = [p \in Procs |-> FALSE]
    /\ result = [p \in Procs |-> Unset]
    /\ alone = Unset
    /\ complete = FALSE
    /\ before = NoFile

Writers == {p \in Procs : phase[p] \in {"write", "flush"}}

\* With the last save over, the file before it is forgotten.
Forget(p) == before' = IF Writers \ {p} = {} THEN NoFile ELSE before

\* The call of p returns r.
Return(p, r) ==
    /\ phase' = [phase EXCEPT ![p] = "idle"]
    /\ data' = [data EXCEPT ![p] = <<>>]
    /\ pos' = [pos EXCEPT ![p] = 0]
    /\ failed' = [failed EXCEPT ![p] = FALSE]
    /\ result' = [result EXCEPT ![p] = r]

\* The program of p sets its line, by whatever instructions.
Edit(p) ==
    /\ phase[p] = "idle"
    /\ \E b \in Buffers : buf' = [buf EXCEPT ![p] = b]
    /\ UNCHANGED <<file, phase, data, pos, failed, result, history>>

-----------------------------------------------------------------------------
(* save_stored_line                                                        *)

Savable(b) == SavableLengths(b, 0) # {}
LineIn(b) == BytesAt(b, 0, CHOOSE n \in SavableLengths(b, 0) : TRUE)

\* StartSave with a file that is opened and not emptied.
StartSaveOver(p) ==
    /\ phase[p] = "idle" /\ Savable(buf[p])
    /\ file' = IF file = NoFile THEN <<>> ELSE file
    /\ phase' = [phase EXCEPT ![p] = "write"]
    /\ alone' = IF Writers = {} THEN LineIn(buf[p]) ELSE Unset
    /\ complete' = FALSE /\ before' = file
    /\ result' = [result EXCEPT ![p] = Unset]
    /\ UNCHANGED <<buf, data, pos, failed>>

\* The checks and fopen.  A line that ends properly is not refused, but the
\* host may fail to open the file; opening for "wb" empties it or makes it.
StartSave(p) ==
    /\ phase[p] = "idle"
    /\ \/ Return(p, 1) /\ UNCHANGED <<file, history>>
       \/ /\ Savable(buf[p])
          /\ file' = <<>>
          /\ phase' = [phase EXCEPT ![p] = "write"]
          /\ alone' = IF Writers = {} THEN LineIn(buf[p]) ELSE Unset
          /\ complete' = FALSE
          /\ before' = file
          /\ result' = [result EXCEPT ![p] = Unset]
          /\ UNCHANGED <<data, pos, failed>>
    /\ UNCHANGED buf

\* fwrite: the stream accepts the line, or an initial part of it.
Fwrite(p) ==
    /\ phase[p] = "write"
    /\ \E k \in 0..Len(LineIn(buf[p])) :
          /\ data' = [data EXCEPT ![p] = SubSeq(LineIn(buf[p]), 1, k)]
          /\ failed' = [failed EXCEPT ![p] = k < Len(LineIn(buf[p]))]
    /\ phase' = [phase EXCEPT ![p] = "flush"]
    /\ UNCHANGED <<file, buf, pos, result, history>>

\* The file after bytes are written at an offset, zeros filling any gap.
WriteAt(content, offset, bytes) ==
    [i \in 1..(IF Len(content) > offset + Len(bytes) THEN Len(content)
                                                     ELSE offset + Len(bytes)) |->
        IF i \in (offset + 1)..(offset + Len(bytes)) THEN bytes[i - offset]
        ELSE IF i <= Len(content) THEN content[i]
        ELSE 0]

\* The stream hands some more of what it accepted to the host.
Flush(p) ==
    /\ phase[p] = "flush"
    /\ \E n \in (pos[p] + 1)..Len(data[p]) :
          /\ file' = WriteAt(file, pos[p], SubSeq(data[p], pos[p] + 1, n))
          /\ pos' = [pos EXCEPT ![p] = n]
    /\ UNCHANGED <<buf, phase, data, failed, result, history>>

\* CloseWritten that forgets to compare what fwrite accepted with the length.
CloseUncompared(p) ==
    /\ phase[p] = "flush" /\ pos[p] = Len(data[p])
    /\ Return(p, 0) /\ complete' = (alone # Unset) /\ Forget(p)
    /\ UNCHANGED <<file, buf, alone>>

\* CloseWritten that returns the number of bytes written.
CloseCounting(p) ==
    /\ phase[p] = "flush" /\ pos[p] = Len(data[p])
    /\ Return(p, Len(data[p])) /\ Forget(p)
    /\ UNCHANGED <<file, buf, alone, complete>>

\* fclose succeeds once everything is written; when it fails the rest is lost.
CloseWritten(p) ==
    /\ phase[p] = "flush"
    /\ \/ pos[p] = Len(data[p]) /\ ~failed[p] /\ Return(p, 0)
          /\ complete' = (alone # Unset)
       \/ Return(p, 1) /\ UNCHANGED complete
    /\ Forget(p)
    /\ UNCHANGED <<file, buf, alone>>

-----------------------------------------------------------------------------
(* load_stored_line                                                        *)

\* The host may also fail to open a file that exists.
StartLoad(p) ==
    /\ phase[p] = "idle"
    /\ \/ Return(p, 1)
       \/ /\ file # NoFile
          /\ phase' = [phase EXCEPT ![p] = "read"]
          /\ result' = [result EXCEPT ![p] = Unset]
          /\ UNCHANGED <<data, pos, failed>>
    /\ UNCHANGED <<file, buf, history>>

\* Fread that starts again at the same place after a short read.
FreadAgain(p) ==
    /\ phase[p] = "read"
    /\ \/ pos[p] >= Len(file) /\ phase' = [phase EXCEPT ![p] = "check"] /\ UNCHANGED data
       \/ \E n \in (pos[p] + 1)..Len(file) :
             data' = [data EXCEPT ![p] = SubSeq(file, pos[p] + 1, n)] /\ UNCHANGED phase
    /\ UNCHANGED <<file, buf, pos, failed, result, history>>

\* Fread that takes every piece from the beginning of the file.
FreadFromStart(p) ==
    /\ phase[p] = "read"
    /\ \/ /\ pos[p] >= Len(file) /\ phase' = [phase EXCEPT ![p] = "check"]
          /\ UNCHANGED <<data, pos>>
       \/ \E n \in (pos[p] + 1)..Len(file) :
             /\ data' = [data EXCEPT ![p] = @ \o SubSeq(file, 1, n - pos[p])]
             /\ pos' = [pos EXCEPT ![p] = n] /\ UNCHANGED phase
    /\ UNCHANGED <<file, buf, failed, result, history>>

\* fread takes bytes from the host until it has LineSize of them, or the file
\* ends, or reading fails.  Only in the second case is the stream at its end.
Fread(p) ==
    /\ phase[p] = "read"
    /\ \/ /\ pos[p] >= Len(file)
          /\ phase' = [phase EXCEPT ![p] = "check"]
          /\ UNCHANGED <<data, pos, failed>>
       \/ /\ phase' = [phase EXCEPT ![p] = "check"]
          /\ failed' = [failed EXCEPT ![p] = TRUE]
          /\ UNCHANGED <<data, pos>>
       \/ \E n \in (pos[p] + 1)..Len(file) :
             /\ n <= LineSize
             /\ data' = [data EXCEPT ![p] = @ \o SubSeq(file, pos[p] + 1, n)]
             /\ pos' = [pos EXCEPT ![p] = n]
             /\ phase' = [phase EXCEPT ![p] = IF n = LineSize THEN "check" ELSE @]
             /\ failed' = [failed EXCEPT ![p] = n = LineSize]
    /\ UNCHANGED <<file, buf, result, history>>

\* CloseRead that copies first and checks afterwards.
CloseReadEager(p) ==
    /\ phase[p] = "check"
    /\ buf' = [buf EXCEPT ![p] = PlaceLine(@, 0, data[p])]
    /\ Return(p, IF failed[p] \/ ~Loadable(data[p]) THEN 1 ELSE 0)
    /\ UNCHANGED <<file, history>>

\* fclose, then the checks, then the copy into the buffer.
CloseRead(p) ==
    /\ phase[p] = "check"
    /\ \/ /\ ~failed[p] /\ Loadable(data[p])
          /\ buf' = [buf EXCEPT ![p] = PlaceLine(@, 0, data[p])]
          /\ Return(p, 0)
       \/ Return(p, 1) /\ UNCHANGED buf
    /\ UNCHANGED <<file, history>>

-----------------------------------------------------------------------------
\* The process ends or is killed, and another is started in its place.  What
\* its stream had not written is lost; what it had written stays.
Restart(p) ==
    /\ Return(p, Unset)
    /\ buf' = [buf EXCEPT ![p] = Blank]
    /\ Forget(p)
    /\ UNCHANGED <<file, alone, complete>>

Proceed(p) == Fwrite(p) \/ Flush(p) \/ CloseWritten(p) \/ Fread(p) \/ CloseRead(p)

Next == \E p \in Procs : Edit(p) \/ StartSave(p) \/ StartLoad(p) \/ Proceed(p) \/ Restart(p)

Spec == Init /\ [][Next]_vars
\* A process that has entered a call gets on with it: host calls return.
FairSpec == Spec /\ \A p \in Procs : WF_vars(Proceed(p))

-----------------------------------------------------------------------------
TypeOK ==
    /\ file \in File /\ before \in File
    /\ buf \in [Procs -> Buffer]
    /\ phase \in [Procs -> Phase]
    /\ data \in [Procs -> Seq(Byte)]
    /\ pos \in [Procs -> 0..LineSize]
    /\ failed \in [Procs -> BOOLEAN]
    /\ result \in [Procs -> {0, 1, Unset}]
    /\ alone \in Seq(Byte) \cup {Unset}
    /\ complete \in BOOLEAN

\* While one process at a time saves, line.txt never holds anything but an
\* initial part of the line being saved, wherever that process is killed and
\* whatever host call fails.
FileIsPrefix ==
    alone # Unset => file \in {SubSeq(alone, 1, k) : k \in 0..Len(alone)}

\* A save that returned 0 and that no other save overlapped or followed has
\* left exactly its line in the file.
SavedIsThere == complete => file = alone

\* The bytes some program, a new machine or the first file has at place i of a
\* line.
BytesAtPlace(i) ==
    {b[i - 1] : b \in Buffers \cup {Blank}} \cup {f[i] : f \in {g \in Files \ {NoFile} : i <= Len(g)}}

\* However saves and loads of several processes overlap, and wherever they are
\* killed, a line may be a mixture, but no byte of it turns up at another place
\* than one it was given at, and the file holds nothing else but the zeros of a
\* hole that an overlapping save has left.
BytesKeepTheirPlace ==
    /\ file # NoFile =>
          \A i \in 1..Len(file) : i < LineSize => file[i] \in BytesAtPlace(i) \cup {0}
    /\ \A p \in Procs : Savable(buf[p]) =>
          \A i \in 1..Len(LineIn(buf[p])) : LineIn(buf[p])[i] \in BytesAtPlace(i)

\* A load that returns 0 leaves exactly what it read in the buffer, as a line
\* that the next save accepts, and no hole and no end of line gets there; a load
\* that returns 1 leaves the buffer alone.
LoadIsAllOrNothing ==
    [][\A p \in Procs : phase[p] = "check" /\ phase'[p] = "idle" /\ result'[p] # Unset =>
          \/ result'[p] = 0 /\ Savable(buf'[p]) /\ LineIn(buf'[p]) = data[p]
          \/ result'[p] = 1 /\ buf'[p] = buf[p]]_vars

\* A call comes back, or its process is restarted: fread ends although another
\* process keeps emptying and refilling the file it reads.
CallsReturn == \A p \in Procs : phase[p] # "idle" ~> phase[p] = "idle"

\* A process alone sees its calls happen at once, with the outcomes that VM
\* gives to its system calls: until a save is over, the file is the old one.
Atomic == INSTANCE AtomicStorage WITH file <- IF Writers = {} THEN file ELSE before
LooksAtomic == Atomic!Spec
=============================================================================
