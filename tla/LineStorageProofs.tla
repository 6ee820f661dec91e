------------------------- MODULE LineStorageProofs -------------------------
(***************************************************************************)
(* What line.txt and the buffers hold, proved for any number of processes, *)
(* any length of line and any buffers: the types, FileIsPrefix,            *)
(* SavedIsThere, LoadIsAllOrNothing and BytesKeepTheirPlace; and for one   *)
(* process LooksAtomic, the refinement of AtomicStorage.                   *)
(*                                                                         *)
(* The properties say nothing of the streams, and a stream still has bytes *)
(* to write, so they are not inductive.  Inv adds what every stream has    *)
(* accepted and written (StreamsOK), and that a process that has the file  *)
(* to itself has written exactly as much of its line as the file holds     *)
(* (AloneOK).  PlacedOK adds the place of every byte of file, buffers and  *)
(* streams, and SoleOK what a stream for reading has delivered of a file   *)
(* that nobody else writes.                                                *)
(***************************************************************************)
EXTENDS LineStorage, SequenceTheorems, TLAPS

LEMMA Sizes == LineSize \in Nat /\ 1 <= LineSize
BY LineSizeAssumption, SMT

\* A stream for writing has accepted an initial part of its line, short only
\* if failed says so, and has written pos bytes of it.
Accepted(p) ==
    \E k \in 0..Len(LineIn(buf[p])) :
        /\ data[p] = SubSeq(LineIn(buf[p]), 1, k)
        /\ pos[p] <= k
        /\ k < Len(LineIn(buf[p])) => failed[p]

StreamOK(p) ==
    /\ phase[p] \in {"idle", "write"} => pos[p] = 0
    /\ phase[p] \in {"write", "flush"} => Savable(buf[p])
    /\ phase[p] = "flush" => Accepted(p)
    /\ phase[p] # "idle" => file # NoFile

StreamsOK == \A p \in Procs : StreamOK(p)

AloneOK ==
    alone # Unset =>
        \A p \in Writers :
            /\ Writers = {p}
            /\ LineIn(buf[p]) = alone
            /\ file = SubSeq(alone, 1, pos[p])

CompleteOK == complete => alone # Unset /\ Writers = {} /\ file = alone

Inv == TypeOK /\ StreamsOK /\ FileIsPrefix /\ AloneOK /\ CompleteOK

-----------------------------------------------------------------------------
(* Lines and parts of lines.                                               *)

\* An initial part of a line, as a function.
LEMMA Part ==
    ASSUME NEW s \in Seq(Byte), NEW k \in 0..Len(s)
    PROVE  /\ SubSeq(s, 1, k) = [i \in 1..k |-> s[i]]
           /\ SubSeq(s, 1, k) \in Seq(Byte)
           /\ Len(SubSeq(s, 1, k)) = k
<1>1. Len(s) \in Nat /\ k \in Nat /\ k <= Len(s)
  BY LenProperties
<1>2. \A i \in 1..k : s[i] \in Byte
  BY <1>1, ElementOfSeq
<1>3. SubSeq(s, 1, k) = [i \in 1..k |-> s[i]]
  BY <1>1, SMT
<1>4. [i \in 1..k |-> s[i]] \in [1..k -> Byte]
  BY <1>2
<1>5. SubSeq(s, 1, k) \in Seq(Byte)
  BY <1>1, <1>3, <1>4, SeqDef
<1>6. Len(SubSeq(s, 1, k)) = k
  BY <1>1, <1>3, <1>5, LenProperties
<1> QED BY <1>3, <1>5, <1>6

LEMMA WholePart ==
    ASSUME NEW s \in Seq(Byte)
    PROVE  SubSeq(s, 1, Len(s)) = s
<1>1. Len(s) \in Nat
  BY LenProperties
<1>2. SubSeq(s, 1, Len(s)) = [i \in 1..Len(s) |-> s[i]]
  BY <1>1, Part
<1> QED BY <1>2, LenProperties

LEMMA LineInType ==
    ASSUME NEW b \in Buffer, Savable(b)
    PROVE  LineIn(b) \in Seq(Byte) /\ Len(LineIn(b)) \in Nat /\ Len(LineIn(b)) < LineSize
<1> DEFINE n == CHOOSE n \in SavableLengths(b, 0) : TRUE
<1>1. n \in SavableLengths(b, 0)
  BY DEF Savable
<1>2. n \in 0..(LineSize - 1)
  BY <1>1 DEF SavableLengths
<1>3. LineIn(b) = BytesAt(b, 0, n)
  BY DEF LineIn
<1> HIDE DEF n
<1>4. n \in Nat /\ n < LineSize /\ \A k \in 1..n : 0 + k - 1 \in 0..(LineSize - 1)
  BY <1>2, Sizes, SMT
<1>5. BytesAt(b, 0, n) \in [1..n -> Byte]
  BY <1>4 DEF BytesAt, Buffer
<1>6. BytesAt(b, 0, n) \in Seq(Byte)
  BY <1>4, <1>5, SeqDef
<1>7. Len(BytesAt(b, 0, n)) = n
  BY <1>4, <1>5, <1>6, LenProperties
<1> QED BY <1>3, <1>4, <1>6, <1>7

\* The stream of a process that is flushing: its line, what it accepted.
LEMMA FlushFacts ==
    ASSUME TypeOK, StreamsOK, NEW p \in Procs, phase[p] = "flush"
    PROVE  /\ LineIn(buf[p]) \in Seq(Byte) /\ Len(LineIn(buf[p])) < LineSize
           /\ file \in Seq(Byte)
           /\ \E k \in 0..Len(LineIn(buf[p])) :
                 /\ data[p] = SubSeq(LineIn(buf[p]), 1, k)
                 /\ Len(data[p]) = k
                 /\ pos[p] \in 0..k
                 /\ k < Len(LineIn(buf[p])) => failed[p]
<1>1. LineIn(buf[p]) \in Seq(Byte) /\ Len(LineIn(buf[p])) < LineSize
  BY LineInType DEF TypeOK, StreamsOK, StreamOK
<1>2. file \in Seq(Byte)
  BY DEF TypeOK, StreamsOK, StreamOK, File
<1>3. PICK k \in 0..Len(LineIn(buf[p])) :
         /\ data[p] = SubSeq(LineIn(buf[p]), 1, k)
         /\ pos[p] <= k
         /\ k < Len(LineIn(buf[p])) => failed[p]
  BY DEF StreamsOK, StreamOK, Accepted
<1>4. Len(data[p]) = k
  BY <1>1, <1>3, Part
<1>5. pos[p] \in 0..k
  BY <1>3, SMT DEF TypeOK
<1> QED BY <1>1, <1>2, <1>3, <1>4, <1>5

-----------------------------------------------------------------------------
(* A step of one process and the streams of the others.                    *)

SameAt(q) ==
    /\ phase'[q] = phase[q] /\ buf'[q] = buf[q] /\ data'[q] = data[q]
    /\ pos'[q] = pos[q] /\ failed'[q] = failed[q]

LEMMA OtherStream ==
    ASSUME NEW q \in Procs, StreamOK(q), SameAt(q), file # NoFile => file' # NoFile
    PROVE  StreamOK(q)'
BY DEF StreamOK, Accepted, SameAt

\* A call that returns, or a process that is restarted, has no stream left.
LEMMA ReturnEffect ==
    ASSUME TypeOK, NEW p \in Procs, NEW r \in {0, 1, Unset}, Return(p, r)
    PROVE  /\ phase' \in [Procs -> Phase] /\ data' \in [Procs -> Seq(Byte)]
           /\ pos' \in [Procs -> 0..LineSize] /\ failed' \in [Procs -> BOOLEAN]
           /\ result' \in [Procs -> {0, 1, Unset}]
           /\ phase'[p] = "idle" /\ pos'[p] = 0 /\ result'[p] = r
           /\ Writers' = Writers \ {p}
           /\ \A q \in Procs \ {p} : buf'[q] = buf[q] => SameAt(q)
<1>1. <<>> \in Seq(Byte) /\ 0 \in 0..LineSize
  BY EmptySeq, Sizes, SMT
<1>2. /\ phase' \in [Procs -> Phase] /\ data' \in [Procs -> Seq(Byte)]
      /\ pos' \in [Procs -> 0..LineSize] /\ failed' \in [Procs -> BOOLEAN]
      /\ result' \in [Procs -> {0, 1, Unset}]
  BY <1>1 DEF TypeOK, Return, Phase
<1>3. phase'[p] = "idle" /\ pos'[p] = 0 /\ result'[p] = r
  BY DEF TypeOK, Return
<1>4. \A q \in Procs \ {p} : /\ phase'[q] = phase[q] /\ data'[q] = data[q]
                             /\ pos'[q] = pos[q] /\ failed'[q] = failed[q]
  BY DEF TypeOK, Return
<1>5. Writers' = Writers \ {p}
  BY <1>3, <1>4 DEF Writers
<1> QED BY <1>2, <1>3, <1>4, <1>5 DEF SameAt

\* The file stays as it is and a process leaves its stream.
LEMMA ReturnStep ==
    ASSUME Inv, NEW p \in Procs, NEW r \in {0, 1, Unset}, Return(p, r),
           \A q \in Procs \ {p} : buf'[q] = buf[q],
           buf' \in [Procs -> Buffer], before' \in File,
           UNCHANGED <<file, alone>>, complete' \in BOOLEAN,
           complete' => complete \/ (alone # Unset /\ Writers \subseteq {p} /\ file = alone)
    PROVE  Inv'
<1>1. TypeOK'
  BY ReturnEffect DEF Inv, TypeOK
<1>2. /\ phase'[p] = "idle" /\ pos'[p] = 0 /\ Writers' = Writers \ {p}
      /\ \A q \in Procs \ {p} : SameAt(q)
  BY ReturnEffect DEF Inv
<1>3. StreamsOK'
  <2>1. StreamOK(p)'
    BY <1>2 DEF StreamOK
  <2>2. \A q \in Procs \ {p} : StreamOK(q)'
    BY <1>2, OtherStream DEF Inv, StreamsOK
  <2> QED BY <2>1, <2>2 DEF StreamsOK
<1>4. FileIsPrefix'
  BY DEF Inv, FileIsPrefix
<1>5. AloneOK'
  <2> SUFFICES ASSUME alone' # Unset, NEW q \in Writers'
               PROVE  /\ Writers' = {q} /\ LineIn(buf'[q]) = alone'
                      /\ file' = SubSeq(alone', 1, pos'[q])
    BY DEF AloneOK
  <2>1. q \in Writers /\ q # p /\ q \in Procs
    BY <1>2 DEF Writers
  <2>2. Writers = {q} /\ LineIn(buf[q]) = alone /\ file = SubSeq(alone, 1, pos[q])
    BY <2>1 DEF Inv, AloneOK
  <2>3. buf'[q] = buf[q] /\ pos'[q] = pos[q]
    BY <1>2, <2>1 DEF SameAt
  <2> QED BY <1>2, <2>1, <2>2, <2>3
<1>6. CompleteOK'
  BY <1>2 DEF Inv, CompleteOK
<1> QED BY <1>1, <1>3, <1>4, <1>5, <1>6 DEF Inv

\* A step that leaves the file alone, and every writer with its line and place.
LEMMA QuietStep ==
    ASSUME Inv, NEW p \in Procs, TypeOK', StreamOK(p)',
           \A q \in Procs \ {p} : SameAt(q),
           phase'[p] \in {"write", "flush"} <=> phase[p] \in {"write", "flush"},
           p \in Writers => buf'[p] = buf[p] /\ pos'[p] = pos[p],
           UNCHANGED <<file, alone, complete>>
    PROVE  Inv'
<1>1. StreamsOK'
  BY OtherStream DEF Inv, StreamsOK
<1>2. Writers' = Writers
  BY DEF Writers, SameAt
<1>3. \A q \in Writers : buf'[q] = buf[q] /\ pos'[q] = pos[q]
  BY DEF Writers, SameAt
<1>4. FileIsPrefix'
  BY DEF Inv, FileIsPrefix
<1>5. AloneOK'
  <2> SUFFICES ASSUME alone' # Unset, NEW q \in Writers'
               PROVE  /\ Writers' = {q} /\ LineIn(buf'[q]) = alone'
                      /\ file' = SubSeq(alone', 1, pos'[q])
    BY DEF AloneOK
  <2>1. Writers = {q} /\ LineIn(buf[q]) = alone /\ file = SubSeq(alone, 1, pos[q])
    BY <1>2 DEF Inv, AloneOK
  <2> QED BY <1>2, <1>3, <2>1
<1>6. CompleteOK'
  BY <1>2 DEF Inv, CompleteOK
<1> QED BY <1>1, <1>4, <1>5, <1>6 DEF Inv

LEMMA EditStep == ASSUME Inv, NEW p \in Procs, Edit(p) PROVE Inv'
<1>1. PICK b \in Buffers : buf' = [buf EXCEPT ![p] = b]
  BY DEF Edit
<1>2. TypeOK'
  BY <1>1, BuffersAssumption DEF Inv, TypeOK, Edit, history
<1>3. p \notin Writers /\ phase[p] = "idle" /\ phase'[p] = "idle" /\ pos'[p] = pos[p]
  BY DEF Edit, Writers
<1>4. StreamOK(p)'
  BY <1>3 DEF StreamOK, Inv, StreamsOK
<1>5. \A q \in Procs \ {p} : SameAt(q)
  BY <1>1 DEF Inv, TypeOK, SameAt, Edit
<1> QED BY <1>2, <1>3, <1>4, <1>5, QuietStep DEF Edit, history

LEMMA StartLoadStep == ASSUME Inv, NEW p \in Procs, StartLoad(p) PROVE Inv'
<1>1. CASE Return(p, 1)
  BY <1>1, ReturnStep DEF Inv, TypeOK, StartLoad, history
<1>2. CASE /\ file # NoFile
           /\ phase' = [phase EXCEPT ![p] = "read"]
           /\ result' = [result EXCEPT ![p] = Unset]
           /\ UNCHANGED <<data, pos, failed>>
  <2>1. TypeOK'
    BY <1>2 DEF Inv, TypeOK, Phase, StartLoad, history
  <2>2. phase'[p] = "read" /\ phase[p] = "idle" /\ p \notin Writers
    BY <1>2 DEF Inv, TypeOK, StartLoad, Writers
  <2>3. StreamOK(p)'
    BY <1>2, <2>2 DEF StreamOK, StartLoad
  <2>4. \A q \in Procs \ {p} : SameAt(q)
    BY <1>2 DEF Inv, TypeOK, SameAt, StartLoad
  <2> QED BY <2>1, <2>2, <2>3, <2>4, QuietStep DEF StartLoad, history
<1> QED BY <1>1, <1>2 DEF StartLoad

LEMMA FreadStep == ASSUME Inv, NEW p \in Procs, Fread(p) PROVE Inv'
<1>1. /\ phase[p] = "read" /\ p \notin Writers /\ file \in Seq(Byte)
      /\ UNCHANGED <<file, buf, result, alone, complete, before>>
  BY DEF Inv, TypeOK, StreamsOK, StreamOK, Writers, Fread, File, history
<1> DEFINE Effect == /\ phase' \in [Procs -> Phase] /\ phase'[p] \in {"read", "check"}
                     /\ data' \in [Procs -> Seq(Byte)] /\ pos' \in [Procs -> 0..LineSize]
                     /\ failed' \in [Procs -> BOOLEAN]
                     /\ \A q \in Procs \ {p} : SameAt(q)
<1>2. Effect
  <2>1. CASE /\ pos[p] >= Len(file) /\ phase' = [phase EXCEPT ![p] = "check"]
             /\ UNCHANGED <<data, pos, failed>>
    BY <1>1, <2>1 DEF Inv, TypeOK, Phase, SameAt
  <2>2. CASE /\ phase' = [phase EXCEPT ![p] = "check"]
             /\ failed' = [failed EXCEPT ![p] = TRUE]
             /\ UNCHANGED <<data, pos>>
    BY <1>1, <2>2 DEF Inv, TypeOK, Phase, SameAt
  <2>3. ASSUME NEW n \in (pos[p] + 1)..Len(file), n <= LineSize,
               data' = [data EXCEPT ![p] = @ \o SubSeq(file, pos[p] + 1, n)],
               pos' = [pos EXCEPT ![p] = n],
               phase' = [phase EXCEPT ![p] = IF n = LineSize THEN "check" ELSE @],
               failed' = [failed EXCEPT ![p] = n = LineSize]
        PROVE  Effect
    <3>1. pos[p] \in Int /\ 0 <= pos[p] /\ Len(file) \in Nat
      BY <1>1, LenProperties, SMT DEF Inv, TypeOK
    <3>2. n \in 0..LineSize
      BY <2>3, <3>1, Sizes, SMT
    <3>3. SubSeq(file, pos[p] + 1, n) \in Seq(Byte)
      <4>1. \A k \in (pos[p] + 1)..n : k \in 1..Len(file)
        BY <3>1, SMT
      <4>2. \A k \in (pos[p] + 1)..n : file[k] \in Byte
        BY <1>1, <4>1, ElementOfSeq
      <4>3. pos[p] + 1 \in Int /\ n \in Int
        BY <3>1, SMT
      <4> QED BY <4>2, <4>3, SubSeqProperties
    <3>4. data[p] \o SubSeq(file, pos[p] + 1, n) \in Seq(Byte)
      BY <3>3, ConcatProperties DEF Inv, TypeOK
    <3>5. data' \in [Procs -> Seq(Byte)]
      BY <2>3, <3>4 DEF Inv, TypeOK
    <3>6. pos' \in [Procs -> 0..LineSize]
      BY <2>3, <3>2 DEF Inv, TypeOK
    <3>7. phase' \in [Procs -> Phase] /\ phase'[p] \in {"read", "check"}
      BY <1>1, <2>3 DEF Inv, TypeOK, Phase
    <3>8. failed' \in [Procs -> BOOLEAN]
      BY <2>3 DEF Inv, TypeOK
    <3>9. \A q \in Procs \ {p} : SameAt(q)
      BY <1>1, <2>3 DEF Inv, TypeOK, SameAt
    <3> QED BY <3>5, <3>6, <3>7, <3>8, <3>9
  <2> QED BY <2>1, <2>2, <2>3 DEF Fread
<1>3. TypeOK'
  BY <1>1, <1>2 DEF Inv, TypeOK
<1>4. StreamOK(p)'
  BY <1>1, <1>2 DEF StreamOK, Inv, StreamsOK
<1> QED BY <1>1, <1>2, <1>3, <1>4, QuietStep

LEMMA FwriteStep == ASSUME Inv, NEW p \in Procs, Fwrite(p) PROVE Inv'
<1>1. /\ phase[p] = "write" /\ phase' = [phase EXCEPT ![p] = "flush"]
      /\ UNCHANGED <<file, buf, pos, result, alone, complete, before>>
  BY DEF Fwrite, history
<1>2. PICK k \in 0..Len(LineIn(buf[p])) :
         /\ data' = [data EXCEPT ![p] = SubSeq(LineIn(buf[p]), 1, k)]
         /\ failed' = [failed EXCEPT ![p] = k < Len(LineIn(buf[p]))]
  BY DEF Fwrite
<1>3. /\ Savable(buf[p]) /\ pos[p] = 0 /\ file # NoFile
      /\ LineIn(buf[p]) \in Seq(Byte) /\ Len(LineIn(buf[p])) \in Nat
  BY <1>1, LineInType DEF Inv, TypeOK, StreamsOK, StreamOK
<1>4. SubSeq(LineIn(buf[p]), 1, k) \in Seq(Byte)
  BY <1>3, Part
<1>5. TypeOK'
  BY <1>1, <1>2, <1>4 DEF Inv, TypeOK, Phase
<1>6. /\ phase'[p] = "flush" /\ data'[p] = SubSeq(LineIn(buf[p]), 1, k)
      /\ failed'[p] = (k < Len(LineIn(buf[p]))) /\ buf'[p] = buf[p] /\ pos'[p] = 0
  BY <1>1, <1>2, <1>3 DEF Inv, TypeOK
<1>7. Accepted(p)'
  <2>1. 0 <= k
    BY <1>3, SMT
  <2>2. /\ data'[p] = SubSeq(LineIn(buf'[p]), 1, k) /\ pos'[p] <= k
        /\ k \in 0..Len(LineIn(buf'[p]))
        /\ k < Len(LineIn(buf'[p])) => failed'[p]
    BY <1>6, <2>1
  <2> QED BY <2>2 DEF Accepted
<1>8. StreamOK(p)'
  BY <1>1, <1>3, <1>6, <1>7 DEF StreamOK
<1>9. \A q \in Procs \ {p} : SameAt(q)
  BY <1>1, <1>2 DEF Inv, TypeOK, SameAt
<1> QED BY <1>1, <1>5, <1>6, <1>8, <1>9, QuietStep

-----------------------------------------------------------------------------
(* The steps that change the file, and the end of a save.                  *)

LEMMA StartSaveStep == ASSUME Inv, NEW p \in Procs, StartSave(p) PROVE Inv'
<1>1. CASE Return(p, 1) /\ UNCHANGED <<file, history>>
  BY <1>1, ReturnStep DEF Inv, TypeOK, StartSave, history
<1>2. CASE /\ Savable(buf[p])
           /\ file' = <<>>
           /\ phase' = [phase EXCEPT ![p] = "write"]
           /\ alone' = IF Writers = {} THEN LineIn(buf[p]) ELSE Unset
           /\ complete' = FALSE
           /\ before' = file
           /\ result' = [result EXCEPT ![p] = Unset]
           /\ UNCHANGED <<data, pos, failed>>
  <2>1. /\ phase[p] = "idle" /\ phase'[p] = "write" /\ pos'[p] = 0
        /\ UNCHANGED buf /\ \A q \in Procs \ {p} : SameAt(q)
    BY <1>2 DEF Inv, TypeOK, StreamsOK, StreamOK, StartSave, SameAt
  <2>2. LineIn(buf[p]) \in Seq(Byte) /\ Len(LineIn(buf[p])) \in Nat
    BY <1>2, LineInType DEF Inv, TypeOK
  <2>3. <<>> \in Seq(Byte) /\ NoFile # <<>>
    BY EmptySeq, NoFileAssumption
  <2>4. TypeOK'
    BY <1>2, <2>1, <2>2, <2>3 DEF Inv, TypeOK, Phase, File
  <2>5. StreamsOK'
    <3>1. StreamOK(p)'
      BY <1>2, <2>1, <2>3 DEF StreamOK
    <3>2. \A q \in Procs \ {p} : StreamOK(q)'
      BY <1>2, <2>1, <2>3, OtherStream DEF Inv, StreamsOK
    <3> QED BY <3>1, <3>2 DEF StreamsOK
  <2>6. ASSUME alone' # Unset
        PROVE  Writers = {} /\ alone' = LineIn(buf[p]) /\ SubSeq(alone', 1, 0) = <<>>
    <3>1. Writers = {} /\ alone' = LineIn(buf[p])
      BY <1>2, <2>6
    <3>2. 0 \in 0..Len(alone') /\ alone' \in Seq(Byte)
      BY <2>2, <3>1, SMT
    <3>3. Len(SubSeq(alone', 1, 0)) = 0 /\ SubSeq(alone', 1, 0) \in Seq(Byte)
      BY <3>2, Part
    <3> QED BY <3>1, <3>3, EmptySeq
  <2>7. FileIsPrefix'
    <3> SUFFICES ASSUME alone' # Unset
                 PROVE  file' \in {SubSeq(alone', 1, k) : k \in 0..Len(alone')}
      BY DEF FileIsPrefix
    <3>1. 0 \in 0..Len(alone')
      BY <2>2, <2>6, SMT
    <3> QED BY <1>2, <2>6, <3>1
  <2>8. AloneOK'
    <3> SUFFICES ASSUME alone' # Unset, NEW q \in Writers'
                 PROVE  /\ Writers' = {q} /\ LineIn(buf'[q]) = alone'
                        /\ file' = SubSeq(alone', 1, pos'[q])
      BY DEF AloneOK
    <3>1. Writers' = {p}
      BY <2>1, <2>6 DEF Writers, SameAt
    <3> QED BY <1>2, <2>1, <2>6, <3>1
  <2>9. CompleteOK'
    BY <1>2 DEF CompleteOK
  <2> QED BY <2>4, <2>5, <2>7, <2>8, <2>9 DEF Inv
<1> QED BY <1>1, <1>2 DEF StartSave

\* Writing on from the end of an initial part gives a longer initial part.
LEMMA WriteOn ==
    ASSUME NEW s \in Seq(Byte), NEW k \in 0..Len(s), NEW i \in 0..k, NEW n \in (i + 1)..k
    PROVE  WriteAt(SubSeq(s, 1, i), i, SubSeq(SubSeq(s, 1, k), i + 1, n)) = SubSeq(s, 1, n)
<1>1. /\ Len(s) \in Nat /\ k \in Nat /\ i \in Nat /\ n \in Nat
      /\ i < n /\ n <= k /\ k <= Len(s)
  BY LenProperties, SMT
<1> DEFINE old == SubSeq(s, 1, i)
           new == SubSeq(SubSeq(s, 1, k), i + 1, n)
<1>2. /\ old = [j \in 1..i |-> s[j]] /\ Len(old) = i
      /\ SubSeq(s, 1, k) = [j \in 1..k |-> s[j]]
      /\ SubSeq(s, 1, k) \in Seq(Byte) /\ Len(SubSeq(s, 1, k)) = k
      /\ SubSeq(s, 1, n) = [j \in 1..n |-> s[j]]
  BY <1>1, Part
<1>3. \A j \in (i + 1)..n : SubSeq(s, 1, k)[j] \in Byte
  BY <1>1, <1>2, ElementOfSeq
<1>4. /\ new \in Seq(Byte)
      /\ Len(new) = n - i
      /\ \A j \in 1..(n - i) : new[j] = SubSeq(s, 1, k)[i + j]
  BY <1>1, <1>2, <1>3, SubSeqProperties
<1> HIDE DEF old, new
<1>5. \A j \in 1..(n - i) : new[j] = s[i + j]
  <2>1. \A x \in 1..k : SubSeq(s, 1, k)[x] = s[x]
    BY <1>2
  <2>2. \A j \in 1..(n - i) : i + j \in 1..k
    BY <1>1, SMT
  <2> QED BY <1>4, <2>1, <2>2, Zenon
<1>6. i + Len(new) = n /\ Len(old) = i /\ ~(Len(old) > i + Len(new))
  BY <1>1, <1>2, <1>4, SMT
<1>7. WriteAt(old, i, new)
         = [j \in 1..n |-> IF j \in (i + 1)..n THEN new[j - i]
                           ELSE IF j <= i THEN old[j] ELSE 0]
  BY <1>6 DEF WriteAt
<1>8. \A j \in 1..n : (IF j \in (i + 1)..n THEN new[j - i]
                       ELSE IF j <= i THEN old[j] ELSE 0) = s[j]
  BY <1>1, <1>2, <1>5
<1>9. WriteAt(old, i, new) = SubSeq(s, 1, n)
  BY <1>2, <1>7, <1>8
<1> QED BY <1>9 DEF old, new

LEMMA WriteAtType ==
    ASSUME NEW content \in Seq(Byte), NEW offset \in Nat, NEW bytes \in Seq(Byte)
    PROVE  WriteAt(content, offset, bytes) \in Seq(Byte)
<1>1. Len(content) \in Nat /\ Len(bytes) \in Nat
  BY LenProperties
<1> DEFINE size == IF Len(content) > offset + Len(bytes) THEN Len(content)
                                                         ELSE offset + Len(bytes)
<1>2. size \in Nat
  BY <1>1, SMT
<1>3. ASSUME NEW i \in 1..size, i \in (offset + 1)..(offset + Len(bytes))
      PROVE  bytes[i - offset] \in Byte
  <2>1. i - offset \in 1..Len(bytes)
    BY <1>1, <1>3, SMT
  <2> QED BY <2>1, ElementOfSeq
<1>4. ASSUME NEW i \in 1..size, i <= Len(content)
      PROVE  content[i] \in Byte
  <2>1. i \in 1..Len(content)
    BY <1>1, <1>4, SMT
  <2> QED BY <2>1, ElementOfSeq
<1>5. 0 \in Byte
  BY SMT DEF Byte
<1> HIDE DEF size
<1>6. [i \in 1..size |-> IF i \in (offset + 1)..(offset + Len(bytes)) THEN bytes[i - offset]
                         ELSE IF i <= Len(content) THEN content[i] ELSE 0] \in [1..size -> Byte]
  BY <1>3, <1>4, <1>5
<1>7. WriteAt(content, offset, bytes) \in [1..size -> Byte]
  BY <1>6 DEF WriteAt, size
<1> QED BY <1>2, <1>7, SeqDef

LEMMA FlushStep == ASSUME Inv, NEW p \in Procs, Flush(p) PROVE Inv'
<1>1. /\ phase[p] = "flush" /\ p \in Writers
      /\ UNCHANGED <<buf, phase, data, failed, result, alone, complete, before>>
  BY DEF Flush, history, Writers
<1> DEFINE s == LineIn(buf[p])
<1>2. s \in Seq(Byte) /\ Len(s) < LineSize /\ file \in Seq(Byte) /\ Len(s) \in Nat
  BY <1>1, FlushFacts, LenProperties DEF Inv
<1>3. PICK k \in 0..Len(s) :
         /\ data[p] = SubSeq(s, 1, k) /\ Len(data[p]) = k /\ pos[p] \in 0..k
         /\ k < Len(s) => failed[p]
  BY <1>1, FlushFacts DEF Inv
<1>4. PICK n \in (pos[p] + 1)..Len(data[p]) :
         /\ file' = WriteAt(file, pos[p], SubSeq(data[p], pos[p] + 1, n))
         /\ pos' = [pos EXCEPT ![p] = n]
  BY DEF Flush
<1> HIDE DEF s
<1>5. /\ n \in (pos[p] + 1)..k /\ n \in 0..LineSize /\ n <= k /\ pos[p] \in Nat
      /\ n \in 0..Len(s)
  BY <1>2, <1>3, <1>4, Sizes, SMT
<1>6. SubSeq(data[p], pos[p] + 1, n) \in Seq(Byte)
  <2>1. data[p] \in Seq(Byte) /\ pos[p] + 1 \in Int /\ n \in Int
    BY <1>2, <1>3, <1>5, Part, SMT
  <2>2. \A j \in (pos[p] + 1)..n : j \in 1..Len(data[p])
    BY <1>3, <1>5, SMT
  <2>3. \A j \in (pos[p] + 1)..n : data[p][j] \in Byte
    BY <2>1, <2>2, ElementOfSeq
  <2> QED BY <2>1, <2>3, SubSeqProperties
<1>7. file' \in Seq(Byte) /\ file' # NoFile
  BY <1>2, <1>4, <1>5, <1>6, WriteAtType, NoFileAssumption
<1>8. TypeOK'
  BY <1>1, <1>4, <1>5, <1>7 DEF Inv, TypeOK, File
<1>9. pos'[p] = n /\ \A q \in Procs \ {p} : SameAt(q)
  BY <1>1, <1>4 DEF Inv, TypeOK, SameAt
<1>10. StreamsOK'
  <2>1. Accepted(p)'
    <3>1. /\ data'[p] = SubSeq(LineIn(buf'[p]), 1, k) /\ pos'[p] <= k
          /\ k \in 0..Len(LineIn(buf'[p]))
          /\ k < Len(LineIn(buf'[p])) => failed'[p]
      BY <1>1, <1>3, <1>5, <1>9 DEF s
    <3> QED BY <3>1 DEF Accepted
  <2>2. StreamOK(p)'
    BY <1>1, <1>7, <2>1 DEF Inv, StreamsOK, StreamOK
  <2>3. \A q \in Procs \ {p} : StreamOK(q)'
    BY <1>7, <1>9, OtherStream DEF Inv, StreamsOK
  <2> QED BY <2>2, <2>3 DEF StreamsOK
<1>11. ASSUME alone # Unset
       PROVE  /\ Writers = {p} /\ alone = s /\ file' = SubSeq(alone, 1, n)
              /\ n \in 0..Len(alone)
  <2>1. Writers = {p} /\ alone = s /\ file = SubSeq(s, 1, pos[p])
    BY <1>1, <1>11 DEF Inv, AloneOK, s
  <2>2. file' = SubSeq(s, 1, n)
    BY <1>2, <1>3, <1>4, <1>5, <2>1, WriteOn
  <2> QED BY <1>5, <2>1, <2>2
<1>12. Writers' = Writers
  BY <1>1 DEF Writers
<1>13. FileIsPrefix'
  BY <1>1, <1>11 DEF FileIsPrefix
<1>14. AloneOK'
  <2> SUFFICES ASSUME alone' # Unset, NEW q \in Writers'
               PROVE  /\ Writers' = {q} /\ LineIn(buf'[q]) = alone'
                      /\ file' = SubSeq(alone', 1, pos'[q])
    BY DEF AloneOK
  <2>1. q = p
    BY <1>1, <1>11, <1>12
  <2> QED BY <1>1, <1>9, <1>11, <1>12, <2>1 DEF s
<1>15. CompleteOK'
  BY <1>1 DEF Inv, CompleteOK
<1> QED BY <1>8, <1>10, <1>13, <1>14, <1>15 DEF Inv

LEMMA ForgetType == ASSUME Inv, NEW p \in Procs, Forget(p) PROVE before' \in File
BY DEF Inv, TypeOK, Forget, File

LEMMA CloseWrittenStep == ASSUME Inv, NEW p \in Procs, CloseWritten(p) PROVE Inv'
<1>1. /\ phase[p] = "flush" /\ p \in Writers /\ UNCHANGED <<file, buf, alone>>
      /\ before' \in File
  BY ForgetType DEF CloseWritten, Writers
<1>2. CASE Return(p, 1) /\ UNCHANGED complete
  BY <1>1, <1>2, ReturnStep DEF Inv, TypeOK
<1>3. CASE /\ pos[p] = Len(data[p]) /\ ~failed[p] /\ Return(p, 0)
           /\ complete' = (alone # Unset)
  <2> DEFINE s == LineIn(buf[p])
  <2>1. s \in Seq(Byte) /\ Len(s) \in Nat
    BY <1>1, FlushFacts, LenProperties DEF Inv
  <2>2. PICK k \in 0..Len(s) : Len(data[p]) = k /\ (k < Len(s) => failed[p])
    BY <1>1, FlushFacts DEF Inv
  <2>3. pos[p] = Len(s)
    <3>1. ~(k < Len(s))
      BY <1>3, <2>2
    <3> HIDE DEF s
    <3> QED BY <1>3, <2>1, <2>2, <3>1, SMT
  <2>4. ASSUME alone # Unset
        PROVE  Writers = {p} /\ file = alone
    <3>1. Writers = {p} /\ alone = s /\ file = SubSeq(s, 1, pos[p])
      BY <1>1, <2>4 DEF Inv, AloneOK
    <3> QED BY <2>1, <2>3, <3>1, WholePart
  <2> QED BY <1>1, <1>3, <2>4, ReturnStep DEF Inv, TypeOK
<1> QED BY <1>2, <1>3 DEF CloseWritten

LEMMA PlaceLineType ==
    ASSUME NEW b \in Buffer, NEW content \in Seq(Byte)
    PROVE  PlaceLine(b, 0, content) \in Buffer
<1>1. Len(content) \in Nat /\ 0 \in Byte
  BY LenProperties, SMT DEF Byte
<1>2. ASSUME NEW x \in 0..(LineSize - 1), x \in 0..(0 + Len(content) - 1)
      PROVE  content[x - 0 + 1] \in Byte
  <2>1. x - 0 + 1 \in 1..Len(content)
    BY <1>1, <1>2, SMT
  <2> QED BY <2>1, ElementOfSeq
<1> QED BY <1>1, <1>2 DEF PlaceLine, Buffer

LEMMA CloseReadStep == ASSUME Inv, NEW p \in Procs, CloseRead(p) PROVE Inv'
<1>1. UNCHANGED <<file, alone, complete, before>>
  BY DEF CloseRead, history
<1>2. CASE Return(p, 1) /\ UNCHANGED buf
  BY <1>1, <1>2, ReturnStep DEF Inv, TypeOK
<1>3. CASE buf' = [buf EXCEPT ![p] = PlaceLine(@, 0, data[p])] /\ Return(p, 0)
  <2>1. PlaceLine(buf[p], 0, data[p]) \in Buffer
    BY PlaceLineType DEF Inv, TypeOK
  <2>2. buf' \in [Procs -> Buffer] /\ \A q \in Procs \ {p} : buf'[q] = buf[q]
    BY <1>3, <2>1 DEF Inv, TypeOK
  <2> QED BY <1>1, <1>3, <2>2, ReturnStep DEF Inv, TypeOK
<1> QED BY <1>2, <1>3 DEF CloseRead

LEMMA RestartStep == ASSUME Inv, NEW p \in Procs, Restart(p) PROVE Inv'
<1>1. Return(p, Unset) /\ UNCHANGED <<file, alone, complete>> /\ before' \in File
  BY ForgetType DEF Restart
<1>2. buf' \in [Procs -> Buffer] /\ \A q \in Procs \ {p} : buf'[q] = buf[q]
  BY BuffersAssumption DEF Inv, TypeOK, Restart
<1> QED BY <1>1, <1>2, ReturnStep DEF Inv, TypeOK

LEMMA InvNext == ASSUME Inv, [Next]_vars PROVE Inv'
<1>1. CASE Next
  BY <1>1, EditStep, StartSaveStep, StartLoadStep, FwriteStep, FlushStep, CloseWrittenStep,
     FreadStep, CloseReadStep, RestartStep DEF Next, Proceed
<1>2. CASE UNCHANGED vars
  <2>1. /\ UNCHANGED <<file, buf, phase, data, pos, failed, result, alone, complete, before>>
        /\ Writers' = Writers
    BY <1>2 DEF vars, local, history, Writers
  <2>2. TypeOK' /\ FileIsPrefix' /\ CompleteOK'
    BY <2>1 DEF Inv, TypeOK, FileIsPrefix, CompleteOK
  <2>3. StreamsOK'
    <3>1. \A q \in Procs : SameAt(q)
      BY <2>1 DEF SameAt
    <3> QED BY <2>1, <3>1, OtherStream DEF Inv, StreamsOK
  <2>4. AloneOK'
    BY <2>1 DEF Inv, AloneOK
  <2> QED BY <2>2, <2>3, <2>4 DEF Inv
<1> QED BY <1>1, <1>2

LEMMA InvInit == ASSUME Init PROVE Inv
<1>1. TypeOK
  <2>1. <<>> \in Seq(Byte) /\ 0 \in 0..LineSize
    BY EmptySeq, Sizes, SMT
  <2> QED BY <2>1, BuffersAssumption, FilesAssumption DEF Init, TypeOK, Phase, File
<1>2. Writers = {} /\ alone = Unset /\ complete = FALSE
  BY DEF Init, Writers
<1>3. StreamsOK
  BY DEF Init, StreamsOK, StreamOK
<1> QED BY <1>1, <1>2, <1>3 DEF Inv, FileIsPrefix, AloneOK, CompleteOK

-----------------------------------------------------------------------------
LEMMA Invariant == Spec => []Inv
BY InvInit, InvNext, PTL DEF Spec

\* Files, buffers and streams keep their types, whatever is loaded.
THEOREM TypeCorrect == Spec => []TypeOK
BY Invariant, PTL DEF Inv

\* While one process at a time saves, the file holds an initial part of the
\* line, whichever host call fails and wherever the process is killed.
THEOREM FileCorrect == Spec => []FileIsPrefix
BY Invariant, PTL DEF Inv

\* What a save without overlap has reported saved is in the file, until some
\* process opens it for the next save.
THEOREM SavedCorrect == Spec => []SavedIsThere
<1>1. Inv => SavedIsThere
  BY DEF Inv, CompleteOK, SavedIsThere
<1> QED BY <1>1, Invariant, PTL

-----------------------------------------------------------------------------
(* Loads: what is read, and where its bytes come from.                     *)

\* A buffer has one line, if any.
LEMMA LineIs ==
    ASSUME NEW b \in Buffer, NEW n \in SavableLengths(b, 0)
    PROVE  /\ Savable(b) /\ n \in Nat /\ n < LineSize
           /\ LineIn(b) \in Seq(Byte) /\ Len(LineIn(b)) = n
           /\ \A i \in 1..n : LineIn(b)[i] = b[i - 1]
<1> DEFINE k == CHOOSE k \in SavableLengths(b, 0) : TRUE
<1>1. /\ n \in 0..(LineSize - 1) /\ b[0 + n] = 0
      /\ \A i \in 0..(n - 1) : b[0 + i] \notin {0, CR, LF}
  BY DEF SavableLengths
<1>2. /\ k \in 0..(LineSize - 1) /\ b[0 + k] = 0
      /\ \A i \in 0..(k - 1) : b[0 + i] \notin {0, CR, LF}
  <2>1. k \in SavableLengths(b, 0)
    OBVIOUS
  <2> HIDE DEF k
  <2> QED BY <2>1 DEF SavableLengths
<1>3. LineIn(b) = BytesAt(b, 0, k)
  BY DEF LineIn
<1> HIDE DEF k
<1>4. n \in Nat /\ k \in Nat /\ n < LineSize
  BY <1>1, <1>2, Sizes
<1>5. k = n
  <2>1. ~(k < n)
    <3>1. k < n => k \in 0..(n - 1)
      BY <1>4
    <3> QED BY <3>1, <1>1, <1>2
  <2>2. ~(n < k)
    <3>1. n < k => n \in 0..(k - 1)
      BY <1>4
    <3> QED BY <3>1, <1>1, <1>2
  <2> QED BY <2>1, <2>2, <1>4
<1>6. LineIn(b) = [i \in 1..n |-> b[i - 1]]
  <2>1. \A i \in 1..n : 0 + i - 1 = i - 1
    BY <1>4
  <2> QED BY <2>1, <1>3, <1>5 DEF BytesAt
<1>7. Savable(b)
  BY DEF Savable
<1>8. LineIn(b) \in Seq(Byte) /\ Len(LineIn(b)) \in Nat
  BY <1>7, LineInType
<1>9. Len(LineIn(b)) = n
  BY <1>4, <1>6, <1>8, LenProperties
<1> QED BY <1>4, <1>6, <1>7, <1>8, <1>9

\* The buffer after a load holds what was read, as a line.
LEMMA LoadedLine ==
    ASSUME NEW b \in Buffer, NEW content \in Seq(Byte), Loadable(content)
    PROVE  /\ Savable(PlaceLine(b, 0, content))
           /\ LineIn(PlaceLine(b, 0, content)) = content
<1> DEFINE n == Len(content)
           r == PlaceLine(b, 0, content)
<1>1. n \in Nat /\ n < LineSize /\ \A i \in 1..n : content[i] \notin {0, CR, LF}
  BY LenProperties DEF Loadable
<1>2. r \in Buffer
  BY PlaceLineType
<1>3. r = [x \in 0..(LineSize - 1) |-> IF x \in 0..(0 + n - 1) THEN content[x - 0 + 1]
                                       ELSE IF x = 0 + n THEN 0 ELSE b[x]]
  BY DEF PlaceLine, Buffer
<1> HIDE DEF n, r
<1>4. \A i \in 0..(n - 1) : /\ i \in 0..(LineSize - 1) /\ i \in 0..(0 + n - 1)
                            /\ i - 0 + 1 = i + 1 /\ i + 1 \in 1..n /\ 0 + i = i
  BY <1>1, Sizes
<1>5. \A i \in 0..(n - 1) : r[i] = content[i + 1]
  <2> TAKE i \in 0..(n - 1)
  <2>1. r[i] = content[i - 0 + 1]
    BY <1>3, <1>4
  <2> QED BY <2>1, <1>4
<1>6. n \in 0..(LineSize - 1) /\ n \notin 0..(0 + n - 1) /\ n = 0 + n
  BY <1>1, Sizes
<1>7. r[n] = 0
  BY <1>3, <1>6
<1>8. n \in SavableLengths(r, 0)
  <2>1. \A i \in 0..(n - 1) : r[0 + i] \notin {0, CR, LF}
    BY <1>1, <1>4, <1>5
  <2> QED BY <2>1, <1>6, <1>7 DEF SavableLengths
<1>9. /\ Savable(r) /\ LineIn(r) \in Seq(Byte) /\ Len(LineIn(r)) = n
      /\ \A i \in 1..n : LineIn(r)[i] = r[i - 1]
  BY <1>2, <1>8, LineIs
<1>10. \A i \in 1..n : LineIn(r)[i] = content[i]
  <2> TAKE i \in 1..n
  <2>1. i - 1 \in 0..(n - 1) /\ (i - 1) + 1 = i
    BY <1>1
  <2> QED BY <2>1, <1>5, <1>9
<1>11. LineIn(r) = content
  BY <1>9, <1>10, SeqEqual DEF n
<1> QED BY <1>9, <1>11 DEF r

\* What a load may return and leave in the buffer.
LoadStep(p) ==
    phase[p] = "check" /\ phase'[p] = "idle" /\ result'[p] # Unset =>
        \/ result'[p] = 0 /\ Savable(buf'[p]) /\ LineIn(buf'[p]) = data[p]
        \/ result'[p] = 1 /\ buf'[p] = buf[p]

LEMMA LoadStepHolds == ASSUME Inv, [Next]_vars, NEW p \in Procs PROVE LoadStep(p)
<1> SUFFICES ASSUME phase[p] = "check", phase'[p] = "idle", result'[p] # Unset
             PROVE  \/ result'[p] = 0 /\ Savable(buf'[p]) /\ LineIn(buf'[p]) = data[p]
                    \/ result'[p] = 1 /\ buf'[p] = buf[p]
  BY DEF LoadStep
<1>0. /\ phase \in [Procs -> Phase] /\ result \in [Procs -> {0, 1, Unset}]
      /\ buf \in [Procs -> Buffer] /\ data \in [Procs -> Seq(Byte)]
  BY DEF Inv, TypeOK
<1>1. phase' # phase
  OBVIOUS
<1>2. PICK q \in Procs : Edit(q) \/ StartSave(q) \/ StartLoad(q) \/ Proceed(q) \/ Restart(q)
  BY <1>1 DEF Next, vars, local
<1>3. q = p
  <2>1. q # p => phase'[p] = phase[p]
    BY <1>0, <1>2 DEF Edit, StartSave, StartLoad, Proceed, Fwrite, Flush, CloseWritten, Fread,
                      CloseRead, Restart, Return
  <2> QED BY <2>1
<1>4. ~Restart(p)
  BY <1>0 DEF Restart, Return
<1>5. CloseRead(p) \/ Fread(p)
  BY <1>2, <1>3, <1>4 DEF Edit, StartSave, StartLoad, Proceed, Fwrite, Flush, CloseWritten
<1>6. CloseRead(p)
  BY <1>5 DEF Fread
<1>7. CASE /\ ~failed[p] /\ Loadable(data[p])
           /\ buf' = [buf EXCEPT ![p] = PlaceLine(@, 0, data[p])]
           /\ Return(p, 0)
  <2>1. result'[p] = 0 /\ buf'[p] = PlaceLine(buf[p], 0, data[p])
    BY <1>0, <1>7 DEF Return
  <2>2. Loadable(data[p]) /\ buf[p] \in Buffer /\ data[p] \in Seq(Byte)
    BY <1>0, <1>7
  <2>3. Savable(PlaceLine(buf[p], 0, data[p])) /\ LineIn(PlaceLine(buf[p], 0, data[p])) = data[p]
    BY <2>2, LoadedLine
  <2> QED BY <2>1, <2>3
<1>8. CASE Return(p, 1) /\ UNCHANGED buf
  BY <1>0, <1>8 DEF Return
<1> QED BY <1>6, <1>7, <1>8 DEF CloseRead

\* A load that returns 0 has put all that it read into the buffer, as a line
\* that can be saved; one that returns 1 has put nothing there.
THEOREM LoadCorrect == Spec => LoadIsAllOrNothing
<1>1. Inv /\ [Next]_vars =>
          [\A p \in Procs : phase[p] = "check" /\ phase'[p] = "idle" /\ result'[p] # Unset =>
              \/ result'[p] = 0 /\ Savable(buf'[p]) /\ LineIn(buf'[p]) = data[p]
              \/ result'[p] = 1 /\ buf'[p] = buf[p]]_vars
  BY LoadStepHolds DEF LoadStep
<1> QED BY <1>1, Invariant, PTL DEF Spec, LoadIsAllOrNothing

-----------------------------------------------------------------------------
(* The places of bytes, whatever overlaps.                                 *)

InPlace(byte, i) == byte \in BytesAtPlace(i) \cup {0}
LinePlaced(b) ==
    Savable(b) => \A i \in 1..Len(LineIn(b)) : LineIn(b)[i] \in BytesAtPlace(i)

\* A stream for reading has delivered pos bytes, and the other calls begin
\* with none.  What a stream for writing holds is its line.
PlacedAt(p) ==
    /\ LinePlaced(buf[p])
    /\ phase[p] \in {"idle", "write"} => data[p] = <<>>
    /\ phase[p] \in {"read", "check"} =>
          /\ Len(data[p]) = pos[p]
          /\ \A i \in 1..Len(data[p]) : i < LineSize => InPlace(data[p][i], i)

FilePlaced ==
    file # NoFile => \A i \in 1..Len(file) : i < LineSize => InPlace(file[i], i)

PlacedOK == FilePlaced /\ \A p \in Procs : PlacedAt(p)

LEMMA OwnPlaced == ASSUME NEW b \in Buffers \cup {Blank} PROVE LinePlaced(b)
<1> SUFFICES ASSUME Savable(b), NEW i \in 1..Len(LineIn(b))
             PROVE  LineIn(b)[i] \in BytesAtPlace(i)
  BY DEF LinePlaced
<1>1. PICK n : n \in SavableLengths(b, 0)
  BY DEF Savable
<1>2. LineIn(b)[i] = b[i - 1]
  BY <1>1, LineIs, BuffersAssumption
<1> QED BY <1>2 DEF BytesAtPlace

LEMMA OtherPlaced ==
    ASSUME NEW q \in Procs, PlacedAt(q), SameAt(q)
    PROVE  PlacedAt(q)'
BY DEF PlacedAt, SameAt

\* A call returns, or a process is started again.
LEMMA ReturnPlaced ==
    ASSUME Inv, PlacedOK, NEW p \in Procs, NEW r \in {0, 1, Unset}, Return(p, r),
           UNCHANGED file, LinePlaced(buf'[p]), \A q \in Procs \ {p} : buf'[q] = buf[q]
    PROVE  PlacedOK'
<1>1. phase'[p] = "idle" /\ data'[p] = <<>> /\ \A q \in Procs \ {p} : SameAt(q)
  <2>1. data'[p] = <<>>
    BY DEF Inv, TypeOK, Return
  <2> QED BY <2>1, ReturnEffect DEF Inv
<1>2. PlacedAt(p)'
  BY <1>1 DEF PlacedAt
<1>3. FilePlaced'
  BY DEF PlacedOK, FilePlaced
<1> QED BY <1>1, <1>2, <1>3, OtherPlaced DEF PlacedOK

\* One process moves and the file stays.
LEMMA LocalPlaced ==
    ASSUME PlacedOK, NEW p \in Procs, PlacedAt(p)', UNCHANGED file,
           \A q \in Procs \ {p} : SameAt(q)
    PROVE  PlacedOK'
<1>1. FilePlaced'
  BY DEF PlacedOK, FilePlaced
<1> QED BY <1>1, OtherPlaced DEF PlacedOK

LEMMA EditPlaced == ASSUME Inv, PlacedOK, NEW p \in Procs, Edit(p) PROVE PlacedOK'
<1>1. PICK b \in Buffers : buf' = [buf EXCEPT ![p] = b]
  BY DEF Edit
<1>2. UNCHANGED <<file, phase, data, pos, failed>> /\ phase[p] = "idle"
  BY DEF Edit
<1>3. buf'[p] = b /\ \A q \in Procs \ {p} : SameAt(q)
  BY <1>1, <1>2 DEF Inv, TypeOK, SameAt
<1>4. PlacedAt(p)'
  BY <1>2, <1>3, OwnPlaced DEF PlacedOK, PlacedAt
<1> QED BY <1>2, <1>3, <1>4, LocalPlaced

LEMMA StartSavePlaced == ASSUME Inv, PlacedOK, NEW p \in Procs, StartSave(p) PROVE PlacedOK'
<1>1. phase[p] = "idle" /\ UNCHANGED buf /\ PlacedAt(p)
  BY DEF StartSave, PlacedOK
<1>2. CASE Return(p, 1) /\ UNCHANGED file
  BY <1>1, <1>2, ReturnPlaced DEF PlacedAt
<1>3. CASE /\ file' = <<>> /\ phase' = [phase EXCEPT ![p] = "write"]
           /\ UNCHANGED <<data, pos, failed>>
  <2>1. phase'[p] = "write" /\ \A q \in Procs \ {p} : SameAt(q)
    BY <1>1, <1>3 DEF Inv, TypeOK, SameAt
  <2>2. PlacedAt(p)'
    BY <1>1, <1>3, <2>1 DEF PlacedAt
  <2>3. FilePlaced'
    BY <1>3, EmptySeq DEF FilePlaced
  <2> QED BY <2>1, <2>2, <2>3, OtherPlaced DEF PlacedOK
<1> QED BY <1>2, <1>3 DEF StartSave

LEMMA StartLoadPlaced == ASSUME Inv, PlacedOK, NEW p \in Procs, StartLoad(p) PROVE PlacedOK'
<1>1. phase[p] = "idle" /\ UNCHANGED <<buf, file>> /\ PlacedAt(p)
  BY DEF StartLoad, PlacedOK
<1>2. CASE Return(p, 1)
  BY <1>1, <1>2, ReturnPlaced DEF PlacedAt
<1>3. CASE phase' = [phase EXCEPT ![p] = "read"] /\ UNCHANGED <<data, pos, failed>>
  <2>1. phase'[p] = "read" /\ \A q \in Procs \ {p} : SameAt(q)
    BY <1>1, <1>3 DEF Inv, TypeOK, SameAt
  <2>2. data'[p] = <<>> /\ pos'[p] = 0 /\ Len(<<>>) = 0
    BY <1>1, <1>3, EmptySeq DEF PlacedAt, Inv, StreamsOK, StreamOK
  <2>3. PlacedAt(p)'
    BY <1>1, <2>1, <2>2 DEF PlacedAt
  <2> QED BY <1>1, <2>1, <2>3, LocalPlaced
<1> QED BY <1>2, <1>3 DEF StartLoad

LEMMA FwritePlaced == ASSUME Inv, PlacedOK, NEW p \in Procs, Fwrite(p) PROVE PlacedOK'
<1>1. /\ phase[p] = "write" /\ phase' = [phase EXCEPT ![p] = "flush"]
      /\ UNCHANGED <<file, buf, pos>>
      /\ \E k : data' = [data EXCEPT ![p] = SubSeq(LineIn(buf[p]), 1, k)]
      /\ \E x : failed' = [failed EXCEPT ![p] = x]
  BY DEF Fwrite
<1>2. phase'[p] = "flush" /\ buf'[p] = buf[p] /\ \A q \in Procs \ {p} : SameAt(q)
  BY <1>1 DEF Inv, TypeOK, SameAt
<1>3. PlacedAt(p)'
  BY <1>2 DEF PlacedOK, PlacedAt
<1> QED BY <1>1, <1>2, <1>3, LocalPlaced

LEMMA FlushPlaced == ASSUME Inv, PlacedOK, NEW p \in Procs, Flush(p) PROVE PlacedOK'
<1>1. phase[p] = "flush" /\ UNCHANGED <<buf, phase, data, failed>> /\ PlacedAt(p)
  BY DEF Flush, PlacedOK
<1> DEFINE s == LineIn(buf[p])
<1>2. s \in Seq(Byte) /\ Len(s) \in Nat /\ Len(s) < LineSize /\ file \in Seq(Byte) /\ Len(file) \in Nat
  BY <1>1, FlushFacts, LenProperties DEF Inv
<1>3. PICK k \in 0..Len(s) :
         data[p] = SubSeq(s, 1, k) /\ Len(data[p]) = k /\ pos[p] \in 0..k
  BY <1>1, FlushFacts DEF Inv
<1>4. \A i \in 1..Len(s) : s[i] \in BytesAtPlace(i)
  BY <1>1 DEF PlacedAt, LinePlaced, Inv, StreamsOK, StreamOK
<1> HIDE DEF s
<1>5. data[p] \in Seq(Byte) /\ \A i \in 1..k : data[p][i] = s[i]
  <2>1. SubSeq(s, 1, k) = [i \in 1..k |-> s[i]] /\ SubSeq(s, 1, k) \in Seq(Byte)
    BY <1>2, Part
  <2> QED BY <2>1, <1>3
<1>6. PICK n \in (pos[p] + 1)..Len(data[p]) :
         /\ file' = WriteAt(file, pos[p], SubSeq(data[p], pos[p] + 1, n))
         /\ pos' = [pos EXCEPT ![p] = n]
  BY DEF Flush
<1> DEFINE new == SubSeq(data[p], pos[p] + 1, n)
           o == pos[p]
<1>7. o \in Nat /\ n \in Nat /\ o < n /\ n <= k /\ k \in Nat /\ k <= Len(s)
  BY <1>2, <1>3, <1>6
<1>8. Len(new) = n - o /\ \A j \in 1..(n - o) : new[j] = data[p][o + j]
  <2>1. \A j \in (o + 1)..n : j \in 1..Len(data[p])
    BY <1>3, <1>7
  <2>2. \A j \in (o + 1)..n : data[p][j] \in Byte
    BY <2>1, <1>5, ElementOfSeq
  <2>3. o + 1 \in Int /\ n \in Int
    BY <1>7
  <2>4. Len(new) = (IF o + 1 <= n THEN n - (o + 1) + 1 ELSE 0)
        /\ \A j \in 1..(n - (o + 1) + 1) : new[j] = data[p][(o + 1) + j - 1]
    BY <2>2, <2>3, SubSeqProperties
  <2> HIDE DEF new, o
  <2>5. /\ (IF o + 1 <= n THEN n - (o + 1) + 1 ELSE 0) = n - o /\ n - (o + 1) + 1 = n - o
        /\ \A j \in 1..(n - o) : (o + 1) + j - 1 = o + j
    BY <1>7
  <2> QED BY <2>4, <2>5
<1> HIDE DEF new, o
<1>9. o + Len(new) = n
  BY <1>7, <1>8
<1>10. FilePlaced'
  <2> DEFINE size == IF Len(file) > o + Len(new) THEN Len(file) ELSE o + Len(new)
  <2>1. file' = [i \in 1..size |-> IF i \in (o + 1)..(o + Len(new)) THEN new[i - o]
                                   ELSE IF i <= Len(file) THEN file[i] ELSE 0]
    BY <1>6 DEF WriteAt, new, o
  <2>2. size \in Nat /\ file' \in Seq(Byte)
    BY <1>1, <1>2, <1>7, <1>9, FlushStep DEF Inv, TypeOK, StreamsOK, StreamOK, File
  <2> HIDE DEF size
  <2>3. Len(file') = size
    BY <2>1, <2>2, LenProperties
  <2>4. ASSUME NEW i \in 1..size, i < LineSize PROVE InPlace(file'[i], i)
    <3>1. CASE i \in (o + 1)..n
      <4>1. i - o \in 1..(n - o) /\ o + (i - o) = i /\ i \in 1..k /\ i \in 1..Len(s)
        BY <3>1, <1>7
      <4>2. file'[i] = s[i]
        BY <4>1, <3>1, <2>1, <1>5, <1>8, <1>9
      <4> QED BY <4>1, <4>2, <1>4 DEF InPlace
    <3>2. CASE i \notin (o + 1)..n /\ i <= Len(file)
      <4>1. file'[i] = file[i] /\ i \in 1..Len(file) /\ file # NoFile
        BY <3>2, <2>1, <2>2, <1>2, <1>9, NoFileAssumption
      <4> QED BY <4>1, <2>4 DEF PlacedOK, FilePlaced
    <3>3. CASE i \notin (o + 1)..n /\ ~(i <= Len(file))
      BY <3>3, <2>1, <1>9 DEF InPlace
    <3> QED BY <3>1, <3>2, <3>3
  <2> QED BY <2>3, <2>4 DEF FilePlaced
<1>11. \A q \in Procs \ {p} : SameAt(q)
  BY <1>1, <1>6 DEF Inv, TypeOK, SameAt
<1>12. PlacedAt(p)'
  BY <1>1 DEF PlacedAt
<1> QED BY <1>10, <1>11, <1>12, OtherPlaced DEF PlacedOK

LEMMA CloseWrittenPlaced ==
    ASSUME Inv, PlacedOK, NEW p \in Procs, CloseWritten(p) PROVE PlacedOK'
<1>1. UNCHANGED <<buf, file>> /\ \E r \in {0, 1} : Return(p, r)
  BY DEF CloseWritten
<1> QED BY <1>1, ReturnPlaced DEF PlacedOK, PlacedAt

LEMMA FreadPlaced == ASSUME Inv, PlacedOK, NEW p \in Procs, Fread(p) PROVE PlacedOK'
<1>1. phase[p] = "read" /\ UNCHANGED <<file, buf>> /\ PlacedAt(p)
      /\ file \in Seq(Byte) /\ file # NoFile /\ Len(file) \in Nat
  BY LenProperties DEF Fread, PlacedOK, Inv, TypeOK, StreamsOK, StreamOK, File
<1>2. CASE /\ phase' = [phase EXCEPT ![p] = "check"] /\ UNCHANGED <<data, pos>>
           /\ \A q \in Procs \ {p} : failed'[q] = failed[q]
  <2>1. phase'[p] = "check" /\ \A q \in Procs \ {p} : SameAt(q)
    BY <1>1, <1>2 DEF Inv, TypeOK, SameAt
  <2>2. PlacedAt(p)'
    BY <1>1, <1>2, <2>1 DEF PlacedAt
  <2> QED BY <1>1, <2>1, <2>2, LocalPlaced
<1>3. ASSUME NEW n \in (pos[p] + 1)..Len(file), n <= LineSize,
             data' = [data EXCEPT ![p] = @ \o SubSeq(file, pos[p] + 1, n)],
             pos' = [pos EXCEPT ![p] = n],
             phase' = [phase EXCEPT ![p] = IF n = LineSize THEN "check" ELSE @],
             failed' = [failed EXCEPT ![p] = n = LineSize]
      PROVE  PlacedOK'
  <2> DEFINE o == pos[p]
             new == SubSeq(file, o + 1, n)
  <2>1. o \in Nat /\ n \in Nat /\ o < n /\ n <= Len(file)
        /\ data[p] \in Seq(Byte) /\ Len(data[p]) = o
        /\ \A i \in 1..o : i < LineSize => InPlace(data[p][i], i)
    BY <1>1 DEF Inv, TypeOK, PlacedAt
  <2>2. new \in Seq(Byte) /\ Len(new) = n - o /\ \A j \in 1..(n - o) : new[j] = file[o + j]
    <3>1. \A j \in (o + 1)..n : j \in 1..Len(file)
      BY <2>1, <1>1
    <3>2. \A j \in (o + 1)..n : file[j] \in Byte
      BY <3>1, <1>1, ElementOfSeq
    <3>3. o + 1 \in Int /\ n \in Int
      BY <2>1
    <3>4. /\ new \in Seq(Byte)
          /\ Len(new) = (IF o + 1 <= n THEN n - (o + 1) + 1 ELSE 0)
          /\ \A j \in 1..(n - (o + 1) + 1) : new[j] = file[(o + 1) + j - 1]
      BY <3>2, <3>3, SubSeqProperties
    <3> HIDE DEF new, o
    <3>5. /\ (IF o + 1 <= n THEN n - (o + 1) + 1 ELSE 0) = n - o /\ n - (o + 1) + 1 = n - o
          /\ \A j \in 1..(n - o) : (o + 1) + j - 1 = o + j
      BY <2>1
    <3> QED BY <3>4, <3>5
  <2>3. /\ data'[p] = data[p] \o new /\ pos'[p] = n /\ buf'[p] = buf[p]
        /\ phase'[p] \in {"read", "check"} /\ \A q \in Procs \ {p} : SameAt(q)
    BY <1>1, <1>3 DEF Inv, TypeOK, SameAt
  <2> HIDE DEF new, o
  <2>4. /\ Len(data'[p]) = n
        /\ \A i \in 1..n : data'[p][i] = IF i <= o THEN data[p][i] ELSE new[i - o]
    <3>0. data[p] \in Seq(Byte) /\ new \in Seq(Byte)
      BY <2>1, <2>2
    <3>1. /\ Len(data[p] \o new) = Len(data[p]) + Len(new)
          /\ \A i \in 1..(Len(data[p]) + Len(new)) :
                (data[p] \o new)[i] = IF i <= Len(data[p]) THEN data[p][i] ELSE new[i - Len(data[p])]
      BY ONLY <3>0, ConcatProperties
    <3>2. Len(data[p]) + Len(new) = n
      BY <2>1, <2>2
    <3> QED BY <3>1, <3>2, <2>1, <2>3
  <2>5. ASSUME NEW i \in 1..n, i < LineSize PROVE InPlace(data'[p][i], i)
    <3>1. CASE i <= o
      <4>1. i \in 1..o
        BY <3>1, <2>1
      <4> QED BY <4>1, <3>1, <2>1, <2>4, <2>5
    <3>2. CASE ~(i <= o)
      <4>1. i - o \in 1..(n - o) /\ o + (i - o) = i /\ i \in 1..Len(file)
        BY <3>2, <2>1, <1>1
      <4>2. data'[p][i] = file[i]
        BY <4>1, <3>2, <2>2, <2>4
      <4> QED BY <4>1, <4>2, <1>1, <2>5 DEF PlacedOK, FilePlaced
    <3> QED BY <3>1, <3>2
  <2>6. PlacedAt(p)'
    BY <1>1, <2>3, <2>4, <2>5 DEF PlacedAt
  <2> QED BY <1>1, <2>3, <2>6, LocalPlaced
<1>4. CASE /\ pos[p] >= Len(file) /\ phase' = [phase EXCEPT ![p] = "check"]
           /\ UNCHANGED <<data, pos, failed>>
  BY <1>2, <1>4 DEF Inv, TypeOK
<1>5. CASE /\ phase' = [phase EXCEPT ![p] = "check"]
           /\ failed' = [failed EXCEPT ![p] = TRUE]
           /\ UNCHANGED <<data, pos>>
  BY <1>2, <1>5 DEF Inv, TypeOK
<1> QED BY <1>3, <1>4, <1>5 DEF Fread

LEMMA CloseReadPlaced == ASSUME Inv, PlacedOK, NEW p \in Procs, CloseRead(p) PROVE PlacedOK'
<1>1. phase[p] = "check" /\ UNCHANGED file /\ PlacedAt(p) /\ data[p] \in Seq(Byte)
      /\ buf \in [Procs -> Buffer]
  BY DEF CloseRead, PlacedOK, Inv, TypeOK
<1>2. CASE Return(p, 1) /\ UNCHANGED buf
  BY <1>1, <1>2, ReturnPlaced DEF PlacedAt
<1>3. CASE /\ Loadable(data[p]) /\ buf' = [buf EXCEPT ![p] = PlaceLine(@, 0, data[p])]
           /\ Return(p, 0)
  <2>1. buf'[p] = PlaceLine(buf[p], 0, data[p]) /\ \A q \in Procs \ {p} : buf'[q] = buf[q]
    BY <1>1, <1>3
  <2>2. LineIn(buf'[p]) = data[p]
    BY <1>1, <1>3, <2>1, LoadedLine
  <2>3. \A i \in 1..Len(data[p]) : data[p][i] \in BytesAtPlace(i)
    <3> TAKE i \in 1..Len(data[p])
    <3>1. i < LineSize /\ data[p][i] # 0
      BY <1>1, <1>3, LenProperties, Sizes DEF Loadable
    <3> QED BY <3>1, <1>1 DEF PlacedAt, InPlace
  <2>4. LinePlaced(buf'[p])
    BY <2>2, <2>3 DEF LinePlaced
  <2> QED BY <1>1, <1>3, <2>1, <2>4, ReturnPlaced
<1> QED BY <1>2, <1>3 DEF CloseRead

LEMMA RestartPlaced == ASSUME Inv, PlacedOK, NEW p \in Procs, Restart(p) PROVE PlacedOK'
<1>1. Return(p, Unset) /\ UNCHANGED file /\ buf'[p] = Blank
      /\ \A q \in Procs \ {p} : buf'[q] = buf[q]
  BY DEF Restart, Inv, TypeOK
<1> QED BY <1>1, OwnPlaced, ReturnPlaced

LEMMA PlacedInit == ASSUME Init PROVE PlacedOK
<1>1. ASSUME file # NoFile, NEW i \in 1..Len(file), i < LineSize
      PROVE  InPlace(file[i], i)
  BY <1>1, FilesAssumption, LenProperties DEF Init, InPlace, BytesAtPlace, File
<1>2. ASSUME NEW p \in Procs PROVE PlacedAt(p)
  BY OwnPlaced DEF Init, PlacedAt
<1> QED BY <1>1, <1>2 DEF PlacedOK, FilePlaced

LEMMA PlacedNext == ASSUME Inv, PlacedOK, [Next]_vars PROVE PlacedOK'
<1>1. CASE Next
  BY <1>1, EditPlaced, StartSavePlaced, StartLoadPlaced, FwritePlaced, FlushPlaced,
     CloseWrittenPlaced, FreadPlaced, CloseReadPlaced, RestartPlaced DEF Next, Proceed
<1>2. CASE UNCHANGED vars
  BY <1>2 DEF vars, local, PlacedOK, FilePlaced, PlacedAt
<1> QED BY <1>1, <1>2

\* However calls overlap, fail and are killed, no byte is read or written at
\* another place than its own, and no hole becomes a part of a line.
THEOREM PlacesCorrect == Spec => []BytesKeepTheirPlace
<1>1. Spec => []PlacedOK
  BY PlacedInit, PlacedNext, Invariant, PTL DEF Spec
<1>2. PlacedOK => BytesKeepTheirPlace
  BY DEF PlacedOK, FilePlaced, PlacedAt, LinePlaced, InPlace, BytesKeepTheirPlace
<1> QED BY <1>1, <1>2, PTL

-----------------------------------------------------------------------------
(* One process alone sees its calls happen at once.                        *)

\* The file as the process that is alone sees it: until its save is over, the
\* old one.
Seen == IF Writers = {} THEN file ELSE before

\* A save has the file to itself, and a stream for reading that has not failed
\* has delivered what the file holds so far, at its end all of it.
SoleAt(p) ==
    /\ phase[p] = "idle" => data[p] = <<>> /\ ~failed[p]
    /\ phase[p] \in {"write", "flush"} => alone # Unset
    /\ phase[p] = "read" => ~failed[p]
    /\ phase[p] \in {"read", "check"} =>
          pos[p] <= Len(file) /\ data[p] = SubSeq(file, 1, pos[p])
    /\ phase[p] = "check" /\ ~failed[p] => pos[p] = Len(file)

Sole == \A p, q \in Procs : p = q
SoleOK == \A p \in Procs : SoleAt(p)

LEMMA OwnWriters ==
    ASSUME Sole, NEW p \in Procs
    PROVE  /\ Writers = IF phase[p] \in {"write", "flush"} THEN {p} ELSE {}
           /\ Writers' = IF phase'[p] \in {"write", "flush"} THEN {p} ELSE {}
BY DEF Sole, Writers

LEMMA NoPart == ASSUME NEW s \in Seq(Byte) PROVE SubSeq(s, 1, 0) = <<>>
<1>1. 0 \in 0..Len(s)
  BY LenProperties, SMT
<1>2. SubSeq(s, 1, 0) \in Seq(Byte) /\ Len(SubSeq(s, 1, 0)) = 0
  BY <1>1, Part
<1> QED BY <1>2, EmptySeq

\* Reading on from the end of an initial part gives a longer initial part.
LEMMA ReadOn ==
    ASSUME NEW s \in Seq(Byte), NEW i \in 0..Len(s), NEW n \in (i + 1)..Len(s)
    PROVE  SubSeq(s, 1, i) \o SubSeq(s, i + 1, n) = SubSeq(s, 1, n)
<1>1. /\ Len(s) \in Nat /\ i \in Nat /\ n \in Nat /\ i < n /\ n <= Len(s)
      /\ i + 1 \in Int
  BY LenProperties, SMT
<1> DEFINE front == SubSeq(s, 1, i)
           back == SubSeq(s, i + 1, n)
           all == SubSeq(s, 1, n)
<1>2. /\ front \in Seq(Byte) /\ Len(front) = i /\ \A j \in 1..i : front[j] = s[j]
      /\ all \in Seq(Byte) /\ Len(all) = n /\ \A j \in 1..n : all[j] = s[j]
  BY <1>1, Part
<1>3. \A j \in (i + 1)..n : s[j] \in Byte
  BY <1>1, ElementOfSeq
<1>4. back \in Seq(Byte) /\ Len(back) = n - i /\ \A j \in 1..(n - i) : back[j] = s[i + j]
  BY <1>1, <1>3, SubSeqProperties
<1> HIDE DEF front, back, all
<1>5. /\ front \o back \in Seq(Byte) /\ Len(front \o back) = i + (n - i)
      /\ \A j \in 1..(i + (n - i)) :
            (front \o back)[j] = IF j <= i THEN front[j] ELSE back[j - i]
  <2>0. front \in Seq(Byte) /\ back \in Seq(Byte)
    BY <1>2, <1>4
  <2>1. /\ front \o back \in Seq(Byte) /\ Len(front \o back) = Len(front) + Len(back)
        /\ \A j \in 1..(Len(front) + Len(back)) :
              (front \o back)[j] = IF j <= Len(front) THEN front[j] ELSE back[j - Len(front)]
    BY ONLY <2>0, ConcatProperties
  <2> QED BY <2>1, <1>2, <1>4
<1>6. \A j \in 1..n : (front \o back)[j] = all[j]
  <2> TAKE j \in 1..n
  <2>1. j \in 1..(i + (n - i)) /\ (j <= i => j \in 1..i)
        /\ (~(j <= i) => j - i \in 1..(n - i) /\ i + (j - i) = j)
    BY <1>1
  <2> QED BY <2>1, <1>2, <1>4, <1>5
<1>7. Len(front \o back) = Len(all)
  BY <1>1, <1>2, <1>5
<1>8. front \o back = all
  BY <1>2, <1>5, <1>6, <1>7, SeqEqual
<1> QED BY <1>8 DEF front, back, all

\* Nothing that a stream has read changes under it, and a process that begins
\* a save is the only one.
LEMMA SoleInit == ASSUME Init PROVE SoleOK
BY DEF Init, SoleOK, SoleAt

\* A call that returns, or a restart, leaves no stream.
LEMMA ReturnSole ==
    ASSUME TypeOK, Sole, NEW p \in Procs, NEW r, Return(p, r)
    PROVE  SoleOK'
<1>1. phase'[p] = "idle" /\ data'[p] = <<>> /\ failed'[p] = FALSE
  BY DEF TypeOK, Return
<1>2. SoleAt(p)'
  BY <1>1 DEF SoleAt
<1> QED BY <1>2 DEF SoleOK, Sole

LEMMA StartSaveSole ==
    ASSUME Inv, Sole, SoleOK, NEW p \in Procs, StartSave(p)
    PROVE  SoleOK'
<1>1. CASE Return(p, 1) /\ UNCHANGED <<file, history>>
  BY <1>1, ReturnSole DEF Inv
<1>2. CASE /\ Savable(buf[p])
           /\ file' = <<>>
           /\ phase' = [phase EXCEPT ![p] = "write"]
           /\ alone' = IF Writers = {} THEN LineIn(buf[p]) ELSE Unset
           /\ complete' = FALSE
           /\ before' = file
           /\ result' = [result EXCEPT ![p] = Unset]
           /\ UNCHANGED <<data, pos, failed>>
  <2>1. phase[p] = "idle" /\ phase'[p] = "write"
    BY <1>2 DEF Inv, TypeOK, StartSave
  <2>2. Writers = {}
    BY <2>1, OwnWriters
  <2>3. LineIn(buf[p]) \in Seq(Byte)
    BY <1>2, LineInType DEF Inv, TypeOK
  <2>4. alone' # Unset
    BY <1>2, <2>2, <2>3, UnsetAssumption
  <2>5. SoleAt(p)'
    BY <2>1, <2>4 DEF SoleAt
  <2> QED BY <2>5 DEF SoleOK, Sole
<1> QED BY <1>1, <1>2 DEF StartSave

LEMMA StartLoadSole ==
    ASSUME Inv, Sole, SoleOK, NEW p \in Procs, StartLoad(p)
    PROVE  SoleOK'
<1>1. CASE Return(p, 1)
  BY <1>1, ReturnSole DEF Inv
<1>2. CASE /\ file # NoFile
           /\ phase' = [phase EXCEPT ![p] = "read"]
           /\ result' = [result EXCEPT ![p] = Unset]
           /\ UNCHANGED <<data, pos, failed>>
  <2>1. /\ phase[p] = "idle" /\ phase'[p] = "read" /\ file' = file
        /\ data'[p] = data[p] /\ pos'[p] = pos[p] /\ failed'[p] = failed[p]
    BY <1>2 DEF Inv, TypeOK, StartLoad
  <2>2. file \in Seq(Byte) /\ pos[p] = 0 /\ data[p] = <<>> /\ ~failed[p]
    BY <1>2, <2>1 DEF Inv, TypeOK, File, StreamsOK, StreamOK, SoleOK, SoleAt
  <2>3. 0 <= Len(file) /\ SubSeq(file, 1, 0) = <<>>
    BY <2>2, NoPart, LenProperties, SMT
  <2>4. SoleAt(p)'
    BY <2>1, <2>2, <2>3 DEF SoleAt
  <2> QED BY <2>4 DEF SoleOK, Sole
<1> QED BY <1>1, <1>2 DEF StartLoad

LEMMA FwriteSole ==
    ASSUME Inv, Sole, SoleOK, NEW p \in Procs, Fwrite(p)
    PROVE  SoleOK'
<1>1. phase[p] = "write" /\ phase'[p] = "flush" /\ alone' = alone
  BY DEF Inv, TypeOK, Fwrite, history
<1>2. SoleAt(p)'
  BY <1>1 DEF SoleOK, SoleAt
<1> QED BY <1>2 DEF SoleOK, Sole

LEMMA FlushSole ==
    ASSUME Inv, Sole, SoleOK, NEW p \in Procs, Flush(p)
    PROVE  SoleOK'
<1>1. phase[p] = "flush" /\ phase'[p] = "flush" /\ alone' = alone
  BY DEF Flush, history
<1>2. SoleAt(p)'
  BY <1>1 DEF SoleOK, SoleAt
<1> QED BY <1>2 DEF SoleOK, Sole

LEMMA FreadSole ==
    ASSUME Inv, Sole, SoleOK, NEW p \in Procs, Fread(p)
    PROVE  SoleOK'
<1>1. /\ phase[p] = "read" /\ file' = file /\ file \in Seq(Byte) /\ Len(file) \in Nat
      /\ pos[p] \in 0..Len(file) /\ data[p] = SubSeq(file, 1, pos[p]) /\ failed[p] = FALSE
  <2>1. phase[p] = "read" /\ file' = file /\ file \in Seq(Byte)
    BY DEF Inv, TypeOK, StreamsOK, StreamOK, Fread, File
  <2>2. Len(file) \in Nat /\ pos[p] \in 0..LineSize /\ failed[p] \in BOOLEAN
    BY <2>1, LenProperties DEF Inv, TypeOK
  <2>3. pos[p] <= Len(file) /\ data[p] = SubSeq(file, 1, pos[p]) /\ ~failed[p]
    BY <2>1 DEF SoleOK, SoleAt
  <2> QED BY <2>1, <2>2, <2>3, Sizes
<1> DEFINE Effect == /\ phase'[p] \in {"read", "check"} /\ (phase'[p] = "read" => ~failed'[p])
                     /\ pos'[p] \in 0..Len(file) /\ data'[p] = SubSeq(file, 1, pos'[p])
                     /\ phase'[p] = "check" /\ ~failed'[p] => pos'[p] = Len(file)
<1>2. Effect
  <2>1. CASE /\ pos[p] >= Len(file) /\ phase' = [phase EXCEPT ![p] = "check"]
             /\ UNCHANGED <<data, pos, failed>>
    <3>1. pos[p] = Len(file) /\ phase'[p] = "check"
      BY <1>1, <2>1 DEF Inv, TypeOK
    <3> QED BY <1>1, <2>1, <3>1
  <2>2. CASE /\ phase' = [phase EXCEPT ![p] = "check"]
             /\ failed' = [failed EXCEPT ![p] = TRUE]
             /\ UNCHANGED <<data, pos>>
    <3>1. failed'[p] = TRUE /\ phase'[p] = "check"
      BY <2>2 DEF Inv, TypeOK
    <3> QED BY <1>1, <2>2, <3>1
  <2>3. ASSUME NEW n \in (pos[p] + 1)..Len(file), n <= LineSize,
               data' = [data EXCEPT ![p] = @ \o SubSeq(file, pos[p] + 1, n)],
               pos' = [pos EXCEPT ![p] = n],
               phase' = [phase EXCEPT ![p] = IF n = LineSize THEN "check" ELSE @],
               failed' = [failed EXCEPT ![p] = n = LineSize]
        PROVE  Effect
    <3>1. /\ data'[p] = data[p] \o SubSeq(file, pos[p] + 1, n) /\ pos'[p] = n
          /\ phase'[p] = (IF n = LineSize THEN "check" ELSE "read")
          /\ failed'[p] = (n = LineSize)
      BY <1>1, <2>3 DEF Inv, TypeOK
    <3>2. data'[p] = SubSeq(file, 1, n)
      BY <1>1, <3>1, ReadOn
    <3>3. n \in 0..Len(file)
      BY <1>1, SMT
    <3> QED BY <3>1, <3>2, <3>3
  <2> QED BY <2>1, <2>2, <2>3 DEF Fread
<1>3. SoleAt(p)'
  <2>1. pos'[p] <= Len(file)
    BY <1>1, <1>2
  <2> QED BY <1>1, <1>2, <2>1 DEF SoleAt
<1> QED BY <1>3 DEF SoleOK, Sole

LEMMA SoleNext == ASSUME Inv, Sole, SoleOK, [Next]_vars PROVE SoleOK'
<1>1. CASE UNCHANGED vars
  BY <1>1 DEF vars, local, history, SoleOK, SoleAt
<1>2. ASSUME NEW p \in Procs, Edit(p) PROVE SoleOK'
  BY <1>2 DEF Edit, history, SoleOK, SoleAt
<1>3. ASSUME NEW p \in Procs, CloseWritten(p) \/ CloseRead(p) \/ Restart(p) PROVE SoleOK'
  BY <1>3, ReturnSole DEF CloseWritten, CloseRead, Restart, Inv
<1> QED BY <1>1, <1>2, <1>3, StartSaveSole, StartLoadSole, FwriteSole, FlushSole, FreadSole
        DEF Next, Proceed

-----------------------------------------------------------------------------
(* Each call of a process that is alone, as AtomicStorage has it.          *)

\* The outcomes that StoredLine gives for a buffer, in the terms used here.
LEMMA AtomicSave ==
    ASSUME NEW b, NEW f
    PROVE  /\ ~Savable(b) => Atomic!SaveOutcomes(b, TRUE, 0, f) = {[result |-> 1, file |-> f]}
           /\ Savable(b) =>
                 Atomic!SaveOutcomes(b, TRUE, 0, f) =
                    {[result |-> 0, file |-> LineIn(b)], [result |-> 1, file |-> f]}
                    \cup {[result |-> 1, file |-> SubSeq(LineIn(b), 1, k)] : k \in 0..Len(LineIn(b))}
BY DEF Atomic!SaveOutcomes, Atomic!SavableLengths, Atomic!BytesAt, Savable, LineIn,
       SavableLengths, BytesAt, Atomic!CR, Atomic!LF, CR, LF

\* Any save may return 1 and leave the file alone.
LEMMA AtomicRefusal ==
    ASSUME NEW b, NEW f
    PROVE  [result |-> 1, file |-> f] \in Atomic!SaveOutcomes(b, TRUE, 0, f)
<1>1. CASE Savable(b)
  BY <1>1, AtomicSave
<1>2. CASE ~Savable(b)
  BY <1>2, AtomicSave
<1> QED BY <1>1, <1>2

LEMMA AtomicLoad ==
    ASSUME NEW b, NEW f
    PROVE  /\ [result |-> 1, mem |-> b] \in Atomic!LoadOutcomes(b, TRUE, 0, f)
           /\ f # NoFile /\ Loadable(f) =>
                 [result |-> 0, mem |-> PlaceLine(b, 0, f)] \in Atomic!LoadOutcomes(b, TRUE, 0, f)
BY DEF Atomic!LoadOutcomes, Atomic!Loadable, Atomic!PlaceLine, Loadable, PlaceLine,
       Atomic!CR, Atomic!LF, CR, LF

\* The steps of AtomicStorage on the file as it is seen.
LEMMA Saves ==
    ASSUME NEW p \in Procs, NEW r, NEW f,
           [result |-> r, file |-> f] \in Atomic!SaveOutcomes(buf[p], TRUE, 0, Seen),
           Seen' = f, result' = [result EXCEPT ![p] = r], UNCHANGED buf
    PROVE  Atomic!Next
<1>1. Atomic!Save(p)
  BY DEF Atomic!Save, Seen
<1> QED BY <1>1 DEF Atomic!Next

LEMMA Loads ==
    ASSUME NEW p \in Procs, NEW r, NEW m,
           [result |-> r, mem |-> m] \in Atomic!LoadOutcomes(buf[p], TRUE, 0, Seen),
           Seen' = Seen, result' = [result EXCEPT ![p] = r], buf' = [buf EXCEPT ![p] = m]
    PROVE  Atomic!Next
<1>1. Atomic!Load(p)
  BY DEF Atomic!Load, Seen
<1> QED BY <1>1 DEF Atomic!Next

LEMMA Begins ==
    ASSUME NEW p \in Procs, Seen' = Seen, result' = [result EXCEPT ![p] = Unset], UNCHANGED buf
    PROVE  Atomic!Next
<1>1. Atomic!Begin(p)
  BY DEF Atomic!Begin, Seen
<1> QED BY <1>1 DEF Atomic!Next

LEMMA Stutters ==
    ASSUME Seen' = Seen, UNCHANGED <<buf, result>>
    PROVE  UNCHANGED Atomic!vars
BY DEF Atomic!vars, Seen

\* What a save that ends or is killed leaves is among its outcomes.
LEMMA PartOutcome ==
    ASSUME Inv, Sole, SoleOK, NEW p \in Procs, p \in Writers
    PROVE  /\ [result |-> 1, file |-> file] \in Atomic!SaveOutcomes(buf[p], TRUE, 0, Seen)
           /\ phase[p] = "flush" /\ pos[p] = Len(data[p]) /\ ~failed[p] =>
                 [result |-> 0, file |-> file] \in Atomic!SaveOutcomes(buf[p], TRUE, 0, Seen)
<1>1. phase[p] \in {"write", "flush"} /\ Savable(buf[p]) /\ alone # Unset
  BY DEF Writers, Inv, StreamsOK, StreamOK, SoleOK, SoleAt
<1>2. LineIn(buf[p]) = alone /\ file = SubSeq(alone, 1, pos[p])
  BY <1>1 DEF Inv, AloneOK
<1>3. file \in {SubSeq(alone, 1, k) : k \in 0..Len(alone)}
  BY <1>1 DEF Inv, FileIsPrefix
<1>4. [result |-> 1, file |-> file]
         \in {[result |-> 1, file |-> SubSeq(LineIn(buf[p]), 1, k)] : k \in 0..Len(LineIn(buf[p]))}
  BY <1>2, <1>3
<1>5. ASSUME phase[p] = "flush", pos[p] = Len(data[p]), ~failed[p]
      PROVE  file = LineIn(buf[p])
  <2>1. LineIn(buf[p]) \in Seq(Byte) /\ Len(LineIn(buf[p])) \in Nat
    BY <1>1, LineInType DEF Inv, TypeOK
  <2>2. PICK k \in 0..Len(LineIn(buf[p])) :
           Len(data[p]) = k /\ (k < Len(LineIn(buf[p])) => failed[p])
    BY <1>5, FlushFacts DEF Inv
  <2>3. pos[p] = Len(LineIn(buf[p]))
    BY <1>5, <2>1, <2>2, SMT
  <2> QED BY <1>2, <2>1, <2>3, WholePart
<1> QED BY <1>1, <1>4, <1>5, AtomicSave

LEMMA InitSeen == ASSUME Init PROVE Atomic!Init
<1>1. Writers = {}
  BY DEF Init, Writers
<1> QED BY <1>1 DEF Init, Atomic!Init

\* A call that is over, as the process that made it sees it.
LEMMA OverSeen ==
    ASSUME TypeOK, Sole, NEW p \in Procs, NEW r, Return(p, r), UNCHANGED file
    PROVE  Seen' = file /\ (p \notin Writers => Seen = file)
<1>1. phase'[p] = "idle"
  BY DEF TypeOK, Return
<1>2. Writers' = {} /\ (p \notin Writers => Writers = {})
  BY <1>1, OwnWriters
<1> QED BY <1>2 DEF Seen

AtomicStep == Atomic!Next \/ UNCHANGED Atomic!vars

\* A call that refuses or fails before it has touched anything.
LEMMA StartSaveSeen ==
    ASSUME Inv, Sole, SoleOK, NEW p \in Procs, StartSave(p)
    PROVE  AtomicStep
<1>1. phase[p] = "idle" /\ p \notin Writers /\ Writers = {} /\ Seen = file /\ UNCHANGED buf
  BY OwnWriters DEF StartSave, Writers, Seen
<1>2. CASE Return(p, 1) /\ UNCHANGED <<file, history>>
  <2>1. Seen' = file /\ result' = [result EXCEPT ![p] = 1]
    BY <1>2, OverSeen DEF Inv, Return
  <2>2. [result |-> 1, file |-> file] \in Atomic!SaveOutcomes(buf[p], TRUE, 0, file)
    BY AtomicRefusal
  <2> QED BY <1>1, <2>1, <2>2, Saves DEF AtomicStep
<1>3. CASE /\ Savable(buf[p])
           /\ file' = <<>>
           /\ phase' = [phase EXCEPT ![p] = "write"]
           /\ alone' = IF Writers = {} THEN LineIn(buf[p]) ELSE Unset
           /\ complete' = FALSE
           /\ before' = file
           /\ result' = [result EXCEPT ![p] = Unset]
           /\ UNCHANGED <<data, pos, failed>>
  <2>1. phase'[p] = "write"
    BY <1>3 DEF Inv, TypeOK
  <2>2. Writers' # {}
    BY <2>1, OwnWriters
  <2>3. Seen' = Seen
    BY <1>1, <1>3, <2>2 DEF Seen
  <2> QED BY <1>1, <1>3, <2>3, Begins DEF AtomicStep
<1> QED BY <1>2, <1>3 DEF StartSave

LEMMA StartLoadSeen ==
    ASSUME Inv, Sole, SoleOK, NEW p \in Procs, StartLoad(p)
    PROVE  AtomicStep
<1>1. /\ phase[p] = "idle" /\ p \notin Writers /\ Writers = {} /\ Seen = file
      /\ UNCHANGED <<file, buf>>
  BY OwnWriters DEF StartLoad, Writers, Seen
<1>2. CASE Return(p, 1)
  <2>1. Seen' = Seen /\ result' = [result EXCEPT ![p] = 1]
    BY <1>1, <1>2, OverSeen DEF Inv, Return
  <2>2. buf' = [buf EXCEPT ![p] = buf[p]]
    BY <1>1 DEF Inv, TypeOK
  <2> QED BY <2>1, <2>2, AtomicLoad, Loads DEF AtomicStep
<1>3. CASE /\ file # NoFile
           /\ phase' = [phase EXCEPT ![p] = "read"]
           /\ result' = [result EXCEPT ![p] = Unset]
           /\ UNCHANGED <<data, pos, failed>>
  <2>1. phase'[p] = "read"
    BY <1>3 DEF Inv, TypeOK
  <2>2. Seen' = Seen
    BY <1>1, <2>1, OwnWriters DEF Seen
  <2> QED BY <1>1, <1>3, <2>2, Begins DEF AtomicStep
<1> QED BY <1>2, <1>3 DEF StartLoad

\* What happens within a call is not seen.
LEMMA WithinSeen ==
    ASSUME Inv, Sole, SoleOK, NEW p \in Procs, Fwrite(p) \/ Flush(p) \/ Fread(p)
    PROVE  AtomicStep
<1>1. CASE Fwrite(p) \/ Flush(p)
  <2>1. /\ phase[p] \in {"write", "flush"} /\ phase'[p] = "flush"
        /\ UNCHANGED <<buf, result, before>>
    BY <1>1 DEF Inv, TypeOK, Fwrite, Flush, history
  <2>2. Seen' = Seen
    BY <2>1, OwnWriters DEF Seen
  <2> QED BY <2>1, <2>2, Stutters DEF AtomicStep
<1>2. CASE Fread(p)
  <2>1. phase[p] = "read" /\ phase'[p] \in {"read", "check"} /\ UNCHANGED <<file, buf, result>>
    BY <1>2 DEF Inv, TypeOK, Fread
  <2>2. Seen' = Seen
    BY <2>1, OwnWriters DEF Seen
  <2> QED BY <2>1, <2>2, Stutters DEF AtomicStep
<1> QED BY <1>1, <1>2

LEMMA CloseWrittenSeen ==
    ASSUME Inv, Sole, SoleOK, NEW p \in Procs, CloseWritten(p)
    PROVE  AtomicStep
<1>1. phase[p] = "flush" /\ p \in Writers /\ UNCHANGED <<file, buf>>
  BY DEF CloseWritten, Writers
<1>2. CASE pos[p] = Len(data[p]) /\ ~failed[p] /\ Return(p, 0)
  <2>1. Seen' = file /\ result' = [result EXCEPT ![p] = 0]
    BY <1>1, <1>2, OverSeen DEF Inv, Return
  <2> QED BY <1>1, <1>2, <2>1, PartOutcome, Saves DEF AtomicStep
<1>3. CASE Return(p, 1)
  <2>1. Seen' = file /\ result' = [result EXCEPT ![p] = 1]
    BY <1>1, <1>3, OverSeen DEF Inv, Return
  <2> QED BY <1>1, <2>1, PartOutcome, Saves DEF AtomicStep
<1> QED BY <1>2, <1>3 DEF CloseWritten

LEMMA CloseReadSeen ==
    ASSUME Inv, Sole, SoleOK, NEW p \in Procs, CloseRead(p)
    PROVE  AtomicStep
<1>1. /\ phase[p] = "check" /\ p \notin Writers /\ Writers = {} /\ Seen = file
      /\ UNCHANGED file
  BY OwnWriters DEF CloseRead, Writers, Seen
<1>2. CASE /\ ~failed[p] /\ Loadable(data[p])
           /\ buf' = [buf EXCEPT ![p] = PlaceLine(@, 0, data[p])]
           /\ Return(p, 0)
  <2>1. Seen' = Seen /\ result' = [result EXCEPT ![p] = 0]
    BY <1>1, <1>2, OverSeen DEF Inv, Return
  <2>2. file # NoFile /\ file \in Seq(Byte)
    BY <1>1 DEF Inv, TypeOK, StreamsOK, StreamOK, File
  <2>3. data[p] = file
    BY <1>1, <1>2, <2>2, WholePart DEF SoleOK, SoleAt
  <2>4. buf' = [buf EXCEPT ![p] = PlaceLine(buf[p], 0, file)]
    BY <1>2, <2>3 DEF Inv, TypeOK
  <2> QED BY <1>1, <1>2, <2>1, <2>2, <2>3, <2>4, AtomicLoad, Loads DEF AtomicStep
<1>3. CASE Return(p, 1) /\ UNCHANGED buf
  <2>1. Seen' = Seen /\ result' = [result EXCEPT ![p] = 1]
    BY <1>1, <1>3, OverSeen DEF Inv, Return
  <2>2. buf' = [buf EXCEPT ![p] = buf[p]]
    BY <1>3 DEF Inv, TypeOK
  <2> QED BY <2>1, <2>2, AtomicLoad, Loads DEF AtomicStep
<1> QED BY <1>2, <1>3 DEF CloseRead

\* A process killed in a save leaves what the save might have left; killed
\* otherwise, it leaves the file.
LEMMA RestartSeen ==
    ASSUME Inv, Sole, SoleOK, NEW p \in Procs, Restart(p)
    PROVE  AtomicStep
<1>1. /\ Return(p, Unset) /\ UNCHANGED file /\ buf' = [buf EXCEPT ![p] = Blank]
      /\ result' = [result EXCEPT ![p] = Unset]
  BY DEF Restart, Return
<1>2. Seen' = file /\ (p \notin Writers => Seen = file)
  BY <1>1, OverSeen DEF Inv
<1>3. Seen' = Seen \/ \E o \in Atomic!SaveOutcomes(buf[p], TRUE, 0, Seen) : Seen' = o.file
  <2>1. CASE p \in Writers
    <3>1. [result |-> 1, file |-> file] \in Atomic!SaveOutcomes(buf[p], TRUE, 0, Seen)
      BY <2>1, PartOutcome
    <3>2. [result |-> 1, file |-> file].file = Seen'
      BY <1>2
    <3> QED BY <3>1, <3>2
  <2> QED BY <1>2, <2>1
<1>4. Atomic!Restart(p)
  BY <1>1, <1>3 DEF Atomic!Restart, Seen
<1> QED BY <1>4 DEF Atomic!Next, AtomicStep

LEMMA NextSeen ==
    ASSUME Inv, Sole, SoleOK, [Next]_vars
    PROVE  AtomicStep
<1>1. CASE UNCHANGED vars
  <2>1. Seen' = Seen /\ UNCHANGED <<buf, result>>
    BY <1>1 DEF vars, local, history, Seen, Writers
  <2> QED BY <2>1, Stutters DEF AtomicStep
<1>2. ASSUME NEW p \in Procs, Edit(p) PROVE AtomicStep
  <2>1. Seen' = Seen
    BY <1>2 DEF Edit, history, Seen, Writers
  <2>2. Atomic!Edit(p)
    BY <1>2, <2>1 DEF Edit, Atomic!Edit, Seen
  <2> QED BY <2>2 DEF Atomic!Next, AtomicStep
<1> QED BY <1>1, <1>2, StartSaveSeen, StartLoadSeen, WithinSeen, CloseWrittenSeen,
        CloseReadSeen, RestartSeen DEF Next, Proceed

\* A process alone in its directory sees every save and every load happen at
\* once, with the outcomes VM gives to SYSCALL 4 and SYSCALL 5, through every
\* failure, and finds after a kill the old file or a part of its line.
THEOREM AloneIsAtomic ==
    ASSUME \A p, q \in Procs : p = q
    PROVE  Spec => LooksAtomic
<1>1. Sole
  BY DEF Sole
<1>2. Spec => []SoleOK
  BY <1>1, SoleInit, SoleNext, Invariant, PTL DEF Spec
<1>3. Inv /\ SoleOK /\ [Next]_vars => [Atomic!Next]_(Atomic!vars)
  BY <1>1, NextSeen DEF AtomicStep
<1> QED BY <1>2, <1>3, InitSeen, Invariant, PTL DEF Spec, LooksAtomic, Atomic!Spec
=============================================================================
