------------------------- MODULE ImageWriterProofs -------------------------
(***************************************************************************)
(* The file of a writer, proved for any tools, texts and old files: what   *)
(* is in it whenever the tool fails or is killed, and that exit status 0   *)
(* means that nothing is missing.                                          *)
(*                                                                         *)
(* The properties speak of the file, but a step delivers what the stream   *)
(* holds back.  Inv adds that these bytes, too, are meant where they       *)
(* belong, and that the file together with them has every piece that has   *)
(* been written, as long as nothing was lost.                              *)
(*                                                                         *)
(* Then the program in that file, which writes only its buffer: Started    *)
(* says that the machine has all of its code, and is where a certificate   *)
(* of that code says.                                                      *)
(***************************************************************************)
EXTENDS BuiltPrograms, VMProofs

\* No two pieces of a tool have a byte in common.
Apart(w) ==
    \A k, l \in 1..Len(w.pieces) :
        k # l => \A i \in 1..Len(w.pieces[k].bytes), j \in 1..Len(w.pieces[l].bytes) :
                    w.pieces[k].at + i # w.pieces[l].at + j

\* Every byte of a file, and every byte of a piece, is one that w means to have
\* there; a byte of a file may also be a zero.
Clean(w, f) == f \in Seq(Byte) /\ \A x \in 1..Len(f) : f[x] = 0 \/ Intended(w, x, f[x])
Wanted(w, p) == \A i \in 1..Len(p.bytes) : Intended(w, p.at + i, p.bytes[i])

Refused == argc > 2 \/ ~Fits(writer)

OutputOK ==
    /\ phase \in {"start", "open"} => held = Nothing /\ file = old /\ ~error /\ piece = 1
    /\ phase = "open" => ~Refused
    /\ phase = "write" => ~Refused /\ Clean(writer, file)
    /\ phase # "done" => exit = NoExit
    /\ Wanted(writer, held)

Inv == WTypeOK /\ OutputOK /\ OldOrNew

-----------------------------------------------------------------------------
(* Files and pieces.                                                       *)

LEMMA WriterType ==
    ASSUME NEW w \in Writers
    PROVE  /\ w.pieces \in Seq(Place) /\ Len(w.pieces) \in Nat
           /\ \A k \in 1..Len(w.pieces) : w.pieces[k] \in Place
<1>1. w \in Writer
  BY WritersAssumption
<1>2. w.pieces \in Seq(Place)
  BY <1>1 DEF Writer
<1> QED
  BY <1>2, LenProperties, ElementOfSeq

LEMMA NothingType == Nothing \in Place /\ \A w : Wanted(w, Nothing)
BY DEF Nothing, Place, Wanted

\* A whole piece is wanted.
LEMMA PieceWanted ==
    ASSUME NEW w \in Writers, NEW k \in 1..Len(w.pieces)
    PROVE  w.pieces[k] \in Place /\ Wanted(w, w.pieces[k])
<1> DEFINE p == w.pieces[k]
<1>1. p \in Place
  BY WriterType
<1>2. p.at \in Nat /\ Len(p.bytes) \in Nat
  BY <1>1, LenProperties DEF Place
<1>3. ASSUME NEW i \in 1..Len(p.bytes) PROVE Intended(w, p.at + i, p.bytes[i])
  <2>1. (p.at + i) - p.at = i
    BY <1>2, SMT
  <2>2. (p.at + i) - p.at \in 1..Len(p.bytes) /\ p.bytes[i] = p.bytes[(p.at + i) - p.at]
    BY <2>1
  <2> QED
    BY <2>2 DEF Intended
<1> QED
  BY <1>1, <1>3 DEF Wanted

\* A part of a piece is a piece, and wanted when the whole is.
LEMMA CutType ==
    ASSUME NEW p \in Place, NEW k \in 0..Len(p.bytes)
    PROVE  /\ Cut(p, k) \in Place
           /\ Cut(p, k).at = p.at /\ Len(Cut(p, k).bytes) = k
           /\ \A i \in 1..k : Cut(p, k).bytes[i] = p.bytes[i]
           /\ k = Len(p.bytes) => Cut(p, k) = p
           /\ \A w : Wanted(w, p) => Wanted(w, Cut(p, k))
<1> DEFINE s == p.bytes
           c == SubSeq(s, 1, k)
<1>1. s \in Seq(Byte) /\ p.at \in Nat /\ p = [at |-> p.at, bytes |-> s]
  BY DEF Place
<1>2. Len(s) \in Nat /\ k \in Nat /\ k <= Len(s)
  BY <1>1, LenProperties
<1>3. \A i \in 1..k : s[i] \in Byte
  BY <1>1, <1>2, ElementOfSeq
<1>4. c \in Seq(Byte) /\ Len(c) = k /\ \A i \in 1..k : c[i] = s[i]
  <2>1. 1 \in Int /\ k \in Int
    BY <1>2
  <2>2. /\ c \in Seq(Byte)
        /\ Len(c) = IF 1 <= k THEN k - 1 + 1 ELSE 0
        /\ \A i \in 1..(k - 1 + 1) : c[i] = s[1 + i - 1]
    BY ONLY <2>1, <1>3, SubSeqProperties
  <2>3. (IF 1 <= k THEN k - 1 + 1 ELSE 0) = k /\ k - 1 + 1 = k
    BY <1>2
  <2>4. \A i \in 1..k : 1 + i - 1 = i
    OBVIOUS
  <2> QED
    BY <2>2, <2>3, <2>4
<1>5. Cut(p, k) = [at |-> p.at, bytes |-> c]
  BY DEF Cut
<1>6. Cut(p, k).at = p.at /\ Cut(p, k).bytes = c
  BY <1>5
<1>7. Cut(p, k) \in Place
  BY <1>5, <1>4, <1>1 DEF Place
<1>8. k = Len(s) => c = s
  BY <1>1, <1>4, SeqEqual
<1>9. ASSUME NEW w, Wanted(w, p) PROVE Wanted(w, Cut(p, k))
  <2>1. \A i \in 1..k : i \in 1..Len(s)
    BY <1>2
  <2>2. \A i \in 1..k : Intended(w, p.at + i, c[i])
    BY <2>1, <1>4, <1>9 DEF Wanted
  <2> QED
    BY <2>2, <1>4, <1>6 DEF Wanted
<1> QED
  BY <1>1, <1>4, <1>5, <1>6, <1>7, <1>8, <1>9

\* The end of a file after a piece has reached it.
EndWith(f, p) == IF Len(f) > p.at + Len(p.bytes) THEN Len(f) ELSE p.at + Len(p.bytes)

LEMMA OverlayIs ==
    ASSUME NEW f \in Seq(Byte), NEW p \in Place, p.bytes # <<>>
    PROVE  /\ Overlay(f, p) \in Seq(Byte)
           /\ Len(Overlay(f, p)) = EndWith(f, p)
           /\ \A x \in 1..EndWith(f, p) :
                 Overlay(f, p)[x] = IF x \in (p.at + 1)..(p.at + Len(p.bytes)) THEN p.bytes[x - p.at]
                                    ELSE IF x <= Len(f) THEN f[x] ELSE 0
<1> DEFINE n == EndWith(f, p)
           v(x) == IF x \in (p.at + 1)..(p.at + Len(p.bytes)) THEN p.bytes[x - p.at]
                   ELSE IF x <= Len(f) THEN f[x] ELSE 0
<1>1. p.at \in Nat /\ p.bytes \in Seq(Byte) /\ Len(p.bytes) \in Nat /\ Len(f) \in Nat
  BY LenProperties DEF Place
<1>2. n \in Nat
  BY <1>1 DEF EndWith
<1>3. Overlay(f, p) = [x \in 1..n |-> v(x)]
  BY DEF Overlay, EndWith
<1>4. ASSUME NEW x \in 1..n PROVE v(x) \in Byte
  <2>1. CASE x \in (p.at + 1)..(p.at + Len(p.bytes))
    <3>1. x - p.at \in 1..Len(p.bytes)
      BY <2>1, <1>1
    <3> QED
      BY <3>1, <2>1, <1>1, ElementOfSeq
  <2>2. CASE x \notin (p.at + 1)..(p.at + Len(p.bytes)) /\ x <= Len(f)
    <3>1. x \in 1..Len(f)
      BY <2>2, <1>1, <1>2
    <3> QED
      BY <3>1, <2>2, ElementOfSeq
  <2>3. CASE x \notin (p.at + 1)..(p.at + Len(p.bytes)) /\ ~(x <= Len(f))
    BY <2>3 DEF Byte
  <2> QED
    BY <2>1, <2>2, <2>3
<1> HIDE DEF n, v
<1>5. Overlay(f, p) \in [1..n -> Byte]
  BY <1>3, <1>4
<1>6. Overlay(f, p) \in Seq(Byte)
  BY <1>2, <1>5, SMT
<1>7. Len(Overlay(f, p)) = n
  BY <1>2, <1>5, <1>6, SMT
<1>8. \A x \in 1..n : Overlay(f, p)[x] = v(x)
  BY <1>3
<1> QED
  BY <1>6, <1>7, <1>8 DEF n, v

\* Delivering a wanted piece, or nothing, leaves a clean file clean.
LEMMA OverlayClean ==
    ASSUME NEW w, NEW f, Clean(w, f), NEW p \in Place, Wanted(w, p)
    PROVE  Clean(w, Overlay(f, p))
<1>1. CASE p.bytes = <<>>
  BY <1>1 DEF Overlay
<1>2. CASE p.bytes # <<>>
  <2> DEFINE g == Overlay(f, p)
             n == EndWith(f, p)
  <2>1. f \in Seq(Byte) /\ p.at \in Nat /\ Len(p.bytes) \in Nat /\ Len(f) \in Nat
    BY LenProperties DEF Place, Clean
  <2>2. /\ g \in Seq(Byte) /\ Len(g) = n
        /\ \A x \in 1..n : g[x] = IF x \in (p.at + 1)..(p.at + Len(p.bytes)) THEN p.bytes[x - p.at]
                                 ELSE IF x <= Len(f) THEN f[x] ELSE 0
    BY <1>2, <2>1, OverlayIs
  <2>3. ASSUME NEW x \in 1..n PROVE g[x] = 0 \/ Intended(w, x, g[x])
    <3>1. CASE x \in (p.at + 1)..(p.at + Len(p.bytes))
      <4>1. x - p.at \in 1..Len(p.bytes) /\ p.at + (x - p.at) = x
        BY <3>1, <2>1
      <4>2. Intended(w, p.at + (x - p.at), p.bytes[x - p.at])
        BY <4>1 DEF Wanted
      <4> QED
        BY <4>1, <4>2, <3>1, <2>2
    <3>2. CASE x \notin (p.at + 1)..(p.at + Len(p.bytes)) /\ x <= Len(f)
      <4>1. x \in 1..Len(f)
        BY <3>2, <2>1
      <4>2. g[x] = f[x]
        BY <3>2, <2>2
      <4> QED
        BY <4>1, <4>2 DEF Clean
    <3>3. CASE x \notin (p.at + 1)..(p.at + Len(p.bytes)) /\ ~(x <= Len(f))
      BY <3>3, <2>2
    <3> QED
      BY <3>1, <3>2, <3>3
  <2> QED
    BY <2>2, <2>3 DEF Clean
<1> QED
  BY <1>1, <1>2

\* The type of a file that something may have been delivered to.
LEMMA OverlayType ==
    ASSUME NEW f \in Seq(Byte), NEW p \in Place
    PROVE  Overlay(f, p) \in Seq(Byte)
<1>1. CASE p.bytes = <<>>
  BY <1>1 DEF Overlay
<1> QED
  BY <1>1, OverlayIs

LEMMA OverlayNothing == \A f : Overlay(f, Nothing) = f /\ Overlay(f, Cut(Nothing, 0)) = f
BY DEF Overlay, Nothing, Cut

\* A piece that has been delivered is in the file.
LEMMA OverlayHolds ==
    ASSUME NEW f \in Seq(Byte), NEW p \in Place
    PROVE  Holds(Overlay(f, p), p)
<1>1. CASE p.bytes = <<>>
  BY <1>1 DEF Holds
<1>2. CASE p.bytes # <<>>
  <2>1. p.at \in Nat /\ Len(p.bytes) \in Nat /\ Len(f) \in Nat
    BY LenProperties DEF Place
  <2>2. ASSUME NEW i \in 1..Len(p.bytes)
        PROVE  p.at + i <= Len(Overlay(f, p)) /\ Overlay(f, p)[p.at + i] = p.bytes[i]
    <3>1. /\ p.at + i \in (p.at + 1)..(p.at + Len(p.bytes)) /\ p.at + i \in 1..EndWith(f, p)
          /\ p.at + i <= EndWith(f, p) /\ (p.at + i) - p.at = i
      BY <2>1 DEF EndWith
    <3> QED
      BY <3>1, <1>2, OverlayIs
  <2> QED
    BY <2>2 DEF Holds
<1> QED
  BY <1>1, <1>2

\* A piece in the file survives the delivery of one that is apart from it.
LEMMA OverlayKeeps ==
    ASSUME NEW f \in Seq(Byte), NEW p \in Place, NEW q \in Place, Holds(f, q),
           \A i \in 1..Len(q.bytes), j \in 1..Len(p.bytes) : q.at + i # p.at + j
    PROVE  Holds(Overlay(f, p), q)
<1>1. CASE p.bytes = <<>>
  BY <1>1 DEF Overlay
<1>2. CASE p.bytes # <<>>
  <2>1. /\ p.at \in Nat /\ Len(p.bytes) \in Nat /\ Len(f) \in Nat
        /\ q.at \in Nat /\ Len(q.bytes) \in Nat
    BY LenProperties DEF Place
  <2>2. ASSUME NEW i \in 1..Len(q.bytes)
        PROVE  q.at + i <= Len(Overlay(f, p)) /\ Overlay(f, p)[q.at + i] = q.bytes[i]
    <3>1. q.at + i <= Len(f) /\ f[q.at + i] = q.bytes[i]
      BY DEF Holds
    <3>2. q.at + i \notin (p.at + 1)..(p.at + Len(p.bytes))
      <4>1. SUFFICES ASSUME q.at + i \in (p.at + 1)..(p.at + Len(p.bytes)) PROVE FALSE
        OBVIOUS
      <4>2. (q.at + i) - p.at \in 1..Len(p.bytes) /\ p.at + ((q.at + i) - p.at) = q.at + i
        BY <4>1, <2>1
      <4> QED
        BY <4>2
    <3>3. q.at + i \in 1..EndWith(f, p) /\ q.at + i <= EndWith(f, p)
      BY <2>1, <3>1 DEF EndWith
    <3> QED
      BY <3>1, <3>2, <3>3, <1>2, OverlayIs
  <2> QED
    BY <2>2 DEF Holds
<1> QED
  BY <1>1, <1>2

-----------------------------------------------------------------------------
(* The invariant.                                                          *)

\* What DeliverSome may deliver, with the rest of the invariant at hand.
LEMMA Delivered ==
    ASSUME NEW p \in Place, NEW k \in Broken(p) \cup {Len(p.bytes)}
    PROVE  /\ k \in 0..Len(p.bytes)
           /\ Cut(p, k) \in Place
           /\ k = Len(p.bytes) => Cut(p, k) = p
           /\ \A w : Wanted(w, p) => Wanted(w, Cut(p, k))
<1>1. Len(p.bytes) \in Nat
  BY LenProperties DEF Place
<1>2. k \in 0..Len(p.bytes)
  BY <1>1, CutsAssumption DEF Broken
<1> QED
  BY <1>2, CutType

LEMMA InitInv == WInit => Inv
<1> SUFFICES ASSUME WInit PROVE Inv
  OBVIOUS
<1>1. file \in Seq(Byte) \cup {Absent} /\ old = file
  BY OldFilesAssumption DEF WInit
<1>2. 1 \in 1..(Len(writer.pieces) + 1)
  BY WriterType DEF WInit
<1>3. WTypeOK
  BY <1>1, <1>2, NothingType DEF WInit, WTypeOK
<1>4. OutputOK
  BY NothingType DEF WInit, OutputOK
<1> QED
  BY <1>1, <1>3, <1>4 DEF WInit, Inv, OldOrNew

\* A file that is clean may end the run of a tool that has not been refused.
LEMMA CleanIsNew ==
    ASSUME Clean(writer, file), ~Refused
    PROVE  OldOrNew
<1>1. file \in Seq(Byte) /\ file # Absent
  BY OldFilesAssumption DEF Clean
<1> QED
  BY <1>1 DEF Clean, OldOrNew, Refused

\* Delivering some of what is held back, and ending: Kill, and the failures.
LEMMA EndInv ==
    ASSUME Inv, phase # "done", DeliverSome, NEW s \in {0, 1, NoExit}, End(s),
           UNCHANGED <<writer, argc, piece, held, error, old>>
    PROVE  Inv'
<1>1. writer \in Writers /\ held \in Place /\ Wanted(writer, held)
  BY DEF Inv, WTypeOK, OutputOK
<1>2. PICK k \in Broken(held) \cup {Len(held.bytes)} : file' = Overlay(file, Cut(held, k))
  BY DEF DeliverSome
<1>3. Cut(held, k) \in Place /\ Wanted(writer, Cut(held, k)) /\ k \in 0..Len(held.bytes)
  BY <1>1, Delivered
<1>4. CASE phase = "write"
  <2>1. Clean(writer, file) /\ ~Refused
    BY <1>4 DEF Inv, OutputOK
  <2>2. Clean(writer, file')
    BY <1>2, <1>3, <2>1, OverlayClean
  <2>3. Clean(writer, file)' /\ ~Refused'
    BY <2>1, <2>2 DEF Refused
  <2>4. OldOrNew'
    BY <2>3, CleanIsNew, OldFilesAssumption DEF Clean, OldOrNew, Refused
  <2>5. WTypeOK'
    BY <2>2 DEF Inv, WTypeOK, End, Clean
  <2>6. OutputOK'
    BY <1>1 DEF OutputOK, End
  <2> QED
    BY <2>4, <2>5, <2>6 DEF Inv
<1>5. CASE phase # "write"
  <2>1. phase \in {"start", "open"}
    BY <1>5 DEF Inv, WTypeOK
  <2>2. held = Nothing /\ file = old
    BY <2>1 DEF Inv, OutputOK
  <2>3. k = 0
    BY <1>3, <2>2 DEF Nothing
  <2>4. file' = file
    BY <1>2, <2>2, <2>3, OverlayNothing
  <2>5. WTypeOK'
    BY <2>4 DEF Inv, WTypeOK, End
  <2>6. OutputOK'
    BY <1>1 DEF OutputOK, End
  <2>7. OldOrNew'
    BY <2>2, <2>4 DEF OldOrNew
  <2> QED
    BY <2>5, <2>6, <2>7 DEF Inv
<1> QED
  BY <1>4, <1>5

LEMMA StepInv == Inv /\ [WNext]_wvars => Inv'
<1> SUFFICES ASSUME Inv, [WNext]_wvars PROVE Inv'
  OBVIOUS
<1> USE NoExitAssumption
<1>1. /\ writer \in Writers /\ held \in Place /\ Wanted(writer, held)
      /\ Len(writer.pieces) \in Nat /\ piece \in 1..(Len(writer.pieces) + 1)
  BY WriterType DEF Inv, WTypeOK, OutputOK
<1>2. CASE Start
  <2>1. CASE End(1)
    <3>1. WTypeOK' /\ OutputOK'
      BY <1>2, <2>1 DEF Inv, WTypeOK, OutputOK, Start, End
    <3>2. file' = old'
      BY <1>2 DEF Inv, OutputOK, Start
    <3> QED
      BY <3>1, <3>2 DEF Inv, OldOrNew
  <2>2. CASE ~Refused /\ phase' = "open" /\ UNCHANGED exit
    <3>1. WTypeOK' /\ OutputOK'
      BY <1>2, <2>2 DEF Inv, WTypeOK, OutputOK, Start, Refused
    <3>2. file' = old'
      BY <1>2 DEF Inv, OutputOK, Start
    <3> QED
      BY <3>1, <3>2, <2>2 DEF Inv, OldOrNew
  <2>3. argc > 2 <=> ~(argc <= 2)
    BY ArgCountsAssumption DEF Inv, WTypeOK
  <2> QED
    BY <1>2, <2>1, <2>2, <2>3 DEF Start, Refused
<1>3. CASE Open
  <2>1. CASE phase' = "write" /\ file' = <<>> /\ UNCHANGED exit
    <3>1. ~Refused /\ ~Refused'
      BY <1>3 DEF Inv, OutputOK, Open, Refused
    <3>2. Clean(writer, <<>>)
      BY EmptySeq DEF Clean
    <3>3. WTypeOK' /\ OutputOK'
      BY <1>3, <2>1, <3>1, <3>2, EmptySeq DEF Inv, WTypeOK, OutputOK, Open
    <3>4. OldOrNew'
      BY <1>3, <2>1, <3>1, <3>2, OldFilesAssumption DEF Open, OldOrNew, Clean, Refused
    <3> QED
      BY <3>3, <3>4 DEF Inv
  <2>2. CASE End(1) /\ UNCHANGED file
    <3>1. WTypeOK' /\ OutputOK'
      BY <1>3, <2>2 DEF Inv, WTypeOK, OutputOK, Open, End
    <3>2. file' = old'
      BY <1>3, <2>2 DEF Inv, OutputOK, Open
    <3> QED
      BY <3>1, <3>2 DEF Inv, OldOrNew
  <2> QED
    BY <1>3, <2>1, <2>2 DEF Open
<1>4. CASE WritePiece
  <2>1. piece \in 1..Len(writer.pieces) /\ piece + 1 \in 1..(Len(writer.pieces) + 1)
    BY <1>1, <1>4 DEF WritePiece
  <2>2. writer.pieces[piece] \in Place /\ Wanted(writer, writer.pieces[piece])
    BY <1>1, <2>1, PieceWanted
  <2>3. Clean(writer, file) /\ ~Refused
    BY <1>4 DEF WritePiece, Inv, OutputOK
  <2>4. Clean(writer, file') /\ ~Refused'
    BY <1>1, <1>4, <2>3, OverlayClean DEF WritePiece, Refused
  <2>5. WTypeOK' /\ OutputOK'
    BY <1>4, <2>1, <2>2, <2>4 DEF WritePiece, Inv, WTypeOK, OutputOK, Clean
  <2>6. OldOrNew'
    BY <1>4, <2>4, OldFilesAssumption DEF WritePiece, OldOrNew, Clean, Refused
  <2> QED
    BY <2>5, <2>6 DEF Inv
<1>5. CASE LosePiece
  <2>1. piece \in 1..Len(writer.pieces) /\ piece + 1 \in 1..(Len(writer.pieces) + 1)
    BY <1>1, <1>5 DEF LosePiece
  <2> DEFINE p == writer.pieces[piece]
  <2>2. p \in Place /\ Wanted(writer, p)
    BY <1>1, <2>1, PieceWanted
  <2>3. PICK k \in Broken(p) : file' = Overlay(Overlay(file, held), Cut(p, k))
    BY <1>5 DEF LosePiece
  <2>4. Cut(p, k) \in Place /\ Wanted(writer, Cut(p, k))
    BY <2>2, Delivered
  <2>5. Clean(writer, file) /\ ~Refused
    BY <1>5 DEF LosePiece, Inv, OutputOK
  <2>6. Clean(writer, Overlay(file, held))
    BY <1>1, <2>5, OverlayClean
  <2>7. Clean(writer, file') /\ ~Refused'
    BY <2>3, <2>4, <2>5, <2>6, <1>5, OverlayClean DEF LosePiece, Refused
  <2>8. WTypeOK' /\ OutputOK'
    BY <1>5, <2>1, <2>7, NothingType DEF LosePiece, Inv, WTypeOK, OutputOK, Clean
  <2>9. OldOrNew'
    BY <1>5, <2>7, OldFilesAssumption DEF LosePiece, OldOrNew, Clean, Refused
  <2> QED
    BY <2>8, <2>9 DEF Inv
<1>6. CASE SeekFails
  BY <1>6, EndInv DEF SeekFails
<1>7. CASE Finish
  <2>1. phase # "done" /\ UNCHANGED <<writer, argc, piece, held, error, old>>
    BY <1>7 DEF Finish
  <2>2. DeliverSome /\ \E s \in {0, 1, NoExit} : End(s)
    BY <1>7 DEF Finish, DeliverSome
  <2> QED
    BY <2>1, <2>2, EndInv
<1>8. CASE Kill
  BY <1>8, EndInv DEF Kill
<1>9. CASE UNCHANGED wvars
  BY <1>9 DEF wvars, Inv, WTypeOK, OutputOK, OldOrNew, Refused
<1> QED
  BY <1>2, <1>3, <1>4, <1>5, <1>6, <1>7, <1>8, <1>9 DEF WNext, Proceed

\* The types of the writer's process.
THEOREM WriterTypes == WSpec => []WTypeOK
<1>1. Inv => WTypeOK
  BY DEF Inv
<1> QED
  BY InitInv, StepInv, <1>1, PTL DEF WSpec

\* A call that is refused leaves the output file as it was, and no failure of
\* the host and no kill leaves anything of the old file between what the tool
\* means to write (main() of tools/write-*-bin.c).
THEOREM FileIsOldOrNew == WSpec => []OldOrNew
<1>1. Inv => OldOrNew
  BY DEF Inv
<1> QED
  BY InitInv, StepInv, <1>1, PTL DEF WSpec

-----------------------------------------------------------------------------
(* Success.                                                                *)

\* The pieces that have been written are in the file once the stream has
\* delivered what it holds back, unless something was lost.
WholeOK ==
    phase = "write" /\ ~error =>
        \A k \in 1..Len(writer.pieces) :
            k < piece => Holds(Overlay(file, held), writer.pieces[k])

SuccessInv == Inv /\ WholeOK /\ SuccessIsWhole

LEMMA SuccessInit == WInit => SuccessInv
BY InitInv, NoExitAssumption DEF WInit, SuccessInv, WholeOK, SuccessIsWhole

LEMMA SuccessStep ==
    ASSUME ~CloseFails, \A w \in Writers : Apart(w), SuccessInv, [WNext]_wvars
    PROVE  SuccessInv'
<1> USE NoExitAssumption
<1>1. Inv /\ Inv'
  BY StepInv DEF SuccessInv
<1>2. /\ writer \in Writers /\ held \in Place /\ Len(writer.pieces) \in Nat
      /\ piece \in 1..(Len(writer.pieces) + 1)
      /\ phase # "done" => exit = NoExit
      /\ phase = "write" => file \in Seq(Byte)
  BY <1>1, WriterType DEF Inv, WTypeOK, OutputOK, Clean
\* Steps that end with another status than 0, or do not end.
<1>3. ASSUME phase # "done", exit' # 0, phase' # "write" PROVE WholeOK' /\ SuccessIsWhole'
  BY <1>3 DEF WholeOK, SuccessIsWhole
<1>4. CASE Start
  BY <1>1, <1>2, <1>3, <1>4 DEF Start, End, SuccessInv
<1>5. CASE Open
  <2>1. SuccessIsWhole'
    BY <1>2, <1>5 DEF Open, End, SuccessIsWhole
  <2>2. WholeOK'
    BY <1>1, <1>2, <1>5 DEF Open, End, WholeOK, Inv, OutputOK
  <2> QED
    BY <1>1, <2>1, <2>2 DEF SuccessInv
<1>6. CASE WritePiece
  <2>1. /\ phase = "write" /\ piece \in 1..Len(writer.pieces)
        /\ held' = writer.pieces[piece] /\ file' = Overlay(file, held)
        /\ piece' = piece + 1 /\ UNCHANGED <<writer, phase, error, exit>>
    BY <1>2, <1>6 DEF WritePiece
  <2>2. file' \in Seq(Byte) /\ held' \in Place
    BY <1>2, <2>1, OverlayType, PieceWanted
  <2>3. ASSUME ~error, NEW k \in 1..Len(writer.pieces), k < piece'
        PROVE  Holds(Overlay(file', held'), writer.pieces[k])
    <3>1. CASE k = piece
      BY <2>1, <2>2, <3>1, OverlayHolds
    <3>2. CASE k # piece
      <4>1. k < piece
        BY <1>2, <2>1, <2>3, <3>2
      <4>2. Holds(file', writer.pieces[k])
        BY <2>1, <2>3, <4>1 DEF SuccessInv, WholeOK
      <4>3. \A i \in 1..Len(writer.pieces[k].bytes), j \in 1..Len(held'.bytes) :
                writer.pieces[k].at + i # held'.at + j
        BY <1>2, <2>1, <3>2 DEF Apart
      <4>4. writer.pieces[k] \in Place
        BY <1>2, PieceWanted
      <4> QED
        BY <2>2, <4>2, <4>3, <4>4, OverlayKeeps
    <3> QED
      BY <3>1, <3>2
  <2>4. WholeOK' /\ SuccessIsWhole'
    BY <1>2, <2>1, <2>3 DEF WholeOK, SuccessIsWhole
  <2> QED
    BY <1>1, <2>4 DEF SuccessInv
<1>7. CASE LosePiece
  <2>1. error' /\ exit' = NoExit
    BY <1>2, <1>7 DEF LosePiece
  <2> QED
    BY <1>1, <2>1 DEF SuccessInv, WholeOK, SuccessIsWhole
<1>8. CASE SeekFails
  BY <1>1, <1>3, <1>8 DEF SeekFails, End, SuccessInv
<1>9. CASE Finish
  <2>1. phase = "write" /\ piece > Len(writer.pieces) /\ phase' = "done" /\ UNCHANGED writer
    BY <1>9 DEF Finish, End
  <2>2. CASE error
    BY <1>1, <1>3, <1>9, <2>1, <2>2 DEF Finish, End, SuccessInv
  <2>3. CASE ~error
    <3>1. file' = Overlay(file, Cut(held, Len(held.bytes)))
      BY <1>9, <2>3 DEF Finish
    <3>2. file' = Overlay(file, held)
      BY <1>2, <3>1, Delivered
    <3>3. file' \in Seq(Byte)
      BY <1>2, <2>1, <3>2, OverlayType
    <3>4. \A k \in 1..Len(writer.pieces) : Holds(file', writer.pieces[k])
      BY <1>2, <2>1, <2>3, <3>2 DEF SuccessInv, WholeOK
    <3> QED
      BY <1>1, <2>1, <3>3, <3>4, OldFilesAssumption DEF SuccessInv, WholeOK, SuccessIsWhole
  <2> QED
    BY <2>2, <2>3
<1>10. CASE Kill
  BY <1>1, <1>3, <1>10 DEF Kill, End, SuccessInv
<1>11. CASE UNCHANGED wvars
  BY <1>1, <1>11 DEF wvars, SuccessInv, WholeOK, SuccessIsWhole
<1> QED
  BY <1>1, <1>4, <1>5, <1>6, <1>7, <1>8, <1>9, <1>10, <1>11 DEF WNext, Proceed, SuccessInv

\* Where fclose delivers what it should, a tool whose pieces do not overlap ends
\* with status 0 only over a file that holds every one of them.
THEOREM SuccessMeansWhole ==
    ASSUME ~CloseFails, \A w \in Writers : Apart(w)
    PROVE  WSpec => []SuccessIsWhole
<1>1. SuccessInv /\ [WNext]_wvars => SuccessInv'
  BY SuccessStep
<1>2. SuccessInv => SuccessIsWhole
  BY DEF SuccessInv
<1> QED
  BY SuccessInit, <1>1, <1>2, PTL DEF WSpec

-----------------------------------------------------------------------------
(* The program that was written.                                           *)

\* The code is the first piece, from address 0 on.
BeginsWithCode(w) == w.pieces # <<>> /\ w.pieces[1].at = 0

\* The program that runs is the one in the file, and has a certificate.
Started ==
    \E w, f, states :
        /\ w = writer /\ f = file
        /\ IsPlan(PlanOf(w)) /\ Certifies(states, PlanOf(w))
        /\ Loaded(PlanOf(w), Image(f))
        /\ Confined(PlanOf(w), states, Image(f))

BuiltInv ==
    /\ TypeOK
    /\ ~booted => SuccessInv
    /\ booted => phase = "done" /\ Started

LEMMA BuiltInit == BInit => BuiltInv
<1> SUFFICES ASSUME BInit PROVE BuiltInv
  OBVIOUS
<1>1. mem \in [Address -> Byte] /\ pc \in 0..MemSize /\ sp \in 0..MemSize
  BY ByteZero, Sizes DEF BInit
<1>2. regs \in [Reg -> Word]
  BY ByteZero, WordOfBytes DEF BInit
<1>3. stdin \in Seq(Byte) /\ stdout \in Seq(Byte) /\ line \in File
  BY EmptySeq DEF BInit, File
<1>4. zero \in BOOLEAN /\ running \in BOOLEAN /\ ~booted /\ WInit
  BY DEF BInit
<1> QED
  BY <1>1, <1>2, <1>3, <1>4, SuccessInit DEF BuiltInv, TypeOK

LEMMA RunStarts ==
    ASSUME \A w \in Writers : BeginsWithCode(w) /\ Certified(PlanOf(w)),
           TypeOK, SuccessInv, Run
    PROVE  TypeOK' /\ Started'
<1>1. PICK w, f : w = writer /\ f = file
  OBVIOUS
<1>2. w \in Writers /\ f \in Seq(Byte)
  BY <1>1 DEF Run, SuccessInv, Inv, WTypeOK, SuccessIsWhole
<1>3. TypeOK'
  <2>1. stdin' \in Seq(Byte)
    BY <1>1, <1>2, TypedAssumption DEF Run
  <2>2. mem' \in [Address -> Byte]
    BY <1>1, <1>2, ImageType DEF Run
  <2>3. pc' \in 0..MemSize /\ sp' \in 0..MemSize /\ running' \in BOOLEAN
    BY Sizes DEF Run
  <2> QED
    BY <2>1, <2>2, <2>3 DEF Run, TypeOK
<1>4. PICK states : Certifies(states, PlanOf(w))
  BY <1>2 DEF Certified
<1>5. IsPlan(PlanOf(w)) /\ BeginsWithCode(w)
  BY <1>2 DEF Certified
<1>6. Loaded(PlanOf(w), Image(f))
  <2> DEFINE code == w.pieces[1].bytes
  <2>1. PlanOf(w).code = code
    BY DEF PlanOf
  <2>2. 1 \in 1..Len(w.pieces)
    BY <1>2, <1>5, WriterType, EmptySeq DEF BeginsWithCode
  <2>3. Holds(f, w.pieces[1])
    BY <1>1, <2>2 DEF Run, SuccessInv, SuccessIsWhole
  <2>4. \A i \in 1..Len(code) : i <= Len(f) /\ f[i] = code[i]
    BY <1>5, <2>3 DEF Holds, BeginsWithCode
  <2>5. Len(code) \in Nat /\ Len(code) <= LastWord
    BY <1>5, <2>1, PlanBounds
  <2> HIDE DEF code
  <2>6. \A a \in 0..(Len(code) - 1) : a \in Address /\ a + 1 \in 1..Len(code)
    BY <2>5, Sizes DEF Address, LastWord
  <2>7. \A a \in 0..(Len(code) - 1) : a < Len(f) /\ Image(f)[a] = code[a + 1]
    BY <1>2, <2>4, <2>6, LenProperties DEF Image
  <2> QED
    BY <2>1, <2>7 DEF Loaded
<1>7. Confined(PlanOf(w), states, Image(f))'
  <2>1. mem' = Image(f) /\ pc' = 0 /\ sp' = MemSize
    BY <1>1 DEF Run
  <2>2. PlanOf(w).zeros = {}
    BY DEF PlanOf
  <2> QED
    BY <1>4, <1>5, <2>1, <2>2, JustStarted
<1>8. w = writer' /\ f = file'
  BY <1>1 DEF Run
<1> QED
  BY <1>3, <1>4, <1>5, <1>6, <1>7, <1>8 DEF Started

LEMMA StartedStutter ==
    ASSUME Started, UNCHANGED <<machine, writer, file>>
    PROVE  Started'
<1>1. UNCHANGED <<mem, pc, sp, regs, zero, running, writer, file>>
  BY DEF machine
<1> QED
  BY <1>1 DEF Started, Confined, Intact, Describes

LEMMA StartedStep ==
    ASSUME TypeOK, Started, Next, UNCHANGED <<writer, file>>
    PROVE  Started'
<1>1. PICK w, f, states :
        /\ w = writer /\ f = file
        /\ IsPlan(PlanOf(w)) /\ Certifies(states, PlanOf(w))
        /\ Loaded(PlanOf(w), Image(f))
        /\ Confined(PlanOf(w), states, Image(f))
  BY DEF Started
<1>2. Confined(PlanOf(w), states, Image(f))'
  BY <1>1, CertificateIsSound
<1> QED
  BY <1>1, <1>2 DEF Started

\* A writer that is done takes no step.
LEMMA DoneIsDone == WNext => phase # "done"
BY DEF WNext, Proceed, Start, Open, WritePiece, LosePiece, SeekFails, Finish, Kill

LEMMA BuiltStep ==
    ASSUME ~CloseFails, \A w \in Writers : Apart(w),
           \A w \in Writers : BeginsWithCode(w) /\ Certified(PlanOf(w)),
           BuiltInv, [BNext]_bvars
    PROVE  BuiltInv'
<1>1. CASE Write
  <2>1. ~booted /\ UNCHANGED vars /\ ~booted'
    BY <1>1, DoneIsDone DEF Write, BuiltInv, machine, vars
  <2>2. SuccessInv'
    BY <1>1, <2>1, SuccessStep DEF Write, BuiltInv
  <2> QED
    BY <2>1, <2>2, TypeStutter DEF BuiltInv
<1>2. CASE Run
  <2>1. booted' /\ phase' = "done" /\ SuccessInv
    BY <1>2 DEF Run, BuiltInv
  <2> QED
    BY <1>2, <2>1, RunStarts DEF BuiltInv
<1>3. CASE Turn
  <2>1. booted /\ booted' /\ phase' = "done" /\ UNCHANGED <<writer, file>> /\ Next
    BY <1>3 DEF Turn, BuiltInv, wvars
  <2> QED
    BY <2>1, TypeStep, StartedStep DEF BuiltInv
<1>4. CASE UNCHANGED bvars
  <2>1. UNCHANGED <<machine, wvars, booted>> /\ UNCHANGED vars /\ UNCHANGED <<writer, file, phase>>
    BY <1>4 DEF bvars, machine, vars, wvars
  <2>2. ~booted => SuccessInv'
    BY <2>1, SuccessStep DEF BuiltInv
  <2>3. booted => Started'
    BY <2>1, StartedStutter DEF BuiltInv
  <2> QED
    BY <2>1, <2>2, <2>3, TypeStutter DEF BuiltInv
<1> QED
  BY <1>1, <1>2, <1>3, <1>4 DEF BNext

\* A program of tools/write-*-bin.c that has a certificate writes nothing but
\* its buffer and one frame of the stack, whatever is typed and however long
\* its lines are, in a memory of any size that has room for it.
THEOREM BufferCorrect ==
    ASSUME ~CloseFails, \A w \in Writers : Apart(w),
           \A w \in Writers : BeginsWithCode(w) /\ Certified(PlanOf(w))
    PROVE  BSpec => []KeepsToItsBuffer
<1>1. BuiltInv /\ [BNext]_bvars => BuiltInv'
  BY BuiltStep
<1>2. BuiltInv => KeepsToItsBuffer
  BY DEF BuiltInv, Started, Confined, Intact, PlanOf, KeepsToItsBuffer, LastWord
<1> QED
  BY BuiltInit, <1>1, <1>2, PTL DEF BSpec
=============================================================================
