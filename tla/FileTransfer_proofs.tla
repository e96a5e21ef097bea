------------------------ MODULE FileTransfer_proofs ------------------------
(***************************************************************************)
(* Proofs about FileTransfer: what arrives at a client is what its owner   *)
(* sent, for files, buffers and numbers of clients of any size.            *)
(***************************************************************************)
EXTENDS FileTransfer, Integers, SequenceTheorems, TLAPS

Positions == {"waiting", "first", "header", "read", "write", "done", "dead"}

(* off[k] is how much of the owner's file lies before chunk k of w: the    *)
(* chunks of w hold what lies in s between a and b.                        *)
Cuts(off, s, w, a, b) ==
  /\ off \in [1 .. Len(w) + 1 -> Nat]
  /\ off[1] = a /\ off[Len(w) + 1] = b
  /\ \A k \in 1 .. Len(w) :
       /\ off[k + 1] = off[k] + Len(w[k])
       /\ w[k] = SubSeq(s, off[k] + 1, off[k + 1])
  /\ \A k \in 1 .. Len(w) + 1 : off[k] <= b

Chunked(s, w, a, b) == \E off \in [1 .. Len(w) + 1 -> Nat] : Cuts(off, s, w, a, b)

HasRead == rcv.written + Len(rcv.buf)

ReceiverTypes ==
  /\ source \in Sources /\ FileSize \in Sizes /\ mode \in Modes
  /\ sent \in 0 .. Len(source) /\ closed \in BOOLEAN /\ faulty \in BOOLEAN
  /\ copy \in Seq(Byte)
  /\ rcv \in [at : Positions, buf : Seq(Byte), written : Nat]
  /\ result \in {"none", "ok", "fail"} /\ (result = "none" <=> rcv.at # "done")

(* Until the receiver is done, its copy, its buffer and what lies on the   *)
(* wire are adjacent pieces of the owner's file.                           *)
InTransit ==
  /\ HasRead <= sent
  /\ rcv.at # "write" => rcv.buf = <<>>
  /\ rcv.at \in {"first", "header", "dead"} => mode = "zlib"
  /\ rcv.at # "done" =>
       /\ copy = SubSeq(source, 1, rcv.written)
       /\ rcv.buf = SubSeq(source, rcv.written + 1, HasRead)
       /\ mode = "nocompression" => wire = SubSeq(source, HasRead + 1, sent)
       /\ mode = "zlib" =>
            /\ wire \in Seq(Seq(Byte)) /\ Chunked(source, wire, HasRead, sent)
            /\ \A k \in 1 .. Len(wire) : wire[k] = <<>> => closed /\ sent < Len(source)
            /\ rcv.at = "read" => wire # <<>>

(* What the comparison of the sizes is worth.                              *)
Finished ==
  rcv.at = "done" =>
    /\ rcv.written <= Len(copy)
    /\ SubSeq(copy, 1, rcv.written) = SubSeq(source, 1, rcv.written)
    /\ result = "ok" => rcv.written = FileSize
    /\ ~faulty => /\ closed /\ (sent < Len(source) \/ rcv.written = sent)
                  /\ rcv.written = FileSize => result = "ok"

ReceiverInv == ReceiverTypes /\ InTransit /\ Finished

Past == {"told", "connected", "refused"}

Upload == [file : File, clean : Nat, at : {"waiting", "read", "write", "over"},
           peer : Client, pos : Nat, buf : Seq(Byte), done : BOOLEAN]

DeliveryTypes ==
  /\ counter \in Nat \ {0}
  /\ begun \in [Client -> [at : {"asked", "denied", "opened", "read"} \cup Past,
                           clean : Nat, told : Nat, id : Nat]]
  /\ DOMAIN uploads \subseteq 1 .. counter - 1
  /\ \A i \in DOMAIN uploads : uploads[i] \in Upload
  /\ got \in [Client -> Seq(Byte)] /\ aborted \in BOOLEAN /\ repeated \subseteq Client

(* A local copy is delivered only when it changes no more.                 *)
Settled ==
  /\ \A c \in Client : begun[c].at # "asked" /\ FileOf[c] = Fresh => result = "ok"
  /\ \A i \in DOMAIN uploads :
       /\ uploads[i].file = Fresh => result = "ok"
       /\ uploads[i].pos <= Len(Content(uploads[i].file))

(* The ids of two transactions differ.                                     *)
Distinct ==
  /\ \A c \in Client : begun[c].at \in Past => begun[c].id \in 1 .. counter - 1
  /\ \A c, d \in Client :
       begun[c].at \in Past /\ begun[d].at \in Past /\ begun[c].id = begun[d].id => c = d

(* The deliverer u with the id i works for a client that is at b and has   *)
(* got g of the copy; the clients of again have disturbed theirs.          *)
Works(i, u, b, g, whole, again) ==
  /\ b.at = (IF u.at = "waiting" THEN "told" ELSE "connected")
  /\ b.id = i /\ u.clean = i
  /\ u.at = "waiting" => u.pos = 0 /\ g = <<>>
  /\ u.peer \notin again =>
       /\ u.at = "read" => g = SubSeq(whole, 1, u.pos)
       /\ u.at = "write" => /\ g \o u.buf = SubSeq(whole, 1, u.pos)
                            /\ u.done => u.pos = Len(whole)

(* The client c is at b and has got g of the copy; ids has a deliverer.    *)
Fits(c, b, g, whole, ids, errs, again, dead) ==
  /\ b.at \notin Past => g = <<>>
  /\ b.at = "told" /\ ~dead => b.id \in ids
  /\ b.at # "refused"
  /\ c \notin again =>
       /\ Len(g) <= Len(whole) /\ g = SubSeq(whole, 1, Len(g))
       /\ b.at = "connected" /\ b.id \notin ids /\ c \notin errs /\ ~dead => g = whole

(* While no ids are mixed, a deliverer works for the client it was made    *)
(* for, and a client without one has been served or never had one.  Only a *)
(* client that says hello again can disturb its delivery, its own, or end  *)
(* the process.                                                            *)
Matched ==
  ~Mixed =>
    /\ aborted => repeated # {}
    /\ \A i \in DOMAIN uploads :
         LET u == uploads[i] IN
         /\ u.file = FileOf[u.peer]
         /\ Works(i, u, begun[u.peer], got[u.peer], Content(u.file), repeated)
    /\ \A c \in Client :
         Fits(c, begun[c], got[c], Content(FileOf[c]), DOMAIN uploads, broken, repeated, aborted)

DeliveryInv == DeliveryTypes /\ Settled /\ Distinct /\ Matched

IInv == ReceiverInv /\ DeliveryInv

----------------------------------------------------------------------------
(* Pieces of sequences.                                                    *)

(* What lies between the positions a and b of a sequence.                  *)
LEMMA Piece ==
  ASSUME NEW S, NEW s \in Seq(S), NEW a \in 0 .. Len(s), NEW b \in a .. Len(s)
  PROVE  /\ SubSeq(s, a + 1, b) \in Seq(S)
         /\ Len(SubSeq(s, a + 1, b)) = b - a
         /\ \A i \in 1 .. b - a : SubSeq(s, a + 1, b)[i] = s[a + i]
<1>1. Len(s) \in Nat /\ \A i \in a + 1 .. b : s[i] \in S
  BY LenProperties, ElementOfSeq
<1>2. a + 1 \in Int /\ b \in Int
  BY <1>1
<1>3. /\ SubSeq(s, a + 1, b) \in Seq(S)
      /\ Len(SubSeq(s, a + 1, b)) = IF a + 1 <= b THEN b - (a + 1) + 1 ELSE 0
      /\ \A i \in 1 .. b - (a + 1) + 1 : SubSeq(s, a + 1, b)[i] = s[(a + 1) + i - 1]
  BY <1>1, <1>2, SubSeqProperties
<1> QED
  BY <1>1, <1>3

(* Two pieces that meet are one.                                           *)
LEMMA Adjacent ==
  ASSUME NEW S, NEW s \in Seq(S),
         NEW a \in 0 .. Len(s), NEW b \in a .. Len(s), NEW c \in b .. Len(s)
  PROVE  SubSeq(s, a + 1, b) \o SubSeq(s, b + 1, c) = SubSeq(s, a + 1, c)
<1>1. Len(s) \in Nat
  BY LenProperties
<1>2. a + 1 \in 1 .. Len(s) + 1 /\ b \in (a + 1) - 1 .. Len(s)
  BY <1>1
<1> QED
  BY <1>2, ConcatAdjacentSubSeq

(* The same for a beginning of the sequence.                               *)
LEMMA FirstPiece ==
  ASSUME NEW S, NEW s \in Seq(S), NEW b \in 0 .. Len(s), NEW c \in b .. Len(s)
  PROVE  /\ SubSeq(s, 1, b) \o SubSeq(s, b + 1, c) = SubSeq(s, 1, c)
         /\ SubSeq(s, 1, b) \in Seq(S) /\ Len(SubSeq(s, 1, b)) = b
<1>1. Len(s) \in Nat
  BY LenProperties
<1>2. 1 \in 1 .. Len(s) + 1 /\ b \in 1 - 1 .. Len(s)
  BY <1>1
<1>3. SubSeq(s, 1, b) \o SubSeq(s, b + 1, c) = SubSeq(s, 1, c)
  BY <1>2, ConcatAdjacentSubSeq
<1>4. 0 \in 0 .. Len(s) /\ b \in 0 .. Len(s)
  BY <1>1
<1>5. SubSeq(s, 0 + 1, b) \in Seq(S) /\ Len(SubSeq(s, 0 + 1, b)) = b - 0
  BY <1>4, Piece
<1> QED
  BY <1>1, <1>3, <1>5

(* A piece cut in two.                                                     *)
LEMMA Halves ==
  ASSUME NEW S, NEW s \in Seq(S), NEW a \in 0 .. Len(s), NEW b \in a .. Len(s),
         NEW n \in 0 .. b - a
  PROVE  /\ SubSeq(SubSeq(s, a + 1, b), 1, n) = SubSeq(s, a + 1, a + n)
         /\ SubSeq(SubSeq(s, a + 1, b), n + 1, b - a) = SubSeq(s, a + n + 1, b)
<1> DEFINE p == SubSeq(s, a + 1, b)
<1>1. Len(s) \in Nat /\ p \in Seq(S) /\ Len(p) = b - a
      /\ \A i \in 1 .. b - a : p[i] = s[a + i]
  BY Piece, LenProperties
<1> HIDE DEF p
<1>2. SubSeq(p, 1, n) = SubSeq(s, a + 1, a + n)
  <2>1. /\ SubSeq(p, 0 + 1, n) \in Seq(S) /\ Len(SubSeq(p, 0 + 1, n)) = n - 0
        /\ \A i \in 1 .. n - 0 : SubSeq(p, 0 + 1, n)[i] = p[0 + i]
    <3>1. 0 \in 0 .. Len(p) /\ n \in 0 .. Len(p)
      BY <1>1
    <3> QED
      BY <1>1, <3>1, Piece
  <2>2. /\ SubSeq(s, a + 1, a + n) \in Seq(S) /\ Len(SubSeq(s, a + 1, a + n)) = (a + n) - a
        /\ \A i \in 1 .. (a + n) - a : SubSeq(s, a + 1, a + n)[i] = s[a + i]
    <3>1. a + n \in a .. Len(s)
      BY <1>1
    <3> QED
      BY <1>1, <3>1, Piece
  <2>3. /\ SubSeq(p, 1, n) \in Seq(S) /\ Len(SubSeq(p, 1, n)) = n
        /\ \A i \in 1 .. n : SubSeq(p, 1, n)[i] = s[a + i]
    BY <1>1, <2>1
  <2>4. Len(SubSeq(s, a + 1, a + n)) = n
        /\ \A i \in 1 .. n : SubSeq(s, a + 1, a + n)[i] = s[a + i]
    BY <1>1, <2>2
  <2> QED
    BY <2>2, <2>3, <2>4, SeqEqual
<1>3. SubSeq(p, n + 1, b - a) = SubSeq(s, a + n + 1, b)
  <2>1. /\ SubSeq(p, n + 1, b - a) \in Seq(S) /\ Len(SubSeq(p, n + 1, b - a)) = (b - a) - n
        /\ \A i \in 1 .. (b - a) - n : SubSeq(p, n + 1, b - a)[i] = p[n + i]
    <3>1. n \in 0 .. Len(p) /\ b - a \in n .. Len(p)
      BY <1>1
    <3> QED
      BY <1>1, <3>1, Piece
  <2>2. /\ SubSeq(s, (a + n) + 1, b) \in Seq(S) /\ Len(SubSeq(s, (a + n) + 1, b)) = b - (a + n)
        /\ \A i \in 1 .. b - (a + n) : SubSeq(s, (a + n) + 1, b)[i] = s[(a + n) + i]
    <3>1. a + n \in 0 .. Len(s) /\ b \in (a + n) .. Len(s)
      BY <1>1
    <3> QED
      BY <1>1, <3>1, Piece
  <2>3. Len(SubSeq(p, n + 1, b - a)) = Len(SubSeq(s, (a + n) + 1, b))
        /\ \A i \in 1 .. Len(SubSeq(p, n + 1, b - a)) :
             SubSeq(p, n + 1, b - a)[i] = SubSeq(s, (a + n) + 1, b)[i]
    BY <1>1, <2>1, <2>2
  <2> QED
    BY <2>1, <2>2, <2>3, SeqEqual
<1> QED
  BY <1>2, <1>3 DEF p

(* What is appended to a sequence does not change its beginning.           *)
LEMMA KeepsBeginning ==
  ASSUME NEW S, NEW s \in Seq(S), NEW t \in Seq(S), NEW n \in 0 .. Len(s)
  PROVE  SubSeq(s \o t, 1, n) = SubSeq(s, 1, n) /\ Len(s \o t) = Len(s) + Len(t)
<1>1. Len(s) \in Nat /\ Len(t) \in Nat
  BY LenProperties
<1>2. /\ s \o t \in Seq(S) /\ Len(s \o t) = Len(s) + Len(t)
      /\ \A i \in 1 .. Len(s) + Len(t) :
           (s \o t)[i] = IF i <= Len(s) THEN s[i] ELSE t[i - Len(s)]
  BY ConcatProperties
<1>3. CASE n = 0
  BY <1>3, <1>2, SubSeqEmpty
<1>4. CASE n # 0
  <2>1. n \in 1 .. Len(s) /\ 1 \in 1 .. Len(s)
    BY <1>1, <1>4
  <2> QED
    BY <1>2, <2>1, SubSeqOfConcat1
<1> QED
  BY <1>3, <1>4

----------------------------------------------------------------------------
(* Chunks.                                                                 *)

LEMMA ChunkedEmpty ==
  ASSUME NEW s, NEW a \in Nat
  PROVE  Chunked(s, <<>>, a, a)
<1>1. Len(<<>>) = 0
  OBVIOUS
<1> DEFINE o == [k \in 1 .. 1 |-> a]
<1>2. o \in [1 .. Len(<<>>) + 1 -> Nat] /\ Cuts(o, s, <<>>, a, a)
  BY <1>1 DEF Cuts
<1> QED
  BY <1>2 DEF Chunked

LEMMA ChunkedBounds ==
  ASSUME NEW s, NEW w \in Seq(Seq(Byte)), NEW a \in Nat, NEW b \in Nat, Chunked(s, w, a, b)
  PROVE  a <= b /\ (w = <<>> => a = b)
<1>1. PICK off \in [1 .. Len(w) + 1 -> Nat] : Cuts(off, s, w, a, b)
  BY DEF Chunked
<1>2. Len(w) \in Nat /\ (w = <<>> => Len(w) = 0)
  BY LenProperties
<1> QED
  BY <1>1, <1>2 DEF Cuts

LEMMA ChunkedAppend ==
  ASSUME NEW s \in Seq(Byte), NEW w \in Seq(Seq(Byte)), NEW a \in Nat,
         NEW b \in 0 .. Len(s), NEW c \in b .. Len(s), Chunked(s, w, a, b)
  PROVE  Chunked(s, Append(w, SubSeq(s, b + 1, c)), a, c)
<1>1. PICK off \in [1 .. Len(w) + 1 -> Nat] : Cuts(off, s, w, a, b)
  BY DEF Chunked
<1>2. Len(w) \in Nat /\ Len(s) \in Nat
  BY LenProperties
<1> DEFINE x == SubSeq(s, b + 1, c)
           v == Append(w, x)
           o == [k \in 1 .. Len(w) + 2 |-> IF k = Len(w) + 2 THEN c ELSE off[k]]
<1>3. x \in Seq(Byte) /\ Len(x) = c - b
  BY Piece
<1>4. /\ v \in Seq(Seq(Byte)) /\ Len(v) = Len(w) + 1
      /\ \A k \in 1 .. Len(w) : v[k] = w[k]
      /\ v[Len(w) + 1] = x
  BY <1>3, AppendProperties
<1>5. o \in [1 .. Len(v) + 1 -> Nat]
  BY <1>2, <1>4
<1>6. o[1] = a /\ o[Len(v) + 1] = c /\ \A k \in 1 .. Len(w) + 1 : o[k] = off[k]
  BY <1>1, <1>2, <1>4 DEF Cuts
<1>7. ASSUME NEW k \in 1 .. Len(v)
      PROVE  o[k + 1] = o[k] + Len(v[k]) /\ v[k] = SubSeq(s, o[k] + 1, o[k + 1])
  <2>1. CASE k \in 1 .. Len(w)
    <3>1. k + 1 \in 1 .. Len(w) + 1 /\ k \in 1 .. Len(w) + 1
      BY <2>1, <1>2
    <3>2. o[k + 1] = off[k + 1] /\ o[k] = off[k] /\ v[k] = w[k]
      BY <2>1, <3>1, <1>4, <1>6
    <3> HIDE DEF o, v, x
    <3> QED
      BY <2>1, <3>2, <1>1 DEF Cuts
  <2>2. CASE k = Len(w) + 1
    <3>1. o[k + 1] = c /\ o[k] = off[Len(w) + 1] /\ v[k] = x /\ off[Len(w) + 1] = b
      BY <2>2, <1>1, <1>2, <1>4, <1>6 DEF Cuts
    <3>2. b + (c - b) = c
      BY <1>2
    <3> QED
      BY <3>1, <3>2, <1>3
  <2>3. k \in 1 .. Len(w) \/ k = Len(w) + 1
    <3> HIDE DEF v
    <3> QED
      BY <1>2, <1>4
  <2> QED
    BY <2>1, <2>2, <2>3
<1> HIDE DEF o, v
<1>8. \A k \in 1 .. Len(v) + 1 : o[k] <= c
  <2> TAKE k \in 1 .. Len(v) + 1
  <2>1. k = Len(v) + 1 \/ k \in 1 .. Len(w) + 1
    BY <1>2, <1>4
  <2>2. ASSUME k \in 1 .. Len(w) + 1 PROVE o[k] <= c
    <3>1. off[k] <= b /\ off[k] \in Nat /\ o[k] = off[k]
      BY <2>2, <1>1, <1>6 DEF Cuts
    <3> QED
      BY <3>1, <1>2
  <2> QED
    BY <2>1, <2>2, <1>2, <1>6
<1>9. Cuts(o, s, v, a, c)
  BY <1>5, <1>6, <1>7, <1>8 DEF Cuts
<1> QED
  BY <1>5, <1>9 DEF Chunked, v

LEMMA ChunkedTail ==
  ASSUME NEW s \in Seq(Byte), NEW w \in Seq(Seq(Byte)), NEW a \in Nat, NEW b \in Nat,
         Chunked(s, w, a, b), w # <<>>
  PROVE  /\ Head(w) = SubSeq(s, a + 1, a + Len(Head(w)))
         /\ Chunked(s, Tail(w), a + Len(Head(w)), b)
<1>1. PICK off \in [1 .. Len(w) + 1 -> Nat] : Cuts(off, s, w, a, b)
  BY DEF Chunked
<1> DEFINE v == Tail(w)
           o == [k \in 1 .. Len(w) |-> off[k + 1]]
<1>2. Len(w) \in Nat \ {0} /\ Head(w) = w[1]
  BY EmptySeq
<1>3. /\ v \in Seq(Seq(Byte)) /\ Len(v) = Len(w) - 1
      /\ \A k \in 1 .. Len(w) - 1 : v[k] = w[k + 1]
  BY HeadTailProperties
<1>4. off[1] = a /\ off[1 + 1] = off[1] + Len(w[1]) /\ w[1] = SubSeq(s, off[1] + 1, off[1 + 1])
  <2>1. 1 \in 1 .. Len(w)
    BY <1>2
  <2> QED
    BY <1>1, <2>1 DEF Cuts
<1>5. o \in [1 .. Len(v) + 1 -> Nat]
  BY <1>2, <1>3
<1>6. o[1] = a + Len(Head(w)) /\ o[Len(v) + 1] = b
  BY <1>1, <1>2, <1>3, <1>4 DEF Cuts
<1>7. \A k \in 1 .. Len(v) :
        /\ o[k + 1] = o[k] + Len(v[k])
        /\ v[k] = SubSeq(s, o[k] + 1, o[k + 1])
  <2> TAKE k \in 1 .. Len(v)
  <2>1. k + 1 \in 1 .. Len(w) /\ k \in 1 .. Len(w) /\ k \in 1 .. Len(w) - 1
    BY <1>2, <1>3
  <2>2. o[k + 1] = off[(k + 1) + 1] /\ o[k] = off[k + 1] /\ v[k] = w[k + 1]
    BY <2>1, <1>3
  <2> HIDE DEF o, v
  <2> QED
    BY <2>1, <2>2, <1>1 DEF Cuts
<1>8. \A k \in 1 .. Len(v) + 1 : o[k] <= b
  BY <1>1, <1>2, <1>3 DEF Cuts
<1> HIDE DEF o, v
<1>9. Cuts(o, s, v, a + Len(Head(w)), b)
  BY <1>5, <1>6, <1>7, <1>8 DEF Cuts
<1> QED
  BY <1>2, <1>4, <1>5, <1>9 DEF Chunked, v

----------------------------------------------------------------------------
(* The receiver.                                                           *)

(* The numbers that the proofs below calculate with.                       *)
LEMMA ReceiverNumbers ==
  ASSUME ReceiverInv
  PROVE  /\ source \in Seq(Byte) /\ Len(source) \in Nat /\ FileSize \in Nat
         /\ sent \in 0 .. Len(source) /\ rcv.written \in Nat /\ Len(rcv.buf) \in Nat
         /\ HasRead \in 0 .. sent /\ HasRead \in rcv.written .. Len(source)
         /\ rcv.written \in 0 .. Len(source) /\ rcv.buf \in Seq(Byte)
         /\ Len(copy) \in Nat /\ copy \in Seq(Byte)
         /\ mode = "nocompression" \/ mode = "zlib"
<1>1. source \in Seq(Byte) /\ FileSize \in Nat
  BY BytesAssumption, SizesAssumption DEF ReceiverInv, ReceiverTypes
<1>2. Len(source) \in Nat /\ rcv.written \in Nat /\ rcv.buf \in Seq(Byte) /\ Len(rcv.buf) \in Nat
  BY <1>1, LenProperties DEF ReceiverInv, ReceiverTypes
<1>3. sent \in 0 .. Len(source) /\ HasRead <= sent /\ copy \in Seq(Byte)
  BY DEF ReceiverInv, ReceiverTypes, InTransit
<1>4. mode = "nocompression" \/ mode = "zlib"
  BY ModesAssumption DEF ReceiverInv, ReceiverTypes
<1> QED
  BY <1>1, <1>2, <1>3, <1>4, LenProperties DEF HasRead

LEMMA ReceiverInit == Received!Init => ReceiverInv
<1> SUFFICES ASSUME Received!Init PROVE ReceiverInv
  OBVIOUS
<1> USE DEF Received!Init
<1>1. source \in Seq(Byte) /\ <<>> \in Seq(Byte) /\ <<>> \in Seq(Seq(Byte)) /\ Len(<<>>) = 0
  BY BytesAssumption, EmptySeq
<1>2. Len(source) \in Nat
  BY <1>1, LenProperties
<1>3. ReceiverTypes
  <2>1. rcv \in [at : Positions, buf : Seq(Byte), written : Nat] /\ rcv.at = "waiting"
    BY <1>1 DEF Positions
  <2>2. sent \in 0 .. Len(source) /\ copy \in Seq(Byte)
    BY <1>1, <1>2
  <2> QED
    BY <2>1, <2>2 DEF ReceiverTypes
<1>4. HasRead = 0 /\ rcv.at = "waiting" /\ rcv.buf = <<>> /\ rcv.written = 0
  BY <1>1 DEF HasRead
<1>5. SubSeq(source, 1, 0) = <<>> /\ SubSeq(source, 0 + 1, 0) = <<>>
  BY SubSeqEmpty
<1>6. Chunked(source, <<>>, 0, 0)
  BY ChunkedEmpty
<1>7. InTransit
  BY <1>1, <1>4, <1>5, <1>6 DEF InTransit
<1> QED
  BY <1>3, <1>4, <1>7 DEF ReceiverInv, Finished

(* The owner sends more of its file.                                       *)
LEMMA ReceiverSend == ReceiverInv /\ Received!Send => ReceiverInv'
<1> SUFFICES ASSUME ReceiverInv, Received!Send PROVE ReceiverInv'
  OBVIOUS
<1>1. PICK n \in 1 .. BufferSize :
        /\ n = 1 \/ mode = "zlib"
        /\ sent + n <= Len(source)
        /\ wire' = IF mode = "zlib" THEN Append(wire, SubSeq(source, sent + 1, sent + n))
                   ELSE wire \o SubSeq(source, sent + 1, sent + n)
        /\ sent' = sent + n
  BY DEF Received!Send
<1>2. /\ ~closed /\ rcv.at # "waiting"
      /\ UNCHANGED <<source, FileSize, mode, closed, copy, rcv, result, faulty>>
  BY DEF Received!Send
<1>3. HasRead' = HasRead
  BY <1>2 DEF HasRead
<1>4. n \in Nat \ {0} /\ sent' \in 0 .. Len(source) /\ sent < Len(source) /\ sent' \in sent .. Len(source)
  <2>1. BufferSize \in Nat
    BY SizesAssumption
  <2>2. n \in Nat \ {0}
    BY <2>1
  <2>3. Len(source) \in Nat /\ sent \in Nat
    BY ReceiverNumbers
  <2> QED
    BY <2>2, <2>3, <1>1
<1>5. ReceiverTypes'
  BY <1>2, <1>4 DEF ReceiverInv, ReceiverTypes
<1>6. /\ HasRead' <= sent'
      /\ rcv'.at # "write" => rcv'.buf = <<>>
      /\ rcv'.at \in {"first", "header", "dead"} => mode' = "zlib"
      /\ rcv'.at # "done" =>
            /\ copy' = SubSeq(source', 1, rcv'.written)
            /\ rcv'.buf = SubSeq(source', rcv'.written + 1, HasRead')
  <2>1. HasRead <= sent /\ HasRead \in Nat
    BY ReceiverNumbers DEF ReceiverInv, InTransit
  <2>2. HasRead' <= sent'
    BY <2>1, <1>1, <1>3, <1>4, ReceiverNumbers
  <2> QED
    BY <2>2, <1>2, <1>3 DEF ReceiverInv, InTransit
<1>7. ASSUME rcv'.at # "done", mode' = "nocompression"
      PROVE  wire' = SubSeq(source', HasRead' + 1, sent')
  <2>1. wire' = wire \o SubSeq(source, sent + 1, sent') /\ wire = SubSeq(source, HasRead + 1, sent)
    BY <1>1, <1>2, <1>7 DEF ReceiverInv, InTransit
  <2>2. HasRead \in 0 .. Len(source) /\ sent \in HasRead .. Len(source)
    BY ReceiverNumbers
  <2> QED
    BY <2>1, <2>2, <1>2, <1>3, <1>4, ReceiverNumbers, Adjacent
<1>8. ASSUME rcv'.at # "done", mode' = "zlib"
      PROVE  /\ wire' \in Seq(Seq(Byte)) /\ Chunked(source', wire', HasRead', sent')
             /\ \A k \in 1 .. Len(wire') : wire'[k] = <<>> => closed' /\ sent' < Len(source')
             /\ rcv'.at = "read" => wire' # <<>>
  <2> DEFINE x == SubSeq(source, sent + 1, sent')
  <2>1. /\ wire' = Append(wire, x)
        /\ wire \in Seq(Seq(Byte)) /\ Chunked(source, wire, HasRead, sent)
        /\ \A k \in 1 .. Len(wire) : wire[k] # <<>>
    BY <1>1, <1>2, <1>8 DEF ReceiverInv, InTransit
  <2>2. x \in Seq(Byte) /\ Len(x) = n
    <3>1. Len(x) = sent' - sent /\ x \in Seq(Byte)
      BY <1>4, ReceiverNumbers, Piece
    <3> QED
      BY <3>1, <1>1, <1>4, ReceiverNumbers
  <2>3. x # <<>>
    BY <2>2, <1>4
  <2>4. /\ wire' \in Seq(Seq(Byte)) /\ wire' # <<>> /\ Len(wire') = Len(wire) + 1
        /\ \A k \in 1 .. Len(wire) : wire'[k] = wire[k]
        /\ wire'[Len(wire) + 1] = x
    <3> HIDE DEF x
    <3> QED
      BY <2>1, <2>2, AppendProperties
  <2>5. \A k \in 1 .. Len(wire') : wire'[k] # <<>>
    <3>1. Len(wire) \in Nat
      BY <2>1, LenProperties
    <3> HIDE DEF x
    <3> QED
      BY <3>1, <2>1, <2>3, <2>4
  <2>6. Chunked(source, wire', HasRead, sent')
    BY <2>1, <1>4, ReceiverNumbers, ChunkedAppend
  <2> QED
    BY <2>4, <2>5, <2>6, <1>2, <1>3
<1>9. InTransit'
  BY <1>6, <1>7, <1>8 DEF InTransit
<1>10. Finished'
  <2>1. closed' = closed
    BY <1>2
  <2> QED
    BY <1>2 DEF ReceiverInv, Finished
<1> QED
  BY <1>5, <1>9, <1>10 DEF ReceiverInv

(* The owner closes its connection.                                        *)
LEMMA ReceiverClose == ReceiverInv /\ Received!Close => ReceiverInv'
<1> SUFFICES ASSUME ReceiverInv, Received!Close PROVE ReceiverInv'
  OBVIOUS
<1>1. /\ rcv.at # "waiting" /\ ~closed /\ closed' = TRUE
      /\ \/ wire' = wire
         \/ mode = "zlib" /\ sent < Len(source) /\ wire' = Append(wire, <<>>)
      /\ UNCHANGED <<source, FileSize, mode, sent, copy, rcv, result, faulty>>
  BY DEF Received!Close, Received!Cut
<1>2. HasRead' = HasRead
  BY <1>1 DEF HasRead
<1>3. ReceiverTypes'
  BY <1>1 DEF ReceiverInv, ReceiverTypes
<1>4. ASSUME rcv'.at # "done", mode' = "zlib"
      PROVE  /\ wire' \in Seq(Seq(Byte)) /\ Chunked(source', wire', HasRead', sent')
             /\ \A k \in 1 .. Len(wire') : wire'[k] = <<>> => closed' /\ sent' < Len(source')
             /\ rcv'.at = "read" => wire' # <<>>
  <2>1. /\ wire \in Seq(Seq(Byte)) /\ Chunked(source, wire, HasRead, sent)
        /\ \A k \in 1 .. Len(wire) : wire[k] # <<>>
        /\ rcv.at = "read" => wire # <<>>
    BY <1>1, <1>4 DEF ReceiverInv, InTransit
  <2>2. CASE wire' = wire
    BY <2>1, <2>2, <1>1, <1>2
  <2>3. CASE sent < Len(source) /\ wire' = Append(wire, <<>>)
    <3>1. <<>> \in Seq(Byte)
      BY EmptySeq
    <3>2. /\ wire' \in Seq(Seq(Byte)) /\ wire' # <<>>
      BY <2>1, <2>3, <3>1, AppendProperties
    <3>3. sent \in 0 .. Len(source) /\ sent \in sent .. Len(source)
          /\ SubSeq(source, sent + 1, sent) = <<>>
      BY ReceiverNumbers, SubSeqEmpty
    <3>4. Chunked(source, Append(wire, SubSeq(source, sent + 1, sent)), HasRead, sent)
      <4>1. source \in Seq(Byte) /\ HasRead \in Nat
        BY ReceiverNumbers
      <4> QED
        BY <4>1, <3>3, <2>1, ChunkedAppend
    <3>5. Chunked(source, wire', HasRead, sent)
      BY <3>3, <3>4, <2>3
    <3> QED
      BY <3>2, <3>5, <2>3, <1>1, <1>2
  <2> QED
    BY <2>2, <2>3, <1>1
<1>5. ASSUME mode' = "nocompression" PROVE wire' = wire
  BY <1>1, <1>5
<1>6. InTransit'
  BY <1>1, <1>2, <1>4, <1>5 DEF ReceiverInv, InTransit
<1>7. Finished'
  BY <1>1 DEF ReceiverInv, Finished
<1> QED
  BY <1>3, <1>6, <1>7 DEF ReceiverInv

LEMMA ReceiverStart == ReceiverInv /\ Received!Start => ReceiverInv'
<1> SUFFICES ASSUME ReceiverInv, Received!Start PROVE ReceiverInv'
  OBVIOUS
<1>1. /\ rcv.at = "waiting"
      /\ rcv' = [rcv EXCEPT !.at = IF mode = "zlib" THEN "first" ELSE "read"]
      /\ UNCHANGED <<source, FileSize, mode, sent, closed, wire, copy, result, faulty>>
  BY DEF Received!Start, Received!peerVars
<1>2. rcv \in [at : Positions, buf : Seq(Byte), written : Nat]
  BY DEF ReceiverInv, ReceiverTypes
<1>3. /\ rcv' \in [at : Positions, buf : Seq(Byte), written : Nat]
      /\ rcv'.at = IF mode = "zlib" THEN "first" ELSE "read"
      /\ rcv'.buf = rcv.buf /\ rcv'.written = rcv.written
  BY <1>1, <1>2 DEF Positions
<1>4. HasRead' = HasRead
  BY <1>3 DEF HasRead
<1>5. ReceiverTypes'
  BY <1>1, <1>3 DEF ReceiverInv, ReceiverTypes
<1>6. InTransit'
  BY <1>1, <1>3, <1>4 DEF ReceiverInv, InTransit
<1>7. Finished'
  BY <1>3 DEF Finished
<1> QED
  BY <1>5, <1>6, <1>7 DEF ReceiverInv

(* The end of a transfer, in success or not.  Some of the buffer may have  *)
(* been written, and what is on the wire is lost.                          *)
LEMMA ReceiverDone ==
  ASSUME ReceiverInv, rcv.at # "done",
         rcv' = [rcv EXCEPT !.at = "done", !.buf = <<>>],
         NEW t \in Seq(Byte), copy' = copy \o t,
         UNCHANGED <<source, FileSize, mode, sent, closed>>,
         faulty' \in BOOLEAN, result' \in {"ok", "fail"},
         result' = "ok" => rcv.written = FileSize,
         ~faulty' => /\ closed /\ (sent < Len(source) \/ rcv.written = sent)
                     /\ rcv.written = FileSize => result' = "ok"
  PROVE  ReceiverInv'
<1>1. rcv \in [at : Positions, buf : Seq(Byte), written : Nat]
  BY DEF ReceiverInv, ReceiverTypes
<1>2. /\ rcv' \in [at : Positions, buf : Seq(Byte), written : Nat]
      /\ rcv'.at = "done" /\ rcv'.buf = <<>> /\ rcv'.written = rcv.written
  BY <1>1, EmptySeq DEF Positions
<1>3. Len(rcv'.buf) = 0
  BY <1>2
<1>4. HasRead' = rcv.written
  BY <1>2, <1>3, ReceiverNumbers DEF HasRead
<1>5. HasRead' <= sent'
  BY <1>4, ReceiverNumbers
<1>6. copy' \in Seq(Byte)
  BY ReceiverNumbers, ConcatProperties
<1>7. ReceiverTypes'
  BY <1>2, <1>6 DEF ReceiverInv, ReceiverTypes
<1>8. InTransit'
  BY <1>2, <1>5 DEF InTransit
<1>9. Len(copy) = rcv.written /\ copy = SubSeq(source, 1, rcv.written)
  <2>1. copy = SubSeq(source, 0 + 1, rcv.written)
    BY DEF ReceiverInv, InTransit
  <2>2. 0 \in 0 .. Len(source) /\ rcv.written \in 0 .. Len(source)
    BY ReceiverNumbers
  <2>3. Len(copy) = rcv.written - 0
    BY <2>1, <2>2, ReceiverNumbers, Piece
  <2> QED
    BY <2>1, <2>3, ReceiverNumbers
<1>10. /\ rcv'.written <= Len(copy')
       /\ SubSeq(copy', 1, rcv'.written) = SubSeq(source', 1, rcv'.written)
  <2>1. rcv.written \in 0 .. Len(copy) /\ copy \in Seq(Byte)
    BY <1>9, ReceiverNumbers
  <2>2. /\ SubSeq(copy', 1, rcv.written) = SubSeq(copy, 1, rcv.written)
        /\ Len(copy') = Len(copy) + Len(t)
    BY <2>1, KeepsBeginning
  <2>3. SubSeq(copy, 1, rcv.written) = copy
    BY <1>9, <2>1, SubSeqFull
  <2>4. Len(t) \in Nat
    BY LenProperties
  <2> QED
    BY <2>2, <2>3, <2>4, <1>2, <1>9, ReceiverNumbers
<1>11. Finished'
  BY <1>2, <1>10 DEF Finished
<1> QED
  BY <1>7, <1>8, <1>11 DEF ReceiverInv

(* CheckDownloadSuccess, when nothing more will come.                      *)
LEMMA ReceiverCheck ==
  ASSUME ReceiverInv, rcv.at # "done", Received!CheckDownloadSuccess,
         UNCHANGED <<source, FileSize, mode, sent, closed, copy, faulty>>,
         closed, sent < Len(source) \/ rcv.written = sent
  PROVE  ReceiverInv'
<1>1. /\ result' = IF rcv.written = FileSize THEN "ok" ELSE "fail"
      /\ rcv' = [rcv EXCEPT !.at = "done", !.buf = <<>>]
  BY DEF Received!CheckDownloadSuccess
<1>2. <<>> \in Seq(Byte) /\ copy' = copy \o <<>>
  BY ReceiverNumbers, EmptySeq, ConcatEmptySeq
<1>3. faulty' \in BOOLEAN
  BY DEF ReceiverInv, ReceiverTypes
<1>4. result' \in {"ok", "fail"} /\ (result' = "ok" <=> rcv.written = FileSize)
  BY <1>1
<1> QED
  BY <1>1, <1>2, <1>3, <1>4, ReceiverDone

LEMMA ReceiverHeader == ReceiverInv /\ Received!ReadChunkHeader => ReceiverInv'
<1> SUFFICES ASSUME ReceiverInv, Received!ReadChunkHeader PROVE ReceiverInv'
  OBVIOUS
<1>1. /\ rcv.at \in {"first", "header"}
      /\ UNCHANGED <<source, FileSize, mode, sent, closed, wire, copy, faulty>>
  BY DEF Received!ReadChunkHeader, Received!peerVars
<1>2. /\ mode = "zlib" /\ wire \in Seq(Seq(Byte)) /\ Chunked(source, wire, HasRead, sent)
      /\ rcv.buf = <<>>
  BY <1>1 DEF ReceiverInv, InTransit
<1>3. rcv \in [at : Positions, buf : Seq(Byte), written : Nat]
  BY DEF ReceiverInv, ReceiverTypes
<1>4. ASSUME NEW p \in {"read", "dead"}, rcv' = [rcv EXCEPT !.at = p], result' = result,
             p = "read" => wire # <<>>
      PROVE  ReceiverInv'
  <2>1. /\ rcv' \in [at : Positions, buf : Seq(Byte), written : Nat]
        /\ rcv'.at = p /\ rcv'.buf = rcv.buf /\ rcv'.written = rcv.written
    BY <1>3, <1>4 DEF Positions
  <2>2. HasRead' = HasRead
    BY <2>1 DEF HasRead
  <2>3. ReceiverTypes'
    BY <1>1, <1>4, <2>1 DEF ReceiverInv, ReceiverTypes
  <2>4. InTransit'
    BY <1>1, <1>2, <1>4, <2>1, <2>2 DEF ReceiverInv, InTransit
  <2>5. Finished'
    BY <1>4, <2>1 DEF Finished
  <2> QED
    BY <2>3, <2>4, <2>5 DEF ReceiverInv
<1>5. CASE wire = <<>> /\ closed /\ rcv.at = "header" /\ Received!CheckDownloadSuccess
  <2>1. HasRead = sent
    <3>1. HasRead \in Nat /\ sent \in Nat
      BY ReceiverNumbers
    <3> QED
      BY <3>1, <1>2, <1>5, ChunkedBounds
  <2>2. HasRead = rcv.written
    BY <1>2, ReceiverNumbers DEF HasRead
  <2> QED
    BY <1>1, <1>5, <2>1, <2>2, ReceiverCheck
<1> QED
  BY <1>4, <1>5 DEF Received!ReadChunkHeader

LEMMA ReceiverStream == ReceiverInv /\ Received!StreamHandleRead => ReceiverInv'
<1> SUFFICES ASSUME ReceiverInv, Received!StreamHandleRead PROVE ReceiverInv'
  OBVIOUS
<1> DEFINE n == IF Len(wire) >= BufferSize THEN BufferSize ELSE Len(wire)
<1>1. /\ rcv.at = "read" /\ mode = "nocompression" /\ (n = BufferSize \/ closed)
      /\ \/ /\ n > 0
            /\ rcv' = [rcv EXCEPT !.at = "write", !.buf = SubSeq(wire, 1, n)]
            /\ wire' = SubSeq(wire, n + 1, Len(wire))
            /\ result' = result
         \/ n = 0 /\ Received!CheckDownloadSuccess
      /\ UNCHANGED <<source, FileSize, mode, sent, closed, copy, faulty>>
  BY DEF Received!StreamHandleRead, Received!peerVars
<1>2. /\ wire = SubSeq(source, HasRead + 1, sent) /\ rcv.buf = <<>>
      /\ copy = SubSeq(source, 1, rcv.written)
  BY <1>1 DEF ReceiverInv, InTransit
<1>3. HasRead \in 0 .. Len(source) /\ sent \in HasRead .. Len(source) /\ source \in Seq(Byte)
      /\ HasRead \in Nat /\ sent \in Nat /\ rcv.written = HasRead
  BY <1>2, ReceiverNumbers DEF HasRead
<1>4. wire \in Seq(Byte) /\ Len(wire) = sent - HasRead /\ BufferSize \in Nat \ {0}
  BY <1>2, <1>3, Piece, SizesAssumption
<1>5. n \in 0 .. sent - HasRead
  BY <1>3, <1>4
<1> HIDE DEF n
<1>6. CASE n = 0 /\ Received!CheckDownloadSuccess
  <2>1. closed /\ Len(wire) = 0
    BY <1>1, <1>4, <1>6 DEF n
  <2>2. rcv.written = sent
    BY <2>1, <1>3, <1>4
  <2> QED
    BY <1>1, <1>6, <2>1, <2>2, ReceiverCheck
<1>7. CASE n > 0 /\ result' = result /\ wire' = SubSeq(wire, n + 1, Len(wire))
           /\ rcv' = [rcv EXCEPT !.at = "write", !.buf = SubSeq(wire, 1, n)]
  <2>1. /\ SubSeq(wire, 1, n) = SubSeq(source, HasRead + 1, HasRead + n)
        /\ SubSeq(wire, n + 1, sent - HasRead) = SubSeq(source, HasRead + n + 1, sent)
    <3>1. /\ SubSeq(SubSeq(source, HasRead + 1, sent), 1, n) = SubSeq(source, HasRead + 1, HasRead + n)
          /\ SubSeq(SubSeq(source, HasRead + 1, sent), n + 1, sent - HasRead)
               = SubSeq(source, HasRead + n + 1, sent)
      BY <1>3, <1>5, Halves
    <3> QED
      BY <1>2, <3>1
  <2>2. SubSeq(wire, 1, n) \in Seq(Byte) /\ Len(SubSeq(wire, 1, n)) = n
    <3>1. HasRead + n \in HasRead .. Len(source)
      BY <1>3, <1>5
    <3>2. Len(SubSeq(source, HasRead + 1, HasRead + n)) = (HasRead + n) - HasRead
          /\ SubSeq(source, HasRead + 1, HasRead + n) \in Seq(Byte)
      BY <3>1, <1>3, Piece
    <3>3. (HasRead + n) - HasRead = n
      BY <1>3, <1>5
    <3> QED
      BY <2>1, <3>2, <3>3
  <2>3. rcv \in [at : Positions, buf : Seq(Byte), written : Nat]
    BY DEF ReceiverInv, ReceiverTypes
  <2>4. /\ rcv' \in [at : Positions, buf : Seq(Byte), written : Nat]
        /\ rcv'.at = "write" /\ rcv'.buf = SubSeq(wire, 1, n) /\ rcv'.written = rcv.written
    BY <1>7, <2>2, <2>3 DEF Positions
  <2>5. HasRead' = HasRead + n
    BY <2>2, <2>4, <1>3 DEF HasRead
  <2>6. ReceiverTypes'
    BY <1>1, <1>7, <2>4 DEF ReceiverInv, ReceiverTypes
  <2>7. HasRead' <= sent' /\ wire' = SubSeq(source', HasRead' + 1, sent')
    <3>1. HasRead + n <= sent /\ HasRead + n \in Nat
      BY <1>3, <1>5
    <3>2. wire' = SubSeq(source, (HasRead + n) + 1, sent)
      BY <1>4, <1>7, <2>1
    <3> QED
      BY <1>1, <2>5, <3>1, <3>2
  <2>8. rcv'.buf = SubSeq(source', rcv'.written + 1, HasRead')
    BY <1>1, <1>3, <2>1, <2>4, <2>5
  <2>9. InTransit'
    BY <1>1, <1>2, <2>4, <2>7, <2>8 DEF InTransit
  <2>10. Finished'
    BY <2>4 DEF Finished
  <2> QED
    BY <2>6, <2>9, <2>10 DEF ReceiverInv
<1> QED
  BY <1>1, <1>6, <1>7

LEMMA ReceiverCompressed == ReceiverInv /\ Received!CompressedHandleRead => ReceiverInv'
<1> SUFFICES ASSUME ReceiverInv, Received!CompressedHandleRead PROVE ReceiverInv'
  OBVIOUS
<1>1. /\ rcv.at = "read" /\ mode = "zlib" /\ wire' = Tail(wire)
      /\ \/ Head(wire) # <<>> /\ rcv' = [rcv EXCEPT !.at = "write", !.buf = Head(wire)] /\ result' = result
         \/ Head(wire) = <<>> /\ Received!CheckDownloadSuccess
      /\ UNCHANGED <<source, FileSize, mode, sent, closed, copy, faulty>>
  BY DEF Received!CompressedHandleRead, Received!peerVars, Received!Cut
<1>2. /\ wire \in Seq(Seq(Byte)) /\ wire # <<>> /\ Chunked(source, wire, HasRead, sent)
      /\ rcv.buf = <<>> /\ copy = SubSeq(source, 1, rcv.written)
      /\ \A k \in 1 .. Len(wire) : wire[k] = <<>> => closed /\ sent < Len(source)
  BY <1>1 DEF ReceiverInv, InTransit
<1>3. HasRead = rcv.written /\ HasRead \in Nat /\ sent \in Nat /\ source \in Seq(Byte)
  BY <1>2, ReceiverNumbers DEF HasRead
<1>4. CASE Head(wire) = <<>> /\ Received!CheckDownloadSuccess
  <2>1. 1 \in 1 .. Len(wire) /\ wire[1] = <<>>
    BY <1>2, <1>4, EmptySeq
  <2> QED
    BY <1>1, <1>2, <1>4, <2>1, ReceiverCheck
<1>5. CASE rcv' = [rcv EXCEPT !.at = "write", !.buf = Head(wire)] /\ result' = result
  <2>1. /\ Head(wire) = SubSeq(source, HasRead + 1, HasRead + Len(Head(wire)))
        /\ Chunked(source, Tail(wire), HasRead + Len(Head(wire)), sent)
    BY <1>2, <1>3, ChunkedTail
  <2>2. /\ Head(wire) \in Seq(Byte) /\ Tail(wire) \in Seq(Seq(Byte))
        /\ Len(Tail(wire)) = Len(wire) - 1
        /\ \A k \in 1 .. Len(Tail(wire)) : Tail(wire)[k] = wire[k + 1]
    BY <1>2, HeadTailProperties
  <2>3. Len(Head(wire)) \in Nat /\ Len(wire) \in Nat
    BY <1>2, <2>2, LenProperties
  <2>4. HasRead + Len(Head(wire)) <= sent
    <3>1. HasRead + Len(Head(wire)) \in Nat
      BY <2>3, <1>3
    <3> QED
      BY <3>1, <2>1, <2>2, <1>3, ChunkedBounds
  <2>5. rcv \in [at : Positions, buf : Seq(Byte), written : Nat]
    BY DEF ReceiverInv, ReceiverTypes
  <2>6. /\ rcv' \in [at : Positions, buf : Seq(Byte), written : Nat]
        /\ rcv'.at = "write" /\ rcv'.buf = Head(wire) /\ rcv'.written = rcv.written
    BY <1>5, <2>2, <2>5 DEF Positions
  <2>7. HasRead' = HasRead + Len(Head(wire))
    BY <2>6, <1>3 DEF HasRead
  <2>8. ReceiverTypes'
    BY <1>1, <1>5, <2>6 DEF ReceiverInv, ReceiverTypes
  <2>9. \A k \in 1 .. Len(wire') : wire'[k] = <<>> => closed' /\ sent' < Len(source')
    <3> TAKE k \in 1 .. Len(wire')
    <3>1. k + 1 \in 1 .. Len(wire) /\ wire'[k] = wire[k + 1]
      BY <1>1, <2>2, <2>3
    <3> QED
      BY <3>1, <1>1, <1>2
  <2>10. rcv'.buf = SubSeq(source', rcv'.written + 1, HasRead')
    BY <1>1, <1>3, <2>1, <2>6, <2>7
  <2>11. /\ HasRead' <= sent' /\ wire' \in Seq(Seq(Byte))
         /\ Chunked(source', wire', HasRead', sent')
    BY <1>1, <2>1, <2>2, <2>4, <2>7
  <2>12. InTransit'
    BY <1>1, <1>2, <2>6, <2>9, <2>10, <2>11 DEF InTransit
  <2>13. Finished'
    BY <2>6 DEF Finished
  <2> QED
    BY <2>8, <2>12, <2>13 DEF ReceiverInv
<1> QED
  BY <1>1, <1>4, <1>5

LEMMA ReceiverWrite == ReceiverInv /\ Received!HandleWrite => ReceiverInv'
<1> SUFFICES ASSUME ReceiverInv, Received!HandleWrite PROVE ReceiverInv'
  OBVIOUS
<1>1. /\ rcv.at = "write" /\ copy' = copy \o rcv.buf
      /\ rcv' = [at |-> IF mode = "zlib" THEN "header" ELSE "read",
                 buf |-> <<>>, written |-> rcv.written + Len(rcv.buf)]
      /\ UNCHANGED <<source, FileSize, mode, sent, closed, wire, result, faulty>>
  BY DEF Received!HandleWrite, Received!peerVars
<1>2. /\ copy = SubSeq(source, 1, rcv.written)
      /\ rcv.buf = SubSeq(source, rcv.written + 1, HasRead)
  BY <1>1 DEF ReceiverInv, InTransit
<1>3. copy' = SubSeq(source, 1, HasRead) /\ copy' \in Seq(Byte)
  <2>1. 0 \in 0 .. Len(source) /\ rcv.written \in 0 .. Len(source)
        /\ HasRead \in rcv.written .. Len(source) /\ source \in Seq(Byte)
    BY ReceiverNumbers
  <2>2. SubSeq(source, 0 + 1, rcv.written) \o SubSeq(source, rcv.written + 1, HasRead)
          = SubSeq(source, 0 + 1, HasRead)
    BY <2>1, Adjacent
  <2>3. copy' = SubSeq(source, 0 + 1, HasRead)
    <3>1. copy = SubSeq(source, 0 + 1, rcv.written)
      BY <1>2
    <3> QED
      BY <3>1, <1>1, <1>2, <2>2
  <2>4. copy' \in Seq(Byte)
    BY <1>1, ReceiverNumbers, ConcatProperties
  <2> QED
    BY <2>3, <2>4
<1>4. /\ rcv' \in [at : Positions, buf : Seq(Byte), written : Nat]
      /\ rcv'.at = (IF mode = "zlib" THEN "header" ELSE "read")
      /\ rcv'.buf = <<>> /\ rcv'.written = HasRead
  BY <1>1, ReceiverNumbers, EmptySeq DEF Positions, HasRead
<1>5. Len(rcv'.buf) = 0
  BY <1>4
<1>6. HasRead' = HasRead
  BY <1>4, <1>5, ReceiverNumbers DEF HasRead
<1>7. SubSeq(source', rcv'.written + 1, HasRead') = <<>>
  BY <1>4, <1>6, ReceiverNumbers, SubSeqEmpty
<1>8. ReceiverTypes'
  BY <1>1, <1>3, <1>4 DEF ReceiverInv, ReceiverTypes
<1>9. InTransit'
  BY <1>1, <1>3, <1>4, <1>6, <1>7 DEF ReceiverInv, InTransit
<1>10. Finished'
  BY <1>4 DEF Finished
<1> QED
  BY <1>8, <1>9, <1>10 DEF ReceiverInv

LEMMA ReceiverWriteError == ReceiverInv /\ Received!HandleWriteError => ReceiverInv'
<1> SUFFICES ASSUME ReceiverInv, Received!HandleWriteError PROVE ReceiverInv'
  OBVIOUS
<1>1. PICK n \in 0 .. Len(rcv.buf) : copy' = copy \o SubSeq(rcv.buf, 1, n)
  BY DEF Received!HandleWriteError
<1>2. /\ rcv.at = "write" /\ faulty' = TRUE
      /\ rcv' = [rcv EXCEPT !.at = "done", !.buf = <<>>]
      /\ result' \in {"ok", "fail"} /\ (result' = "ok" => rcv.written = FileSize)
      /\ UNCHANGED <<source, FileSize, mode, sent, closed>>
  BY DEF Received!HandleWriteError, Received!CheckDownloadSuccess, Received!peerVars
<1>3. SubSeq(rcv.buf, 1, n) \in Seq(Byte)
  <2>1. 0 \in 0 .. Len(rcv.buf) /\ n \in 0 .. Len(rcv.buf) /\ rcv.buf \in Seq(Byte)
    BY ReceiverNumbers
  <2>2. SubSeq(rcv.buf, 0 + 1, n) \in Seq(Byte)
    BY <2>1, Piece
  <2> QED
    BY <2>2
<1> QED
  BY <1>1, <1>2, <1>3, ReceiverDone

(* The receiver and its owner keep ReceiverInv.                            *)
LEMMA ReceiverStep ==
  ReceiverInv /\ (Receiving \/ OwnerSends) => ReceiverInv'
  BY ReceiverStart, ReceiverHeader, ReceiverStream, ReceiverCompressed, ReceiverWrite,
     ReceiverWriteError, ReceiverSend, ReceiverClose DEF Receiving, OwnerSends, Received!Receive

----------------------------------------------------------------------------
(* The deliverers.                                                         *)

LEMMA ContentType ==
  ASSUME ReceiverInv, NEW f \in File
  PROVE  /\ Content(f) \in Seq(Byte) /\ Len(Content(f)) \in Nat
         /\ [g \in File |-> IF g = Fresh THEN copy ELSE Stored][f] = Content(f)
<1>1. Content(f) \in Seq(Byte)
  BY ReceiverNumbers, BytesAssumption DEF Content
<1> QED
  BY <1>1, LenProperties DEF Content

(* A copy that was reported as good is not written to any more.            *)
LEMMA CopyFrozen ==
  ASSUME ReceiverInv, Receiving \/ OwnerSends, result = "ok"
  PROVE  result' = "ok" /\ copy' = copy
<1>1. rcv.at = "done"
  BY DEF ReceiverInv, ReceiverTypes
<1>2. ~Receiving
  BY <1>1 DEF Receiving, Received!Start, Received!Receive, Received!ReadChunkHeader,
     Received!StreamHandleRead, Received!CompressedHandleRead, Received!HandleWrite,
     Received!HandleWriteError
<1>3. CASE OwnerSends
  BY <1>3 DEF OwnerSends, Received!Send, Received!Close
<1> QED
  BY <1>2, <1>3

LEMMA DeliveryInit == ReceiverInv /\ Delivered!Init => DeliveryInv
<1> SUFFICES ASSUME ReceiverInv, Delivered!Init PROVE DeliveryInv
  OBVIOUS
<1> USE DEF Delivered!Init
<1>1. <<>> \in Seq(Byte) /\ Len(<<>>) = 0 /\ DOMAIN uploads = {}
  BY EmptySeq
<1>2. DeliveryTypes
  <2>1. begun \in [Client -> [at : {"asked", "denied", "opened", "read"} \cup Past,
                              clean : Nat, told : Nat, id : Nat]]
    OBVIOUS
  <2>2. got \in [Client -> Seq(Byte)]
    BY <1>1
  <2>3. counter = 1 /\ aborted = FALSE /\ repeated = {}
    OBVIOUS
  <2>4. DOMAIN uploads \subseteq 1 .. counter - 1 /\ \A i \in DOMAIN uploads : uploads[i] \in Upload
    BY <1>1
  <2> HIDE DEF Delivered!Init
  <2>5. counter \in Nat \ {0}
    BY <2>3
  <2>6. aborted \in BOOLEAN /\ repeated \subseteq Client
    BY <2>3
  <2> QED
    BY <2>1, <2>2, <2>4, <2>5, <2>6 DEF DeliveryTypes
<1>3. \A c \in Client : begun[c].at = "asked" /\ got[c] = <<>>
  OBVIOUS
<1>4. Settled
  BY <1>1, <1>3 DEF Settled
<1>5. Distinct
  BY <1>3 DEF Distinct, Past
<1>6. Matched
  <2>1. ASSUME NEW c \in Client
        PROVE  Len(got[c]) <= Len(Content(FileOf[c])) /\ got[c] = SubSeq(Content(FileOf[c]), 1, Len(got[c]))
    <3>1. FileOf[c] \in File /\ got[c] = <<>> /\ Len(got[c]) = 0
      BY <1>1, <1>3, FilesAssumption
    <3> QED
      BY <3>1, ContentType, SubSeqEmpty
  <2> QED
    BY <2>1, <1>1, <1>3 DEF Matched, Fits, Past
<1> QED
  BY <1>2, <1>4, <1>5, <1>6 DEF DeliveryInv

(* The receiver does not disturb the deliverers.                           *)
LEMMA DeliveryFrame ==
  ASSUME IInv, Receiving \/ OwnerSends
  PROVE  DeliveryInv'
<1>1. UNCHANGED <<counter, begun, uploads, got, broken, repeated, aborted>>
  BY DEF Receiving, OwnerSends, uploadVars
<1>2. ReceiverInv /\ DeliveryInv
  BY DEF IInv
<1>3. ReceiverInv'
  BY <1>2, ReceiverStep
<1>4. result = "ok" => result' = "ok" /\ copy' = copy
  BY <1>2, CopyFrozen
<1>5. \A f \in File : (f = Fresh => result = "ok") => Content(f)' = Content(f)
  BY <1>4 DEF Content
<1>6. DeliveryTypes'
  BY <1>1, <1>2 DEF DeliveryInv, DeliveryTypes
<1>7. Settled'
  <2>1. \A i \in DOMAIN uploads : uploads[i].file \in File
    BY <1>2 DEF DeliveryInv, DeliveryTypes, Upload
  <2>2. ASSUME NEW i \in DOMAIN uploads'
        PROVE  /\ uploads'[i].file = Fresh => result' = "ok"
               /\ uploads'[i].pos <= Len(Content(uploads[i].file)')
    BY <1>1, <1>2, <1>4, <1>5, <2>1 DEF DeliveryInv, Settled
  <2>3. \A c \in Client : begun'[c].at # "asked" /\ FileOf[c] = Fresh => result' = "ok"
    BY <1>1, <1>2, <1>4 DEF DeliveryInv, Settled
  <2> QED
    BY <2>2, <2>3, <1>1 DEF Settled, Content
<1>8. Distinct'
  BY <1>1, <1>2 DEF DeliveryInv, Distinct
<1>9. Matched'
  <2> SUFFICES ASSUME ~Mixed' PROVE Matched'
    BY DEF Matched
  <2>1. ~Mixed
    BY <1>1 DEF Mixed
  <2>2. ASSUME NEW i \in DOMAIN uploads
        PROVE  LET u == uploads[i] IN
               /\ u.file = FileOf[u.peer]
               /\ Works(i, u, begun[u.peer], got[u.peer], Content(u.file)', repeated)
    <3>1. uploads[i].file \in File /\ (uploads[i].file = Fresh => result = "ok")
      BY <1>2 DEF DeliveryInv, DeliveryTypes, Upload, Settled
    <3>2. Content(uploads[i].file)' = Content(uploads[i].file)
      BY <3>1, <1>4, <1>1 DEF Content
    <3> QED
      BY <1>2, <2>1, <3>2 DEF DeliveryInv, Matched
  <2>3. ASSUME NEW c \in Client
        PROVE  Fits(c, begun[c], got[c], Content(FileOf[c])', DOMAIN uploads, broken, repeated, aborted)
    <3>1. FileOf[c] \in File
      BY FilesAssumption
    <3>2. CASE FileOf[c] = Fresh => result = "ok"
      <4>1. Content(FileOf[c])' = Content(FileOf[c])
        BY <3>1, <3>2, <1>5
      <4> QED
        BY <4>1, <1>2, <2>1 DEF DeliveryInv, Matched
    <3>3. CASE FileOf[c] = Fresh /\ result # "ok"
      <4>1. begun[c].at = "asked"
        BY <3>3, <1>2 DEF DeliveryInv, Settled
      <4>2. got[c] = <<>>
        BY <4>1, <1>2, <2>1 DEF DeliveryInv, Matched, Fits, Past
      <4>3. Content(FileOf[c])' \in Seq(Byte)
        BY <3>3, <1>3 DEF Content, ReceiverInv, ReceiverTypes
      <4>4. Len(got[c]) = 0 /\ Len(Content(FileOf[c])') \in Nat
        BY <4>2, <4>3, LenProperties
      <4>5. SubSeq(Content(FileOf[c])', 1, 0) = <<>>
        BY SubSeqEmpty
      <4> QED
        BY <4>1, <4>2, <4>4, <4>5 DEF Fits
    <3> QED
      BY <3>2, <3>3
  <2>4. aborted => repeated # {}
    BY <1>2, <2>1 DEF DeliveryInv, Matched
  <2> QED
    BY <1>1, <2>2, <2>3, <2>4 DEF Matched, Content
<1> QED
  BY <1>6, <1>7, <1>8, <1>9 DEF DeliveryInv

(* Once ids are mixed they stay so.                                        *)
LEMMA MixedKept ==
  ASSUME \A d \in Client : begun[d].at \in Past =>
           /\ begun'[d].at \in Past /\ begun'[d].id = begun[d].id
           /\ begun'[d].told = begun[d].told /\ begun'[d].clean = begun[d].clean
  PROVE  Mixed => Mixed'
  BY DEF Mixed, Past

LEMMA DeliveryOpen ==
  ASSUME IInv, NEW c \in Client, ~aborted, UNCHANGED receiverVars,
         Delivered!OpenLocalFile(c) \/ Delivered!ReadTransactionID(c)
  PROVE  DeliveryInv'
<1>1. /\ UNCHANGED <<counter, uploads, got, broken, repeated, aborted>>
      /\ UNCHANGED <<copy, result>>
  BY DEF Delivered!OpenLocalFile, Delivered!ReadTransactionID, receiverVars
<1>2. ReceiverInv /\ DeliveryInv
  BY DEF IInv
<1>3. PICK r \in [at : {"denied", "opened", "read"}, clean : Nat, told : Nat, id : Nat] :
        begun' = [begun EXCEPT ![c] = r]
  <2>1. begun \in [Client -> [at : {"asked", "denied", "opened", "read"} \cup Past,
                               clean : Nat, told : Nat, id : Nat]] /\ counter \in Nat
    BY <1>2 DEF DeliveryInv, DeliveryTypes
  <2>2. CASE begun' = [begun EXCEPT ![c].at = "denied"]
    <3>1. begun' = [begun EXCEPT ![c] = [begun[c] EXCEPT !.at = "denied"]]
      BY <2>1, <2>2
    <3>2. [begun[c] EXCEPT !.at = "denied"] \in
            [at : {"denied", "opened", "read"}, clean : Nat, told : Nat, id : Nat]
      BY <2>1
    <3> QED
      BY <3>1, <3>2
  <2>3. CASE begun' = [begun EXCEPT ![c].at = "opened", ![c].clean = counter]
    <3>1. begun' = [begun EXCEPT ![c] = [begun[c] EXCEPT !.at = "opened", !.clean = counter]]
      BY <2>1, <2>3
    <3>2. [begun[c] EXCEPT !.at = "opened", !.clean = counter] \in
            [at : {"denied", "opened", "read"}, clean : Nat, told : Nat, id : Nat]
      BY <2>1
    <3> QED
      BY <3>1, <3>2
  <2>4. CASE begun' = [begun EXCEPT ![c].at = "read", ![c].told = counter]
    <3>1. begun' = [begun EXCEPT ![c] = [begun[c] EXCEPT !.at = "read", !.told = counter]]
      BY <2>1, <2>4
    <3>2. [begun[c] EXCEPT !.at = "read", !.told = counter] \in
            [at : {"denied", "opened", "read"}, clean : Nat, told : Nat, id : Nat]
      BY <2>1
    <3> QED
      BY <3>1, <3>2
  <2> QED
    BY <2>2, <2>3, <2>4 DEF Delivered!OpenLocalFile, Delivered!ReadTransactionID
<1>4. begun[c].at \notin Past /\ (FileOf[c] = Fresh => result = "ok")
  BY <1>2, FilesAssumption DEF Delivered!OpenLocalFile, Delivered!ReadTransactionID,
     DeliveryInv, Settled, Past
<1>5. /\ begun'[c] = r /\ r.at \notin Past /\ r.at # "asked"
      /\ \A d \in Client : d # c => begun'[d] = begun[d]
  BY <1>2, <1>3 DEF DeliveryInv, DeliveryTypes, Past
<1>6. \A f : Content(f)' = Content(f)
  BY <1>1 DEF Content
<1>7. DeliveryTypes'
  BY <1>1, <1>2, <1>3 DEF DeliveryInv, DeliveryTypes
<1>8. Settled'
  BY <1>1, <1>2, <1>4, <1>5 DEF DeliveryInv, Settled, Content
<1>9. Distinct'
  BY <1>1, <1>2, <1>5 DEF DeliveryInv, Distinct
<1>10. Matched'
  <2> SUFFICES ASSUME ~Mixed' PROVE Matched'
    BY DEF Matched
  <2>1. ~Mixed
    BY <1>4, <1>5, MixedKept
  <2>2. \A i \in DOMAIN uploads : uploads[i].peer \in Client /\ uploads[i].peer # c
    <3> TAKE i \in DOMAIN uploads
    <3>1. uploads[i].peer \in Client
      BY <1>2 DEF DeliveryInv, DeliveryTypes, Upload
    <3>2. Works(i, uploads[i], begun[uploads[i].peer], got[uploads[i].peer], Content(uploads[i].file), repeated)
      BY <1>2, <2>1 DEF DeliveryInv, Matched
    <3>3. begun[uploads[i].peer].at \in Past
      BY <3>2 DEF Works, Past
    <3> QED
      BY <3>1, <3>3, <1>4
  <2>3. \A i \in DOMAIN uploads : begun'[uploads[i].peer] = begun[uploads[i].peer]
    BY <2>2, <1>5
  <2>4. \A i \in DOMAIN uploads :
         LET u == uploads[i] IN
         u.file = FileOf[u.peer] /\ Works(i, u, begun'[u.peer], got[u.peer], Content(u.file), repeated)
    BY <1>2, <2>1, <2>3 DEF DeliveryInv, Matched
  <2>5. \A d \in Client :
         Fits(d, begun'[d], got[d], Content(FileOf[d]), DOMAIN uploads, broken, repeated, aborted)
    <3> TAKE d \in Client
    <3>1. Fits(d, begun[d], got[d], Content(FileOf[d]), DOMAIN uploads, broken, repeated, aborted)
      BY <1>2, <2>1 DEF DeliveryInv, Matched
    <3>2. CASE d = c
      BY <3>1, <3>2, <1>4, <1>5 DEF Fits, Past
    <3> QED
      BY <3>1, <3>2, <1>5
  <2> QED
    BY <1>1, <2>4, <2>5 DEF Matched, Content
<1> QED
  BY <1>7, <1>8, <1>9, <1>10 DEF DeliveryInv

LEMMA DeliveryEmplace ==
  ASSUME IInv, NEW c \in Client, ~aborted, UNCHANGED receiverVars, Delivered!EmplaceUpload(c)
  PROVE  DeliveryInv'
<1> DEFINE new == [file |-> FileOf[c], clean |-> begun[c].clean, at |-> "waiting",
                   peer |-> c, pos |-> 0, buf |-> <<>>, done |-> FALSE]
<1>1. /\ begun[c].at = "read"
      /\ uploads' = [i \in DOMAIN uploads \cup {counter} |-> IF i = counter THEN new ELSE uploads[i]]
      /\ counter' = counter + 1
      /\ begun' = [begun EXCEPT ![c].at = "told", ![c].id = counter]
      /\ UNCHANGED <<got, broken, repeated, aborted, copy, result>>
  BY DEF Delivered!EmplaceUpload, receiverVars
<1>2. ReceiverInv /\ DeliveryInv
  BY DEF IInv
<1>3. /\ counter \in Nat \ {0} /\ DOMAIN uploads \subseteq 1 .. counter - 1
      /\ begun \in [Client -> [at : {"asked", "denied", "opened", "read"} \cup Past,
                               clean : Nat, told : Nat, id : Nat]]
      /\ \A i \in DOMAIN uploads : uploads[i] \in Upload
  BY <1>2 DEF DeliveryInv, DeliveryTypes
<1>4. /\ begun' \in [Client -> [at : {"asked", "denied", "opened", "read"} \cup Past,
                               clean : Nat, told : Nat, id : Nat]]
      /\ begun'[c].at = "told" /\ begun'[c].id = counter
      /\ begun'[c].told = begun[c].told /\ begun'[c].clean = begun[c].clean
      /\ \A d \in Client : d # c => begun'[d] = begun[d]
  BY <1>1, <1>3 DEF Past
<1>5. /\ counter \notin DOMAIN uploads /\ DOMAIN uploads' = DOMAIN uploads \cup {counter}
      /\ uploads'[counter] = new /\ \A i \in DOMAIN uploads : uploads'[i] = uploads[i]
  <2>1. counter \notin 1 .. counter - 1
    BY <1>3
  <2> QED
    BY <2>1, <1>1, <1>3
<1>6. new \in Upload /\ (FileOf[c] = Fresh => result = "ok")
  BY <1>1, <1>2, <1>3, FilesAssumption, EmptySeq DEF Upload, DeliveryInv, Settled
<1>7. DeliveryTypes'
  <2>1. \A i \in DOMAIN uploads' : uploads'[i] \in Upload
    BY <1>3, <1>5, <1>6
  <2>2. counter' \in Nat \ {0} /\ DOMAIN uploads' \subseteq 1 .. counter' - 1
    BY <1>1, <1>3, <1>5
  <2> QED
    BY <1>1, <1>2, <1>4, <2>1, <2>2 DEF DeliveryInv, DeliveryTypes
<1>8. Settled'
  <2>1. \A d \in Client : begun'[d].at # "asked" /\ FileOf[d] = Fresh => result' = "ok"
    BY <1>1, <1>2, <1>4, <1>6 DEF DeliveryInv, Settled
  <2>2. \A i \in DOMAIN uploads' :
          /\ uploads'[i].file = Fresh => result = "ok"
          /\ uploads'[i].pos <= Len(Content(uploads'[i].file))
    <3> TAKE i \in DOMAIN uploads'
    <3>1. CASE i = counter
      <4>1. FileOf[c] \in File
        BY FilesAssumption
      <4>2. new.pos = 0 /\ new.file = FileOf[c]
        OBVIOUS
      <4>3. Len(Content(FileOf[c])) \in Nat
        BY <4>1, <1>2, ContentType
      <4> HIDE DEF new
      <4> QED
        BY <3>1, <4>2, <4>3, <1>5, <1>6
    <3>2. CASE i # counter
      BY <3>2, <1>2, <1>5 DEF DeliveryInv, Settled
    <3> QED
      BY <3>1, <3>2
  <2> QED
    BY <2>1, <2>2, <1>1 DEF Settled, Content
<1>9. Distinct'
  <2>1. \A d \in Client : d # c /\ begun[d].at \in Past => begun[d].id \in 1 .. counter - 1
    BY <1>2 DEF DeliveryInv, Distinct
  <2>2. \A d \in Client : d # c /\ begun[d].at \in Past => begun[d].id # counter
    BY <2>1, <1>3
  <2>3. 1 .. counter - 1 \subseteq 1 .. counter' - 1 /\ counter \in 1 .. counter' - 1
    BY <1>1, <1>3
  <2>4. ASSUME NEW a \in Client, NEW b \in Client, begun'[a].at \in Past, begun'[b].at \in Past,
               begun'[a].id = begun'[b].id
        PROVE  a = b
    <3>1. a # c /\ b # c => a = b
      BY <2>4, <1>4, <1>2 DEF DeliveryInv, Distinct
    <3>2. a = c /\ b # c => FALSE
      BY <2>4, <2>2, <1>4
    <3>3. a # c /\ b = c => FALSE
      BY <2>4, <2>2, <1>4
    <3> QED
      BY <3>1, <3>2, <3>3
  <2>5. \A d \in Client : begun'[d].at \in Past => begun'[d].id \in 1 .. counter' - 1
    BY <2>1, <2>3, <1>4
  <2> QED
    BY <2>4, <2>5 DEF Distinct
<1>10. Matched'
  <2> SUFFICES ASSUME ~Mixed' PROVE Matched'
    BY DEF Matched
  <2>1. ~Mixed
    BY <1>1, <1>4, MixedKept DEF Past
  <2>2. begun[c].told = counter /\ begun[c].clean = counter
    BY <1>4 DEF Mixed
  <2>3. ASSUME NEW i \in DOMAIN uploads'
        PROVE  LET u == uploads'[i] IN
               u.file = FileOf[u.peer] /\ Works(i, u, begun'[u.peer], got[u.peer], Content(u.file), repeated)
    <3>1. CASE i = counter
      <4>1. got[c] = <<>>
        BY <1>1, <1>2, <2>1 DEF DeliveryInv, Matched, Fits, Past
      <4> QED
        BY <3>1, <4>1, <1>4, <1>5, <2>2 DEF Works
    <3>2. CASE i # counter
      <4> DEFINE u == uploads[i]
      <4>1. uploads'[i] = u /\ i \in DOMAIN uploads /\ u.peer \in Client
        BY <3>2, <1>3, <1>5 DEF Upload
      <4>2. u.file = FileOf[u.peer] /\ Works(i, u, begun[u.peer], got[u.peer], Content(u.file), repeated)
        BY <4>1, <1>2, <2>1 DEF DeliveryInv, Matched
      <4>3. u.peer # c
        BY <4>2, <1>1 DEF Works
      <4>4. begun'[u.peer] = begun[u.peer]
        BY <4>1, <4>3, <1>4
      <4> HIDE DEF u
      <4> QED
        BY <4>1, <4>2, <4>4
    <3> QED
      BY <3>1, <3>2
  <2>4. ASSUME NEW d \in Client
        PROVE  Fits(d, begun'[d], got[d], Content(FileOf[d]), DOMAIN uploads', broken, repeated, aborted')
    <3>1. Fits(d, begun[d], got[d], Content(FileOf[d]), DOMAIN uploads, broken, repeated, aborted)
      BY <1>2, <2>1 DEF DeliveryInv, Matched
    <3>2. CASE d = c
      BY <3>1, <3>2, <1>1, <1>4, <1>5 DEF Fits, Past
    <3>3. CASE d # c
      BY <3>1, <3>3, <1>1, <1>4, <1>5 DEF Fits
    <3> QED
      BY <3>2, <3>3
  <2>5. ~aborted' /\ UNCHANGED <<got, broken, repeated, copy>>
    BY <1>1
  <2> QED
    BY <2>3, <2>4, <2>5 DEF Matched, Content
<1> QED
  BY <1>7, <1>8, <1>9, <1>10 DEF DeliveryInv

(* A client without mixed ids finds its own deliverer waiting for it.      *)
LEMMA OwnDeliverer ==
  ASSUME DeliveryInv, ~Mixed, ~aborted, NEW c \in Client, begun[c].at = "told"
  PROVE  LET i == begun[c].told IN
         /\ i = begun[c].id /\ i \in DOMAIN uploads
         /\ uploads[i].at = "waiting" /\ uploads[i].peer = c
<1> DEFINE i == begun[c].id
<1>1. begun[c].told = i
  BY DEF Mixed
<1>2. i \in DOMAIN uploads
  BY DEF DeliveryInv, Matched, Fits
<1>3. uploads[i].peer \in Client /\ Works(i, uploads[i], begun[uploads[i].peer], got[uploads[i].peer],
                                        Content(uploads[i].file), repeated)
  BY <1>2 DEF DeliveryInv, Matched, DeliveryTypes, Upload
<1>4. begun[uploads[i].peer].id = i /\ begun[uploads[i].peer].at \in {"told", "connected"}
  BY <1>3 DEF Works
<1>5. uploads[i].peer = c
  BY <1>3, <1>4 DEF DeliveryInv, Distinct, Past
<1>6. uploads[i].at = "waiting"
  BY <1>3, <1>5 DEF Works
<1> QED
  BY <1>1, <1>2, <1>5, <1>6

(* One that is connected is the peer of the deliverer it names, if there   *)
(* still is one.                                                           *)
LEMMA OwnConnection ==
  ASSUME DeliveryInv, ~Mixed, NEW c \in Client, begun[c].at = "connected",
         begun[c].told \in DOMAIN uploads
  PROVE  LET i == begun[c].told IN
         /\ i = begun[c].id /\ uploads[i].at # "waiting" /\ uploads[i].peer = c
<1> DEFINE i == begun[c].told
<1>1. begun[c].id = i
  BY DEF Mixed
<1>2. uploads[i].peer \in Client /\ Works(i, uploads[i], begun[uploads[i].peer], got[uploads[i].peer],
                                        Content(uploads[i].file), repeated)
  BY DEF DeliveryInv, Matched, DeliveryTypes, Upload
<1>3. begun[uploads[i].peer].id = i /\ begun[uploads[i].peer].at \in {"told", "connected"}
  BY <1>2 DEF Works
<1>4. uploads[i].peer = c
  BY <1>1, <1>2, <1>3 DEF DeliveryInv, Distinct, Past
<1>5. uploads[i].at # "waiting"
  BY <1>2, <1>4 DEF Works
<1> QED
  BY <1>1, <1>4, <1>5

LEMMA DeliveryConnect ==
  ASSUME IInv, NEW c \in Client, UNCHANGED receiverVars, Delivered!Connect(c)
  PROVE  DeliveryInv'
<1> DEFINE i == begun[c].told
           Starts == /\ i \in DOMAIN uploads /\ uploads[i].at = "waiting"
                     /\ uploads' = [uploads EXCEPT ![i].at = "read", ![i].peer = c]
                     /\ begun' = [begun EXCEPT ![c].at = "connected"]
                     /\ aborted' = aborted /\ repeated' = repeated
           Misses == /\ i \notin DOMAIN uploads /\ begun[c].at = "told"
                     /\ begun' = [begun EXCEPT ![c].at = "refused"]
                     /\ uploads' = uploads /\ aborted' = aborted /\ repeated' = repeated
           Again == /\ i \in DOMAIN uploads /\ uploads[i].at # "waiting"
                    /\ repeated' = repeated \cup {d \in {c} : begun[c].at = "connected"}
           Restarts == /\ uploads' = [uploads EXCEPT ![i].at = "read", ![i].peer = c, ![i].buf = <<>>]
                       /\ begun' = [begun EXCEPT ![c].at = "connected"]
                       /\ aborted' = aborted
           Aborts == aborted' = TRUE /\ uploads' = <<>> /\ begun' = begun
<1>1. /\ ~aborted /\ begun[c].at \in {"told", "connected"}
      /\ UNCHANGED <<counter, got, broken, copy, result>>
      /\ Starts \/ Misses \/ (Again /\ (Restarts \/ Aborts))
  BY DEF Delivered!Connect, Delivered!Abort, receiverVars
<1>2. ReceiverInv /\ DeliveryInv
  BY DEF IInv
<1>3. /\ counter \in Nat \ {0} /\ DOMAIN uploads \subseteq 1 .. counter - 1
      /\ begun \in [Client -> [at : {"asked", "denied", "opened", "read"} \cup Past,
                               clean : Nat, told : Nat, id : Nat]]
      /\ \A j \in DOMAIN uploads : uploads[j] \in Upload
  BY <1>2 DEF DeliveryInv, DeliveryTypes
<1>4. /\ begun' \in [Client -> [at : {"asked", "denied", "opened", "read"} \cup Past,
                               clean : Nat, told : Nat, id : Nat]]
      /\ begun'[c].at \in Past /\ begun'[c].id = begun[c].id
      /\ begun'[c].told = begun[c].told /\ begun'[c].clean = begun[c].clean
      /\ \A d \in Client : d # c => begun'[d] = begun[d]
  <2>1. CASE begun' = [begun EXCEPT ![c].at = "connected"]
    BY <2>1, <1>3 DEF Past
  <2>2. CASE begun' = [begun EXCEPT ![c].at = "refused"]
    BY <2>2, <1>3 DEF Past
  <2>3. CASE begun' = begun
    BY <2>3, <1>1, <1>3 DEF Past
  <2> QED
    BY <1>1, <2>1, <2>2, <2>3
<1>5. /\ DOMAIN uploads' \subseteq DOMAIN uploads
      /\ \A j \in DOMAIN uploads' : /\ uploads'[j] \in Upload /\ uploads'[j].file = uploads[j].file
                                    /\ uploads'[j].pos = uploads[j].pos
  <2>1. ASSUME NEW u \in Upload, u.file = uploads[i].file, u.pos = uploads[i].pos,
               i \in DOMAIN uploads, uploads' = [uploads EXCEPT ![i] = u]
        PROVE  /\ DOMAIN uploads' \subseteq DOMAIN uploads
               /\ \A j \in DOMAIN uploads' :
                    /\ uploads'[j] \in Upload /\ uploads'[j].file = uploads[j].file
                    /\ uploads'[j].pos = uploads[j].pos
    <3>1. DOMAIN uploads' = DOMAIN uploads /\ uploads'[i] = u
          /\ \A j \in DOMAIN uploads : j # i => uploads'[j] = uploads[j]
      BY <2>1
    <3> QED
      BY <2>1, <3>1, <1>3
  <2>2. CASE Starts
    <3> DEFINE u == [uploads[i] EXCEPT !.at = "read", !.peer = c]
    <3>1. uploads' = [uploads EXCEPT ![i] = u] /\ uploads[i] \in Upload
      BY <2>2, <1>3
    <3>2. u \in Upload /\ u.file = uploads[i].file /\ u.pos = uploads[i].pos
      BY <3>1 DEF Upload
    <3> HIDE DEF u
    <3> QED
      BY <2>1, <2>2, <3>1, <3>2
  <2>3. CASE Again /\ Restarts
    <3> DEFINE u == [uploads[i] EXCEPT !.at = "read", !.peer = c, !.buf = <<>>]
    <3>1. uploads' = [uploads EXCEPT ![i] = u] /\ uploads[i] \in Upload
      BY <2>3, <1>3
    <3>2. u \in Upload /\ u.file = uploads[i].file /\ u.pos = uploads[i].pos
      BY <3>1, EmptySeq DEF Upload
    <3> HIDE DEF u
    <3> QED
      BY <2>1, <2>3, <3>1, <3>2
  <2>4. CASE uploads' = uploads
    BY <2>4, <1>3
  <2>5. CASE uploads' = <<>>
    <3>1. DOMAIN uploads' = {}
      BY <2>5
    <3> QED
      BY <3>1
  <2> QED
    BY <1>1, <2>2, <2>3, <2>4, <2>5
<1>6. DeliveryTypes'
  <2>1. aborted' \in BOOLEAN
    BY <1>1, <1>2 DEF DeliveryInv, DeliveryTypes
  <2>2. repeated' \subseteq Client
    BY <1>1, <1>2 DEF DeliveryInv, DeliveryTypes
  <2> QED
    BY <1>1, <1>2, <1>3, <1>4, <1>5, <2>1, <2>2 DEF DeliveryInv, DeliveryTypes
<1>7. Settled'
  BY <1>1, <1>2, <1>4, <1>5 DEF DeliveryInv, Settled, Content
<1>8. Distinct'
  <2>1. \A d \in Client : begun'[d].id = begun[d].id /\ (begun'[d].at \in Past <=> begun[d].at \in Past)
    BY <1>1, <1>4 DEF Past
  <2> QED
    BY <2>1, <1>1, <1>2 DEF DeliveryInv, Distinct
<1>9. Matched'
  <2> SUFFICES ASSUME ~Mixed' PROVE Matched'
    BY DEF Matched
  <2>1. ~Mixed
    BY <1>1, <1>4, MixedKept DEF Past
  <2>2. \A f : Content(f)' = Content(f)
    BY <1>1 DEF Content
  <2>3. CASE begun[c].at = "told"
    <3>1. i = begun[c].id /\ i \in DOMAIN uploads /\ uploads[i].at = "waiting" /\ uploads[i].peer = c
      BY <1>1, <1>2, <2>1, <2>3, OwnDeliverer
    <3>2. /\ uploads' = [uploads EXCEPT ![i].at = "read", ![i].peer = c]
          /\ begun' = [begun EXCEPT ![c].at = "connected"]
          /\ aborted' = aborted /\ repeated' = repeated
      BY <1>1, <3>1
    <3>3. begun'[c].at = "connected"
      BY <3>2, <1>3
    <3>4. ASSUME NEW j \in DOMAIN uploads'
          PROVE  LET u == uploads'[j] IN
                 /\ u.file = FileOf[u.peer]
                 /\ Works(j, u, begun'[u.peer], got[u.peer], Content(u.file), repeated)
      <4> DEFINE u == uploads[j]
      <4>1. j \in DOMAIN uploads /\ u \in Upload /\ u.peer \in Client
        BY <3>2, <1>3 DEF Upload
      <4>2. /\ u.file = FileOf[u.peer]
            /\ Works(j, u, begun[u.peer], got[u.peer], Content(u.file), repeated)
        BY <4>1, <1>2, <2>1 DEF DeliveryInv, Matched
      <4>3. CASE j = i
        <5>1. uploads'[j] = [u EXCEPT !.at = "read", !.peer = c]
          BY <4>1, <4>3, <3>2
        <5>2. /\ uploads'[j].at = "read" /\ uploads'[j].peer = c /\ uploads'[j].file = u.file
              /\ uploads'[j].pos = u.pos /\ uploads'[j].clean = u.clean /\ u.peer = c
          BY <4>1, <4>3, <5>1, <3>1 DEF Upload
        <5>3. u.pos = 0 /\ got[c] = <<>> /\ u.clean = j
          BY <4>2, <4>3, <3>1 DEF Works
        <5>4. SubSeq(Content(u.file), 1, 0) = <<>>
          BY SubSeqEmpty
        <5> HIDE DEF u, i
        <5> QED
          BY <4>2, <4>3, <5>2, <5>3, <5>4, <3>1, <3>3, <1>4 DEF Works
      <4>4. CASE j # i
        <5>1. uploads'[j] = u
          BY <4>1, <4>4, <3>2
        <5>2. u.peer # c
          BY <4>2, <4>4, <3>1 DEF Works
        <5> HIDE DEF u, i
        <5> QED
          BY <4>1, <4>2, <5>1, <5>2, <1>4
      <4> QED
        BY <4>3, <4>4
    <3>5. ASSUME NEW d \in Client
          PROVE  Fits(d, begun'[d], got[d], Content(FileOf[d]), DOMAIN uploads', broken, repeated, aborted')
      <4>1. Fits(d, begun[d], got[d], Content(FileOf[d]), DOMAIN uploads, broken, repeated, aborted)
        BY <1>2, <2>1 DEF DeliveryInv, Matched
      <4>2. DOMAIN uploads' = DOMAIN uploads
        BY <3>2
      <4>3. CASE d = c
        BY <4>1, <4>2, <4>3, <1>1, <1>4, <3>1, <3>2, <3>3 DEF Fits, Past
      <4>4. CASE d # c
        BY <4>1, <4>2, <4>4, <1>1, <1>4 DEF Fits
      <4> QED
        BY <4>3, <4>4
    <3>6. ~aborted' /\ UNCHANGED <<got, broken, repeated, copy>>
      BY <1>1, <3>2
    <3> QED
      BY <3>4, <3>5, <3>6 DEF Matched, Content
  <2>4. CASE begun[c].at = "connected"
    <3>1. i \in DOMAIN uploads
      BY <1>1, <2>4
    <3>2. i = begun[c].id /\ uploads[i].at # "waiting" /\ uploads[i].peer = c
      BY <1>2, <2>1, <2>4, <3>1, OwnConnection
    <3>3. Again /\ (Restarts \/ Aborts)
      BY <1>1, <2>4, <3>2
    <3>4. repeated' = repeated \cup {c}
      BY <2>4, <3>3
    <3>5. begun' = begun
      BY <1>3, <2>4, <3>3
    <3>6. ASSUME NEW j \in DOMAIN uploads'
          PROVE  LET u == uploads'[j] IN
                 /\ u.file = FileOf[u.peer]
                 /\ Works(j, u, begun[u.peer], got[u.peer], Content(u.file), repeated')
      <4> DEFINE u == uploads[j]
      <4>1. uploads' = [uploads EXCEPT ![i].at = "read", ![i].peer = c, ![i].buf = <<>>]
        <5>1. uploads' # <<>>
          BY <3>6
        <5> QED
          BY <3>3, <5>1
      <4>2. j \in DOMAIN uploads /\ u \in Upload /\ u.peer \in Client
        BY <4>1, <1>3 DEF Upload
      <4>3. /\ u.file = FileOf[u.peer]
            /\ Works(j, u, begun[u.peer], got[u.peer], Content(u.file), repeated)
        BY <4>2, <1>2, <2>1 DEF DeliveryInv, Matched
      <4>4. CASE j = i
        <5>1. uploads'[j] = [u EXCEPT !.at = "read", !.peer = c, !.buf = <<>>]
          BY <4>1, <4>2, <4>4
        <5>2. /\ uploads'[j].at = "read" /\ uploads'[j].peer = c /\ uploads'[j].file = u.file
              /\ uploads'[j].clean = u.clean /\ u.peer = c
          BY <4>2, <4>4, <5>1, <3>2 DEF Upload
        <5> HIDE DEF u, i
        <5> QED
          BY <4>3, <5>2, <3>4, <2>4 DEF Works
      <4>5. CASE j # i
        <5>1. uploads'[j] = u
          BY <4>1, <4>2, <4>5
        <5> HIDE DEF u, i
        <5> QED
          BY <4>3, <5>1, <3>4 DEF Works
      <4> QED
        BY <4>4, <4>5
    <3>7. ASSUME NEW d \in Client
          PROVE  Fits(d, begun[d], got[d], Content(FileOf[d]), DOMAIN uploads', broken, repeated', aborted')
      <4>1. Fits(d, begun[d], got[d], Content(FileOf[d]), DOMAIN uploads, broken, repeated, aborted)
        BY <1>2, <2>1 DEF DeliveryInv, Matched
      <4>2. (DOMAIN uploads' = DOMAIN uploads /\ aborted' = aborted) \/ aborted' = TRUE
        BY <3>3
      <4> HIDE DEF i, Again, Restarts, Aborts, Starts, Misses
      <4> QED
        BY <4>1, <4>2, <3>4 DEF Fits
    <3> QED
      BY <1>1, <2>2, <3>4, <3>5, <3>6, <3>7 DEF Matched
  <2> QED
    BY <1>1, <2>3, <2>4
<1> QED
  BY <1>6, <1>7, <1>8, <1>9 DEF DeliveryInv

(* EndUploadTransaction: a deliverer that cleans up under its own id takes *)
(* only itself out of the table.                                           *)
LEMMA CleanUpEffect ==
  ASSUME DeliveryTypes, NEW i \in DOMAIN uploads, Delivered!CleanUp(i)
  PROVE  /\ begun' = begun /\ aborted' \in BOOLEAN
         /\ DOMAIN uploads' \subseteq DOMAIN uploads
         /\ \A j \in DOMAIN uploads' :
              /\ uploads'[j] \in Upload /\ uploads'[j].file = uploads[j].file
              /\ uploads'[j].pos = uploads[j].pos
         /\ uploads[i].clean = i =>
              /\ aborted' = aborted
              /\ DOMAIN uploads \ {i} \subseteq DOMAIN uploads'
              /\ \A j \in DOMAIN uploads \ {i} : uploads'[j] = uploads[j]
              /\ i \in DOMAIN uploads' => uploads'[i] = [uploads[i] EXCEPT !.at = "over"]
<1> DEFINE over == [uploads EXCEPT ![i].at = "over"]
<1>1. \A j \in DOMAIN uploads : uploads[j] \in Upload
  BY DEF DeliveryTypes
<1>2. /\ DOMAIN over = DOMAIN uploads
      /\ \A j \in DOMAIN uploads \ {i} : over[j] = uploads[j]
      /\ over[i] = [uploads[i] EXCEPT !.at = "over"]
  OBVIOUS
<1>3. /\ over[i] \in Upload /\ over[i].file = uploads[i].file /\ over[i].pos = uploads[i].pos
  BY <1>1, <1>2 DEF Upload
<1>4. \A j \in DOMAIN over : /\ over[j] \in Upload /\ over[j].file = uploads[j].file
                            /\ over[j].pos = uploads[j].pos
  BY <1>1, <1>2, <1>3
<1>5. aborted \in BOOLEAN
  BY DEF DeliveryTypes
<1> HIDE DEF over
<1>6. CASE /\ UNCHANGED <<begun, aborted>>
           /\ uploads' = IF Asserts THEN Delivered!Drop(uploads, i) ELSE over
  <2>1. CASE Asserts
    <3>1. uploads' = [j \in DOMAIN uploads \ {i} |-> uploads[j]]
      BY <1>6, <2>1 DEF Delivered!Drop
    <3> QED
      BY <3>1, <1>1, <1>5, <1>6
  <2>2. CASE ~Asserts
    BY <1>2, <1>4, <1>5, <1>6, <2>2
  <2> QED
    BY <2>1, <2>2
<1>7. CASE /\ uploads[i].clean # i /\ UNCHANGED <<begun, aborted>>
           /\ uploads' = Delivered!Drop(over, uploads[i].clean)
  <2>1. uploads' = [j \in DOMAIN over \ {uploads[i].clean} |-> over[j]]
    BY <1>7 DEF Delivered!Drop
  <2> QED
    BY <2>1, <1>2, <1>4, <1>5, <1>7
<1>8. CASE /\ uploads[i].clean # i /\ aborted' = TRUE /\ uploads' = <<>> /\ begun' = begun
  <2>1. DOMAIN uploads' = {}
    BY <1>8
  <2> QED
    BY <2>1, <1>8
<1> QED
  BY <1>6, <1>7, <1>8 DEF Delivered!CleanUp, Delivered!Abort, over

(* A deliverer takes a step for its client: it goes on with u, or it is    *)
(* over.  For the client's bytes g this has to be right.                   *)
LEMMA DeliveryWork ==
  ASSUME IInv, NEW i \in DOMAIN uploads, NEW g \in Seq(Byte), NEW errs,
         got' = [got EXCEPT ![uploads[i].peer] = g],
         broken' = broken \cup errs,
         UNCHANGED <<counter, begun, repeated, copy, result>>, aborted' \in BOOLEAN,
         DOMAIN uploads' \subseteq DOMAIN uploads,
         \A j \in DOMAIN uploads' :
           /\ uploads'[j] \in Upload /\ uploads'[j].file = uploads[j].file
           /\ uploads'[j].pos <= Len(Content(uploads[j].file)),
         ~Mixed =>
           LET p == uploads[i].peer
               whole == Content(uploads[i].file) IN
           /\ aborted' = aborted /\ uploads[i].at # "waiting"
           /\ DOMAIN uploads \ {i} \subseteq DOMAIN uploads'
           /\ \A j \in DOMAIN uploads \ {i} : uploads'[j] = uploads[j]
           /\ i \in DOMAIN uploads' => /\ uploads'[i].peer = p
                                       /\ Works(i, uploads'[i], begun[p], g, whole, repeated)
           /\ p \notin repeated =>
                /\ Len(g) <= Len(whole) /\ g = SubSeq(whole, 1, Len(g))
                /\ i \notin DOMAIN uploads' /\ p \notin errs => g = whole
  PROVE  DeliveryInv'
<1> DEFINE p == uploads[i].peer
           whole == Content(uploads[i].file)
<1>1. ReceiverInv /\ DeliveryInv
  BY DEF IInv
<1>2. p \in Client /\ got \in [Client -> Seq(Byte)]
  BY <1>1 DEF DeliveryInv, DeliveryTypes, Upload
<1>3. got' \in [Client -> Seq(Byte)] /\ got'[p] = g /\ \A d \in Client : d # p => got'[d] = got[d]
  BY <1>2
<1>4. DeliveryTypes'
  BY <1>1, <1>3 DEF DeliveryInv, DeliveryTypes
<1>5. Settled'
  BY <1>1 DEF DeliveryInv, Settled, Content
<1>6. Distinct'
  BY <1>1 DEF DeliveryInv, Distinct
<1>7. Matched'
  <2> SUFFICES ASSUME ~Mixed' PROVE Matched'
    BY DEF Matched
  <2>1. ~Mixed
    BY DEF Mixed
  <2>2. /\ \A j \in DOMAIN uploads :
             /\ uploads[j].file = FileOf[uploads[j].peer] /\ uploads[j].peer \in Client
             /\ Works(j, uploads[j], begun[uploads[j].peer], got[uploads[j].peer], Content(uploads[j].file), repeated)
        /\ \A c \in Client : Fits(c, begun[c], got[c], Content(FileOf[c]), DOMAIN uploads, broken, repeated, aborted)
    BY <1>1, <2>1 DEF DeliveryInv, DeliveryTypes, Upload, Matched
  <2>3. \A j \in DOMAIN uploads : begun[uploads[j].peer].id = j
    BY <2>2 DEF Works
  <2>4. ASSUME NEW j \in DOMAIN uploads'
        PROVE  LET u == uploads'[j] IN
               u.file = FileOf[u.peer] /\ Works(j, u, begun[u.peer], got'[u.peer], Content(u.file), repeated)
    <3>1. CASE j = i
      <4>1. uploads'[i].peer = p /\ uploads'[i].file = uploads[i].file
        BY <3>1, <2>1
      <4>2. Works(i, uploads'[i], begun[p], g, whole, repeated)
        BY <3>1, <2>1
      <4> HIDE DEF p, whole
      <4> QED
        BY <3>1, <4>1, <4>2, <1>3, <2>2 DEF p, whole
    <3>2. CASE j # i
      <4>1. j \in DOMAIN uploads /\ uploads'[j] = uploads[j]
        BY <3>2, <2>1
      <4>2. uploads[j].peer # p /\ uploads[j].peer \in Client
        BY <3>2, <4>1, <2>2, <2>3
      <4>3. got'[uploads[j].peer] = got[uploads[j].peer]
        BY <4>2, <1>3
      <4> QED
        BY <4>1, <4>3, <2>2
    <3> QED
      BY <3>1, <3>2
  <2>5. ASSUME NEW d \in Client
        PROVE  Fits(d, begun[d], got'[d], Content(FileOf[d]), DOMAIN uploads', broken', repeated', aborted')
    <3>1. Fits(d, begun[d], got[d], Content(FileOf[d]), DOMAIN uploads, broken, repeated, aborted)
      BY <2>2
    <3>2. CASE d = p
      <4>1. /\ begun[d].at = "connected" /\ begun[d].id = i /\ Content(FileOf[d]) = whole
        BY <3>2, <2>1, <2>2 DEF Works
      <4>2. /\ d \notin repeated => Len(g) <= Len(whole) /\ g = SubSeq(whole, 1, Len(g))
            /\ got'[d] = g
        BY <3>2, <2>1, <1>3
      <4>3. d \notin repeated /\ i \notin DOMAIN uploads' /\ d \notin broken' => g = whole
        BY <3>2, <2>1
      <4> HIDE DEF whole
      <4> QED
        BY <4>1, <4>2, <4>3 DEF Fits, Past
    <3>3. CASE d # p
      <4>1. got'[d] = got[d]
        BY <3>3, <1>3
      <4>2. CASE begun[d].at \in Past
        <5>1. begun[d].id # i
          <6>1. begun[p].at \in Past /\ begun[p].id = i
            BY <2>2 DEF Works, Past
          <6> QED
            BY <6>1, <4>2, <3>3, <1>1, <1>2 DEF DeliveryInv, Distinct
        <5>2. begun[d].id \in DOMAIN uploads <=> begun[d].id \in DOMAIN uploads'
          BY <5>1, <2>1
        <5>3. broken \subseteq broken'
          OBVIOUS
        <5>4. aborted' = aborted /\ repeated' = repeated
          BY <2>1
        <5> QED
          BY <3>1, <4>1, <5>2, <5>3, <5>4 DEF Fits
      <4>3. CASE begun[d].at \notin Past
        BY <3>1, <4>1, <4>3 DEF Fits, Past
      <4> QED
        BY <4>2, <4>3
    <3> QED
      BY <3>2, <3>3
  <2>6. aborted' = aborted /\ (aborted => repeated # {})
    BY <1>1, <2>1 DEF DeliveryInv, Matched
  <2> QED
    BY <2>4, <2>5, <2>6 DEF Matched, Content
<1> QED
  BY <1>4, <1>5, <1>6, <1>7 DEF DeliveryInv

LEMMA DeliveryError ==
  ASSUME IInv, NEW i \in DOMAIN uploads, UNCHANGED receiverVars, Delivered!DeliveryError(i)
  PROVE  DeliveryInv'
<1> DEFINE p == uploads[i].peer
           whole == Content(uploads[i].file)
           g == got[p]
<1>1. ReceiverInv /\ DeliveryInv /\ DeliveryTypes /\ uploads[i] \in Upload
  BY DEF IInv, DeliveryInv, DeliveryTypes
<1>2. /\ uploads[i].at \in {"read", "write"} /\ broken' = broken \cup {p}
      /\ Delivered!CleanUp(i) /\ UNCHANGED <<counter, got, repeated, copy, result>>
  BY DEF Delivered!DeliveryError, receiverVars
<1>3. p \in Client /\ g \in Seq(Byte) /\ got' = [got EXCEPT ![p] = g]
  BY <1>1, <1>2 DEF DeliveryTypes, Upload
<1>4. /\ begun' = begun /\ aborted' \in BOOLEAN
      /\ DOMAIN uploads' \subseteq DOMAIN uploads
      /\ \A j \in DOMAIN uploads' :
           /\ uploads'[j] \in Upload /\ uploads'[j].file = uploads[j].file
           /\ uploads'[j].pos = uploads[j].pos
      /\ uploads[i].clean = i =>
           /\ aborted' = aborted
           /\ DOMAIN uploads \ {i} \subseteq DOMAIN uploads'
           /\ \A j \in DOMAIN uploads \ {i} : uploads'[j] = uploads[j]
           /\ i \in DOMAIN uploads' => uploads'[i] = [uploads[i] EXCEPT !.at = "over"]
  BY <1>1, <1>2, CleanUpEffect
<1>5. \A j \in DOMAIN uploads' : uploads'[j].pos <= Len(Content(uploads[j].file))
  BY <1>1, <1>4 DEF DeliveryInv, Settled
<1>6. ASSUME ~Mixed
      PROVE  /\ aborted' = aborted /\ uploads[i].at # "waiting"
             /\ DOMAIN uploads \ {i} \subseteq DOMAIN uploads'
             /\ \A j \in DOMAIN uploads \ {i} : uploads'[j] = uploads[j]
             /\ i \in DOMAIN uploads' => /\ uploads'[i].peer = p
                                         /\ Works(i, uploads'[i], begun[p], g, whole, repeated)
             /\ p \notin repeated => Len(g) <= Len(whole) /\ g = SubSeq(whole, 1, Len(g))
  <2>1. /\ uploads[i].file = FileOf[p]
        /\ Works(i, uploads[i], begun[p], g, whole, repeated)
        /\ Fits(p, begun[p], g, Content(FileOf[p]), DOMAIN uploads, broken, repeated, aborted)
    BY <1>1, <1>3, <1>6 DEF DeliveryInv, Matched
  <2>2. uploads[i].clean = i
    BY <2>1 DEF Works
  <2>3. p \notin repeated => Len(g) <= Len(whole) /\ g = SubSeq(whole, 1, Len(g))
    BY <2>1 DEF Fits
  <2>4. ASSUME i \in DOMAIN uploads'
        PROVE  uploads'[i].peer = p /\ Works(i, uploads'[i], begun[p], g, whole, repeated)
    <3>1. uploads'[i] = [uploads[i] EXCEPT !.at = "over"]
      BY <1>4, <2>2, <2>4
    <3>2. uploads'[i].at = "over" /\ uploads'[i].peer = p /\ uploads'[i].clean = i
      BY <1>1, <2>2, <3>1 DEF Upload
    <3> HIDE DEF p, whole
    <3> QED
      BY <1>2, <2>1, <3>2 DEF Works
  <2> QED
    BY <1>2, <1>4, <2>1, <2>2, <2>3, <2>4
<1> HIDE DEF whole, g
<1>7. UNCHANGED <<counter, begun, repeated, copy, result>> /\ broken' = broken \cup {p}
  BY <1>2, <1>4
<1> QED
  BY <1>3, <1>4, <1>5, <1>6, <1>7, DeliveryWork DEF whole

LEMMA DeliveryRead ==
  ASSUME IInv, NEW i \in DOMAIN uploads, UNCHANGED receiverVars, Delivered!HandleRead(i)
  PROVE  DeliveryInv'
<1> DEFINE u == uploads[i]
           p == u.peer
           whole == Content(u.file)
           last == Len(whole) - u.pos < BlockSize
           g == got[p]
           n == IF last THEN Len(whole) - u.pos ELSE BlockSize
<1>1. ReceiverInv /\ DeliveryInv /\ DeliveryTypes /\ u \in Upload
  BY DEF IInv, DeliveryInv, DeliveryTypes
<1>2. u.file \in File /\ p \in Client /\ u.pos \in Nat
  BY <1>1 DEF Upload
<1>3. whole \in Seq(Byte) /\ Len(whole) \in Nat /\ u.pos <= Len(whole)
      /\ [f \in File |-> IF f = Fresh THEN copy ELSE Stored][u.file] = whole
  BY <1>1, <1>2, ContentType DEF DeliveryInv, Settled
<1>4. /\ u.at = "read" /\ UNCHANGED <<counter, got, broken, repeated, copy, result>>
      /\ \/ /\ n > 0
            /\ uploads' = [uploads EXCEPT ![i] =
                 [u EXCEPT !.at = "write", !.pos = u.pos + n, !.done = last,
                           !.buf = SubSeq(whole, u.pos + 1, u.pos + n)]]
            /\ UNCHANGED <<begun, aborted>>
         \/ n = 0 /\ Delivered!CleanUp(i)
  BY <1>3 DEF Delivered!HandleRead, Delivered!Last, Delivered!Remaining, receiverVars
<1>5. n \in Nat /\ u.pos + n \in u.pos .. Len(whole) /\ (n = 0 \/ last => u.pos + n = Len(whole))
  <2>1. BlockSize \in Nat \ {0}
    BY SizesAssumption
  <2> QED
    BY <1>2, <1>3, <2>1
<1>6. g \in Seq(Byte) /\ got' = [got EXCEPT ![p] = g] /\ broken' = broken \cup {}
  BY <1>1, <1>2, <1>4 DEF DeliveryTypes
<1>7. ASSUME ~Mixed
      PROVE  /\ Works(i, u, begun[p], g, whole, repeated) /\ u.clean = i
             /\ p \notin repeated =>
                  /\ Len(g) <= Len(whole) /\ g = SubSeq(whole, 1, Len(g))
                  /\ g = SubSeq(whole, 1, u.pos)
  <2>1. /\ u.file = FileOf[p]
        /\ Works(i, u, begun[p], g, whole, repeated)
        /\ Fits(p, begun[p], g, Content(FileOf[p]), DOMAIN uploads, broken, repeated, aborted)
    BY <1>1, <1>2, <1>7 DEF DeliveryInv, Matched
  <2> QED
    BY <1>4, <2>1 DEF Works, Fits
<1> HIDE DEF n, whole, last, g
<1>8. CASE n = 0 /\ Delivered!CleanUp(i)
  <2>1. /\ begun' = begun /\ aborted' \in BOOLEAN
        /\ DOMAIN uploads' \subseteq DOMAIN uploads
        /\ \A j \in DOMAIN uploads' :
             /\ uploads'[j] \in Upload /\ uploads'[j].file = uploads[j].file
             /\ uploads'[j].pos = uploads[j].pos
        /\ u.clean = i =>
             /\ aborted' = aborted
             /\ DOMAIN uploads \ {i} \subseteq DOMAIN uploads'
             /\ \A j \in DOMAIN uploads \ {i} : uploads'[j] = uploads[j]
             /\ i \in DOMAIN uploads' => uploads'[i] = [u EXCEPT !.at = "over"]
    BY <1>1, <1>8, CleanUpEffect
  <2>2. \A j \in DOMAIN uploads' : uploads'[j].pos <= Len(Content(uploads[j].file))
    BY <1>1, <2>1 DEF DeliveryInv, Settled
  <2>3. ASSUME ~Mixed, p \notin repeated PROVE g = whole
    <3>1. u.pos = Len(whole)
      BY <1>2, <1>5, <1>8
    <3> QED
      BY <1>3, <1>7, <2>3, <3>1, SubSeqFull
  <2>4. ASSUME ~Mixed, i \in DOMAIN uploads'
        PROVE  uploads'[i].peer = p /\ Works(i, uploads'[i], begun[p], g, whole, repeated)
    <3>1. uploads'[i] = [u EXCEPT !.at = "over"]
      BY <1>7, <2>1, <2>4
    <3>2. uploads'[i].at = "over" /\ uploads'[i].peer = p /\ uploads'[i].clean = i
      BY <1>1, <1>7, <2>4, <3>1 DEF Upload
    <3>3. Works(i, u, begun[p], g, whole, repeated)
      BY <1>7, <2>4
    <3> HIDE DEF u, p
    <3> QED
      BY <1>4, <3>2, <3>3 DEF Works
  <2>5. UNCHANGED <<counter, begun, repeated, copy, result>> /\ u.at # "waiting"
    BY <1>4, <2>1
  <2> QED
    BY <1>6, <1>7, <2>1, <2>2, <2>3, <2>4, <2>5, DeliveryWork DEF whole
<1>9. CASE /\ uploads' = [uploads EXCEPT ![i] =
                [u EXCEPT !.at = "write", !.pos = u.pos + n, !.done = last,
                          !.buf = SubSeq(whole, u.pos + 1, u.pos + n)]]
           /\ UNCHANGED <<begun, aborted>>
  <2>1. SubSeq(whole, u.pos + 1, u.pos + n) \in Seq(Byte)
    <3>1. u.pos \in 0 .. Len(whole)
      BY <1>2, <1>3
    <3> QED
      BY <3>1, <1>3, <1>5, Piece
  <2>2. DOMAIN uploads' = DOMAIN uploads /\ \A j \in DOMAIN uploads \ {i} : uploads'[j] = uploads[j]
    BY <1>9
  <2>3. last \in BOOLEAN
    BY DEF last
  <2>4. uploads'[i] = [u EXCEPT !.at = "write", !.pos = u.pos + n, !.done = last,
                                !.buf = SubSeq(whole, u.pos + 1, u.pos + n)]
    BY <1>9
  <2>5. /\ uploads'[i] \in Upload /\ uploads'[i].file = u.file /\ uploads'[i].peer = p
        /\ uploads'[i].at = "write" /\ uploads'[i].pos = u.pos + n /\ uploads'[i].clean = u.clean
        /\ uploads'[i].done = last /\ uploads'[i].buf = SubSeq(whole, u.pos + 1, u.pos + n)
    <3>1. u.pos + n \in Nat /\ "write" \in {"waiting", "read", "write", "over"}
      BY <1>2, <1>5
    <3> HIDE DEF u, p
    <3> QED
      BY <3>1, <1>1, <2>1, <2>3, <2>4 DEF Upload, p
  <2>6. \A j \in DOMAIN uploads' :
          /\ uploads'[j] \in Upload /\ uploads'[j].file = uploads[j].file
          /\ uploads'[j].pos <= Len(Content(uploads[j].file))
    <3> TAKE j \in DOMAIN uploads'
    <3>1. CASE j = i
      <4>1. u.pos + n <= Len(whole)
        BY <1>2, <1>3, <1>5
      <4> QED
        BY <3>1, <2>5, <4>1 DEF whole
    <3>2. CASE j # i
      BY <3>2, <1>1, <2>2 DEF DeliveryInv, DeliveryTypes, Settled
    <3> QED
      BY <3>1, <3>2
  <2>7. ASSUME ~Mixed PROVE Works(i, uploads'[i], begun[p], g, whole, repeated)
    <3>1. ASSUME p \notin repeated
          PROVE  g \o SubSeq(whole, u.pos + 1, u.pos + n) = SubSeq(whole, 1, u.pos + n)
      <4>1. u.pos \in 0 .. Len(whole) /\ u.pos + n \in u.pos .. Len(whole) /\ whole \in Seq(Byte)
        BY <1>2, <1>3, <1>5
      <4>2. SubSeq(whole, 1, u.pos) \o SubSeq(whole, u.pos + 1, u.pos + n) = SubSeq(whole, 1, u.pos + n)
        BY <4>1, FirstPiece
      <4>3. g = SubSeq(whole, 1, u.pos)
        BY <1>7, <2>7, <3>1
      <4> QED
        BY <4>2, <4>3
    <3>2. Works(i, u, begun[p], g, whole, repeated)
      BY <1>7, <2>7
    <3> HIDE DEF u, p
    <3> QED
      BY <3>1, <3>2, <1>4, <1>5, <2>5 DEF Works
  <2>8. aborted' \in BOOLEAN
    BY <1>1, <1>9 DEF DeliveryTypes
  <2>9. UNCHANGED <<counter, begun, repeated, copy, result>> /\ u.at # "waiting" /\ aborted' = aborted
    BY <1>4, <1>9
  <2> QED
    BY <1>6, <1>7, <2>2, <2>5, <2>6, <2>7, <2>8, <2>9, DeliveryWork DEF whole
<1> QED
  BY <1>4, <1>8, <1>9

LEMMA DeliveryWrite ==
  ASSUME IInv, NEW i \in DOMAIN uploads, UNCHANGED receiverVars, Delivered!HandleWrite(i)
  PROVE  DeliveryInv'
<1> DEFINE u == uploads[i]
           p == u.peer
           whole == Content(u.file)
           g == got[p] \o u.buf
<1>1. ReceiverInv /\ DeliveryInv /\ DeliveryTypes /\ u \in Upload
  BY DEF IInv, DeliveryInv, DeliveryTypes
<1>2. u.file \in File /\ p \in Client /\ u.pos \in Nat /\ u.buf \in Seq(Byte) /\ got[p] \in Seq(Byte)
  BY <1>1 DEF Upload, DeliveryTypes
<1>3. whole \in Seq(Byte) /\ Len(whole) \in Nat /\ u.pos <= Len(whole)
  BY <1>1, <1>2, ContentType DEF DeliveryInv, Settled
<1>4. /\ u.at = "write" /\ UNCHANGED <<counter, broken, repeated, copy, result>>
      /\ got' = [got EXCEPT ![p] = g]
      /\ \/ u.done /\ Delivered!CleanUp(i)
         \/ /\ ~u.done
            /\ uploads' = [uploads EXCEPT ![i].at = "read", ![i].buf = <<>>]
            /\ UNCHANGED <<begun, aborted>>
  BY <1>2 DEF Delivered!HandleWrite, receiverVars
<1>5. g \in Seq(Byte) /\ broken' = broken \cup {}
  BY <1>2, <1>4, ConcatProperties
<1>6. ASSUME ~Mixed
      PROVE  /\ Works(i, u, begun[p], got[p], whole, repeated) /\ u.clean = i
             /\ p \notin repeated =>
                  /\ Len(g) <= Len(whole) /\ g = SubSeq(whole, 1, Len(g))
                  /\ g = SubSeq(whole, 1, u.pos) /\ (u.done => g = whole)
  <2>1. Works(i, u, begun[p], got[p], whole, repeated)
    BY <1>1, <1>2, <1>6 DEF DeliveryInv, Matched
  <2> SUFFICES ASSUME p \notin repeated
               PROVE  /\ Len(g) <= Len(whole) /\ g = SubSeq(whole, 1, Len(g))
                      /\ g = SubSeq(whole, 1, u.pos) /\ (u.done => g = whole)
    BY <2>1 DEF Works
  <2>2. g = SubSeq(whole, 1, u.pos) /\ (u.done => u.pos = Len(whole))
    <3> HIDE DEF u, whole
    <3> QED
      BY <1>4, <2>1 DEF Works, p
  <2>3. Len(SubSeq(whole, 1, u.pos)) = u.pos
    <3>1. u.pos \in 0 .. Len(whole) /\ u.pos \in u.pos .. Len(whole)
      BY <1>2, <1>3
    <3> QED
      BY <3>1, <1>3, FirstPiece
  <2>4. Len(g) = u.pos /\ g = SubSeq(whole, 1, u.pos)
    <3> HIDE DEF g
    <3> QED
      BY <1>2, <2>2, <2>3
  <2>5. u.done => g = whole
    BY <1>3, <2>2, <2>4, SubSeqFull
  <2> HIDE DEF g
  <2> QED
    BY <1>3, <2>1, <2>2, <2>4, <2>5
<1> HIDE DEF g, whole
<1>7. CASE u.done /\ Delivered!CleanUp(i)
  <2>1. /\ begun' = begun /\ aborted' \in BOOLEAN
        /\ DOMAIN uploads' \subseteq DOMAIN uploads
        /\ \A j \in DOMAIN uploads' :
             /\ uploads'[j] \in Upload /\ uploads'[j].file = uploads[j].file
             /\ uploads'[j].pos = uploads[j].pos
        /\ u.clean = i =>
             /\ aborted' = aborted
             /\ DOMAIN uploads \ {i} \subseteq DOMAIN uploads'
             /\ \A j \in DOMAIN uploads \ {i} : uploads'[j] = uploads[j]
             /\ i \in DOMAIN uploads' => uploads'[i] = [u EXCEPT !.at = "over"]
    BY <1>1, <1>7, CleanUpEffect
  <2>2. \A j \in DOMAIN uploads' : uploads'[j].pos <= Len(Content(uploads[j].file))
    BY <1>1, <2>1 DEF DeliveryInv, Settled
  <2>3. ASSUME ~Mixed, i \in DOMAIN uploads'
        PROVE  uploads'[i].peer = p /\ Works(i, uploads'[i], begun[p], g, whole, repeated)
    <3>1. uploads'[i] = [u EXCEPT !.at = "over"]
      BY <1>6, <2>1, <2>3
    <3>2. uploads'[i].at = "over" /\ uploads'[i].peer = p /\ uploads'[i].clean = i
      BY <1>1, <1>6, <2>3, <3>1 DEF Upload
    <3>3. Works(i, u, begun[p], got[p], whole, repeated)
      BY <1>6, <2>3
    <3> HIDE DEF u, p
    <3> QED
      BY <1>4, <3>2, <3>3 DEF Works
  <2> QED
    BY <1>4, <1>5, <1>6, <1>7, <2>1, <2>2, <2>3, DeliveryWork DEF whole
<1>8. CASE /\ uploads' = [uploads EXCEPT ![i].at = "read", ![i].buf = <<>>]
           /\ UNCHANGED <<begun, aborted>>
  <2>1. DOMAIN uploads' = DOMAIN uploads /\ \A j \in DOMAIN uploads \ {i} : uploads'[j] = uploads[j]
    BY <1>8
  <2>2. uploads'[i] = [u EXCEPT !.at = "read", !.buf = <<>>]
    BY <1>8
  <2>3. /\ uploads'[i] \in Upload /\ uploads'[i].file = u.file /\ uploads'[i].peer = p
        /\ uploads'[i].at = "read" /\ uploads'[i].pos = u.pos /\ uploads'[i].clean = u.clean
    <3>1. <<>> \in Seq(Byte) /\ "read" \in {"waiting", "read", "write", "over"}
      BY EmptySeq
    <3> HIDE DEF u, p
    <3> QED
      BY <3>1, <1>1, <2>2 DEF Upload, p
  <2>4. \A j \in DOMAIN uploads' :
          /\ uploads'[j] \in Upload /\ uploads'[j].file = uploads[j].file
          /\ uploads'[j].pos <= Len(Content(uploads[j].file))
    BY <1>1, <2>1, <2>3 DEF DeliveryInv, DeliveryTypes, Settled
  <2>5. ASSUME ~Mixed PROVE Works(i, uploads'[i], begun[p], g, whole, repeated)
    <3>1. /\ Works(i, u, begun[p], got[p], whole, repeated)
          /\ p \notin repeated => g = SubSeq(whole, 1, u.pos)
      BY <1>6, <2>5
    <3> HIDE DEF u, p
    <3> QED
      BY <3>1, <1>4, <2>3 DEF Works
  <2>6. aborted' \in BOOLEAN
    BY <1>1, <1>8 DEF DeliveryTypes
  <2> QED
    BY <1>4, <1>5, <1>6, <1>8, <2>1, <2>3, <2>4, <2>5, <2>6, DeliveryWork DEF whole
<1> QED
  BY <1>4, <1>7, <1>8

----------------------------------------------------------------------------
(* The theorems.                                                           *)

LEMMA InductiveInit == Init => IInv
  BY ReceiverInit, DeliveryInit DEF Init, IInv

LEMMA InductiveStep == IInv /\ [Next]_vars => IInv'
<1> SUFFICES ASSUME IInv, [Next]_vars PROVE IInv'
  OBVIOUS
<1>1. ReceiverInv /\ DeliveryInv
  BY DEF IInv
<1>2. ASSUME UNCHANGED receiverVars PROVE ReceiverInv'
  BY <1>1, <1>2 DEF receiverVars, ReceiverInv, ReceiverTypes, InTransit, HasRead, Finished
<1>3. CASE Receiving \/ OwnerSends
  BY <1>1, <1>3, ReceiverStep, DeliveryFrame DEF IInv
<1>4. ASSUME NEW c \in Client, Beginning(c) PROVE IInv'
  <2>1. UNCHANGED receiverVars /\ ~aborted
    BY <1>4 DEF Beginning, Delivered!Begin
  <2>2. CASE Delivered!OpenLocalFile(c) \/ Delivered!ReadTransactionID(c)
    BY <1>2, <2>1, <2>2, DeliveryOpen DEF IInv
  <2>3. CASE Delivered!EmplaceUpload(c)
    BY <1>2, <2>1, <2>3, DeliveryEmplace DEF IInv
  <2> QED
    BY <1>4, <2>2, <2>3 DEF Beginning, Delivered!Begin
<1>5. ASSUME NEW c \in Client, Connecting(c) PROVE IInv'
  BY <1>2, <1>5, DeliveryConnect DEF Connecting, IInv
<1>6. ASSUME NEW i \in DOMAIN uploads, Delivering(i) PROVE IInv'
  BY <1>2, <1>6, DeliveryRead, DeliveryWrite DEF Delivering, Delivered!DeliverBlock, IInv
<1>7. ASSUME NEW i \in DOMAIN uploads, Failing(i) PROVE IInv'
  BY <1>2, <1>7, DeliveryError DEF Failing, IInv
<1>8. CASE UNCHANGED vars
  <2>1. UNCHANGED receiverVars
        /\ UNCHANGED <<counter, begun, uploads, got, broken, repeated, aborted, copy, result>>
    BY <1>8 DEF vars, receiverVars, uploadVars
  <2>2. DeliveryTypes' /\ Distinct'
    BY <1>1, <2>1 DEF DeliveryInv, DeliveryTypes, Distinct
  <2>3. Settled' /\ Matched'
    BY <1>1, <2>1 DEF DeliveryInv, Settled, Matched, Mixed, Content
  <2> QED
    BY <1>2, <2>1, <2>2, <2>3 DEF IInv, DeliveryInv
<1> QED
  BY <1>3, <1>4, <1>5, <1>6, <1>7, <1>8 DEF Next

LEMMA Inductive == Spec => []IInv
  BY InductiveInit, InductiveStep, PTL DEF Spec

(* The state has its types; in particular no deliverer reads beyond the    *)
(* end of a local copy, and a receiver has reported exactly when it is     *)
(* through.                                                                *)
THEOREM TypesHold == Spec => []TypeOK
<1>1. IInv => TypeOK
  <2> SUFFICES ASSUME IInv PROVE TypeOK
    OBVIOUS
  <2>1. ReceiverTypes /\ DeliveryTypes /\ Settled
    BY DEF IInv, ReceiverInv, DeliveryInv
  <2>2. \A i \in DOMAIN uploads : /\ uploads[i].peer \in Client
                                 /\ uploads[i].at \in {"waiting", "read", "write", "over"}
                                 /\ uploads[i].pos \in 0 .. Len(Content(uploads[i].file))
    <3> TAKE i \in DOMAIN uploads
    <3>1. uploads[i] \in Upload /\ uploads[i].pos <= Len(Content(uploads[i].file))
      BY <2>1 DEF DeliveryTypes, Settled
    <3>2. Len(Content(uploads[i].file)) \in Nat
      BY <3>1, ContentType DEF IInv, Upload
    <3> QED
      BY <3>1, <3>2 DEF Upload
  <2>3. rcv.at \in Positions /\ \A c \in Client :
          begun[c].at \in {"asked", "denied", "opened", "read"} \cup Past
    BY <2>1 DEF ReceiverTypes, DeliveryTypes
  <2>4. repeated \subseteq Client
    BY <2>1 DEF DeliveryTypes
  <2> QED
    BY <2>1, <2>2, <2>3, <2>4 DEF TypeOK, ReceiverTypes, Positions, Past
<1> QED
  BY <1>1, Inductive, PTL

(* A client has the beginning of the local copy of the file it asked for,  *)
(* and all of it when its delivery ended without an error; a copy that is  *)
(* reported as good is the announced part of the owner's file.  For files  *)
(* and buffers of every size, every compression and every interleaving in  *)
(* which no two uploads began at once, for the clients that say hello once *)
(* (the others disturb their own delivery only).                           *)
THEOREM TransferIsEndToEnd == Spec => []EndToEnd
<1>1. IInv => EndToEnd
  <2> SUFFICES ASSUME IInv PROVE EndToEnd
    OBVIOUS
  <2>1. ReceiverInv /\ Matched
    BY DEF IInv, DeliveryInv
  <2>2. ASSUME ~Mixed, NEW c \in Client \ repeated
        PROVE  LET whole == Content(FileOf[c]) IN
               /\ Len(got[c]) <= Len(whole) /\ got[c] = SubSeq(whole, 1, Len(got[c]))
               /\ Served(c) => got[c] = whole
    <3>1. Fits(c, begun[c], got[c], Content(FileOf[c]), DOMAIN uploads, broken, repeated, aborted)
      BY <2>1, <2>2 DEF Matched
    <3>2. begun[c].at = "connected" => begun[c].id = begun[c].told
      BY <2>2 DEF Mixed
    <3> QED
      BY <3>1, <3>2 DEF Fits, Served
  <2>3. ASSUME result = "ok"
        PROVE  /\ FileSize <= Len(source) /\ FileSize <= Len(copy)
               /\ SubSeq(copy, 1, FileSize) = SubSeq(source, 1, FileSize)
    <3>1. rcv.at = "done"
      BY <2>1, <2>3 DEF ReceiverInv, ReceiverTypes
    <3>2. /\ rcv.written = FileSize /\ rcv.written <= Len(copy)
          /\ SubSeq(copy, 1, rcv.written) = SubSeq(source, 1, rcv.written)
      BY <2>1, <2>3, <3>1 DEF ReceiverInv, Finished
    <3>3. rcv.written <= Len(source)
      BY <2>1, ReceiverNumbers
    <3> QED
      BY <3>2, <3>3
  <2> QED
    BY <2>2, <2>3 DEF EndToEnd
<1> QED
  BY <1>1, Inductive, PTL

(* A file that arrives as it was announced is accepted, whatever its size  *)
(* and however the owner cut it into chunks.                               *)
THEOREM CompleteFilesAccepted == Spec => []Accepted
<1>1. IInv => Accepted
  BY DEF IInv, ReceiverInv, ReceiverTypes, Finished, Accepted
<1> QED
  BY <1>1, Inductive, PTL

(* As long as no two uploads begin at once and no client says hello again  *)
(* for an upload under way, the assertion of the clean-up handler holds    *)
(* and no deliverer is destroyed, or loses its connection, at work.        *)
THEOREM CleanUpIsSafe == Spec => []CleanUpSafe
<1>1. IInv => CleanUpSafe
  BY DEF IInv, DeliveryInv, Matched, CleanUpSafe
<1> QED
  BY <1>1, Inductive, PTL
=============================================================================
