---------------------------- MODULE StreamProofs ----------------------------
(***************************************************************************)
(* Theorems about Stream, for any limits up to those of the code, any      *)
(* sizes of messages and buffers, and any short reads, fragments, control  *)
(* frames, cuts and kills.                                                 *)
(***************************************************************************)
EXTENDS Stream, FoldProofs

-----------------------------------------------------------------------------
(* Lengths                                                                 *)

(* The folds of Number over the first bytes of a length.                   *)
Numbers(ds) ==
  LET numbers[s \in SUBSET DOMAIN ds] ==
        IF s = {} THEN 0 ELSE 256 * numbers[s \ {Max(s)}] + ds[Max(s)]
  IN  numbers

LEMMA NumberIsFold ==
  ASSUME NEW w \in Nat, NEW ds \in [1 .. w -> Nat]
  PROVE  \E v : /\ v[0] = 0 /\ v[w] = Number(ds)
                /\ \A k \in 1 .. w : v[k] = 256 * v[k - 1] + ds[k]
<1> DEFINE step == [p \in Nat \X (1 .. w) |-> 256 * p[1] + ds[p[2]]]
<1>1. DOMAIN ds = 1 .. w /\ 0 \in Nat
  OBVIOUS
<1>2. Number(ds) = Numbers(ds)[1 .. w]
  <2>1. Number(ds) = Numbers(ds)[DOMAIN ds]
    BY DEF Number, Numbers, FoldLeft, MapThenFoldSet
  <2> QED
    BY <1>1, <2>1
<1>3. step \in [Nat \X (1 .. w) -> Nat]
  OBVIOUS
<1>4. \A v \in Nat, i \in 1 .. w : step[<<v, i>>] = 256 * v + ds[i]
  OBVIOUS
<1> HIDE DEF step
<1>5. PICK g : FoldsTo(g, w, Nat, 0, step)
  BY <1>1, <1>3, FoldIsDefined
<1>6. g \in [SUBSET DOMAIN ds -> Nat]
  BY <1>1, <1>5 DEF FoldsTo
<1>7. ASSUME NEW s \in SUBSET DOMAIN ds
      PROVE  g[s] = IF s = {} THEN 0 ELSE 256 * g[s \ {Max(s)}] + ds[Max(s)]
  <2>1. CASE s = {}
    BY <1>1, <1>5, <2>1 DEF FoldsTo
  <2>2. CASE s # {}
    <3>1. g[s] = step[<<g[s \ {Max(s)}], Max(s)>>]
      BY <1>1, <1>5, <2>2 DEF FoldsTo
    <3>2. Max(s) \in 1 .. w
      BY <1>1, <2>2, MaxIsGreatest
    <3>3. g[s \ {Max(s)}] \in Nat
      BY <1>6
    <3> QED
      BY <1>4, <2>2, <3>1, <3>2, <3>3, ZenonT(60)
  <2> QED
    BY <2>1, <2>2
<1>8. g = [s \in SUBSET DOMAIN ds |->
            IF s = {} THEN 0 ELSE 256 * g[s \ {Max(s)}] + ds[Max(s)]]
  BY <1>6, <1>7
<1>9. Numbers(ds) = [s \in SUBSET DOMAIN ds |->
                      IF s = {} THEN 0
                      ELSE 256 * Numbers(ds)[s \ {Max(s)}] + ds[Max(s)]]
  BY <1>8, ZenonT(60) DEF Numbers
<1>10. Numbers(ds)[1 .. 0] = 0
  <2>1. 1 .. 0 = {} /\ {} \in SUBSET DOMAIN ds
    OBVIOUS
  <2> QED
    BY <1>9, <2>1
<1>11. ASSUME NEW k \in 1 .. w
       PROVE  Numbers(ds)[1 .. k] = 256 * Numbers(ds)[1 .. k - 1] + ds[k]
  <2>1. PICK j \in Nat : j = k - 1 /\ k = j + 1
    OBVIOUS
  <2>2. PICK s \in SUBSET DOMAIN ds : s = 1 .. k
    BY <1>1
  <2>3. s # {} /\ Max(s) = k /\ s \ {k} = 1 .. k - 1
    BY <2>1, <2>2, MaxOfInterval
  <2>4. Numbers(ds)[s] = 256 * Numbers(ds)[s \ {Max(s)}] + ds[Max(s)]
    BY <1>9, <2>3
  <2> QED
    BY <2>2, <2>3, <2>4, ZenonT(60)
<1> DEFINE v == [k \in 0 .. w |-> Numbers(ds)[1 .. k]]
<1>12. /\ v[0] = 0 /\ v[w] = Number(ds)
       /\ \A k \in 1 .. w : v[k] = 256 * v[k - 1] + ds[k]
  <2>1. 0 \in 0 .. w /\ w \in 0 .. w /\ \A k \in 1 .. w : k \in 0 .. w /\ k - 1 \in 0 .. w
    OBVIOUS
  <2>2. \A k \in 0 .. w : v[k] = Numbers(ds)[1 .. k]
    OBVIOUS
  <2> HIDE DEF v
  <2>3. v[0] = 0 /\ v[w] = Number(ds)
    BY <1>2, <1>10, <2>1, <2>2
  <2>4. ASSUME NEW k \in 1 .. w PROVE v[k] = 256 * v[k - 1] + ds[k]
    <3>1. v[k] = Numbers(ds)[1 .. k] /\ v[k - 1] = Numbers(ds)[1 .. k - 1]
      BY <2>1, <2>2
    <3> QED
      BY <1>11, <3>1
  <2> QED
    BY <2>3, <2>4
<1> HIDE DEF v
<1> QED
  BY <1>12

LEMMA NumberOfTwo ==
  ASSUME NEW ds \in [1 .. 2 -> Nat]
  PROVE  Number(ds) = 256 * ds[1] + ds[2]
<1>1. PICK v : /\ v[0] = 0 /\ v[2] = Number(ds)
               /\ \A k \in 1 .. 2 : v[k] = 256 * v[k - 1] + ds[k]
  <2>1. 2 \in Nat
    OBVIOUS
  <2> QED
    BY <2>1, NumberIsFold, ZenonT(60)
<1>2. v[1] = 256 * v[0] + ds[1] /\ v[2] = 256 * v[1] + ds[2]
  BY <1>1
<1> QED
  BY <1>1, <1>2

LEMMA NumberOfFour ==
  ASSUME NEW ds \in [1 .. 4 -> Nat]
  PROVE  Number(ds) = 256 * (256 * (256 * ds[1] + ds[2]) + ds[3]) + ds[4]
<1>1. PICK v : /\ v[0] = 0 /\ v[4] = Number(ds)
               /\ \A k \in 1 .. 4 : v[k] = 256 * v[k - 1] + ds[k]
  <2>1. 4 \in Nat
    OBVIOUS
  <2> QED
    BY <2>1, NumberIsFold, ZenonT(60)
<1>2. /\ v[1] = 256 * v[0] + ds[1] /\ v[2] = 256 * v[1] + ds[2]
      /\ v[3] = 256 * v[2] + ds[3] /\ v[4] = 256 * v[3] + ds[4]
  BY <1>1
<1>3. \A k \in 1 .. 4 : ds[k] \in Nat
  OBVIOUS
<1> QED
  BY <1>1, <1>2, <1>3

LEMMA NumberOfEight ==
  ASSUME NEW ds \in [1 .. 8 -> Nat],
         ds[1] = 0, ds[2] = 0, ds[3] = 0, ds[4] = 0
  PROVE  Number(ds) = 256 * (256 * (256 * ds[5] + ds[6]) + ds[7]) + ds[8]
<1>1. PICK v : /\ v[0] = 0 /\ v[8] = Number(ds)
               /\ \A k \in 1 .. 8 : v[k] = 256 * v[k - 1] + ds[k]
  <2>1. 8 \in Nat
    OBVIOUS
  <2> QED
    BY <2>1, NumberIsFold, ZenonT(60)
<1>2. v[1] = 0 /\ v[2] = 0 /\ v[3] = 0 /\ v[4] = 0
  <2>1. v[1] = 256 * v[0] + ds[1] /\ v[2] = 256 * v[1] + ds[2]
    BY <1>1
  <2>2. v[3] = 256 * v[2] + ds[3] /\ v[4] = 256 * v[3] + ds[4]
    BY <1>1
  <2> QED
    BY <1>1, <2>1, <2>2
<1>3. v[5] = 256 * v[4] + ds[5] /\ v[6] = 256 * v[5] + ds[6]
  BY <1>1
<1>4. v[7] = 256 * v[6] + ds[7] /\ v[8] = 256 * v[7] + ds[8]
  BY <1>1
<1>5. \A k \in 1 .. 8 : ds[k] \in Nat
  OBVIOUS
<1> QED
  BY <1>1, <1>2, <1>3, <1>4, <1>5

LEMMA Powers == 256 ^ 0 = 1 /\ 256 ^ 1 = 256 /\ 256 ^ 2 = 65536 /\ 256 ^ 3 = 16777216
BY SMT

Byte == 0 .. 255

LEMMA DigitsType ==
  ASSUME NEW n \in Nat, NEW w \in {2, 4, 8}
  PROVE  Digits(n, w) \in [1 .. w -> Byte]
<1>1. \A i \in 1 .. w : w - i > 3 \/ w - i \in {0, 1, 2, 3}
  OBVIOUS
<1>2. \A i \in 1 .. w : Digits(n, w)[i] \in Byte
  BY <1>1, Powers, SMT DEF Digits, Byte
<1> QED
  BY <1>2, SMT DEF Digits

LEMMA MoreValues ==
  ASSUME NEW S, NEW A, NEW B, A \subseteq B
  PROVE  [S -> A] \subseteq [S -> B]
OBVIOUS

LEMMA DigitsNat ==
  ASSUME NEW n \in Nat, NEW w \in {2, 4, 8}
  PROVE  Digits(n, w) \in [1 .. w -> Nat]
<1>1. Byte \subseteq Nat
  BY SMT DEF Byte
<1>2. [1 .. w -> Byte] \subseteq [1 .. w -> Nat]
  BY <1>1, MoreValues, Zenon
<1> QED
  BY <1>2, DigitsType, Zenon

LEMMA Bytes2 ==
  ASSUME NEW n \in Nat, n < 65536
  PROVE  256 * ((n \div 256) % 256) + (n % 256) = n
BY SMT

LEMMA Bytes4 ==
  ASSUME NEW n \in Nat, n <= 16777216
  PROVE  256 * (256 * (256 * ((n \div 16777216) % 256) + ((n \div 65536) % 256))
                  + ((n \div 256) % 256)) + (n % 256) = n
BY SMT

(* A length comes out of its bytes as it went in.                          *)
LEMMA NumberOfDigits ==
  ASSUME NEW n \in Nat, n <= 16777216
  PROVE  /\ n < 65536 => Number(Digits(n, 2)) = n
         /\ Number(Digits(n, 4)) = n
         /\ Number(Digits(n, 8)) = n
<1>1. n <= 16777216
  BY SMT
<1>2. ASSUME n < 65536 PROVE Number(Digits(n, 2)) = n
  <2>1. Digits(n, 2) \in [1 .. 2 -> Nat]
    BY DigitsNat, SMT
  <2>2. Number(Digits(n, 2)) = 256 * Digits(n, 2)[1] + Digits(n, 2)[2]
    BY <2>1, NumberOfTwo, SMT
  <2>3. Digits(n, 2)[1] = (n \div 256) % 256 /\ Digits(n, 2)[2] = n % 256
    BY Powers, SMT DEF Digits
  <2>4. 256 * ((n \div 256) % 256) + (n % 256) = n
    BY <1>2, Bytes2, SMT
  <2> QED
    BY <2>2, <2>3, <2>4, SMT
<1>3. Number(Digits(n, 4)) = n
  <2>1. Digits(n, 4) \in [1 .. 4 -> Nat]
    BY DigitsNat, SMT
  <2>2. Number(Digits(n, 4)) =
          256 * (256 * (256 * Digits(n, 4)[1] + Digits(n, 4)[2]) + Digits(n, 4)[3])
            + Digits(n, 4)[4]
    BY <2>1, NumberOfFour, SMT
  <2> QED
    <3>1. /\ Digits(n, 4)[1] = (n \div 16777216) % 256
          /\ Digits(n, 4)[2] = (n \div 65536) % 256
          /\ Digits(n, 4)[3] = (n \div 256) % 256
          /\ Digits(n, 4)[4] = n % 256
      BY Powers, SMT DEF Digits
    <3>2. 256 * (256 * (256 * ((n \div 16777216) % 256) + ((n \div 65536) % 256))
                  + ((n \div 256) % 256)) + (n % 256) = n
      BY <1>1, Bytes4, SMT
    <3> QED
      BY <2>2, <3>1, <3>2, SMT
<1>4. Number(Digits(n, 8)) = n
  <2> DEFINE ds == Digits(n, 8)
  <2>1. ds \in [1 .. 8 -> Nat]
    BY DigitsNat, SMT
  <2>2. ds[1] = 0 /\ ds[2] = 0 /\ ds[3] = 0 /\ ds[4] = 0
    BY Powers, SMT DEF Digits
  <2>3. ds[5] = (n \div 16777216) % 256 /\ ds[6] = (n \div 65536) % 256
    BY Powers, SMT DEF Digits
  <2>4. ds[7] = (n \div 256) % 256 /\ ds[8] = n % 256
    BY Powers, SMT DEF Digits
  <2>5. 256 * (256 * (256 * ((n \div 16777216) % 256) + ((n \div 65536) % 256))
                + ((n \div 256) % 256)) + (n % 256) = n
    BY <1>1, Bytes4, SMT
  <2> HIDE DEF ds
  <2>6. Number(ds) = 256 * (256 * (256 * ds[5] + ds[6]) + ds[7]) + ds[8]
    BY <2>1, <2>2, NumberOfEight, SMT
  <2>7. Number(ds) = n
    BY <2>3, <2>4, <2>5, <2>6, SMT
  <2> QED
    BY <2>7, SMT DEF ds
<1> QED
  BY <1>2, <1>3, <1>4, SMT

LEMMA Joined ==
  ASSUME NEW d \in Nat, NEW w \in Nat, NEW ds \in [1 .. w -> Byte]
  PROVE  (<<d>> \o ds)[1] = d /\ Tail(<<d>> \o ds) = ds
<1>1. ds \in Seq(Byte)
  OBVIOUS
<1> QED
  BY <1>1

(* writeFrame and nextFrame agree on every length up to 16 MiB, so on      *)
(* every length a frame may have.                                          *)
LEMMA CodeOfLength ==
  \A n \in Nat : n <= 16777216 => LengthOf(LengthCode(n)) = n
<1>0. SUFFICES ASSUME NEW n \in Nat
               PROVE  n <= 16777216 => LengthOf(LengthCode(n)) = n
  BY SMT
<1>1. ASSUME n <= 16777216
      PROVE  (n <= 65535 => Number(Digits(n, 2)) = n) /\ Number(Digits(n, 8)) = n
  <2>1. n <= 65535 => n < 65536
    BY SMT
  <2> QED
    BY <1>1, <2>1, NumberOfDigits, SMT
<1>2. ASSUME (n <= 65535 => Number(Digits(n, 2)) = n) /\ Number(Digits(n, 8)) = n
      PROVE  LengthOf(LengthCode(n)) = n
  <2>1. CASE n < 126
    BY <2>1, SMT DEF LengthOf, LengthCode
  <2>2. CASE n >= 126 /\ n <= 65535
    <3>1. LengthCode(n) = <<126>> \o Digits(n, 2)
      BY <2>2, SMT DEF LengthCode
    <3>2. LengthCode(n)[1] = 126 /\ Tail(LengthCode(n)) = Digits(n, 2)
      <4>1. Digits(n, 2) \in [1 .. 2 -> Byte]
        BY DigitsType
      <4>2. /\ (<<126>> \o Digits(n, 2))[1] = 126
            /\ Tail(<<126>> \o Digits(n, 2)) = Digits(n, 2)
        BY <4>1, Joined, SMTT(30)
      <4> QED
        BY <3>1, <4>2, SMTT(30)
    <3>3. ~(LengthCode(n)[1] < 126)
      BY <3>2, SMT
    <3>4. Number(Digits(n, 2)) = n
      BY <1>2, <2>2, SMT
    <3> QED
      BY <3>2, <3>3, <3>4, Zenon DEF LengthOf
  <2>3. CASE n > 65535
    <3>1. LengthCode(n) = <<127>> \o Digits(n, 8)
      BY <2>3, SMT DEF LengthCode
    <3>2. LengthCode(n)[1] = 127 /\ Tail(LengthCode(n)) = Digits(n, 8)
      <4>1. Digits(n, 8) \in [1 .. 8 -> Byte]
        BY DigitsType
      <4>2. /\ (<<127>> \o Digits(n, 8))[1] = 127
            /\ Tail(<<127>> \o Digits(n, 8)) = Digits(n, 8)
        BY <4>1, Joined, SMTT(30)
      <4> QED
        BY <3>1, <4>2, SMTT(30)
    <3>3. ~(LengthCode(n)[1] < 126)
      BY <3>2, SMT
    <3>4. Number(Digits(n, 8)) = n
      BY <1>2, SMT
    <3> QED
      BY <3>2, <3>3, <3>4, Zenon DEF LengthOf
  <2> QED
    BY <2>1, <2>2, <2>3, SMT
<1>3. ASSUME n <= 16777216
      PROVE  LengthOf(LengthCode(n)) = n
  <2>1. (n <= 65535 => Number(Digits(n, 2)) = n) /\ Number(Digits(n, 8)) = n
    BY <1>1, <1>3, SMT
  <2> QED
    BY <1>2, <2>1, SMT
<1> QED
  BY <1>3, SMT

LEMMA CodeOfFrame ==
  ASSUME NEW n \in 0 .. MaxFrame
  PROVE  LengthOf(LengthCode(n)) = n
<1>1. MaxFrame \in Nat /\ MaxFrame <= 16777216
  BY Powers, StreamAssumption, SMT DEF HeaderSize, MaxControl
<1>2. n \in Nat /\ n <= 16777216
  BY <1>1, SMT
<1> QED
  BY <1>2, CodeOfLength, SMT

-----------------------------------------------------------------------------
(* What is on the wires: frames that say what they hold, and in the data   *)
(* frames pieces of messages that the sender has begun.                    *)

DataOps == {"binary", "continuation"}

PieceSet ==
  [of : Nat, kind : {"head", "body", "control", "none"}, from : Nat, size : Nat,
   sound : BOOLEAN]

FrameSet ==
  [op : DataOps \cup {"ping", "pong", "close"}, masked : BOOLEAN,
   code : {LengthCode(n) : n \in 0 .. MaxFrame}, body : PieceSet, here : Nat]

ReaderSet ==
  [body : PieceSet, here : Nat, off : Nat, rest : Nat, masked : BOOLEAN, keyPos : Nat]

Whole(of, kind) == IF kind = "head" THEN HeaderSize ELSE sent[of]

Pieces ==
  {p \in PieceSet :
     /\ p.of \in 1 .. Len(sent) /\ p.kind \in {"head", "body"} /\ p.sound
     /\ p.from + p.size <= Whole(p.of, p.kind)}

Frames(h) ==
  {f \in FrameSet :
     /\ f.masked = (h = "up")
     /\ f.body.size <= MaxFrame /\ f.code = LengthCode(f.body.size)
     /\ f.here <= f.body.size /\ (f.here < f.body.size => cut[h])
     /\ f.op \in DataOps => f.body \in Pieces}

Readers(h) ==
  {r \in ReaderSet :
     /\ r.off <= r.here /\ r.here <= r.body.size /\ r.off + r.rest = r.body.size
     /\ r.here < r.body.size => cut[h]
     /\ r.rest > 0 => /\ r.body \in Pieces
                      /\ r.masked = (h = "up")
                      /\ r.masked => r.keyPos = r.off}

PartSet == [kind : {"head", "body"}, need : Nat, have : Nat, of : Nat, sound : BOOLEAN]

Shape ==
  /\ rpc \in {"reading", "ended"}
  /\ part \in PartSet /\ part.have < part.need
  /\ spc \in {"idle", "body", "refused", "gone"}
  /\ shut \in [Hops -> BOOLEAN]
  /\ sent \in Seq(0 .. MaxMessage)
  /\ spc = "body" => Len(sent) > 0
  /\ cut \in [Hops -> BOOLEAN] /\ failed \in BOOLEAN
  /\ wire \in [Hops -> Seq(FrameSet)]
  /\ reader \in [Hops -> ReaderSet]
  /\ held \in PieceSet
  /\ held # Nothing => held \in Pieces /\ held.size > 0
  /\ \A h \in Hops : wire[h] \in Seq(Frames(h)) /\ reader[h] \in Readers(h)

(* Nothing that was sent or cut is taken back.                             *)
Grown ==
  /\ Len(sent) <= Len(sent') /\ \A i \in 1 .. Len(sent) : sent'[i] = sent[i]
  /\ \A h \in Hops : cut[h] => cut'[h]

LEMMA MoreElements ==
  ASSUME NEW A, NEW B, A \subseteq B
  PROVE  Seq(A) \subseteq Seq(B)
OBVIOUS

LEMMA GrownSets ==
  ASSUME Shape, sent' \in Seq(0 .. MaxMessage), Grown, NEW h \in Hops
  PROVE  /\ Pieces \subseteq Pieces'
         /\ Frames(h) \subseteq Frames(h)' /\ Seq(Frames(h)) \subseteq Seq(Frames(h)')
         /\ Readers(h) \subseteq Readers(h)'
<1>1. Pieces \subseteq Pieces'
  <2> SUFFICES ASSUME NEW p \in Pieces PROVE p \in Pieces'
    OBVIOUS
  <2>1. /\ p \in PieceSet /\ p.of \in 1 .. Len(sent) /\ p.kind \in {"head", "body"} /\ p.sound
        /\ p.from + p.size <= Whole(p.of, p.kind)
    BY DEF Pieces
  <2>2. p.of \in 1 .. Len(sent') /\ sent'[p.of] = sent[p.of]
    <3>1. Len(sent) \in Nat /\ Len(sent') \in Nat
      BY DEF Shape
    <3> QED
      BY <2>1, <3>1 DEF Grown
  <2>3. p.from + p.size <= Whole(p.of, p.kind)'
    BY <2>1, <2>2 DEF Whole
  <2> QED
    BY <2>1, <2>2, <2>3 DEF Pieces
<1>2. Frames(h) \subseteq Frames(h)'
  BY <1>1 DEF Frames, Grown
<1>3. Readers(h) \subseteq Readers(h)'
  BY <1>1 DEF Readers, Grown
<1> QED
  BY <1>1, <1>2, <1>3, MoreElements

LEMMA HopFacts == Hops = {"up", "down"}
BY DEF Hops

LEMMA NothingFacts ==
  Nothing \in PieceSet /\ Nothing.size = 0 /\ Nothing.kind = "none"
BY DEF Nothing, Piece, PieceSet

LEMMA NewReaderFacts ==
  ASSUME NEW h \in Hops
  PROVE  NewReader \in Readers(h) /\ NewReader \in ReaderSet
<1>1. NewReader \in ReaderSet
  BY NothingFacts DEF NewReader, ReaderSet
<1>2. NewReader.body.size = 0
  BY NothingFacts DEF NewReader
<1> QED
  BY <1>1, <1>2 DEF NewReader, Readers

LEMMA PieceSizes ==
  ASSUME Shape, NEW p \in Pieces
  PROVE  /\ p \in PieceSet /\ p.size \in 0 .. MaxFrame /\ p.of \in 1 .. Len(sent)
         /\ p.from \in Nat /\ p.size \in Nat /\ p.sound = TRUE
         /\ p.kind \in {"head", "body"} /\ p.from + p.size <= Whole(p.of, p.kind)
         /\ Whole(p.of, p.kind) \in Nat
<1>1. /\ p \in PieceSet /\ p.of \in 1 .. Len(sent) /\ p.kind \in {"head", "body"} /\ p.sound
      /\ p.from + p.size <= Whole(p.of, p.kind)
  BY DEF Pieces
<1>2. p.from \in Nat /\ p.size \in Nat /\ p.sound \in BOOLEAN
  BY <1>1 DEF PieceSet
<1>3. MaxMessage \in Nat /\ MaxFrame \in Nat /\ MaxMessage <= MaxFrame /\ HeaderSize <= MaxFrame
  BY StreamAssumption, SMT DEF HeaderSize, MaxControl
<1>4. sent[p.of] \in 0 .. MaxMessage
  <2>1. sent \in Seq(0 .. MaxMessage)
    BY DEF Shape
  <2>2. PICK i \in 1 .. Len(sent) : i = p.of
    BY <1>1
  <2>3. sent[i] \in 0 .. MaxMessage
    BY <1>3, <2>1
  <2> QED
    BY <2>2, <2>3
<1>5. p.size <= MaxFrame
  BY <1>1, <1>2, <1>3, <1>4 DEF Whole, HeaderSize
<1>6. p.size \in 0 .. MaxFrame
  BY <1>2, <1>3, <1>5
<1>7. p.sound = TRUE
  BY <1>1, <1>2
<1>8. Whole(p.of, p.kind) \in Nat
  BY <1>3, <1>4 DEF Whole, HeaderSize
<1> QED
  BY <1>1, <1>2, <1>6, <1>7, <1>8

(* A frame as writeFrame makes it.                                         *)
LEMMA FrameIsGood ==
  ASSUME NEW h \in Hops, NEW op \in DataOps \cup {"ping", "pong", "close"},
         NEW body \in PieceSet, body.size \in 0 .. MaxFrame,
         op \in DataOps => body \in Pieces
  PROVE  Frame(h, op, body) \in Frames(h)
<1> DEFINE f == Frame(h, op, body)
<1>1. /\ f.op = op /\ f.masked = (h = "up") /\ f.code = LengthCode(body.size)
      /\ f.body = body /\ f.here = body.size
  BY DEF Frame
<1>2. f \in FrameSet
  <2>1. body.size \in Nat /\ LengthCode(body.size) \in {LengthCode(n) : n \in 0 .. MaxFrame}
    OBVIOUS
  <2>2. (h = "up") \in BOOLEAN
    OBVIOUS
  <2> QED
    BY <2>1, <2>2 DEF Frame, FrameSet
<1>3. body.size <= MaxFrame /\ body.size <= body.size /\ ~(body.size < body.size)
  <2>1. MaxFrame \in Nat
    BY StreamAssumption
  <2> QED
    BY <2>1
<1> HIDE DEF f
<1>4. f \in Frames(h)
  BY <1>1, <1>2, <1>3 DEF Frames
<1> QED
  BY <1>4 DEF f

LEMMA WriteKeeps ==
  ASSUME Shape, NEW h \in Hops, NEW op \in DataOps \cup {"ping", "pong", "close"},
         NEW body \in PieceSet, body.size \in 0 .. MaxFrame,
         op \in DataOps => body \in Pieces
  PROVE  /\ Written(h, op, body) \in [Hops -> Seq(FrameSet)]
         /\ \A k \in Hops : Written(h, op, body)[k] \in Seq(Frames(k))
<1>1. Frame(h, op, body) \in Frames(h) /\ Frame(h, op, body) \in FrameSet
  <2>1. Frame(h, op, body) \in Frames(h)
    BY FrameIsGood
  <2> QED
    BY <2>1 DEF Frames
<1>2. Append(wire[h], Frame(h, op, body)) \in Seq(Frames(h))
  <2>1. wire[h] \in Seq(Frames(h))
    BY DEF Shape
  <2> QED
    BY <1>1, <2>1
<1>3. Append(wire[h], Frame(h, op, body)) \in Seq(FrameSet)
  <2>1. wire[h] \in Seq(FrameSet)
    BY DEF Shape
  <2> QED
    BY <1>1, <2>1
<1> QED
  BY <1>2, <1>3 DEF Written, Shape

LEMMA SameSets ==
  ASSUME UNCHANGED <<sent, cut>>, NEW h \in Hops
  PROVE  Pieces' = Pieces /\ Frames(h)' = Frames(h) /\ Readers(h)' = Readers(h)
BY DEF Pieces, Frames, Readers, Whole

LEMMA FrameFacts ==
  ASSUME NEW h \in Hops, NEW f \in Frames(h)
  PROVE  /\ f \in FrameSet /\ f.body \in PieceSet /\ f.body.size \in 0 .. MaxFrame
         /\ f.masked = (h = "up") /\ LengthOf(f.code) = f.body.size
         /\ f.here \in 0 .. f.body.size /\ (f.here < f.body.size => cut[h])
         /\ f.op \in DataOps => f.body \in Pieces
<1>1. /\ f \in FrameSet /\ f.masked = (h = "up")
      /\ f.body.size <= MaxFrame /\ f.code = LengthCode(f.body.size)
      /\ f.here <= f.body.size /\ (f.here < f.body.size => cut[h])
      /\ f.op \in DataOps => f.body \in Pieces
  BY DEF Frames
<1>2. f.body \in PieceSet /\ f.here \in Nat
  BY <1>1 DEF FrameSet
<1>3. f.body.size \in Nat /\ MaxFrame \in Nat
  BY <1>2, StreamAssumption DEF PieceSet
<1>4. f.body.size \in 0 .. MaxFrame /\ f.here \in 0 .. f.body.size
  BY <1>1, <1>2, <1>3
<1>5. LengthOf(f.code) = f.body.size
  BY <1>1, <1>4, CodeOfFrame
<1> QED
  BY <1>1, <1>2, <1>4, <1>5

LEMMA ReaderFacts ==
  ASSUME Shape, NEW h \in Hops
  PROVE  LET r == reader[h] IN
         /\ r \in ReaderSet /\ r.body \in PieceSet /\ r.body.size \in Nat
         /\ r.here \in Nat /\ r.off \in Nat /\ r.rest \in Nat /\ r.keyPos \in Nat
         /\ r.masked \in BOOLEAN
         /\ r.off <= r.here /\ r.here <= r.body.size /\ r.off + r.rest = r.body.size
         /\ r.here < r.body.size => cut[h]
         /\ r.rest > 0 => /\ r.body \in Pieces
                          /\ r.masked = (h = "up")
                          /\ r.masked => r.keyPos = r.off
<1> DEFINE r == reader[h]
<1>1. r \in Readers(h)
  BY DEF Shape
<1> HIDE DEF r
<1>2. /\ r \in ReaderSet
      /\ r.off <= r.here /\ r.here <= r.body.size /\ r.off + r.rest = r.body.size
      /\ r.here < r.body.size => cut[h]
      /\ r.rest > 0 => /\ r.body \in Pieces
                       /\ r.masked = (h = "up")
                       /\ r.masked => r.keyPos = r.off
  BY <1>1 DEF Readers
<1>3. /\ r.body \in PieceSet /\ r.here \in Nat /\ r.off \in Nat /\ r.rest \in Nat
      /\ r.keyPos \in Nat /\ r.masked \in BOOLEAN
  BY <1>2 DEF ReaderSet
<1>4. r.body.size \in Nat
  BY <1>3 DEF PieceSet
<1> QED
  BY <1>2, <1>3, <1>4 DEF r

(* What Read returns is a part of the piece it is at, unaltered: the       *)
(* position in the key is the byte's.                                      *)
LEMMA BytesFacts ==
  ASSUME Shape, NEW h \in Hops, NEW size \in Nat, NEW n \in ReadSizes(h, size)
  PROVE  /\ n \in Nat /\ n > 0 /\ n <= size
         /\ n <= reader[h].rest /\ reader[h].off + n <= reader[h].here
         /\ reader[h].body \in Pieces
         /\ Bytes(h, n) \in Pieces /\ Bytes(h, n).size = n
         /\ Bytes(h, n).of = reader[h].body.of /\ Bytes(h, n).kind = reader[h].body.kind
         /\ Bytes(h, n).from = reader[h].body.from + reader[h].off
<1> DEFINE r == reader[h]
<1>1. /\ r \in ReaderSet /\ r.body \in PieceSet /\ r.body.size \in Nat
      /\ r.here \in Nat /\ r.off \in Nat /\ r.rest \in Nat /\ r.keyPos \in Nat
      /\ r.masked \in BOOLEAN
      /\ r.off <= r.here /\ r.here <= r.body.size /\ r.off + r.rest = r.body.size
  BY ReaderFacts
<1>2. r.rest > 0 => /\ r.body \in Pieces
                    /\ r.masked = (h = "up")
                    /\ r.masked => r.keyPos = r.off
  BY ReaderFacts
<1>3. AtMost(h, size) \in Nat /\ AtMost(h, size) <= size /\ AtMost(h, size) <= r.rest
      /\ AtMost(h, size) <= r.here - r.off
  BY <1>1 DEF AtMost, Least
<1>4. n \in Nat /\ n > 0 /\ n <= AtMost(h, size)
  <2>1. Cuts \subseteq Nat
    BY StreamAssumption
  <2> QED
    BY <1>3, <2>1 DEF ReadSizes
<1>5. n <= size /\ n <= r.rest /\ r.off + n <= r.here /\ r.rest > 0
  BY <1>1, <1>3, <1>4
<1>6. r.body \in Pieces
  BY <1>2, <1>5
<1>7. /\ r.body.from \in Nat /\ r.body.of \in Nat /\ r.body.of \in 1 .. Len(sent)
      /\ r.body.kind \in {"head", "body"}
      /\ r.body.from + r.body.size <= Whole(r.body.of, r.body.kind)
      /\ r.body.sound = TRUE
  <2>1. r.body.of \in Nat
    BY <1>1 DEF PieceSet
  <2> QED
    BY <1>6, <2>1, PieceSizes
<1>8. r.body.sound /\ (r.masked => r.keyPos % 4 = r.off % 4)
  BY <1>2, <1>5, <1>7
<1>9. /\ Bytes(h, n).of = r.body.of /\ Bytes(h, n).kind = r.body.kind
      /\ Bytes(h, n).from = r.body.from + r.off /\ Bytes(h, n).size = n
      /\ Bytes(h, n).sound = TRUE /\ Bytes(h, n) \in PieceSet
  <2>1. Bytes(h, n) = [r.body EXCEPT !.from = r.body.from + r.off, !.size = n, !.sound = TRUE]
    BY <1>8 DEF Bytes
  <2>2. r.body.from + r.off \in Nat
    <3>1. r.body.from \in Nat /\ r.off \in Nat
      BY <1>1, <1>7
    <3> HIDE DEF r
    <3> QED
      BY <3>1
  <2>3. r.body \in PieceSet
    BY <1>1
  <2> HIDE DEF r
  <2>4. PICK b \in PieceSet : b = r.body
    BY <2>3
  <2> QED
    BY <1>4, <2>1, <2>2, <2>4 DEF PieceSet
<1>10. Whole(r.body.of, r.body.kind) \in Nat
  BY <1>6, PieceSizes
<1>11. Bytes(h, n).from + Bytes(h, n).size <= Whole(Bytes(h, n).of, Bytes(h, n).kind)
  <2>1. r.off + n <= r.body.size /\ r.off + n \in Nat
    BY <1>1, <1>4, <1>5
  <2>2. r.body.from \in Nat /\ r.body.size \in Nat /\ r.off \in Nat
        /\ r.body.from + r.body.size <= Whole(r.body.of, r.body.kind)
    BY <1>1, <1>7
  <2> HIDE DEF r
  <2>3. r.body.from + r.off + n <= Whole(r.body.of, r.body.kind)
    BY <1>4, <1>10, <2>1, <2>2
  <2> QED
    BY <1>9, <2>3
<1>12. Bytes(h, n) \in Pieces
  BY <1>7, <1>9, <1>11 DEF Pieces
<1> QED
  BY <1>4, <1>5, <1>6, <1>9, <1>12

LEMMA ReadKeeps ==
  ASSUME Shape, NEW h \in Hops, NEW size \in Nat, NEW n \in ReadSizes(h, size),
         Read(h, size, n)
  PROVE  /\ reader' \in [Hops -> ReaderSet]
         /\ \A k \in Hops : reader'[k] \in Readers(k)
         /\ \A k \in Hops : k # h => reader'[k] = reader[k]
         /\ reader'[h].rest = reader[h].rest - n
         /\ reader'[h].rest > 0 => /\ reader'[h].body = reader[h].body
                                   /\ reader'[h].off = reader[h].off + n
<1> DEFINE r == reader[h]
           pos == IF r.masked THEN r.keyPos + n ELSE r.keyPos
           s == IF n = r.rest
                  THEN [NewReader EXCEPT !.masked = r.masked, !.keyPos = pos]
                  ELSE [r EXCEPT !.off = r.off + n, !.rest = r.rest - n, !.keyPos = pos]
<1>1. reader' = [reader EXCEPT ![h] = s]
  BY DEF Read
<1>2. /\ r \in ReaderSet /\ r.body \in PieceSet /\ r.body.size \in Nat
      /\ r.here \in Nat /\ r.off \in Nat /\ r.rest \in Nat /\ r.keyPos \in Nat
      /\ r.masked \in BOOLEAN
      /\ r.off <= r.here /\ r.here <= r.body.size /\ r.off + r.rest = r.body.size
      /\ r.here < r.body.size => cut[h]
      /\ r.rest > 0 => /\ r.body \in Pieces
                       /\ r.masked = (h = "up")
                       /\ r.masked => r.keyPos = r.off
  BY ReaderFacts
<1>3. n \in Nat /\ n > 0 /\ n <= r.rest /\ r.off + n <= r.here
  BY BytesFacts
<1>4. pos \in Nat /\ (r.masked => pos = r.keyPos + n)
  BY <1>2, <1>3
<1> HIDE DEF pos
<1>5. CASE n = r.rest
  <2>1. s = [NewReader EXCEPT !.masked = r.masked, !.keyPos = pos]
    BY <1>5
  <2> HIDE DEF s, r
  <2>2. NewReader \in ReaderSet /\ NewReader.rest = 0 /\ NewReader.here = 0 /\ NewReader.off = 0
        /\ NewReader.body.size = 0
    BY NewReaderFacts, NothingFacts DEF NewReader
  <2>3. PICK w \in ReaderSet : w = NewReader
    BY <2>2
  <2>4. /\ s \in ReaderSet /\ s.rest = 0 /\ s.here = 0 /\ s.off = 0 /\ s.body = w.body
    BY <1>2, <1>4, <2>1, <2>2, <2>3 DEF ReaderSet
  <2>5. s \in Readers(h)
    BY <2>2, <2>3, <2>4 DEF Readers
  <2>6. s.rest = r.rest - n
    BY <1>2, <1>5, <2>4
  <2>7. r = reader[h]
    BY DEF r
  <2> QED
    BY <1>1, <2>4, <2>5, <2>6, <2>7 DEF Shape
<1>6. CASE n # r.rest
  <2>1. s = [r EXCEPT !.off = r.off + n, !.rest = r.rest - n, !.keyPos = pos]
    BY <1>6
  <2>7. r = reader[h]
    BY DEF r
  <2> HIDE DEF s, r
  <2>2. r.off + n \in Nat /\ r.rest - n \in Nat /\ r.rest > 0
    BY <1>2, <1>3
  <2>3. PICK w \in ReaderSet : w = r
    BY <1>2
  <2>4. /\ s \in ReaderSet /\ s.rest = r.rest - n /\ s.off = r.off + n /\ s.here = r.here
        /\ s.body = r.body /\ s.masked = r.masked /\ s.keyPos = pos
    BY <1>4, <2>1, <2>2, <2>3 DEF ReaderSet
  <2>5. s \in Readers(h)
    <3>1. s.off <= s.here /\ s.here <= s.body.size /\ s.off + s.rest = s.body.size
      BY <1>2, <1>3, <2>4
    <3>2. s.here < s.body.size => cut[h]
      BY <1>2, <2>4
    <3>3. s.body \in Pieces /\ s.masked = (h = "up") /\ (s.masked => s.keyPos = s.off)
      BY <1>2, <1>4, <2>2, <2>4
    <3> QED
      BY <2>4, <3>1, <3>2, <3>3 DEF Readers
  <2> QED
    BY <1>1, <2>4, <2>5, <2>7 DEF Shape
<1> QED
  BY <1>5, <1>6

LEMMA ShapeSame ==
  ASSUME Shape, UNCHANGED <<sent, cut>>,
         spc' \in {"idle", "body", "refused", "gone"}, spc' = "body" => Len(sent) > 0,
         shut' \in [Hops -> BOOLEAN], failed' \in BOOLEAN,
         rpc' \in {"reading", "ended"}, part' \in PartSet, part'.have < part'.need,
         wire' \in [Hops -> Seq(FrameSet)],
         \A h \in Hops : wire'[h] \in Seq(Frames(h)),
         reader' \in [Hops -> ReaderSet],
         \A h \in Hops : reader'[h] \in Readers(h),
         held' \in PieceSet, held' # Nothing => held' \in Pieces /\ held'.size > 0
  PROVE  Shape'
<1>1. Pieces' = Pieces /\ \A h \in Hops : Frames(h)' = Frames(h) /\ Readers(h)' = Readers(h)
  BY SameSets, HopFacts
<1>2. \A h \in Hops : wire'[h] \in Seq(Frames(h)') /\ reader'[h] \in Readers(h)'
  BY <1>1
<1>3. sent' \in Seq(0 .. MaxMessage) /\ cut' \in [Hops -> BOOLEAN]
  BY DEF Shape
<1>4. (spc' = "body" => Len(sent') > 0) /\ Nothing' = Nothing
  BY DEF Nothing, Piece
<1> QED
  BY <1>1, <1>2, <1>3, <1>4 DEF Shape

LEMMA BodyIsGood ==
  ASSUME Shape, SendBody,
         NEW body, body = Piece(Len(sent), "body", 0, sent[Len(sent)])
  PROVE  /\ body.of = Len(sent) /\ body.kind = "body" /\ body.from = 0
         /\ body.size = sent[Len(sent)] /\ body \in PieceSet
         /\ body \in Pieces /\ body.size \in 0 .. MaxFrame
<1>1. Len(sent) \in 1 .. Len(sent) /\ Len(sent) \in Nat /\ sent[Len(sent)] \in Nat
  <2>1. sent \in Seq(0 .. MaxMessage) /\ Len(sent) > 0
    BY DEF SendBody, Shape
  <2>2. MaxMessage \in Nat
    BY StreamAssumption
  <2> QED
    BY <2>1, <2>2
<1>2. /\ body.of = Len(sent) /\ body.kind = "body" /\ body.from = 0
      /\ body.size = sent[Len(sent)] /\ body.sound = TRUE /\ body \in PieceSet
  BY <1>1 DEF Piece, PieceSet
<1>3. body \in Pieces
  BY <1>1, <1>2 DEF Pieces, Whole
<1>4. body.size \in 0 .. MaxFrame
  BY <1>3, PieceSizes
<1> QED
  BY <1>2, <1>3, <1>4

LEMMA SenderShape ==
  ASSUME Shape, Sender
  PROVE  Shape'
<1>1. ASSUME NEW n \in Sizes, SendHeader(n)
      PROVE  Shape'
  <2>1. n \in 0 .. MaxMessage
    BY <1>1, StreamAssumption DEF SendHeader
  <2>2. /\ sent' = Append(sent, n) /\ sent' \in Seq(0 .. MaxMessage)
        /\ Len(sent) \in Nat /\ Len(sent') = Len(sent) + 1
        /\ \A i \in 1 .. Len(sent) : sent'[i] = sent[i]
    <3>1. sent \in Seq(0 .. MaxMessage) /\ sent' = Append(sent, n)
      BY <1>1 DEF SendHeader, Shape
    <3>2. MaxMessage \in Nat
      BY StreamAssumption
    <3> QED
      BY <2>1, <3>1, <3>2
  <2>3. cut' = cut /\ reader' = reader /\ held' = held /\ spc' = "body"
        /\ UNCHANGED <<shut, failed, rpc, part>>
    BY <1>1 DEF SendHeader, relaying, receiving
  <2>4. Grown
    BY <2>2, <2>3 DEF Grown
  <2>5. Pieces \subseteq Pieces' /\ \A h \in Hops : /\ Readers(h) \subseteq Readers(h)'
                                                    /\ Seq(Frames(h)) \subseteq Seq(Frames(h)')
    <3>1. ASSUME NEW h \in Hops
          PROVE  /\ Pieces \subseteq Pieces' /\ Readers(h) \subseteq Readers(h)'
                 /\ Seq(Frames(h)) \subseteq Seq(Frames(h)')
      BY <2>2, <2>4, GrownSets
    <3> QED
      BY <3>1, HopFacts
  <2>P. PICK body : body = Piece(Len(sent) + 1, "head", 0, HeaderSize)
    OBVIOUS
  <2>6. /\ body.of = Len(sent) + 1 /\ body.kind = "head" /\ body.from = 0
        /\ body.size = HeaderSize /\ body.sound = TRUE
        /\ body \in PieceSet
    BY <2>P, <2>2 DEF Piece, PieceSet, HeaderSize
  <2>7. body.size \in 0 .. MaxFrame
    <3>1. MaxFrame \in Nat /\ HeaderSize <= MaxFrame
      BY StreamAssumption, SMT DEF HeaderSize, MaxControl
    <3> QED
      BY <2>6, <3>1 DEF HeaderSize
  <2>8. body \in Pieces'
    <3>1. body.of \in 1 .. Len(sent')
      BY <2>2, <2>6
    <3>2. body.kind = "head" /\ body.from = 0 /\ body.size = HeaderSize
      BY <2>6
    <3>3. Whole(body.of, body.kind)' = HeaderSize
      BY <3>2 DEF Whole
    <3>4. body.from + body.size <= Whole(body.of, body.kind)'
      BY <3>2, <3>3 DEF HeaderSize
    <3>5. body.sound /\ body \in PieceSet
      BY <2>6
    <3> QED
      BY <3>1, <3>2, <3>4, <3>5 DEF Pieces
  <2>9. Frame("up", "binary", body) \in Frames("up")'
    <3>1. Frame("up", "binary", body) \in FrameSet
      BY <2>6, <2>7 DEF Frame, FrameSet, DataOps, PieceSet
    <3>2. /\ Frame("up", "binary", body).masked = TRUE
          /\ Frame("up", "binary", body).code = LengthCode(body.size)
          /\ Frame("up", "binary", body).body = body
          /\ Frame("up", "binary", body).here = body.size
      BY DEF Frame
    <3>3. body.size <= MaxFrame /\ body.size <= body.size /\ ~(body.size < body.size)
      BY <2>7, StreamAssumption
    <3> QED
      BY <2>8, <3>1, <3>2, <3>3 DEF Frames
  <2>10. wire' = wire \/ wire' = [wire EXCEPT !["up"] = Append(@, Frame("up", "binary", body))]
    BY <1>1, <2>P DEF SendHeader, Write, Written
  <2>11. wire' \in [Hops -> Seq(FrameSet)] /\ \A h \in Hops : wire'[h] \in Seq(Frames(h)')
    <3>1. wire \in [Hops -> Seq(FrameSet)] /\ \A h \in Hops : wire[h] \in Seq(Frames(h)')
      BY <2>5 DEF Shape
    <3>2. Frame("up", "binary", body) \in FrameSet
      BY <2>9 DEF Frames
    <3>3. "up" \in Hops
      BY HopFacts
    <3>4. /\ Append(wire["up"], Frame("up", "binary", body)) \in Seq(FrameSet)
          /\ Append(wire["up"], Frame("up", "binary", body)) \in Seq(Frames("up")')
      BY <2>9, <3>1, <3>2, <3>3
    <3> QED
      BY <2>10, <3>1, <3>3, <3>4
  <2>12. \A h \in Hops : reader'[h] \in Readers(h)'
    BY <2>3, <2>5 DEF Shape
  <2>13. held' # Nothing => held' \in Pieces' /\ held'.size > 0
    BY <2>3, <2>5 DEF Shape
  <2>14. Len(sent') > 0 /\ Nothing' = Nothing
    BY <2>2 DEF Nothing, Piece
  <2> QED
    BY <2>2, <2>3, <2>11, <2>12, <2>13, <2>14 DEF Shape
<1>2. ASSUME NEW n \in Sizes, SendRefuses(n)
      PROVE  Shape'
  BY <1>2, ShapeSame DEF SendRefuses, Shape, relaying, receiving
<1>3. CASE SendBody
  <2>P. PICK body : body = Piece(Len(sent), "body", 0, sent[Len(sent)])
    OBVIOUS
  <2>1. body \in PieceSet /\ body \in Pieces /\ body.size \in 0 .. MaxFrame
    BY <1>3, <2>P, BodyIsGood
  <2>5. "up" \in Hops /\ "binary" \in DataOps
    BY HopFacts DEF DataOps
  <2>6. wire' = Written("up", "binary", body)
    BY <1>3, <2>P DEF SendBody, Write
  <2>7. wire' \in [Hops -> Seq(FrameSet)] /\ \A h \in Hops : wire'[h] \in Seq(Frames(h))
    BY <2>1, <2>5, <2>6, WriteKeeps
  <2>8. UNCHANGED <<sent, cut, reader, held, shut, failed, rpc, part>> /\ spc' = "idle"
    BY <1>3 DEF SendBody, relaying, receiving
  <2> QED
    BY <2>7, <2>8, ShapeSame DEF Shape
<1>4. CASE SenderCloses
  <2>1. "up" \in Hops /\ Nothing \in PieceSet /\ Nothing.size \in 0 .. MaxFrame
    BY HopFacts, NothingFacts, StreamAssumption
  <2>2. wire' = Written("up", "close", Nothing)
    BY <1>4 DEF SenderCloses, Write
  <2>3. wire' \in [Hops -> Seq(FrameSet)] /\ \A h \in Hops : wire'[h] \in Seq(Frames(h))
    BY <2>1, <2>2, WriteKeeps DEF DataOps
  <2>4. UNCHANGED <<sent, cut, reader, held, shut, failed, rpc, part>> /\ spc' = "gone"
    BY <1>4 DEF SenderCloses, relaying, receiving
  <2> QED
    BY <2>3, <2>4, ShapeSame DEF Shape
<1> QED
  BY <1>1, <1>2, <1>3, <1>4 DEF Sender

(* Between two frames the reader may be anywhere in a key: what it has of  *)
(* one is replaced, or not used, with the next frame.                      *)
LEMMA BetweenIsGood ==
  ASSUME Shape, NEW h \in Hops, NEW f \in Frames(h), BetweenFrames(h, f)
  PROVE  /\ reader' \in [Hops -> ReaderSet] /\ \A k \in Hops : reader'[k] \in Readers(k)
         /\ \A k \in Hops : k # h => reader'[k] = reader[k]
         /\ reader'[h].rest = 0
<1>1. PICK pos : pos = KeyPos(reader[h], f)
                         + (IF f.op = "ping" /\ f.masked THEN f.body.size ELSE 0)
  OBVIOUS
<1>2. pos \in Nat
  <2>1. f.body.size \in Nat /\ reader[h].keyPos \in Nat
    BY FrameFacts, ReaderFacts
  <2>2. KeyPos(reader[h], f) \in Nat
    BY <2>1 DEF KeyPos
  <2> QED
    BY <1>1, <2>1, <2>2
<1>3. f.masked \in BOOLEAN
  BY DEF Frames, FrameSet
<1>4. PICK r : r = [NewReader EXCEPT !.masked = f.masked, !.keyPos = pos]
  OBVIOUS
<1>5. NewReader \in ReaderSet /\ NewReader.rest = 0 /\ NewReader.here = 0 /\ NewReader.off = 0
      /\ NewReader.body.size = 0
  BY NewReaderFacts, NothingFacts DEF NewReader
<1>6. PICK w \in ReaderSet : w = NewReader
  BY <1>5
<1>7. r \in ReaderSet /\ r.rest = 0 /\ r.here = 0 /\ r.off = 0 /\ r.body = w.body
  BY <1>2, <1>3, <1>4, <1>5, <1>6 DEF ReaderSet
<1>8. r \in Readers(h)
  BY <1>5, <1>6, <1>7 DEF Readers
<1>9. reader' = [reader EXCEPT ![h] = r]
  BY <1>1, <1>4 DEF BetweenFrames
<1> QED
  BY <1>7, <1>8, <1>9 DEF Shape

(* nextFrame on either side.                                               *)
LEMMA NextFrameShape ==
  ASSUME Shape, NEW h \in Hops, NextFrame(h)
  PROVE  Shape'
<1>1. wire[h] # <<>> /\ wire[h] \in Seq(Frames(h)) /\ wire[h] \in Seq(FrameSet)
  BY DEF NextFrame, Shape
<1>2. /\ Head(wire[h]) \in Frames(h) /\ Tail(wire[h]) \in Seq(Frames(h))
      /\ Tail(wire[h]) \in Seq(FrameSet)
  BY <1>1
<1>3. wire' = [wire EXCEPT ![h] = Tail(wire[h])]
  BY DEF NextFrame
<1>4. wire' \in [Hops -> Seq(FrameSet)] /\ \A k \in Hops : wire'[k] \in Seq(Frames(k))
  BY <1>2, <1>3 DEF Shape
<1>5. reader' \in [Hops -> ReaderSet] /\ \A k \in Hops : reader'[k] \in Readers(k)
  <2>1. CASE BetweenFrames(h, Head(wire[h]))
    BY <1>2, <2>1, BetweenIsGood
  <2>2. CASE Head(wire[h]).op \in DataOps /\ BeginFrame(h, Head(wire[h]))
    <3>1. PICK f \in Frames(h) : f = Head(wire[h])
      BY <1>2
    <3>2. /\ f.body \in PieceSet /\ f.body.size \in 0 .. MaxFrame /\ f.masked = (h = "up")
          /\ LengthOf(f.code) = f.body.size /\ f.here \in 0 .. f.body.size
          /\ f.here < f.body.size => cut[h]
          /\ f.body \in Pieces
      BY <2>2, <3>1, FrameFacts
    <3>3. PICK r : r = [body |-> f.body, here |-> f.here, off |-> 0, rest |-> f.body.size,
                        masked |-> f.masked,
                        keyPos |-> IF f.masked THEN 0 ELSE reader[h].keyPos]
      OBVIOUS
    <3>4. reader' = [reader EXCEPT ![h] = r]
      BY <2>2, <3>1, <3>2, <3>3 DEF BeginFrame, KeyPos
    <3>5. r \in ReaderSet
      <4>1. reader[h].keyPos \in Nat /\ f.masked \in BOOLEAN
        BY <3>2, ReaderFacts
      <4>2. f.here \in Nat /\ f.body.size \in Nat
        BY <3>2
      <4>3. (IF f.masked THEN 0 ELSE reader[h].keyPos) \in Nat
        BY <4>1
      <4> QED
        BY <3>2, <3>3, <4>1, <4>2, <4>3 DEF ReaderSet
    <3>6. /\ r.off = 0 /\ r.here = f.here /\ r.body = f.body /\ r.rest = f.body.size
          /\ r.masked = f.masked /\ (r.masked => r.keyPos = 0)
      BY <3>3
    <3>7. r \in Readers(h)
      <4>1. r.off <= r.here /\ r.here <= r.body.size /\ r.off + r.rest = r.body.size
        BY <3>2, <3>6
      <4>2. r.here < r.body.size => cut[h]
        BY <3>2, <3>6
      <4>3. r.body \in Pieces /\ r.masked = (h = "up") /\ (r.masked => r.keyPos = r.off)
        BY <3>2, <3>6
      <4> QED
        BY <3>5, <4>1, <4>2, <4>3 DEF Readers
    <3> QED
      BY <3>4, <3>5, <3>7 DEF Shape
  <2> QED
    BY <2>1, <2>2 DEF NextFrame, DataOps
<1>6. failed' \in BOOLEAN
  <2>1. (failed \/ HungUp(h)) \in BOOLEAN
    OBVIOUS
  <2> QED
    BY <2>1 DEF NextFrame, Shape
<1>7. UNCHANGED <<spc, sent, cut, held, shut, rpc, part>>
  BY DEF NextFrame, relaying, receiving
<1> QED
  BY <1>4, <1>5, <1>6, <1>7, ShapeSame DEF Shape

LEMMA RelayShape ==
  ASSUME Shape, RelayReads \/ RelayWrites \/ CloseDown \/ CloseUp
  PROVE  Shape'
<1>1. CASE RelayReads
  <2>1. PICK n \in ReadSizes("up", CopyBuffer) :
          Read("up", CopyBuffer, n) /\ held' = Bytes("up", n)
    BY <1>1 DEF RelayReads
  <2>2. "up" \in Hops /\ CopyBuffer \in Nat
    BY HopFacts, StreamAssumption
  <2>3. /\ reader' \in [Hops -> ReaderSet] /\ \A k \in Hops : reader'[k] \in Readers(k)
    BY <2>1, <2>2, ReadKeeps
  <2>4. held' \in Pieces /\ held'.size > 0 /\ held' \in PieceSet
    <3>1. Bytes("up", n) \in Pieces /\ Bytes("up", n).size = n /\ n > 0
      BY <2>1, <2>2, BytesFacts
    <3> QED
      BY <2>1, <3>1 DEF Pieces
  <2>5. UNCHANGED <<spc, sent, wire, cut, shut, failed, rpc, part>>
    BY <1>1 DEF RelayReads, receiving
  <2> QED
    BY <2>3, <2>4, <2>5, ShapeSame DEF Shape
<1>2. CASE RelayWrites
  <2>1. "down" \in Hops /\ "binary" \in DataOps /\ held \in Pieces /\ held \in PieceSet
        /\ wire' = Written("down", "binary", held)
    BY <1>2, HopFacts DEF RelayWrites, Write, Shape, DataOps
  <2>2. held.size \in 0 .. MaxFrame
    BY <2>1, PieceSizes
  <2>3. wire' \in [Hops -> Seq(FrameSet)] /\ \A k \in Hops : wire'[k] \in Seq(Frames(k))
    BY <2>1, <2>2, WriteKeeps
  <2>4. UNCHANGED <<spc, sent, reader, cut, shut, failed, rpc, part>> /\ held' = Nothing
    BY <1>2 DEF RelayWrites, receiving
  <2>5. held' \in PieceSet /\ Nothing' = Nothing
    BY <2>4, NothingFacts DEF Nothing, Piece
  <2> QED
    BY <2>3, <2>4, <2>5, ShapeSame DEF Shape
<1>3. CASE CloseDown
  <2>1. "down" \in Hops /\ Nothing \in PieceSet /\ Nothing.size \in 0 .. MaxFrame
    BY HopFacts, NothingFacts, StreamAssumption
  <2>2. wire' = Written("down", "close", Nothing)
    BY <1>3 DEF CloseDown, Write
  <2>3. wire' \in [Hops -> Seq(FrameSet)] /\ \A k \in Hops : wire'[k] \in Seq(Frames(k))
    BY <2>1, <2>2, WriteKeeps DEF DataOps
  <2>4. UNCHANGED <<spc, sent, reader, cut, rpc, part>> /\ held' = Nothing
        /\ shut' \in [Hops -> BOOLEAN]
    BY <1>3 DEF CloseDown, receiving, Shape
  <2>5. failed' \in BOOLEAN
    <3>1. (failed \/ held # Nothing \/ ~ReadFails("up")) \in BOOLEAN
      OBVIOUS
    <3> QED
      BY <1>3, <3>1 DEF CloseDown
  <2>6. held' \in PieceSet /\ Nothing' = Nothing
    BY <2>4, NothingFacts DEF Nothing, Piece
  <2> QED
    BY <2>3, <2>4, <2>5, <2>6, ShapeSame DEF Shape
<1>4. CASE CloseUp
  <2>1. "up" \in Hops /\ <<>> \in Seq(FrameSet) /\ <<>> \in Seq(Frames("up"))
    BY HopFacts
  <2>2. wire' = [wire EXCEPT !["up"] = <<>>] /\ reader' = [reader EXCEPT !["up"] = NewReader]
    BY <1>4 DEF CloseUp
  <2>3. wire' \in [Hops -> Seq(FrameSet)] /\ \A k \in Hops : wire'[k] \in Seq(Frames(k))
    BY <2>1, <2>2 DEF Shape
  <2>4. reader' \in [Hops -> ReaderSet] /\ \A k \in Hops : reader'[k] \in Readers(k)
    BY <2>1, <2>2, NewReaderFacts DEF Shape
  <2>5. UNCHANGED <<held, spc, sent, cut, rpc, part>> /\ shut' \in [Hops -> BOOLEAN]
    BY <1>4 DEF CloseUp, receiving, Shape
  <2>6. failed' \in BOOLEAN
    <3>1. (failed \/ (~shut["down"] /\ ~ReadFails("up"))) \in BOOLEAN
      OBVIOUS
    <3> QED
      BY <1>4, <3>1 DEF CloseUp
  <2>7. Nothing' = Nothing
    BY DEF Nothing, Piece
  <2> QED
    BY <2>3, <2>4, <2>5, <2>6, <2>7, ShapeSame DEF Shape
<1> QED
  BY <1>1, <1>2, <1>3, <1>4

(* The header gives the length of the body.                                *)
LEMMA HeaderNumber ==
  ASSUME Shape, NEW of \in 1 .. Len(sent)
  PROVE  sent[of] \in 0 .. MaxMessage /\ Number(Digits(sent[of], HeaderSize)) = sent[of]
<1>1. MaxMessage \in Nat /\ MaxFrame \in Nat /\ MaxMessage <= MaxFrame
  BY StreamAssumption
<1>2. sent[of] \in 0 .. MaxMessage
  <2>1. sent \in Seq(0 .. MaxMessage)
    BY DEF Shape
  <2> QED
    BY <1>1, <2>1
<1>3. Number(Digits(sent[of], HeaderSize)) = sent[of]
  <2>1. sent[of] \in Nat /\ sent[of] <= 16777216
    <3>1. MaxFrame <= 16777216
      BY Powers, StreamAssumption, SMT DEF HeaderSize, MaxControl
    <3> QED
      BY <1>1, <1>2, <3>1, SMT
  <2> QED
    BY <2>1, NumberOfDigits, SMT DEF HeaderSize
<1> QED
  BY <1>2, <1>3

(* A header that arrives as it was sent is taken: it gives the size of a   *)
(* message that comm.Send did not refuse.                                  *)
LEMMA HeaderShape ==
  ASSUME Shape, NEW of \in 1 .. Len(sent), NEW sound \in BOOLEAN, HeaderRead(of, sound)
  PROVE  rpc' = rpc /\ part' \in PartSet /\ part'.have < part'.need
<1>1. MaxMessage \in Nat /\ MaxFrame \in Nat /\ MaxMessage <= MaxFrame
  BY StreamAssumption
<1>2. sent[of] \in 0 .. MaxMessage /\ Number(Digits(sent[of], HeaderSize)) = sent[of]
  BY HeaderNumber
<1>4. PICK n : n = IF sound THEN Number(Digits(sent[of], HeaderSize)) ELSE 0
  OBVIOUS
<1>5. n \in 0 .. MaxMessage
  BY <1>1, <1>2, <1>4
<1>6. ~(n > MaxMessage) /\ n \in Nat
  BY <1>1, <1>5
<1>7. /\ rpc' = rpc
      /\ \/ n = 0 /\ part' = NextPart("head", HeaderSize, 0)
         \/ n # 0 /\ part' = NextPart("body", n, of)
  BY <1>4, <1>6 DEF HeaderRead
<1>8. /\ NextPart("head", HeaderSize, 0) \in PartSet
      /\ n # 0 => NextPart("body", n, of) \in PartSet
  <2>1. of \in Nat
    BY DEF Shape
  <2> QED
    BY <1>6, <2>1 DEF NextPart, PartSet, HeaderSize
<1>9. /\ NextPart("head", HeaderSize, 0).have < NextPart("head", HeaderSize, 0).need
      /\ n # 0 => NextPart("body", n, of).have < NextPart("body", n, of).need
  BY <1>6 DEF NextPart, HeaderSize
<1> QED
  BY <1>7, <1>8, <1>9

LEMMA DepartsShape ==
  ASSUME Shape, Departs, failed' \in BOOLEAN
  PROVE  Shape'
<1>1. "down" \in Hops /\ <<>> \in Seq(FrameSet) /\ <<>> \in Seq(Frames("down"))
  BY HopFacts
<1>2. wire' = [wire EXCEPT !["down"] = <<>>] /\ reader' = [reader EXCEPT !["down"] = NewReader]
      /\ rpc' = "ended" /\ part' = NextPart("head", HeaderSize, 0)
      /\ UNCHANGED <<spc, sent, cut, held, shut>>
  BY DEF Departs, relaying
<1>3. wire' \in [Hops -> Seq(FrameSet)] /\ \A k \in Hops : wire'[k] \in Seq(Frames(k))
  BY <1>1, <1>2 DEF Shape
<1>4. reader' \in [Hops -> ReaderSet] /\ \A k \in Hops : reader'[k] \in Readers(k)
  BY <1>1, <1>2, NewReaderFacts DEF Shape
<1>5. part' \in PartSet /\ part'.have < part'.need
  BY <1>2 DEF NextPart, PartSet, HeaderSize
<1> QED
  BY <1>2, <1>3, <1>4, <1>5, ShapeSame DEF Shape

LEMMA ReceiverShape ==
  ASSUME Shape, Receives \/ ReceiveFails
  PROVE  Shape'
<1>H. /\ NextPart("head", HeaderSize, 0) \in PartSet
      /\ NextPart("head", HeaderSize, 0).have < NextPart("head", HeaderSize, 0).need
  BY DEF NextPart, PartSet, HeaderSize
<1>D. "down" \in Hops
  BY HopFacts
<1>1. CASE Receives
  <2>1. PICK wanted : wanted = part.need - part.have
    OBVIOUS
  <2>2. part \in PartSet /\ part.need \in Nat /\ part.have \in Nat /\ part.have < part.need
        /\ part.sound \in BOOLEAN
    BY DEF Shape, PartSet
  <2>3. wanted \in Nat
    BY <2>1, <2>2
  <2>4. PICK n \in ReadSizes("down", wanted) :
          /\ Read("down", wanted, n)
          /\ IF n < wanted
               THEN /\ part' = [part EXCEPT !.have = @ + n, !.of = Bytes("down", n).of,
                                  !.sound = part.sound /\ Fits(Bytes("down", n))]
                    /\ UNCHANGED <<rpc, got>>
             ELSE IF part.kind = "head"
               THEN HeaderRead(Bytes("down", n).of, part.sound /\ Fits(Bytes("down", n)))
             ELSE BodyRead(Bytes("down", n).of, part.sound /\ Fits(Bytes("down", n)))
    BY <1>1, <2>1 DEF Receives
  <2>5. reader' \in [Hops -> ReaderSet] /\ \A k \in Hops : reader'[k] \in Readers(k)
    BY <1>D, <2>3, <2>4, ReadKeeps
  <2>6. Bytes("down", n) \in Pieces /\ n \in Nat
    BY <1>D, <2>3, <2>4, BytesFacts
  <2>7. Bytes("down", n).of \in 1 .. Len(sent) /\ Bytes("down", n).of \in Nat
    BY <2>6 DEF Pieces, PieceSet
  <2>8. PICK sound \in BOOLEAN : sound = (part.sound /\ Fits(Bytes("down", n)))
    OBVIOUS
  <2>9. rpc' = rpc /\ part' \in PartSet /\ part'.have < part'.need
    <3>1. CASE n < wanted
      <4>1. part' = [part EXCEPT !.have = part.have + n, !.of = Bytes("down", n).of,
                                 !.sound = sound] /\ rpc' = rpc
        BY <2>4, <2>8, <3>1
      <4>2. part.have + n \in Nat /\ part.have + n < part.need
        BY <2>1, <2>2, <2>6, <3>1
      <4>3. part' \in PartSet /\ part'.have = part.have + n /\ part'.need = part.need
        BY <2>2, <2>7, <4>1, <4>2 DEF PartSet
      <4> QED
        BY <4>1, <4>2, <4>3
    <3>2. CASE ~(n < wanted) /\ part.kind = "head"
      <4>1. HeaderRead(Bytes("down", n).of, sound)
        BY <2>4, <2>8, <3>2
      <4> QED
        BY <2>7, <4>1, HeaderShape
    <3>3. CASE ~(n < wanted) /\ part.kind # "head"
      BY <1>H, <2>4, <3>3 DEF BodyRead
    <3> QED
      BY <3>1, <3>2, <3>3
  <2>10. UNCHANGED <<spc, sent, wire, cut, held, shut, failed>>
    BY <1>1 DEF Receives, relaying
  <2> QED
    BY <2>5, <2>9, <2>10, ShapeSame DEF Shape
<1>2. CASE ReceiveFails
  <2>1. (failed \/ ~ReadFails("down")) \in BOOLEAN
    OBVIOUS
  <2>2. Departs /\ failed' \in BOOLEAN
    BY <1>2, <2>1 DEF ReceiveFails
  <2> QED
    BY <2>2, DepartsShape
<1> QED
  BY <1>1, <1>2

(* A fragment is a part of the piece that its frame held.                  *)
LEMMA PartOfPiece ==
  ASSUME Shape, NEW b \in Pieces, NEW n \in 1 .. b.size - 1
  PROVE  /\ [b EXCEPT !.size = n] \in Pieces
         /\ [b EXCEPT !.from = @ + n, !.size = @ - n] \in Pieces
<1>1. /\ b \in PieceSet /\ b.size \in Nat /\ b.from \in Nat /\ b.of \in 1 .. Len(sent)
      /\ b.kind \in {"head", "body"} /\ b.sound = TRUE
      /\ b.from + b.size <= Whole(b.of, b.kind) /\ Whole(b.of, b.kind) \in Nat
  BY PieceSizes
<1>2. n \in Nat /\ b.size - n \in Nat /\ b.from + n \in Nat
  BY <1>1
<1>3. PICK b1 : b1 = [b EXCEPT !.size = n]
  OBVIOUS
<1>4. /\ b1 \in PieceSet /\ b1.of = b.of /\ b1.kind = b.kind /\ b1.from = b.from
      /\ b1.size = n /\ b1.sound = TRUE
  BY <1>1, <1>2, <1>3 DEF PieceSet
<1>5. b1.from + b1.size <= Whole(b1.of, b1.kind)
  BY <1>1, <1>2, <1>4
<1>6. PICK b2 : b2 = [b EXCEPT !.from = @ + n, !.size = @ - n]
  OBVIOUS
<1>7. /\ b2 \in PieceSet /\ b2.of = b.of /\ b2.kind = b.kind /\ b2.from = b.from + n
      /\ b2.size = b.size - n /\ b2.sound = TRUE
  BY <1>1, <1>2, <1>6 DEF PieceSet
<1>8. b2.from + b2.size <= Whole(b2.of, b2.kind)
  BY <1>1, <1>2, <1>7
<1>9. b1 \in Pieces
  BY <1>1, <1>4, <1>5 DEF Pieces
<1>10. b2 \in Pieces
  BY <1>1, <1>7, <1>8 DEF Pieces
<1> QED
  BY <1>3, <1>6, <1>9, <1>10

LEMMA BetweenFacts ==
  ASSUME Shape, NEW h \in Hops, Between(h)
  PROVE  /\ Len(wire[h]) \in Nat /\ Len(wire[h]) > 0
         /\ Latest(h) \in Frames(h) /\ Latest(h).op = "binary"
         /\ Latest(h).body \in Pieces /\ Latest(h).body.size \in 0 .. MaxFrame
         /\ UNCHANGED <<spc, sent, reader, cut, held, shut, rpc, part, got, failed>>
<1>1. wire[h] \in Seq(Frames(h)) /\ wire[h] # <<>>
  BY DEF Between, Shape
<1>2. Len(wire[h]) \in Nat /\ Len(wire[h]) > 0 /\ Latest(h) \in Frames(h)
  BY <1>1 DEF Latest
<1>3. Latest(h).op = "binary" /\ Latest(h).op \in DataOps
  BY DEF Between, DataOps
<1>4. Latest(h).body \in Pieces
  BY <1>2, <1>3, FrameFacts
<1> QED
  BY <1>2, <1>3, <1>4, PieceSizes DEF Between, relaying, receiving

LEMMA FragmentShape ==
  ASSUME Shape, NEW h \in Hops, Fragment(h)
  PROVE  Shape'
<1>1. /\ Len(wire[h]) \in Nat /\ Len(wire[h]) > 0
      /\ Latest(h).body \in Pieces /\ Latest(h).body.size \in 0 .. MaxFrame
      /\ UNCHANGED <<spc, sent, reader, cut, held, shut, rpc, part, failed>>
  BY BetweenFacts DEF Fragment
<1>2. PICK b : b = Latest(h).body
  OBVIOUS
<1>3. PICK n \in 1 .. b.size - 1 :
        wire' = [wire EXCEPT ![h] =
           Front(wire[h]) \o
             <<Frame(h, "binary", [b EXCEPT !.size = n]),
               Frame(h, "continuation", [b EXCEPT !.from = @ + n, !.size = @ - n])>>]
  BY <1>2 DEF Fragment
<1>4. PICK b1, b2 : /\ b1 = [b EXCEPT !.size = n]
                    /\ b2 = [b EXCEPT !.from = @ + n, !.size = @ - n]
  OBVIOUS
<1>5. b1 \in Pieces /\ b2 \in Pieces
  BY <1>1, <1>2, <1>4, PartOfPiece
<1>6. b1 \in PieceSet /\ b2 \in PieceSet /\ b1.size \in 0 .. MaxFrame /\ b2.size \in 0 .. MaxFrame
  BY <1>5, PieceSizes
<1>7. PICK f1, f2 : f1 = Frame(h, "binary", b1) /\ f2 = Frame(h, "continuation", b2)
  OBVIOUS
<1>8. f1 \in Frames(h) /\ f2 \in Frames(h)
  BY <1>5, <1>6, <1>7, FrameIsGood DEF DataOps
<1>9. f1 \in FrameSet /\ f2 \in FrameSet
  BY <1>8 DEF Frames
<1>10. /\ Front(wire[h]) \o <<f1, f2>> \in Seq(Frames(h))
       /\ Front(wire[h]) \o <<f1, f2>> \in Seq(FrameSet)
  <2>1. wire[h] \in Seq(Frames(h)) /\ wire[h] \in Seq(FrameSet)
    BY DEF Shape
  <2>2. Front(wire[h]) \in Seq(Frames(h)) /\ Front(wire[h]) \in Seq(FrameSet)
    BY <1>1, <2>1 DEF Front
  <2>3. <<f1, f2>> \in Seq(Frames(h)) /\ <<f1, f2>> \in Seq(FrameSet)
    BY <1>8, <1>9
  <2> QED
    BY <2>2, <2>3
<1>11. wire' \in [Hops -> Seq(FrameSet)] /\ \A k \in Hops : wire'[k] \in Seq(Frames(k))
  BY <1>3, <1>4, <1>7, <1>10 DEF Shape
<1> QED
  BY <1>1, <1>11, ShapeSame DEF Shape

LEMMA ControlWritten ==
  ASSUME NEW h \in Hops, Control(h)
  PROVE  \E op \in {"ping", "pong"}, n \in 0 .. MaxControl :
           wire' = [wire EXCEPT ![h] = Append(@, Frame(h, op, Piece(0, "control", 0, n)))]
<1>1. \A n : n \in {0} \cup (Cuts \cap 1 .. MaxControl) => n \in 0 .. MaxControl
  BY SMT DEF MaxControl
<1> QED
  BY <1>1, Zenon DEF Control

LEMMA ControlShape ==
  ASSUME Shape, NEW h \in Hops, Control(h)
  PROVE  Shape'
<1>1. UNCHANGED <<spc, sent, reader, cut, held, shut, rpc, part, failed>>
  BY BetweenFacts DEF Control
<1>2. PICK op \in {"ping", "pong"}, n \in 0 .. MaxControl :
        wire' = [wire EXCEPT ![h] = Append(@, Frame(h, op, Piece(0, "control", 0, n)))]
  BY ControlWritten
<1>3. PICK p : p = Piece(0, "control", 0, n)
  OBVIOUS
<1>4. p \in PieceSet /\ p.size = n
  BY <1>3 DEF Piece, PieceSet
<1>5. p.size \in 0 .. MaxFrame
  <2>1. MaxFrame \in Nat /\ MaxControl <= MaxFrame /\ MaxControl \in Nat
    BY StreamAssumption, SMT DEF MaxControl
  <2> QED
    BY <1>4, <2>1
<1>6. PICK f : f = Frame(h, op, p)
  OBVIOUS
<1>7. f \in Frames(h)
  BY <1>4, <1>5, <1>6, FrameIsGood DEF DataOps
<1>8. f \in FrameSet
  BY <1>7 DEF Frames
<1>9. Append(wire[h], f) \in Seq(Frames(h)) /\ Append(wire[h], f) \in Seq(FrameSet)
  <2>1. wire[h] \in Seq(Frames(h)) /\ wire[h] \in Seq(FrameSet)
    BY DEF Shape
  <2> QED
    BY <1>7, <1>8, <2>1
<1>10. wire' \in [Hops -> Seq(FrameSet)] /\ \A k \in Hops : wire'[k] \in Seq(Frames(k))
  BY <1>2, <1>3, <1>6, <1>9 DEF Shape
<1> QED
  BY <1>1, <1>10, ShapeSame DEF Shape

(* What still arrives of a frame, or of what is being read, when its hop   *)
(* is cut.                                                                 *)
LEMMA CutFrame ==
  ASSUME NEW h \in Hops, cut'[h], UNCHANGED sent, NEW f \in Frames(h), NEW n \in 0 .. f.here
  PROVE  [f EXCEPT !.here = n] \in Frames(h)'
<1>1. /\ f \in FrameSet /\ f.here \in Nat /\ f.masked = (h = "up") /\ f.body.size \in Nat
      /\ f.body.size <= MaxFrame /\ f.code = LengthCode(f.body.size)
      /\ f.here <= f.body.size
      /\ f.op \in DataOps => f.body \in Pieces
  BY DEF Frames, FrameSet, PieceSet
<1>2. PICK g : g = [f EXCEPT !.here = n]
  OBVIOUS
<1>3. n \in Nat /\ n <= f.body.size
  BY <1>1
<1>4. /\ g \in FrameSet /\ g.here = n /\ g.op = f.op /\ g.masked = f.masked
      /\ g.code = f.code /\ g.body = f.body
  BY <1>1, <1>2, <1>3 DEF FrameSet
<1>5. Pieces' = Pieces
  BY DEF Pieces, Whole
<1>6. g \in Frames(h)'
  BY <1>1, <1>3, <1>4, <1>5 DEF Frames
<1> QED
  BY <1>2, <1>6

LEMMA CutReader ==
  ASSUME NEW h \in Hops, cut'[h], UNCHANGED sent, NEW r \in Readers(h)
  PROVE  [r EXCEPT !.here = r.off] \in Readers(h)' /\ [r EXCEPT !.here = r.off] \in ReaderSet
<1>1. /\ r \in ReaderSet /\ r.here \in Nat /\ r.off \in Nat /\ r.body.size \in Nat
      /\ r.off <= r.here /\ r.here <= r.body.size /\ r.off + r.rest = r.body.size
      /\ r.rest > 0 => /\ r.body \in Pieces
                       /\ r.masked = (h = "up")
                       /\ r.masked => r.keyPos = r.off
  BY DEF Readers, ReaderSet, PieceSet
<1>2. PICK g : g = [r EXCEPT !.here = r.off]
  OBVIOUS
<1>4. /\ g \in ReaderSet /\ g.here = r.off /\ g.off = r.off /\ g.rest = r.rest
      /\ g.masked = r.masked /\ g.keyPos = r.keyPos /\ g.body = r.body
  BY <1>1, <1>2 DEF ReaderSet
<1>5. Pieces' = Pieces
  BY DEF Pieces, Whole
<1>6. g.off <= g.here /\ g.here <= g.body.size /\ g.off + g.rest = g.body.size
  BY <1>1, <1>4
<1>7. g \in Readers(h)'
  BY <1>1, <1>4, <1>5, <1>6 DEF Readers
<1> QED
  BY <1>2, <1>4, <1>7

LEMMA Replaced ==
  ASSUME NEW S, NEW q \in Seq(S), NEW k \in 1 .. Len(q), NEW e \in S
  PROVE  [q EXCEPT ![k] = e] \in Seq(S)
OBVIOUS

LEMMA CutShape ==
  ASSUME Shape, NEW h \in Hops, Cut(h)
  PROVE  Shape'
<1>1. /\ cut' = [cut EXCEPT ![h] = TRUE] /\ failed' = TRUE
      /\ UNCHANGED <<spc, sent, held, shut, rpc, part>>
  BY DEF Cut, relaying, receiving
<1>2. cut' \in [Hops -> BOOLEAN] /\ cut'[h] /\ sent' \in Seq(0 .. MaxMessage)
  BY <1>1 DEF Shape
<1>3. Grown
  <2>1. Len(sent) \in Nat
    BY DEF Shape
  <2>2. \A k \in Hops : cut[k] => cut'[k]
    BY <1>1 DEF Shape
  <2> QED
    BY <1>1, <2>1, <2>2 DEF Grown
<1>4. Pieces \subseteq Pieces'
  BY <1>2, <1>3, GrownSets
<1>5. \A k \in Hops : /\ Seq(Frames(k)) \subseteq Seq(Frames(k)')
                      /\ Readers(k) \subseteq Readers(k)'
  <2>1. ASSUME NEW k \in Hops
        PROVE  Seq(Frames(k)) \subseteq Seq(Frames(k)') /\ Readers(k) \subseteq Readers(k)'
    BY <1>2, <1>3, GrownSets
  <2> QED
    BY <2>1, HopFacts
<1>6. PICK k \in 0 .. Len(wire[h]) :
        /\ \/ wire' = [wire EXCEPT ![h] = SubSeq(@, 1, k)]
           \/ /\ k > 0
              /\ \E n \in Cuts \cap 0 .. wire[h][k].here :
                   wire' = [wire EXCEPT ![h] = [SubSeq(@, 1, k) EXCEPT ![k].here = n]]
        /\ UNCHANGED reader \/ reader' = [reader EXCEPT ![h].here = reader[h].off]
  BY DEF Cut
<1>7. wire[h] \in Seq(Frames(h)) /\ wire[h] \in Seq(FrameSet) /\ Len(wire[h]) \in Nat
  BY DEF Shape
<1>8. PICK q : q = SubSeq(wire[h], 1, k)
  OBVIOUS
<1>9. q \in Seq(Frames(h)) /\ q \in Seq(FrameSet) /\ Len(q) = k /\ (k > 0 => q[k] = wire[h][k])
  BY <1>7, <1>8
<1>10. q \in Seq(Frames(h)')
  BY <1>5, <1>9
<1>11. wire' \in [Hops -> Seq(FrameSet)] /\ \A i \in Hops : wire'[i] \in Seq(Frames(i)')
  <2>0. wire \in [Hops -> Seq(FrameSet)] /\ \A i \in Hops : wire[i] \in Seq(Frames(i)')
    BY <1>5 DEF Shape
  <2>1. CASE wire' = [wire EXCEPT ![h] = q]
    BY <1>9, <1>10, <2>0, <2>1
  <2>2. ASSUME k > 0, NEW n \in 0 .. wire[h][k].here,
               wire' = [wire EXCEPT ![h] = [q EXCEPT ![k].here = n]]
        PROVE  wire' \in [Hops -> Seq(FrameSet)] /\ \A i \in Hops : wire'[i] \in Seq(Frames(i)')
    <3>1. PICK f \in Frames(h) : f = wire[h][k]
      BY <1>7, <2>2
    <3>2. PICK g : g = [f EXCEPT !.here = n]
      OBVIOUS
    <3>3. g \in Frames(h)'
      BY <1>1, <1>2, <2>2, <3>1, <3>2, CutFrame
    <3>4. g \in FrameSet
      BY <3>3 DEF Frames
    <3>5. wire' = [wire EXCEPT ![h] = [q EXCEPT ![k] = g]]
      BY <1>9, <2>2, <3>1, <3>2
    <3>6. k \in 1 .. Len(q)
      BY <1>9, <2>2
    <3>7. [q EXCEPT ![k] = g] \in Seq(FrameSet)
      BY <1>9, <3>4, <3>6, Replaced
    <3>8. [q EXCEPT ![k] = g] \in Seq(Frames(h)')
      BY <1>10, <3>3, <3>6, Replaced
    <3> QED
      BY <2>0, <3>5, <3>7, <3>8
  <2> QED
    BY <1>6, <1>8, <2>1, <2>2
<1>12. reader' \in [Hops -> ReaderSet] /\ \A i \in Hops : reader'[i] \in Readers(i)'
  <2>1. reader \in [Hops -> ReaderSet] /\ \A i \in Hops : reader[i] \in Readers(i)'
    BY <1>5 DEF Shape
  <2>2. CASE UNCHANGED reader
    BY <2>1, <2>2
  <2>3. CASE reader' = [reader EXCEPT ![h].here = reader[h].off]
    <3>1. PICK r \in Readers(h) : r = reader[h]
      BY DEF Shape
    <3>2. PICK g : g = [r EXCEPT !.here = r.off]
      OBVIOUS
    <3>3. g \in Readers(h)' /\ g \in ReaderSet
      BY <1>1, <1>2, <3>1, <3>2, CutReader
    <3>4. reader' = [reader EXCEPT ![h] = g]
      BY <2>3, <3>1, <3>2
    <3> QED
      BY <2>1, <3>3, <3>4
  <2> QED
    BY <1>6, <2>2, <2>3
<1>13. held' # Nothing' => held' \in Pieces' /\ held'.size > 0
  BY <1>1, <1>4 DEF Shape, Nothing, Piece
<1>14. held' \in PieceSet /\ reader' \in [Hops -> ReaderSet] /\ failed' \in BOOLEAN
  BY <1>1, <1>12 DEF Shape
<1> QED
  BY <1>1, <1>2, <1>11, <1>12, <1>13, <1>14 DEF Shape

LEMMA SurroundingsShape ==
  ASSUME Shape, Surroundings
  PROVE  Shape'
<1>1. CASE KillSender
  BY <1>1, ShapeSame DEF KillSender, Shape, relaying, receiving
<1>2. CASE ReceiverLeaves
  <2>1. Departs /\ failed' \in BOOLEAN
    BY <1>2 DEF ReceiverLeaves
  <2> QED
    BY <2>1, DepartsShape
<1> QED
  BY <1>1, <1>2, FragmentShape, ControlShape, CutShape DEF Surroundings

LEMMA ShapeInit == Init => Shape
<1> SUFFICES ASSUME Init PROVE Shape
  OBVIOUS
<1>1. \A h \in Hops : NewReader \in Readers(h) /\ NewReader \in ReaderSet
  BY NewReaderFacts, HopFacts
<1>2. \A h \in Hops : <<>> \in Seq(Frames(h)) /\ <<>> \in Seq(FrameSet)
  OBVIOUS
<1>3. part \in PartSet /\ part.have < part.need
  BY DEF Init, PartSet, HeaderSize
<1>4. wire \in [Hops -> Seq(FrameSet)] /\ reader \in [Hops -> ReaderSet]
  BY <1>1, <1>2 DEF Init
<1>5. \A h \in Hops : wire[h] \in Seq(Frames(h)) /\ reader[h] \in Readers(h)
  BY <1>1, <1>2 DEF Init
<1>6. sent \in Seq(0 .. MaxMessage)
  BY DEF Init
<1> QED
  BY <1>3, <1>4, <1>5, <1>6, NothingFacts DEF Init, Shape

LEMMA ShapeStutters ==
  ASSUME Shape, UNCHANGED vars
  PROVE  Shape'
BY ShapeSame DEF Shape, vars, relaying, receiving

LEMMA ShapeStep ==
  ASSUME Shape, [Next]_vars
  PROVE  Shape'
<1>1. CASE Sender
  BY <1>1, SenderShape
<1>2. CASE Relay
  BY <1>2, RelayShape, NextFrameShape, HopFacts DEF Relay
<1>3. CASE Receiver
  BY <1>3, ReceiverShape, NextFrameShape, HopFacts DEF Receiver
<1>4. CASE Surroundings
  BY <1>4, SurroundingsShape
<1>5. CASE UNCHANGED vars
  BY <1>5, ShapeStutters
<1> QED
  BY <1>1, <1>2, <1>3, <1>4, <1>5 DEF Next, Quiet

LEMMA ShapeAlways == Spec => []Shape
BY ShapeInit, ShapeStep, PTL DEF Spec

(* Whatever is on the wires, a reader gets the length that the writer      *)
(* meant: writeFrame and nextFrame agree on the bytes of it.               *)
THEOREM LengthsAgreeHolds == Spec => []LengthsAgree
<1>1. ASSUME NEW n \in Boundaries
      PROVE  LengthOf(LengthCode(n)) = n
  <2>1. n \in Nat /\ n <= 16777216
    BY Powers, StreamAssumption, SMT DEF Boundaries, HeaderSize
  <2> QED
    BY <2>1, CodeOfLength, SMT
<1>2. ASSUME Shape, NEW h \in Hops, NEW i \in DOMAIN wire[h]
      PROVE  LengthOf(wire[h][i].code) = wire[h][i].body.size
  <2>1. wire[h][i] \in Frames(h)
    BY <1>2 DEF Shape
  <2> QED
    BY <2>1, FrameFacts
<1>3. Shape => LengthsAgree
  BY <1>1, <1>2 DEF LengthsAgree
<1> QED
  BY <1>3, ShapeAlways, PTL

(* No message that comm.Send took is refused by comm.Receive, and no frame *)
(* by nextFrame: the limits of the three agree.                            *)
THEOREM LimitsAgreeHolds == Spec => []LimitsAgree
<1>1. ASSUME Shape, NEW h \in Hops, NEW i \in DOMAIN wire[h]
      PROVE  LengthOf(wire[h][i].code) <= MaxFrame
  <2>1. wire[h][i] \in Frames(h)
    BY <1>1 DEF Shape
  <2>2. PICK s : s = wire[h][i].body.size
    OBVIOUS
  <2>3. s \in 0 .. MaxFrame /\ LengthOf(wire[h][i].code) = s
    BY <2>1, <2>2, FrameFacts
  <2>4. s <= MaxFrame
    BY <2>3, StreamAssumption
  <2> QED
    BY <2>3, <2>4
<1>2. Shape => LimitsAgree
  BY <1>1 DEF LimitsAgree, Shape
<1> QED
  BY <1>2, ShapeAlways, PTL

-----------------------------------------------------------------------------
(* The order of the bytes                                                  *)

(* Where the bytes belong in the stream that the sender writes: message i  *)
(* begins at base[i] with its header.                                      *)
Bases(base) ==
  /\ base \in [1 .. Len(sent) + 1 -> Nat]
  /\ \A j \in 1 .. Len(sent) : base[j + 1] = base[j] + HeaderSize + sent[j]
  /\ \A j \in 1 .. Len(sent), k \in 1 .. Len(sent) + 1 :
       j < k => base[j] + HeaderSize + sent[j] <= base[k]

Skipped(kind) == IF kind = "body" THEN HeaderSize ELSE 0

Start(base, p) == base[p.of] + Skipped(p.kind) + p.from

Position(base) == base[Len(got) + 1] + Skipped(part.kind) + part.have

(* Frame f takes the stream from a to b.                                   *)
Step(base, f, a, b) ==
  IF f.op \in DataOps THEN a = Start(base, f.body) /\ b = a + f.body.size ELSE b = a

Flow(base, q, a, b) ==
  \E at \in [0 .. Len(q) -> Nat] :
    /\ at[0] = a /\ at[Len(q)] = b
    /\ \A i \in 1 .. Len(q) : Step(base, q[i], at[i - 1], at[i])

(* So do what reader r still has of its frame, and the frames of q.        *)
Comes(base, r, q, a, b) ==
  /\ r.rest > 0 => a = Start(base, r.body) + r.off
  /\ Flow(base, q, a + r.rest, b)

LEMMA FlowNone ==
  ASSUME NEW base, NEW a \in Nat
  PROVE  /\ Flow(base, <<>>, a, a)
         /\ \A b : Flow(base, <<>>, a, b) => b = a
<1>1. Len(<<>>) = 0
  OBVIOUS
<1>2. Flow(base, <<>>, a, a)
  <2>1. PICK at : at = [i \in 0 .. 0 |-> a]
    OBVIOUS
  <2>2. at \in [0 .. 0 -> Nat] /\ at[0] = a
    BY <2>1
  <2> QED
    BY <1>1, <2>2 DEF Flow
<1>3. ASSUME NEW b, Flow(base, <<>>, a, b)
      PROVE  b = a
  BY <1>1, <1>3 DEF Flow
<1> QED
  BY <1>2, <1>3

LEMMA FlowEnds ==
  ASSUME NEW base, NEW S, NEW q \in Seq(S), NEW a, NEW b, Flow(base, q, a, b)
  PROVE  a \in Nat /\ b \in Nat
<1>1. Len(q) \in Nat
  OBVIOUS
<1>2. PICK at \in [0 .. Len(q) -> Nat] : at[0] = a /\ at[Len(q)] = b
  BY DEF Flow
<1> QED
  BY <1>1, <1>2

LEMMA FlowAppend ==
  ASSUME NEW base, NEW S, NEW q \in Seq(S), NEW f \in S, NEW a, NEW b, NEW c \in Nat,
         Flow(base, q, a, b), Step(base, f, b, c)
  PROVE  Flow(base, Append(q, f), a, c)
<1>1. PICK at \in [0 .. Len(q) -> Nat] :
        /\ at[0] = a /\ at[Len(q)] = b
        /\ \A i \in 1 .. Len(q) : Step(base, q[i], at[i - 1], at[i])
  BY DEF Flow
<1>2. PICK k \in Nat : k = Len(q)
  OBVIOUS
<1>3. PICK q2 : q2 = Append(q, f)
  OBVIOUS
<1>4. Len(q2) = k + 1 /\ q2[k + 1] = f /\ \A i \in 1 .. k : q2[i] = q[i]
  BY <1>2, <1>3
<1>5. PICK at2 : at2 = [i \in 0 .. k + 1 |-> IF i = k + 1 THEN c ELSE at[i]]
  OBVIOUS
<1>6. /\ at2 \in [0 .. k + 1 -> Nat] /\ at2[k + 1] = c
      /\ \A i \in 0 .. k : at2[i] = at[i]
  BY <1>1, <1>2, <1>5
<1>7. at2[0] = a /\ at2[k] = b
  BY <1>1, <1>2, <1>6
<1>8. ASSUME NEW i \in 1 .. k + 1
      PROVE  Step(base, q2[i], at2[i - 1], at2[i])
  <2>1. CASE i = k + 1
    BY <1>2, <1>4, <1>6, <1>7, <2>1
  <2>2. CASE i # k + 1
    <3>1. i \in 1 .. k /\ i - 1 \in 0 .. k /\ i \in 0 .. k
      BY <1>2, <2>2
    <3> QED
      BY <1>1, <1>2, <1>4, <1>6, <3>1
  <2> QED
    BY <2>1, <2>2
<1>9. Flow(base, q2, a, c)
  BY <1>4, <1>6, <1>7, <1>8 DEF Flow
<1> QED
  BY <1>3, <1>9

LEMMA FlowTail ==
  ASSUME NEW base, NEW S, NEW q \in Seq(S), q # <<>>, NEW a, NEW b, Flow(base, q, a, b)
  PROVE  \E c \in Nat : Step(base, Head(q), a, c) /\ Flow(base, Tail(q), c, b)
<1>1. PICK at \in [0 .. Len(q) -> Nat] :
        /\ at[0] = a /\ at[Len(q)] = b
        /\ \A i \in 1 .. Len(q) : Step(base, q[i], at[i - 1], at[i])
  BY DEF Flow
<1>2. PICK k \in Nat : k + 1 = Len(q)
  <2>1. Len(q) - 1 \in Nat /\ (Len(q) - 1) + 1 = Len(q)
    OBVIOUS
  <2> QED
    BY <2>1
<1>3. PICK q2 : q2 = Tail(q)
  OBVIOUS
<1>4. Len(q2) = k /\ Head(q) = q[1] /\ \A i \in 1 .. k : q2[i] = q[i + 1]
  BY <1>2, <1>3
<1>5. PICK at2 : at2 = [i \in 0 .. k |-> at[i + 1]]
  OBVIOUS
<1>6. /\ at2 \in [0 .. k -> Nat]
      /\ \A i \in 0 .. k : at2[i] = at[i + 1]
  BY <1>1, <1>2, <1>5
<1>7. at2[0] = at[1] /\ at2[k] = b /\ at[1] \in Nat
  BY <1>1, <1>2, <1>6
<1>8. Step(base, Head(q), a, at[1])
  BY <1>1, <1>2, <1>4
<1>9. ASSUME NEW i \in 1 .. k
      PROVE  Step(base, q2[i], at2[i - 1], at2[i])
  <2>1. i + 1 \in 1 .. Len(q) /\ i - 1 \in 0 .. k /\ i \in 0 .. k /\ (i + 1) - 1 = i
        /\ (i - 1) + 1 = i
    BY <1>2
  <2>2. Step(base, q[i + 1], at[(i + 1) - 1], at[i + 1])
    BY <1>1, <2>1
  <2>3. at2[i - 1] = at[i] /\ at2[i] = at[i + 1] /\ q2[i] = q[i + 1]
    <3>1. at2[i - 1] = at[(i - 1) + 1]
      BY <1>6, <2>1
    <3> QED
      BY <1>4, <1>6, <2>1, <3>1
  <2> QED
    BY <2>1, <2>2, <2>3
<1>10. Flow(base, q2, at[1], b)
  BY <1>4, <1>6, <1>7, <1>9 DEF Flow
<1> QED
  BY <1>3, <1>7, <1>8, <1>10

(* What is left of a queue that is cut flows on; so does all but its last  *)
(* frame.                                                                  *)
LEMMA FlowPart ==
  ASSUME NEW base, NEW S, NEW q \in Seq(S), NEW k \in 0 .. Len(q), NEW a, NEW b,
         Flow(base, q, a, b)
  PROVE  \E c \in Nat : /\ Flow(base, SubSeq(q, 1, k), a, c)
                        /\ k + 1 = Len(q) => Step(base, q[k + 1], c, b)
<1>1. PICK at \in [0 .. Len(q) -> Nat] :
        /\ at[0] = a /\ at[Len(q)] = b
        /\ \A i \in 1 .. Len(q) : Step(base, q[i], at[i - 1], at[i])
  BY DEF Flow
<1>2. Len(q) \in Nat /\ k \in Nat /\ k <= Len(q)
  OBVIOUS
<1>3. PICK q2 : q2 = SubSeq(q, 1, k)
  OBVIOUS
<1>4. Len(q2) = k /\ \A i \in 1 .. k : q2[i] = q[i]
  BY <1>2, <1>3
<1>5. PICK at2 : at2 = [i \in 0 .. k |-> at[i]]
  OBVIOUS
<1>6. /\ at2 \in [0 .. k -> Nat]
      /\ \A i \in 0 .. k : at2[i] = at[i]
  <2>1. \A i \in 0 .. k : i \in 0 .. Len(q)
    BY <1>2
  <2>2. \A i \in 0 .. k : at[i] \in Nat
    BY <1>1, <2>1
  <2> QED
    BY <1>5, <2>2
<1>7. at2[0] = a /\ at2[k] = at[k] /\ at[k] \in Nat
  BY <1>1, <1>2, <1>6
<1>8. ASSUME NEW i \in 1 .. k
      PROVE  Step(base, q2[i], at2[i - 1], at2[i])
  <2>1. i \in 1 .. Len(q) /\ i - 1 \in 0 .. k /\ i \in 0 .. k
    BY <1>2
  <2> QED
    BY <1>1, <1>4, <1>6, <2>1
<1>9. Flow(base, q2, a, at[k])
  BY <1>4, <1>6, <1>7, <1>8 DEF Flow
<1>10. k + 1 = Len(q) => Step(base, q[k + 1], at[k], b)
  <2>1. SUFFICES ASSUME k + 1 = Len(q) PROVE Step(base, q[k + 1], at[k], b)
    OBVIOUS
  <2>2. k + 1 \in 1 .. Len(q) /\ (k + 1) - 1 = k
    BY <1>2, <2>1
  <2>3. Step(base, q[k + 1], at[(k + 1) - 1], at[k + 1])
    BY <1>1, <2>2
  <2>4. at[k + 1] = b
    BY <1>1, <2>1
  <2> QED
    BY <2>2, <2>3, <2>4
<1> QED
  BY <1>3, <1>7, <1>9, <1>10

LEMMA FlowSame ==
  ASSUME NEW base, NEW S, NEW q \in Seq(S), NEW q2 \in Seq(S), NEW base2,
         NEW a, NEW b, Flow(base, q, a, b), Len(q2) = Len(q),
         \A i \in 1 .. Len(q) :
           /\ q2[i].op = q[i].op /\ q2[i].body = q[i].body
           /\ q[i].op \in DataOps => Start(base2, q[i].body) = Start(base, q[i].body)
  PROVE  Flow(base2, q2, a, b)
<1>1. PICK at \in [0 .. Len(q) -> Nat] :
        /\ at[0] = a /\ at[Len(q)] = b
        /\ \A i \in 1 .. Len(q) : Step(base, q[i], at[i - 1], at[i])
  BY DEF Flow
<1>2. ASSUME NEW i \in 1 .. Len(q)
      PROVE  Step(base2, q2[i], at[i - 1], at[i])
  <2>1. Step(base, q[i], at[i - 1], at[i])
    BY <1>1
  <2>2. /\ q2[i].op = q[i].op /\ q2[i].body = q[i].body
        /\ q[i].op \in DataOps => Start(base2, q[i].body) = Start(base, q[i].body)
    OBVIOUS
  <2> QED
    BY <2>1, <2>2 DEF Step
<1> QED
  BY <1>1, <1>2 DEF Flow

-----------------------------------------------------------------------------
(* How the connections end: a close frame is the last one, and while       *)
(* nothing has failed each end that has hung up has left one.              *)

Open(q) == \A i \in 1 .. Len(q) : q[i].op # "close"
CloseLast(q) == \A i \in 1 .. Len(q) : q[i].op = "close" => i = Len(q)
EndsInClose(q) == Len(q) > 0 /\ q[Len(q)].op = "close"

Closing ==
  /\ \A h \in Hops : /\ cut[h] => failed
                     /\ CloseLast(wire[h])
                     /\ HungUp(h) \/ Open(wire[h])
  /\ ~failed /\ ~shut["up"] /\ spc = "gone" => EndsInClose(wire["up"])
  /\ ~failed /\ shut["down"] /\ rpc = "reading" => EndsInClose(wire["down"])
  /\ ~failed /\ (shut["up"] \/ shut["down"]) => spc = "gone"
  /\ shut["down"] => held = Nothing

LEMMA CloseNone == Open(<<>>) /\ CloseLast(<<>>)
BY DEF Open, CloseLast

LEMMA CloseAppend ==
  ASSUME NEW S, NEW q \in Seq(S), NEW f \in S, Open(q)
  PROVE  /\ CloseLast(Append(q, f))
         /\ f.op # "close" => Open(Append(q, f))
         /\ f.op = "close" => EndsInClose(Append(q, f))
<1>1. PICK q2 : q2 = Append(q, f)
  OBVIOUS
<1>2. /\ Len(q) \in Nat /\ Len(q2) = Len(q) + 1 /\ q2[Len(q2)] = f
      /\ \A i \in 1 .. Len(q) : q2[i] = q[i]
  BY <1>1
<1>3. \A i \in 1 .. Len(q2) : i = Len(q2) \/ q2[i].op # "close"
  <2>1. ASSUME NEW i \in 1 .. Len(q2), i # Len(q2)
        PROVE  q2[i].op # "close"
    <3>1. i \in 1 .. Len(q)
      BY <1>2, <2>1
    <3> QED
      BY <1>2, <3>1 DEF Open
  <2> QED
    BY <2>1
<1> QED
  BY <1>1, <1>2, <1>3 DEF Open, CloseLast, EndsInClose

LEMMA CloseTail ==
  ASSUME NEW S, NEW q \in Seq(S), q # <<>>, CloseLast(q)
  PROVE  /\ CloseLast(Tail(q))
         /\ Open(q) => Open(Tail(q))
         /\ Head(q).op = "close" => Tail(q) = <<>>
         /\ EndsInClose(q) /\ Head(q).op # "close" => EndsInClose(Tail(q))
<1>1. PICK t : t = Tail(q)
  OBVIOUS
<1>2. /\ Len(q) \in Nat /\ Len(q) > 0 /\ Len(t) = Len(q) - 1 /\ Head(q) = q[1]
      /\ \A i \in 1 .. Len(t) : t[i] = q[i + 1]
  BY <1>1
<1>3. \A i \in 1 .. Len(t) : i + 1 \in 1 .. Len(q)
  BY <1>2
<1>4. CloseLast(t)
  BY <1>2, <1>3 DEF CloseLast
<1>5. Open(q) => Open(t)
  BY <1>2, <1>3 DEF Open
<1>6. Head(q).op = "close" => t = <<>>
  <2>1. SUFFICES ASSUME q[1].op = "close" PROVE t = <<>>
    BY <1>2
  <2>2. Len(q) = 1
    BY <1>2, <2>1 DEF CloseLast
  <2> QED
    BY <1>1, <1>2, <2>2
<1>7. EndsInClose(q) /\ Head(q).op # "close" => EndsInClose(t)
  <2>1. SUFFICES ASSUME q[Len(q)].op = "close", q[1].op # "close"
                 PROVE  EndsInClose(t)
    BY <1>2 DEF EndsInClose
  <2>2. Len(q) # 1
    BY <2>1
  <2>3. Len(t) > 0 /\ t[Len(t)] = q[Len(q)]
    BY <1>2, <2>2
  <2> QED
    BY <2>1, <2>3 DEF EndsInClose
<1> QED
  BY <1>1, <1>4, <1>5, <1>6, <1>7

LEMMA CloseOther ==
  ASSUME NEW S, NEW q \in Seq(S), Len(q) > 0, CloseLast(q), q[Len(q)].op # "close"
  PROVE  Open(q)
BY DEF Open, CloseLast

LEMMA ClosePart ==
  ASSUME NEW S, NEW q \in Seq(S), NEW q2, Len(q2) \in 0 .. Len(q), CloseLast(q),
         \A i \in 1 .. Len(q2) : q2[i].op = q[i].op
  PROVE  CloseLast(q2) /\ (Open(q) => Open(q2))
<1>1. Len(q) \in Nat /\ Len(q2) \in Nat /\ Len(q2) <= Len(q)
  OBVIOUS
<1>2. \A i \in 1 .. Len(q2) : i \in 1 .. Len(q) /\ (i = Len(q) => i = Len(q2))
  BY <1>1
<1> QED
  BY <1>2 DEF Open, CloseLast

(* While nothing has failed, a Read fails only at the close frame of an    *)
(* end that has hung up.                                                   *)
LEMMA FailsCleanly ==
  ASSUME Shape, Closing, ~failed, NEW h \in Hops, ReadFails(h),
         IF h = "up" THEN ~shut["up"] ELSE rpc = "reading"
  PROVE  /\ reader[h].rest = 0 /\ wire[h] # <<>> /\ HungUp(h)
         /\ Head(wire[h]).op = "close" /\ Tail(wire[h]) = <<>>
<1>1. ~cut[h]
  BY DEF Closing
<1>2. wire[h] \in Seq(Frames(h))
  BY DEF Shape
<1>3. reader[h].rest = 0
  <2>1. SUFFICES ASSUME reader[h].rest # 0 PROVE FALSE
    OBVIOUS
  <2>2. /\ reader[h].rest \in Nat /\ reader[h].off \in Nat /\ reader[h].here \in Nat
        /\ reader[h].body.size \in Nat
        /\ reader[h].here <= reader[h].body.size
        /\ reader[h].off + reader[h].rest = reader[h].body.size
        /\ reader[h].here < reader[h].body.size => cut[h]
    BY ReaderFacts
  <2>3. reader[h].off = reader[h].here
    BY <2>1, <2>2 DEF ReadFails
  <2> QED
    BY <1>1, <2>1, <2>2, <2>3
<1>4. wire[h] # <<>>
  <2>1. SUFFICES ASSUME wire[h] = <<>> PROVE FALSE
    OBVIOUS
  <2>2. HungUp(h)
    BY <1>1, <1>3, <2>1 DEF ReadFails, Over
  <2>3. EndsInClose(wire[h])
    BY <2>2, HopFacts DEF HungUp, Closing
  <2>4. Len(wire[h]) = 0
    BY <2>1
  <2> QED
    BY <2>3, <2>4 DEF EndsInClose
<1>5. PICK f \in Frames(h) : f = Head(wire[h])
  BY <1>2, <1>4
<1>6. f.op = "close"
  <2>1. \/ f.op = "close"
        \/ LengthOf(f.code) > MaxFrame
        \/ f.here < f.body.size
    BY <1>3, <1>4, <1>5 DEF ReadFails
  <2>2. PICK s : s = LengthOf(f.code)
    OBVIOUS
  <2>3. s = f.body.size /\ f.body.size \in 0 .. MaxFrame /\ (f.here < f.body.size => cut[h])
    BY <2>2, FrameFacts
  <2>4. ~(s > MaxFrame)
    BY <2>3, StreamAssumption
  <2> QED
    BY <1>1, <2>1, <2>2, <2>3, <2>4
<1>7. CloseLast(wire[h]) /\ (HungUp(h) \/ Open(wire[h]))
  BY DEF Closing
<1>8. Tail(wire[h]) = <<>>
  BY <1>2, <1>4, <1>5, <1>6, <1>7, CloseTail
<1>9. HungUp(h)
  <2>1. 1 \in 1 .. Len(wire[h]) /\ Head(wire[h]) = wire[h][1]
    BY <1>2, <1>4
  <2>2. ~Open(wire[h])
    BY <1>5, <1>6, <2>1 DEF Open
  <2> QED
    BY <1>7, <2>2
<1> QED
  BY <1>3, <1>4, <1>5, <1>6, <1>8, <1>9

LEMMA WriteCloses ==
  ASSUME Shape, Closing, NEW h \in Hops, ~HungUp(h),
         NEW op \in DataOps \cup {"ping", "pong", "close"},
         NEW body \in PieceSet, body.size \in 0 .. MaxFrame, op \in DataOps => body \in Pieces
  PROVE  /\ CloseLast(Written(h, op, body)[h])
         /\ op # "close" => Open(Written(h, op, body)[h])
         /\ op = "close" /\ ~Gone(h) => EndsInClose(Written(h, op, body)[h])
         /\ \A k \in Hops : k # h => Written(h, op, body)[k] = wire[k]
<1>1. wire[h] \in Seq(Frames(h)) /\ Open(wire[h]) /\ CloseLast(wire[h])
  BY DEF Shape, Closing
<1>2. PICK f : f = Frame(h, op, body)
  OBVIOUS
<1>3. f \in Frames(h) /\ f.op = op
  BY <1>2, FrameIsGood DEF Frame
<1>4. /\ CloseLast(Append(wire[h], f))
      /\ f.op # "close" => Open(Append(wire[h], f))
      /\ f.op = "close" => EndsInClose(Append(wire[h], f))
  BY <1>1, <1>3, CloseAppend
<1>5. CASE Gone(h)
  BY <1>1, <1>5 DEF Written
<1>6. CASE ~Gone(h)
  <2>1. Written(h, op, body) = [wire EXCEPT ![h] = Append(wire[h], f)]
    BY <1>2, <1>6 DEF Written
  <2>2. Written(h, op, body)[h] = Append(wire[h], f)
    BY <2>1 DEF Shape
  <2> QED
    BY <1>3, <1>4, <2>1, <2>2 DEF Shape
<1> QED
  BY <1>5, <1>6

LEMMA SenderClosing ==
  ASSUME Shape, Closing, Sender
  PROVE  Closing'
<1>U. "up" \in Hops /\ "down" \in Hops
  BY HopFacts
<1>N. Nothing' = Nothing
  BY DEF Nothing, Piece
<1>1. ASSUME NEW n \in Sizes, SendHeader(n)
      PROVE  Closing'
  <2>1. spc = "idle" /\ spc' = "body" /\ UNCHANGED <<cut, shut, held, rpc, failed>>
    BY <1>1 DEF SendHeader, relaying, receiving
  <2>2. wire["up"] \in Seq(Frames("up")) /\ wire["up"] \in Seq(FrameSet) /\ Open(wire["up"])
    BY <1>U, <2>1 DEF Shape, Closing, HungUp
  <2>3. PICK body : body = Piece(Len(sent) + 1, "head", 0, HeaderSize)
    OBVIOUS
  <2>4. PICK f : f = Frame("up", "binary", body)
    OBVIOUS
  <2>5. f.op = "binary"
    BY <2>4 DEF Frame
  <2>6. wire' = wire \/ wire' = [wire EXCEPT !["up"] = Append(wire["up"], f)]
    BY <1>1, <2>3, <2>4 DEF SendHeader, Write, Written
  <2>7. CloseLast(Append(wire["up"], f)) /\ Open(Append(wire["up"], f))
    <3>1. PICK S : S = FrameSet \cup {f}
      OBVIOUS
    <3>2. wire["up"] \in Seq(S) /\ f \in S
      BY <2>2, <3>1
    <3> QED
      BY <2>2, <2>5, <3>2, CloseAppend
  <2>8. CloseLast(wire'["up"]) /\ Open(wire'["up"]) /\ wire'["down"] = wire["down"]
    BY <1>U, <2>2, <2>6, <2>7 DEF Shape, Closing
  <2> QED
    BY <1>N, <2>1, <2>8, HopFacts DEF Closing, HungUp
<1>2. ASSUME NEW n \in Sizes, SendRefuses(n)
      PROVE  Closing'
  BY <1>2, <1>N, HopFacts DEF SendRefuses, Closing, HungUp, relaying, receiving
<1>3. CASE SendBody
  <2>1. spc = "body" /\ spc' = "idle" /\ UNCHANGED <<cut, shut, held, rpc, failed>>
    BY <1>3 DEF SendBody, relaying, receiving
  <2>2. PICK body : body = Piece(Len(sent), "body", 0, sent[Len(sent)])
    OBVIOUS
  <2>3. body \in PieceSet /\ body \in Pieces /\ body.size \in 0 .. MaxFrame
    BY <1>3, <2>2, BodyIsGood
  <2>4. wire' = Written("up", "binary", body)
    BY <1>3, <2>2 DEF SendBody, Write
  <2>5. CloseLast(wire'["up"]) /\ Open(wire'["up"]) /\ wire'["down"] = wire["down"]
    BY <1>U, <2>1, <2>3, <2>4, WriteCloses DEF HungUp, DataOps
  <2> QED
    BY <1>N, <2>1, <2>5, HopFacts DEF Closing, HungUp
<1>4. CASE SenderCloses
  <2>1. /\ spc \in {"idle", "refused", "body"} /\ spc' = "gone"
        /\ UNCHANGED <<cut, shut, held, rpc, failed>>
    BY <1>4 DEF SenderCloses, relaying, receiving
  <2>2. Nothing \in PieceSet /\ Nothing.size \in 0 .. MaxFrame
    BY NothingFacts, StreamAssumption
  <2>3. wire' = Written("up", "close", Nothing)
    BY <1>4 DEF SenderCloses, Write
  <2>4. /\ CloseLast(wire'["up"]) /\ wire'["down"] = wire["down"]
        /\ ~Gone("up") => EndsInClose(wire'["up"])
    BY <1>U, <2>1, <2>2, <2>3, WriteCloses DEF HungUp, DataOps
  <2>5. ~failed /\ ~shut["up"] => ~Gone("up")
    BY <1>U DEF Closing, Gone
  <2> QED
    BY <1>N, <2>1, <2>4, <2>5, HopFacts DEF Closing, HungUp
<1> QED
  BY <1>1, <1>2, <1>3, <1>4 DEF Sender

LEMMA NextFrameChanges ==
  ASSUME Shape, NEW h \in Hops, NextFrame(h)
  PROVE  /\ UNCHANGED <<spc, sent, cut, held, shut, rpc, part, got>>
         /\ failed => failed'
         /\ \A k \in Hops : k # h => reader'[k] = reader[k] /\ wire'[k] = wire[k]
<1>1. UNCHANGED <<spc, sent, cut, held, shut, rpc, part, got>>
  BY DEF NextFrame, relaying, receiving
<1>2. failed => failed'
  <2>1. failed' = failed \/ failed' = (failed \/ HungUp(h))
    BY Zenon DEF NextFrame
  <2>2. ASSUME failed, failed' = (failed \/ HungUp(h))
        PROVE  failed'
    <3>1. (failed \/ HungUp(h)) = TRUE
      BY <2>2
    <3> QED
      BY <2>2, <3>1
  <2>3. CASE failed' = failed
    BY <2>3
  <2> QED
    BY <2>1, <2>2, <2>3
<1>3. \A k \in Hops : k # h => reader'[k] = reader[k] /\ wire'[k] = wire[k]
  BY DEF NextFrame, BeginFrame, BetweenFrames, Shape
<1> QED
  BY <1>1, <1>2, <1>3

LEMMA NextFrameClosing ==
  ASSUME Shape, Closing, NEW h \in Hops, NextFrame(h)
  PROVE  Closing'
<1>N. Nothing' = Nothing
  BY DEF Nothing, Piece
<1>1. wire[h] # <<>> /\ wire[h] \in Seq(FrameSet)
  BY DEF NextFrame, Shape
<1>2. Head(wire[h]).op # "close"
  BY DEF NextFrame
<1>3. wire' = [wire EXCEPT ![h] = Tail(wire[h])]
  BY DEF NextFrame
<1>4. /\ CloseLast(Tail(wire[h]))
      /\ Open(wire[h]) => Open(Tail(wire[h]))
      /\ EndsInClose(wire[h]) => EndsInClose(Tail(wire[h]))
  <2>1. CloseLast(wire[h])
    BY DEF Closing
  <2> QED
    BY <1>1, <1>2, <2>1, CloseTail
<1>5. /\ CloseLast(wire'[h]) /\ (Open(wire[h]) => Open(wire'[h]))
      /\ EndsInClose(wire[h]) => EndsInClose(wire'[h])
      /\ \A k \in Hops : k # h => wire'[k] = wire[k]
  BY <1>3, <1>4 DEF Shape
<1>6. UNCHANGED <<spc, cut, held, shut, rpc>> /\ (failed => failed')
  BY NextFrameChanges
<1> QED
  BY <1>N, <1>5, <1>6, HopFacts DEF Closing, HungUp

LEMMA RelayClosing ==
  ASSUME Shape, Closing, RelayReads \/ RelayWrites \/ CloseDown \/ CloseUp
  PROVE  Closing'
<1>U. "up" \in Hops /\ "down" \in Hops
  BY HopFacts
<1>N. Nothing' = Nothing
  BY DEF Nothing, Piece
<1>1. CASE RelayReads
  <2>1. UNCHANGED <<spc, cut, wire, shut, rpc, failed>> /\ ~shut["down"]
    BY <1>1 DEF RelayReads, Reading, receiving
  <2> QED
    BY <2>1 DEF Closing, HungUp
<1>2. CASE RelayWrites
  <2>1. /\ ~shut["down"] /\ held # Nothing /\ wire' = Written("down", "binary", held)
        /\ UNCHANGED <<spc, cut, shut, rpc, failed>>
    BY <1>2 DEF RelayWrites, Write, Closing, Shape, receiving
  <2>2. held \in Pieces /\ held \in PieceSet
    BY <2>1 DEF Shape
  <2>3. held.size \in 0 .. MaxFrame
    BY <2>2, PieceSizes
  <2>4. CloseLast(wire'["down"]) /\ Open(wire'["down"]) /\ wire'["up"] = wire["up"]
    BY <1>U, <2>1, <2>2, <2>3, WriteCloses DEF HungUp, DataOps
  <2> QED
    BY <2>1, <2>4, HopFacts DEF Closing, HungUp
<1>3. CASE CloseDown
  <2>1. /\ ~shut["down"] /\ held' = Nothing
        /\ shut'["down"] /\ shut'["up"] = shut["up"]
        /\ UNCHANGED <<spc, cut, rpc>>
        /\ failed' = (failed \/ held # Nothing \/ ~ReadFails("up"))
        /\ wire' = Written("down", "close", Nothing)
    BY <1>3, <1>U DEF CloseDown, Write, receiving, Shape
  <2>2. Nothing \in PieceSet /\ Nothing.size \in 0 .. MaxFrame
    BY NothingFacts, StreamAssumption
  <2>3. /\ CloseLast(wire'["down"]) /\ (~Gone("down") => EndsInClose(wire'["down"]))
        /\ wire'["up"] = wire["up"]
    BY <1>U, <2>1, <2>2, WriteCloses DEF HungUp, DataOps
  <2>4. ~failed' => /\ ~failed /\ spc = "gone"
                    /\ rpc = "reading" => ~Gone("down")
    <3>1. SUFFICES ASSUME ~failed'
                   PROVE  ~failed /\ spc = "gone" /\ (rpc = "reading" => ~Gone("down"))
      OBVIOUS
    <3>2. ~failed /\ ReadFails("up")
      BY <2>1, <3>1
    <3>3. spc = "gone"
      <4>1. CASE shut["up"]
        BY <3>2, <4>1 DEF Closing
      <4>2. CASE ~shut["up"]
        BY <1>U, <3>2, <4>2, FailsCleanly DEF HungUp
      <4> QED
        BY <4>1, <4>2
    <3>4. ~cut["down"]
      BY <1>U, <3>2 DEF Closing
    <3> QED
      BY <3>2, <3>3, <3>4 DEF Gone
  <2> QED
    BY <1>N, <2>1, <2>3, <2>4, HopFacts DEF Closing, HungUp
<1>4. CASE CloseUp
  <2>1. /\ ~shut["up"] /\ shut'["up"] /\ shut'["down"] = shut["down"]
        /\ UNCHANGED <<held, spc, cut, rpc>>
        /\ failed' = (failed \/ (~shut["down"] /\ ~ReadFails("up")))
        /\ wire' = [wire EXCEPT !["up"] = <<>>]
    BY <1>4, <1>U DEF CloseUp, receiving, Shape
  <2>2. wire'["up"] = <<>> /\ wire'["down"] = wire["down"]
    BY <1>U, <2>1 DEF Shape
  <2>3. ~failed' => ~failed /\ spc = "gone"
    <3>1. SUFFICES ASSUME ~failed' PROVE ~failed /\ spc = "gone"
      OBVIOUS
    <3>2. ~failed /\ (shut["down"] \/ ReadFails("up"))
      BY <2>1, <3>1
    <3>3. CASE shut["down"]
      BY <3>2, <3>3 DEF Closing
    <3>4. CASE ReadFails("up")
      BY <1>U, <2>1, <3>2, <3>4, FailsCleanly DEF HungUp
    <3> QED
      BY <3>2, <3>3, <3>4
  <2>4. failed => failed'
    BY <2>3
  <2> QED
    BY <1>N, <2>1, <2>2, <2>3, <2>4, HopFacts, CloseNone DEF Closing, HungUp
<1> QED
  BY <1>1, <1>2, <1>3, <1>4

LEMMA DepartsClosing ==
  ASSUME Shape, Closing, Departs, failed => failed'
  PROVE  Closing'
<1>1. /\ rpc' = "ended" /\ UNCHANGED <<spc, cut, shut, held>>
      /\ wire' = [wire EXCEPT !["down"] = <<>>]
  BY DEF Departs, relaying
<1>2. wire'["down"] = <<>> /\ wire'["up"] = wire["up"]
  BY <1>1, HopFacts DEF Shape
<1>3. Nothing' = Nothing
  BY DEF Nothing, Piece
<1> QED
  BY <1>1, <1>2, <1>3, HopFacts, CloseNone DEF Closing, HungUp

LEMMA FragmentClosing ==
  ASSUME Shape, Closing, NEW h \in Hops, Fragment(h) \/ Control(h)
  PROVE  Closing'
<1>N. Nothing' = Nothing
  BY DEF Nothing, Piece
<1>1. /\ Len(wire[h]) \in Nat /\ Len(wire[h]) > 0 /\ Latest(h).op = "binary"
      /\ UNCHANGED <<spc, cut, held, shut, rpc, failed>>
  BY BetweenFacts DEF Fragment, Control
<1>2. wire[h] \in Seq(FrameSet) /\ CloseLast(wire[h])
  BY DEF Shape, Closing
<1>3. Open(wire[h]) /\ ~EndsInClose(wire[h])
  BY <1>1, <1>2, CloseOther DEF Latest, EndsInClose
<1>4. Open(wire'[h]) /\ CloseLast(wire'[h]) /\ \A k \in Hops : k # h => wire'[k] = wire[k]
  <2>1. CASE Fragment(h)
    <3>1. PICK b1, b2 :
            wire' = [wire EXCEPT ![h] = Front(wire[h]) \o <<Frame(h, "binary", b1),
                                                            Frame(h, "continuation", b2)>>]
      BY <2>1 DEF Fragment
    <3>2. PICK f1, f2 : f1 = Frame(h, "binary", b1) /\ f2 = Frame(h, "continuation", b2)
      OBVIOUS
    <3>3. f1.op = "binary" /\ f2.op = "continuation"
      BY <3>2 DEF Frame
    <3>4. PICK q : q = Front(wire[h])
      OBVIOUS
    <3>5. /\ q \in Seq(FrameSet) /\ Len(q) = Len(wire[h]) - 1
          /\ \A i \in 1 .. Len(q) : q[i] = wire[h][i]
      BY <1>1, <1>2, <3>4 DEF Front
    <3>6. Open(q)
      BY <1>1, <1>3, <3>5 DEF Open
    <3>7. PICK q2 : q2 = q \o <<f1, f2>>
      OBVIOUS
    <3>8. /\ Len(q) \in Nat /\ Len(q2) = Len(q) + 2
          /\ \A i \in 1 .. Len(q) : q2[i] = q[i]
          /\ q2[Len(q) + 1] = f1 /\ q2[Len(q) + 2] = f2
      <4>1. Len(<<f1, f2>>) = 2 /\ <<f1, f2>>[1] = f1 /\ <<f1, f2>>[2] = f2
        OBVIOUS
      <4> QED
        BY <3>5, <3>7, <4>1
    <3>9. \A i \in 1 .. Len(q2) : i \in 1 .. Len(q) \/ i = Len(q) + 1 \/ i = Len(q) + 2
      BY <3>8
    <3>10. Open(q2)
      BY <3>3, <3>6, <3>8, <3>9 DEF Open
    <3>11. wire' = [wire EXCEPT ![h] = q2]
      BY <3>1, <3>2, <3>4, <3>7
    <3> QED
      BY <3>10, <3>11 DEF Shape, Open, CloseLast
  <2>2. CASE Control(h)
    <3>1. PICK op \in {"ping", "pong"}, n \in 0 .. MaxControl :
            wire' = [wire EXCEPT ![h] =
                       Append(wire[h], Frame(h, op, Piece(0, "control", 0, n)))]
      BY <2>2, ControlWritten
    <3>2. PICK f : f = Frame(h, op, Piece(0, "control", 0, n))
      OBVIOUS
    <3>3. f.op # "close"
      BY <3>1, <3>2 DEF Frame
    <3>4. PICK S : S = FrameSet \cup {f}
      OBVIOUS
    <3>5. wire[h] \in Seq(S) /\ f \in S
      BY <1>2, <3>4
    <3>6. Open(Append(wire[h], f)) /\ CloseLast(Append(wire[h], f))
      BY <1>3, <3>3, <3>5, CloseAppend
    <3> QED
      BY <3>1, <3>2, <3>6 DEF Shape
  <2> QED
    BY <2>1, <2>2
<1> QED
  BY <1>N, <1>1, <1>3, <1>4, HopFacts DEF Closing, HungUp

LEMMA CutClosing ==
  ASSUME Shape, Closing, NEW h \in Hops, Cut(h)
  PROVE  Closing'
<1>N. Nothing' = Nothing
  BY DEF Nothing, Piece
<1>1. failed' = TRUE /\ UNCHANGED <<spc, held, shut, rpc>>
  BY DEF Cut, relaying, receiving
<1>2. PICK k \in 0 .. Len(wire[h]) :
        \/ wire' = [wire EXCEPT ![h] = SubSeq(@, 1, k)]
        \/ \E n : k > 0 /\ wire' = [wire EXCEPT ![h] = [SubSeq(@, 1, k) EXCEPT ![k].here = n]]
  BY DEF Cut
<1>3. wire[h] \in Seq(FrameSet) /\ CloseLast(wire[h]) /\ Len(wire[h]) \in Nat
  BY DEF Shape, Closing
<1>4. PICK q : q = SubSeq(wire[h], 1, k)
  OBVIOUS
<1>5. Len(q) = k /\ q \in Seq(FrameSet) /\ \A i \in 1 .. k : q[i] = wire[h][i]
  BY <1>3, <1>4
<1>6. /\ Len(wire'[h]) \in 0 .. Len(wire[h])
      /\ \A i \in 1 .. Len(wire'[h]) : wire'[h][i].op = wire[h][i].op
      /\ \A j \in Hops : j # h => wire'[j] = wire[j]
  <2>1. CASE wire' = [wire EXCEPT ![h] = q]
    BY <1>3, <1>5, <2>1 DEF Shape
  <2>2. ASSUME NEW n, k > 0, wire' = [wire EXCEPT ![h] = [q EXCEPT ![k].here = n]]
        PROVE  /\ Len(wire'[h]) \in 0 .. Len(wire[h])
               /\ \A i \in 1 .. Len(wire'[h]) : wire'[h][i].op = wire[h][i].op
               /\ \A j \in Hops : j # h => wire'[j] = wire[j]
    <3>1. PICK f \in FrameSet : f = q[k]
      BY <1>3, <1>5, <2>2
    <3>2. PICK g : g = [f EXCEPT !.here = n]
      OBVIOUS
    <3>3. g.op = f.op
      BY <3>1, <3>2 DEF FrameSet
    <3>4. PICK q2 : q2 = [q EXCEPT ![k] = g]
      OBVIOUS
    <3>5. wire' = [wire EXCEPT ![h] = q2]
      BY <2>2, <3>1, <3>2, <3>4
    <3>6. Len(q2) = k /\ \A i \in 1 .. k : q2[i].op = q[i].op
      <4>1. Len(q2) = k /\ \A i \in 1 .. k : q2[i] = IF i = k THEN g ELSE q[i]
        BY <1>3, <1>5, <3>4
      <4> QED
        BY <3>1, <3>3, <4>1
    <3> QED
      BY <1>3, <1>5, <3>5, <3>6 DEF Shape
  <2> QED
    BY <1>2, <1>4, <2>1, <2>2
<1>7. CloseLast(wire'[h]) /\ (Open(wire[h]) => Open(wire'[h]))
  <2>1. PICK q2 : q2 = wire'[h]
    OBVIOUS
  <2> QED
    BY <1>3, <1>6, <2>1, ClosePart
<1> QED
  BY <1>N, <1>1, <1>6, <1>7, HopFacts DEF Closing, HungUp

LEMMA ClosingStep ==
  ASSUME Shape, Closing, [Next]_vars
  PROVE  Closing'
<1>1. CASE Receives
  <2>1. UNCHANGED <<spc, wire, cut, held, shut, failed>> /\ rpc = "reading"
    BY <1>1 DEF Receives, Reading, relaying
  <2>2. Nothing' = Nothing
    BY DEF Nothing, Piece
  <2> QED
    BY <2>1, <2>2 DEF Closing, HungUp
<1>2. CASE ReceiveFails \/ ReceiverLeaves
  <2>1. failed => (failed \/ ~ReadFails("down")) = TRUE
    OBVIOUS
  <2>2. Departs /\ (failed => failed')
    BY <1>2, <2>1 DEF ReceiveFails, ReceiverLeaves
  <2> QED
    BY <2>2, DepartsClosing
<1>3. CASE KillSender
  <2>1. failed' = TRUE /\ spc' = "gone" /\ UNCHANGED <<wire, cut, held, shut, rpc>>
    BY <1>3 DEF KillSender, relaying, receiving
  <2>2. Nothing' = Nothing
    BY DEF Nothing, Piece
  <2> QED
    BY <2>1, <2>2 DEF Closing, HungUp
<1>4. CASE UNCHANGED vars
  <2>1. UNCHANGED <<spc, wire, cut, held, shut, failed, rpc>>
    BY <1>4 DEF vars, relaying, receiving
  <2>2. Nothing' = Nothing
    BY DEF Nothing, Piece
  <2> QED
    BY <2>1, <2>2 DEF Closing, HungUp
<1> QED
  BY <1>1, <1>2, <1>3, <1>4, SenderClosing, NextFrameClosing, RelayClosing, FragmentClosing,
     CutClosing, HopFacts DEF Next, Relay, Receiver, Surroundings, Quiet

-----------------------------------------------------------------------------
(* What the receiver has: the messages it was given are those sent, and    *)
(* it is within the next one.                                              *)

Progress ==
  /\ got \in Seq(0 .. MaxMessage)
  /\ Len(got) <= Len(sent) /\ \A i \in 1 .. Len(got) : got[i] = sent[i]
  /\ part.sound
  /\ part.kind = "head" => part.need = HeaderSize
  /\ part.kind = "body" \/ part.have > 0 => part.of = Len(got) + 1 /\ part.of <= Len(sent)
  /\ part.kind = "body" => part.need = sent[part.of]

(* The bytes on the way follow each other without a gap: from where the    *)
(* receiver is to x, where the relay is, to y, where the sender is.        *)
Downstream(base, x) ==
  Comes(base, reader["down"], wire["down"], Position(base), x)

Upstream(base, x, y) ==
  /\ held # Nothing => Start(base, held) = x
  /\ Comes(base, reader["up"], wire["up"], x + held.size, y)
  /\ ~failed /\ shut["up"] => y = x + held.size

SenderAt(base, y) ==
  ~cut["up"] =>
    /\ ~shut["up"] /\ spc \in {"idle", "refused"} => y = base[Len(sent) + 1]
    /\ spc = "gone" /\ ~failed => y = base[Len(sent) + 1]
    /\ ~shut["up"] /\ spc = "body" => y = base[Len(sent)] + HeaderSize

InOrder(base, x, y) ==
  /\ Bases(base) /\ x \in Nat /\ y \in Nat
  /\ rpc = "reading" =>
       /\ Downstream(base, x)
       /\ shut["down"] /\ ~failed => x = base[Len(sent) + 1]
       /\ ~shut["down"] /\ ~cut["down"] => Upstream(base, x, y) /\ SenderAt(base, y)

Ordered == \E base, x, y : InOrder(base, x, y)

LEMMA SizeFacts ==
  ASSUME Shape
  PROVE  /\ Len(sent) \in Nat /\ MaxMessage \in Nat
         /\ \A i \in 1 .. Len(sent) : sent[i] \in Nat /\ sent[i] \in 0 .. MaxMessage
<1>1. sent \in Seq(0 .. MaxMessage) /\ MaxMessage \in Nat
  BY StreamAssumption DEF Shape
<1>2. ASSUME NEW i \in 1 .. Len(sent)
      PROVE  sent[i] \in 0 .. MaxMessage
  BY <1>1
<1>3. \A i \in 1 .. Len(sent) : sent[i] \in Nat
  BY <1>1, <1>2
<1> QED
  BY <1>1, <1>2, <1>3

LEMMA BaseFacts ==
  ASSUME Shape, NEW base, Bases(base), NEW p \in Pieces
  PROVE  base[p.of] \in Nat /\ Start(base, p) \in Nat
<1>1. p.of \in 1 .. Len(sent) /\ p.from \in Nat
  BY PieceSizes
<1>2. base[p.of] \in Nat
  BY <1>1, SizeFacts DEF Bases
<1>3. Skipped(p.kind) \in Nat
  BY DEF Skipped, HeaderSize
<1> QED
  BY <1>1, <1>2, <1>3 DEF Start

(* A byte has one place only: a piece that begins where the receiver is    *)
(* is of the part that it reads.                                           *)
LEMMA PlaceIsUnique ==
  ASSUME Shape, Progress, NEW base, Bases(base),
         NEW p \in Pieces, p.size > 0, Start(base, p) = Position(base)
  PROVE  Fits(p) /\ p.of = Len(got) + 1
<1>1. /\ p.of \in 1 .. Len(sent) /\ p.from \in Nat /\ p.size \in Nat /\ p.sound = TRUE
      /\ p.kind \in {"head", "body"} /\ p.from + p.size <= Whole(p.of, p.kind)
      /\ Whole(p.of, p.kind) \in Nat
  BY PieceSizes
<1>2. /\ part.kind \in {"head", "body"} /\ part.need \in Nat /\ part.have \in Nat
      /\ part.have < part.need
  BY DEF Shape, PartSet
<1>3. PICK g \in Nat, l \in Nat : g = Len(got) /\ l = Len(sent)
  BY SizeFacts DEF Progress
<1>4. g <= l
  BY <1>3 DEF Progress
<1>5. PICK i \in 1 .. l : i = p.of
  BY <1>1, <1>3
<1>6. /\ \A j \in 1 .. l : sent[j] \in Nat
      /\ base \in [1 .. l + 1 -> Nat]
      /\ \A j \in 1 .. l, k \in 1 .. l + 1 : j < k => base[j] + HeaderSize + sent[j] <= base[k]
  BY <1>3, SizeFacts DEF Bases
<1>7. p.from < Whole(i, p.kind)
  BY <1>1, <1>5
<1>8. /\ p.kind = "head" => p.from < HeaderSize
      /\ p.kind = "body" => p.from < sent[i]
  BY <1>7 DEF Whole
<1>9. PICK d \in Nat : d = Skipped(p.kind) + p.from
  BY <1>1 DEF Skipped, HeaderSize
<1>10. d < HeaderSize + sent[i] /\ base[i] \in Nat /\ sent[i] \in Nat
  <2>1. base[i] \in Nat /\ sent[i] \in Nat
    BY <1>6
  <2>2. p.kind = "head" => d < HeaderSize + sent[i]
    BY <1>1, <1>8, <1>9, <2>1 DEF Skipped, HeaderSize
  <2>3. p.kind = "body" => d < HeaderSize + sent[i]
    BY <1>1, <1>8, <1>9, <2>1 DEF Skipped, HeaderSize
  <2> QED
    BY <1>1, <2>1, <2>2, <2>3
<1>11. Start(base, p) = base[i] + d
  <2>1. Skipped(p.kind) \in Nat
    BY DEF Skipped, HeaderSize
  <2> QED
    BY <1>1, <1>5, <1>9, <1>10, <2>1 DEF Start
<1>12. PICK e \in Nat : e = Skipped(part.kind) + part.have
  BY <1>2 DEF Skipped, HeaderSize
<1>13. Position(base) = base[g + 1] + e /\ base[g + 1] \in Nat
  <2>1. Skipped(part.kind) \in Nat
    BY DEF Skipped, HeaderSize
  <2>2. g + 1 \in 1 .. l + 1
    BY <1>4
  <2>3. base[g + 1] \in Nat
    BY <1>6, <2>2
  <2> QED
    BY <1>2, <1>3, <1>12, <2>1, <2>3 DEF Position
<1>14. base[i] + d = base[g + 1] + e
  BY <1>11, <1>13
<1>15. e > 0 => g + 1 <= l
  BY <1>2, <1>3, <1>12 DEF Progress, Skipped
<1>16. g + 1 <= l => e < HeaderSize + sent[g + 1]
  <2>1. SUFFICES ASSUME g + 1 <= l PROVE e < HeaderSize + sent[g + 1]
    OBVIOUS
  <2>2. sent[g + 1] \in Nat
    BY <1>6, <2>1
  <2>3. CASE part.kind = "head"
    BY <1>2, <1>12, <2>2, <2>3 DEF Progress, Skipped, HeaderSize
  <2>4. CASE part.kind = "body"
    <3>1. part.need = sent[g + 1]
      BY <1>3, <2>4 DEF Progress
    <3> QED
      BY <1>2, <1>12, <2>2, <2>4, <3>1 DEF Skipped, HeaderSize
  <2> QED
    BY <1>2, <2>3, <2>4
<1>17. i = g + 1
  <2>1. ASSUME i < g + 1 PROVE FALSE
    <3>1. g + 1 \in 1 .. l + 1
      BY <1>4
    <3>2. base[i] + HeaderSize + sent[i] <= base[g + 1]
      BY <1>6, <2>1, <3>1
    <3> QED
      BY <1>10, <1>13, <1>14, <3>2 DEF HeaderSize
  <2>2. ASSUME g + 1 < i PROVE FALSE
    <3>1. g + 1 \in 1 .. l /\ i \in 1 .. l + 1
      BY <2>2
    <3>2. base[g + 1] + HeaderSize + sent[g + 1] <= base[i] /\ sent[g + 1] \in Nat
      BY <1>6, <2>2, <3>1
    <3>3. e < HeaderSize + sent[g + 1]
      BY <1>16, <3>1
    <3> QED
      BY <1>10, <1>13, <1>14, <3>2, <3>3 DEF HeaderSize
  <2> QED
    BY <2>1, <2>2
<1>18. d = e
  BY <1>10, <1>13, <1>14, <1>17
<1>19. p.kind = part.kind /\ p.from = part.have
  <2>1. part.kind = "head" => part.have < HeaderSize
    BY <1>2 DEF Progress
  <2>2. Skipped(p.kind) + p.from = Skipped(part.kind) + part.have
    BY <1>9, <1>12, <1>18
  <2>3. CASE p.kind = "head" /\ part.kind = "head"
    BY <1>1, <1>2, <2>2, <2>3 DEF Skipped
  <2>4. CASE p.kind = "body" /\ part.kind = "body"
    BY <1>1, <1>2, <2>2, <2>4 DEF Skipped, HeaderSize
  <2>5. CASE p.kind = "head" /\ part.kind = "body"
    BY <1>1, <1>2, <1>8, <2>2, <2>5 DEF Skipped, HeaderSize
  <2>6. CASE p.kind = "body" /\ part.kind = "head"
    BY <1>1, <1>2, <2>1, <2>2, <2>6 DEF Skipped, HeaderSize
  <2> QED
    BY <1>1, <1>2, <2>3, <2>4, <2>5, <2>6
<1>20. part.have > 0 \/ part.kind = "body" => p.of = part.of
  BY <1>3, <1>5, <1>17 DEF Progress
<1> QED
  BY <1>1, <1>3, <1>5, <1>17, <1>19, <1>20 DEF Fits

(* A Read takes its bytes from where the flow begins.                      *)
LEMMA ComesRead ==
  ASSUME Shape, NEW base, Bases(base), NEW h \in Hops, NEW size \in Nat,
         NEW n \in ReadSizes(h, size), Read(h, size, n),
         NEW q, NEW a \in Nat, NEW b, Comes(base, reader[h], q, a, b)
  PROVE  /\ Start(base, Bytes(h, n)) = a
         /\ Comes(base, reader'[h], q, a + n, b)
<1>1. /\ n \in Nat /\ n > 0 /\ n <= reader[h].rest
      /\ reader[h].body \in Pieces
      /\ Bytes(h, n).of = reader[h].body.of /\ Bytes(h, n).kind = reader[h].body.kind
      /\ Bytes(h, n).from = reader[h].body.from + reader[h].off
  BY BytesFacts
<1>2. /\ reader'[h].rest = reader[h].rest - n
      /\ reader'[h].rest > 0 => /\ reader'[h].body = reader[h].body
                                /\ reader'[h].off = reader[h].off + n
  BY ReadKeeps
<1>3. reader[h].rest \in Nat /\ reader[h].off \in Nat
  BY ReaderFacts
<1>4. a = Start(base, reader[h].body) + reader[h].off
      /\ Flow(base, q, a + reader[h].rest, b)
  BY <1>1, <1>3 DEF Comes
<1>5. /\ base[reader[h].body.of] \in Nat /\ Start(base, reader[h].body) \in Nat
      /\ reader[h].body.from \in Nat
  BY <1>1, BaseFacts, PieceSizes
<1>6. Start(base, Bytes(h, n)) = a
  <2>1. Skipped(reader[h].body.kind) \in Nat
    BY DEF Skipped, HeaderSize
  <2> QED
    BY <1>1, <1>3, <1>4, <1>5, <2>1 DEF Start
<1>7. (a + n) + reader'[h].rest = a + reader[h].rest
  BY <1>1, <1>2, <1>3
<1>8. Flow(base, q, (a + n) + reader'[h].rest, b)
  BY <1>4, <1>7
<1>9. reader'[h].rest > 0 => a + n = Start(base, reader'[h].body) + reader'[h].off
  BY <1>1, <1>2, <1>3, <1>4, <1>5
<1> QED
  BY <1>6, <1>8, <1>9 DEF Comes

LEMMA ComesNext ==
  ASSUME Shape, NEW base, NEW h \in Hops, NextFrame(h),
         NEW a \in Nat, NEW b, Comes(base, reader[h], wire[h], a, b)
  PROVE  Comes(base, reader'[h], wire'[h], a, b)
<1>1. reader[h].rest = 0 /\ wire[h] # <<>> /\ wire' = [wire EXCEPT ![h] = Tail(wire[h])]
  BY DEF NextFrame
<1>2. wire[h] \in Seq(Frames(h))
  BY DEF Shape
<1>3. wire'[h] = Tail(wire[h])
  BY <1>1 DEF Shape
<1>4. Flow(base, wire[h], a, b)
  <2>1. a + 0 = a
    OBVIOUS
  <2> QED
    BY <1>1, <2>1 DEF Comes
<1>5. PICK c \in Nat : Step(base, Head(wire[h]), a, c) /\ Flow(base, Tail(wire[h]), c, b)
  BY <1>1, <1>2, <1>4, FlowTail
<1>6. PICK f \in Frames(h) : f = Head(wire[h])
  BY <1>1, <1>2
<1>7. f.body.size \in Nat /\ LengthOf(f.code) = f.body.size
  <2>1. f.body.size \in 0 .. MaxFrame /\ LengthOf(f.code) = f.body.size
    BY FrameFacts
  <2> QED
    BY <2>1, StreamAssumption
<1>8. CASE f.op \in DataOps /\ BeginFrame(h, f)
  <2>1. a = Start(base, f.body) /\ c = a + f.body.size
    BY <1>5, <1>6, <1>8 DEF Step
  <2>2. reader'[h].body = f.body /\ reader'[h].off = 0 /\ reader'[h].rest = f.body.size
    BY <1>7, <1>8 DEF BeginFrame, Shape
  <2>3. a = Start(base, f.body) + 0
    BY <2>1
  <2> QED
    BY <1>3, <1>5, <2>1, <2>2, <2>3 DEF Comes
<1>9. CASE f.op \in {"ping", "pong"} /\ BetweenFrames(h, f)
  <2>1. c = a /\ a + 0 = a
    BY <1>5, <1>6, <1>9 DEF Step, DataOps
  <2>2. reader'[h].rest = 0
    BY <1>9, BetweenIsGood
  <2>3. Flow(base, wire'[h], a + reader'[h].rest, b) /\ ~(reader'[h].rest > 0)
    BY <1>3, <1>5, <2>1, <2>2
  <2> QED
    BY <2>3 DEF Comes
<1> QED
  BY <1>6, <1>8, <1>9 DEF NextFrame, DataOps

LEMMA PositionFacts ==
  ASSUME Shape, Progress, NEW base, Bases(base)
  PROVE  /\ Len(got) \in Nat /\ base[Len(got) + 1] \in Nat /\ Position(base) \in Nat
         /\ base[Len(sent) + 1] \in Nat
<1>1. Len(got) \in Nat /\ Len(sent) \in Nat /\ Len(got) <= Len(sent)
  BY SizeFacts DEF Progress
<1>2. base[Len(got) + 1] \in Nat /\ base[Len(sent) + 1] \in Nat
  BY <1>1 DEF Bases
<1>3. part.have \in Nat /\ Skipped(part.kind) \in Nat
  BY DEF Shape, PartSet, Skipped, HeaderSize
<1> QED
  BY <1>1, <1>2, <1>3 DEF Position

(* comm.Receive returns the next message, and is ready for another.        *)
LEMMA MessageDone ==
  ASSUME Shape, Progress, NEW base, Bases(base), Len(got) + 1 <= Len(sent), UNCHANGED sent,
         got' = Append(got, sent[Len(got) + 1]), part' = NextPart("head", HeaderSize, 0)
  PROVE  /\ Progress'
         /\ Position(base)' = base[Len(got) + 1] + HeaderSize + sent[Len(got) + 1]
<1>1. PICK g \in Nat, l \in Nat : g = Len(got) /\ l = Len(sent)
  BY SizeFacts DEF Progress
<1>2. g + 1 \in 1 .. l
  BY <1>1
<1>3. sent[g + 1] \in 0 .. MaxMessage
  BY <1>1, <1>2, SizeFacts
<1>4. /\ got' \in Seq(0 .. MaxMessage) /\ Len(got') = g + 1 /\ got'[g + 1] = sent[g + 1]
      /\ \A i \in 1 .. g : got'[i] = got[i]
  <2>1. got \in Seq(0 .. MaxMessage)
    BY DEF Progress
  <2> QED
    BY <1>1, <1>3, <2>1
<1>5. \A i \in 1 .. g + 1 : got'[i] = sent[i]
  <2>1. ASSUME NEW i \in 1 .. g + 1
        PROVE  got'[i] = sent[i]
    <3>1. CASE i = g + 1
      BY <1>4, <3>1
    <3>2. CASE i # g + 1
      <4>1. i \in 1 .. g
        BY <3>2
      <4> QED
        BY <1>1, <1>4, <4>1 DEF Progress
    <3> QED
      BY <3>1, <3>2
  <2> QED
    BY <2>1
<1>6. /\ part'.kind = "head" /\ part'.need = HeaderSize /\ part'.have = 0 /\ part'.sound = TRUE
  BY DEF NextPart
<1>7. Progress'
  BY <1>1, <1>2, <1>4, <1>5, <1>6 DEF Progress, HeaderSize
<1>8. base[g + 2] = base[g + 1] + HeaderSize + sent[g + 1] /\ base[g + 2] \in Nat
  <2>1. (g + 1) + 1 = g + 2 /\ g + 2 \in 1 .. l + 1
    BY <1>2
  <2> QED
    BY <1>1, <1>2, <2>1 DEF Bases
<1>9. Position(base)' = base[g + 2]
  <2>1. Len(got') + 1 = g + 2
    BY <1>4
  <2>2. base[g + 2] + 0 + 0 = base[g + 2]
    BY <1>8
  <2> QED
    BY <1>6, <2>1, <2>2 DEF Position, Skipped
<1> QED
  BY <1>1, <1>7, <1>8, <1>9

LEMMA ReceivesInOrder ==
  ASSUME Shape, Progress, NEW base, Bases(base), NEW x, Downstream(base, x), Receives
  PROVE  /\ Progress'
         /\ Downstream(base, x)'
         /\ reader'["up"] = reader["up"]
         /\ \/ got' = got
            \/ Len(got) < Len(sent) /\ got' = Append(got, sent[Len(got) + 1])
<1>D. "down" \in Hops /\ "up" \in Hops
  BY HopFacts
<1>1. /\ part.need \in Nat /\ part.have \in Nat /\ part.have < part.need /\ part \in PartSet
      /\ part.kind \in {"head", "body"} /\ part.sound = TRUE
  <2>1. part.sound
    BY DEF Progress
  <2> QED
    BY <2>1 DEF Shape, PartSet
<1>2. PICK wanted \in Nat : wanted = part.need - part.have
  BY <1>1
<1>3. PICK n \in ReadSizes("down", wanted) :
        /\ Read("down", wanted, n)
        /\ IF n < wanted
             THEN /\ part' = [part EXCEPT !.have = @ + n, !.of = Bytes("down", n).of,
                                !.sound = part.sound /\ Fits(Bytes("down", n))]
                  /\ UNCHANGED <<rpc, got>>
           ELSE IF part.kind = "head"
             THEN HeaderRead(Bytes("down", n).of, part.sound /\ Fits(Bytes("down", n)))
           ELSE BodyRead(Bytes("down", n).of, part.sound /\ Fits(Bytes("down", n)))
  BY <1>2 DEF Receives
<1>4. UNCHANGED <<sent, wire>>
  BY DEF Receives
<1>5. PICK p : p = Bytes("down", n)
  OBVIOUS
<1>6. p \in Pieces /\ p.size = n /\ n \in Nat /\ n > 0 /\ n <= wanted
  BY <1>D, <1>3, <1>5, BytesFacts
<1>7. PICK a \in Nat : a = Position(base)
  BY PositionFacts
<1>8. Start(base, p) = a /\ Comes(base, reader'["down"], wire["down"], a + n, x)
  BY <1>D, <1>3, <1>5, <1>7, ComesRead DEF Downstream
<1>9. Fits(p) /\ p.of = Len(got) + 1
  BY <1>6, <1>7, <1>8, PlaceIsUnique
<1>10. (part.sound /\ Fits(p)) = TRUE
  BY <1>1, <1>9
<1>11. PICK g \in Nat, l \in Nat : g = Len(got) /\ l = Len(sent) /\ g + 1 <= l /\ g + 1 = p.of
  <2>1. Len(got) \in Nat /\ Len(sent) \in Nat
    BY SizeFacts DEF Progress
  <2>2. p.of \in 1 .. Len(sent)
    BY <1>6, PieceSizes
  <2> QED
    BY <1>9, <2>1, <2>2
<1>12. /\ g + 1 \in 1 .. Len(sent) /\ sent[g + 1] \in 0 .. MaxMessage /\ sent[g + 1] \in Nat
       /\ MaxMessage \in Nat /\ base[g + 1] \in Nat
  BY <1>11, SizeFacts, PositionFacts
<1>13. a = base[g + 1] + Skipped(part.kind) + part.have
  BY <1>7, <1>11 DEF Position
<1>14. Progress' /\ Position(base)' = a + n
       /\ (got' = got \/ got' = Append(got, sent[g + 1]))
  <2>1. CASE n < wanted
    <3>1. part' = [part EXCEPT !.have = part.have + n, !.of = g + 1, !.sound = TRUE]
          /\ got' = got
      BY <1>3, <1>5, <1>10, <1>11, <2>1
    <3>2. PICK w \in PartSet : w = part
      BY <1>1
    <3>3. /\ part'.kind = part.kind /\ part'.need = part.need /\ part'.have = part.have + n
          /\ part'.of = g + 1 /\ part'.sound = TRUE
      BY <3>1, <3>2 DEF PartSet
    <3>4. Position(base)' = a + n
      <4>1. Skipped(part.kind) \in Nat
        BY DEF Skipped, HeaderSize
      <4> QED
        BY <1>1, <1>6, <1>11, <1>12, <1>13, <3>1, <3>3, <4>1, SMTT(30) DEF Position
    <3>5. part'.kind = "body" => part'.need = sent'[part'.of]
      BY <1>4, <1>11, <3>3 DEF Progress
    <3>6. Progress'
      BY <1>4, <1>11, <3>1, <3>3, <3>5 DEF Progress
    <3> QED
      BY <3>1, <3>4, <3>6
  <2>2. CASE ~(n < wanted) /\ part.kind = "head"
    <3>1. HeaderRead(g + 1, TRUE)
      BY <1>3, <1>5, <1>10, <1>11, <2>2
    <3>2. a + n = base[g + 1] + HeaderSize
      <4>1. part.need = HeaderSize
        BY <2>2 DEF Progress
      <4>2. part.have + n = HeaderSize
        BY <1>1, <1>2, <1>6, <2>2, <4>1 DEF HeaderSize
      <4> QED
        BY <1>1, <1>6, <1>12, <1>13, <2>2, <4>2, SMTT(30) DEF Skipped, HeaderSize
    <3>3. Number(Digits(sent[g + 1], HeaderSize)) = sent[g + 1]
      BY <1>12, HeaderNumber
    <3>4. PICK m \in Nat : m = sent[g + 1]
      BY <1>12
    <3>5. ~(m > MaxMessage)
      BY <1>12, <3>4
    <3>6. \/ /\ m = 0 /\ got' = Append(got, sent[g + 1])
             /\ part' = NextPart("head", HeaderSize, 0)
          \/ /\ m # 0 /\ part' = NextPart("body", m, g + 1) /\ got' = got
      BY <3>1, <3>3, <3>4, <3>5 DEF HeaderRead, Message
    <3>7. CASE m = 0
      <4>1. Progress' /\ Position(base)' = base[g + 1] + HeaderSize + sent[g + 1]
        BY <1>4, <1>11, <3>6, <3>7, MessageDone
      <4>2. Position(base)' = a + n
        <5>1. PICK c \in Nat : c = base[g + 1] + HeaderSize
          BY <1>12 DEF HeaderSize
        <5>2. sent[g + 1] = 0
          BY <3>4, <3>7
        <5>3. c + sent[g + 1] = c
          BY <5>1, <5>2
        <5> QED
          BY <3>2, <4>1, <5>1, <5>3
      <4> QED
        BY <3>6, <3>7, <4>1, <4>2
    <3>8. CASE m # 0
      <4>1. /\ part'.kind = "body" /\ part'.need = sent'[g + 1] /\ part'.have = 0
            /\ part'.of = g + 1 /\ part'.sound = TRUE /\ got' = got
        BY <1>4, <3>4, <3>6, <3>8 DEF NextPart
      <4>2. Progress'
        BY <1>4, <1>11, <4>1 DEF Progress
      <4>3. Position(base)' = a + n
        BY <1>11, <1>12, <3>2, <4>1 DEF Position, Skipped, HeaderSize
      <4> QED
        BY <4>1, <4>2, <4>3
    <3> QED
      BY <3>7, <3>8
  <2>3. CASE ~(n < wanted) /\ part.kind = "body"
    <3>1. BodyRead(g + 1, TRUE)
      BY <1>3, <1>5, <1>10, <1>11, <2>3
    <3>2. got' = Append(got, sent[g + 1]) /\ part' = NextPart("head", HeaderSize, 0)
      BY <3>1 DEF BodyRead, Message
    <3>3. Progress' /\ Position(base)' = base[g + 1] + HeaderSize + sent[g + 1]
      BY <1>4, <1>11, <3>2, MessageDone
    <3>4. part.need = sent[g + 1]
      BY <1>11, <2>3 DEF Progress
    <3>5. part.have + n = sent[g + 1]
      BY <1>1, <1>2, <1>6, <1>12, <2>3, <3>4
    <3>6. Position(base)' = a + n
      BY <1>1, <1>6, <1>12, <1>13, <2>3, <3>3, <3>5, SMTT(30) DEF Skipped, HeaderSize
    <3> QED
      BY <3>2, <3>3, <3>6
  <2> QED
    BY <1>1, <2>1, <2>2, <2>3
<1>15. Downstream(base, x)'
  BY <1>4, <1>8, <1>14 DEF Downstream
<1>16. reader'["up"] = reader["up"]
  BY <1>D, <1>3, ReadKeeps
<1> QED
  BY <1>11, <1>14, <1>15, <1>16

LEMMA SameBases ==
  ASSUME UNCHANGED sent, NEW base, Bases(base)
  PROVE  Bases(base)'
BY DEF Bases

LEMMA HeldSize ==
  ASSUME Shape
  PROVE  held.size \in Nat /\ Nothing' = Nothing
BY DEF Shape, PieceSet, Nothing, Piece

(* What only moves bytes from a queue to its reader, or cuts them up       *)
(* differently, keeps them in order.                                       *)
LEMMA OrderKept ==
  ASSUME Shape, Progress, NEW base, NEW x, NEW y, InOrder(base, x, y),
         UNCHANGED <<spc, sent, cut, held, shut, rpc, part, got>>, failed => failed',
         \A h \in Hops : \A a \in Nat : \A b :
           Comes(base, reader[h], wire[h], a, b) => Comes(base, reader'[h], wire'[h], a, b)
  PROVE  InOrder(base, x, y)'
<1>1. Bases(base)' /\ x \in Nat /\ y \in Nat
  BY SameBases DEF InOrder
<1>2. SUFFICES ASSUME rpc = "reading"
               PROVE  /\ Downstream(base, x)'
                      /\ shut["down"] /\ ~failed => x = base[Len(sent) + 1]
                      /\ ~shut["down"] /\ ~cut["down"] =>
                            Upstream(base, x, y)' /\ SenderAt(base, y)'
  BY <1>1 DEF InOrder
<1>3. Downstream(base, x)'
  <2>1. PICK a \in Nat : a = Position(base)
    BY PositionFacts DEF InOrder
  <2>2. Position(base)' = a
    BY <2>1 DEF Position
  <2>3. Comes(base, reader["down"], wire["down"], a, x)
    BY <1>2, <2>1 DEF InOrder, Downstream
  <2>4. Comes(base, reader'["down"], wire'["down"], a, x)
    BY <2>3, HopFacts
  <2> QED
    BY <2>2, <2>4 DEF Downstream
<1>4. ASSUME ~shut["down"], ~cut["down"]
      PROVE  Upstream(base, x, y)' /\ SenderAt(base, y)'
  <2>1. Upstream(base, x, y) /\ SenderAt(base, y)
    BY <1>2, <1>4 DEF InOrder
  <2>2. PICK a \in Nat : a = x + held.size
    BY <1>1, HeldSize
  <2>3. Comes(base, reader'["up"], wire'["up"], a, y)
    BY <2>1, <2>2, HopFacts DEF Upstream
  <2>4. Upstream(base, x, y)'
    BY <2>1, <2>2, <2>3, HeldSize DEF Upstream, Start
  <2>5. SenderAt(base, y)'
    BY <2>1 DEF SenderAt
  <2> QED
    BY <2>4, <2>5
<1>5. shut["down"] /\ ~failed => x = base[Len(sent) + 1]
  BY <1>2 DEF InOrder
<1> QED
  BY <1>3, <1>4, <1>5

LEMMA ReceivesOrder ==
  ASSUME Shape, Progress, NEW base, NEW x, NEW y, InOrder(base, x, y), Receives
  PROVE  InOrder(base, x, y)'
<1>1. /\ UNCHANGED <<spc, sent, wire, cut, held, shut, failed>> /\ rpc = "reading"
  BY DEF Receives, Reading, relaying
<1>2. Bases(base) /\ Downstream(base, x)
  BY <1>1 DEF InOrder
<1>3. Downstream(base, x)' /\ reader'["up"] = reader["up"]
  BY <1>2, ReceivesInOrder
<1>4. ASSUME ~shut["down"], ~cut["down"]
      PROVE  Upstream(base, x, y)' /\ SenderAt(base, y)'
  <2>1. Upstream(base, x, y) /\ SenderAt(base, y)
    BY <1>1, <1>4 DEF InOrder
  <2> QED
    BY <1>1, <1>3, <2>1, HeldSize DEF Upstream, SenderAt, Start
<1> QED
  BY <1>1, <1>3, <1>4, SameBases DEF InOrder

LEMMA NextFrameOrder ==
  ASSUME Shape, Progress, NEW base, NEW x, NEW y, InOrder(base, x, y),
         NEW h \in Hops, NextFrame(h)
  PROVE  InOrder(base, x, y)'
<1>1. /\ UNCHANGED <<spc, sent, cut, held, shut, rpc, part, got>>
      /\ failed => failed'
      /\ \A k \in Hops : k # h => reader'[k] = reader[k] /\ wire'[k] = wire[k]
  BY NextFrameChanges
<1>2. ASSUME NEW k \in Hops, NEW a \in Nat, NEW b, Comes(base, reader[k], wire[k], a, b)
      PROVE  Comes(base, reader'[k], wire'[k], a, b)
  BY <1>1, <1>2, ComesNext
<1> QED
  BY <1>1, <1>2, OrderKept

LEMMA ReadsOrder ==
  ASSUME Shape, Progress, NEW base, NEW x, NEW y, InOrder(base, x, y), RelayReads
  PROVE  InOrder(base, x, y)'
<1>U. "up" \in Hops /\ "down" \in Hops /\ CopyBuffer \in Nat
  BY HopFacts, StreamAssumption
<1>1. /\ UNCHANGED <<spc, sent, wire, cut, shut, rpc, part, got, failed>>
      /\ held = Nothing /\ ~shut["down"]
  BY DEF RelayReads, Reading, receiving
<1>2. PICK n \in ReadSizes("up", CopyBuffer) :
        Read("up", CopyBuffer, n) /\ held' = Bytes("up", n)
  BY DEF RelayReads
<1>3. reader'["down"] = reader["down"]
  BY <1>U, <1>2, ReadKeeps
<1>4. Bases(base)' /\ x \in Nat /\ y \in Nat /\ Bases(base)
  BY <1>1, SameBases DEF InOrder
<1>5. ASSUME rpc = "reading"
      PROVE  Downstream(base, x)'
  BY <1>1, <1>3, <1>5 DEF InOrder, Downstream, Position
<1>6. ASSUME rpc = "reading", ~cut["down"]
      PROVE  Upstream(base, x, y)' /\ SenderAt(base, y)'
  <2>1. Comes(base, reader["up"], wire["up"], x + held.size, y) /\ SenderAt(base, y)
    BY <1>1, <1>6 DEF InOrder, Upstream
  <2>2. x + held.size = x
    BY <1>1, <1>4, NothingFacts
  <2>3. Start(base, held') = x /\ Comes(base, reader'["up"], wire["up"], x + n, y)
    <3>1. Comes(base, reader["up"], wire["up"], x, y)
      BY <2>1, <2>2
    <3>2. /\ Start(base, Bytes("up", n)) = x
          /\ Comes(base, reader'["up"], wire["up"], x + n, y)
      BY <1>U, <1>2, <1>4, <3>1, ComesRead
    <3> QED
      BY <1>2, <3>2
  <2>4. held'.size = n
    BY <1>U, <1>2, BytesFacts
  <2>5. Upstream(base, x, y)'
    <3>1. Start(base, held)' = Start(base, held')
      BY DEF Start
    <3>2. ~shut'["up"]
      BY <1>1 DEF RelayReads, Reading
    <3> QED
      BY <1>1, <2>3, <2>4, <3>1, <3>2 DEF Upstream
  <2>6. SenderAt(base, y)'
    BY <1>1, <2>1 DEF SenderAt
  <2> QED
    BY <2>5, <2>6
<1> QED
  BY <1>1, <1>4, <1>5, <1>6 DEF InOrder

LEMMA WritesOrder ==
  ASSUME Shape, Progress, Closing, NEW base, NEW x, NEW y, InOrder(base, x, y), RelayWrites
  PROVE  Ordered'
<1>U. "up" \in Hops /\ "down" \in Hops
  BY HopFacts
<1>1. /\ UNCHANGED <<spc, sent, reader, cut, shut, rpc, part, got, failed>>
      /\ held # Nothing /\ held' = Nothing /\ ~shut["down"]
      /\ wire' = Written("down", "binary", held)
  BY DEF RelayWrites, Write, receiving, Closing, Shape
<1>2. Bases(base)' /\ x \in Nat /\ y \in Nat /\ Bases(base)
  BY <1>1, SameBases DEF InOrder
<1>3. held.size \in Nat /\ Nothing.size = 0 /\ Nothing' = Nothing
  BY HeldSize, NothingFacts
<1>4. CASE Gone("down")
  <2>1. wire' = wire /\ (rpc = "reading" => cut["down"])
    BY <1>1, <1>4 DEF Written, Gone
  <2>2. InOrder(base, x, y)'
    BY <1>1, <1>2, <2>1 DEF InOrder, Downstream, Position
  <2> QED
    BY <2>2 DEF Ordered
<1>5. CASE ~Gone("down")
  <2>1. rpc = "reading" /\ ~cut["down"]
    BY <1>5 DEF Gone
  <2>2. Downstream(base, x) /\ Upstream(base, x, y) /\ SenderAt(base, y)
    BY <1>1, <2>1 DEF InOrder
  <2>3. PICK z \in Nat : z = x + held.size
    BY <1>2, <1>3
  <2>4. PICK f : f = Frame("down", "binary", held)
    OBVIOUS
  <2>5. f.op = "binary" /\ f.body = held
    BY <2>4 DEF Frame
  <2>6. wire'["down"] = Append(wire["down"], f) /\ wire'["up"] = wire["up"]
    BY <1>1, <1>5, <2>4 DEF Written, Shape, Hops
  <2>7. Step(base, f, x, z)
    BY <1>1, <2>2, <2>3, <2>5 DEF Step, DataOps, Upstream
  <2>8. PICK a : a = Position(base) + reader["down"].rest
    OBVIOUS
  <2>9. Flow(base, wire'["down"], a, z)
    <3>1. PICK S : S = FrameSet \cup {f}
      OBVIOUS
    <3>2. wire["down"] \in Seq(FrameSet)
      BY DEF Shape, Hops
    <3>3. wire["down"] \in Seq(S) /\ f \in S
      BY <3>1, <3>2
    <3>4. Flow(base, wire["down"], a, x)
      BY <2>2, <2>8 DEF Downstream, Comes
    <3> QED
      BY <2>6, <2>7, <3>3, <3>4, FlowAppend
  <2>10. Downstream(base, z)'
    <3>1. Position(base)' = Position(base)
      BY <1>1 DEF Position
    <3> QED
      BY <1>1, <2>2, <2>8, <2>9, <3>1 DEF Downstream, Comes
  <2>11. Upstream(base, z, y)'
    <3>1. z + held'.size = x + held.size
      BY <1>1, <1>3, <2>3
    <3> QED
      BY <1>1, <1>3, <2>2, <2>6, <3>1 DEF Upstream
  <2>12. SenderAt(base, y)'
    BY <1>1, <2>2 DEF SenderAt
  <2>13. InOrder(base, z, y)'
    BY <1>1, <1>2, <2>10, <2>11, <2>12 DEF InOrder
  <2> QED
    BY <2>13 DEF Ordered
<1> QED
  BY <1>4, <1>5

(* A relay that has read its way to a clean end has all the sender wrote.  *)
LEMMA AllRead ==
  ASSUME Shape, Closing, NEW base, NEW a \in Nat, NEW y,
         ~failed, ~cut["up"], ~shut["up"], ReadFails("up"),
         Comes(base, reader["up"], wire["up"], a, y), SenderAt(base, y)
  PROVE  a = base[Len(sent) + 1]
<1>1. /\ reader["up"].rest = 0 /\ wire["up"] # <<>> /\ spc = "gone"
      /\ Head(wire["up"]).op = "close" /\ Tail(wire["up"]) = <<>>
  BY HopFacts, FailsCleanly DEF HungUp
<1>2. y = base[Len(sent) + 1]
  BY <1>1 DEF SenderAt
<1>3. Flow(base, wire["up"], a, y)
  <2>1. a + reader["up"].rest = a
    BY <1>1
  <2> QED
    BY <2>1 DEF Comes
<1>4. wire["up"] \in Seq(FrameSet)
  BY DEF Shape, Hops
<1>5. PICK c \in Nat : Step(base, Head(wire["up"]), a, c) /\ Flow(base, <<>>, c, y)
  BY <1>1, <1>3, <1>4, FlowTail
<1>6. c = a /\ y = c
  BY <1>1, <1>5, FlowNone DEF Step, DataOps
<1> QED
  BY <1>2, <1>6

LEMMA DownOrder ==
  ASSUME Shape, Progress, Closing, NEW base, NEW x, NEW y, InOrder(base, x, y), CloseDown
  PROVE  InOrder(base, x, y)'
<1>U. "up" \in Hops /\ "down" \in Hops
  BY HopFacts
<1>1. /\ UNCHANGED <<spc, sent, cut, rpc, part, got>>
      /\ ~shut["down"] /\ shut'["down"] /\ reader' = reader
      /\ wire' = Written("down", "close", Nothing)
      /\ failed' = (failed \/ held # Nothing \/ ~ReadFails("up"))
  BY <1>U DEF CloseDown, Write, receiving, Shape
<1>2. Bases(base)' /\ x \in Nat /\ y \in Nat /\ Bases(base)
  BY <1>1, SameBases DEF InOrder
<1>3. ASSUME rpc = "reading"
      PROVE  Downstream(base, x)'
  <2>1. Downstream(base, x)
    BY <1>3 DEF InOrder
  <2>2. PICK f : f = Frame("down", "close", Nothing)
    OBVIOUS
  <2>3. f.op = "close"
    BY <2>2 DEF Frame
  <2>4. wire'["down"] = wire["down"] \/ wire'["down"] = Append(wire["down"], f)
    BY <1>1, <2>2 DEF Written, Shape, Hops
  <2>5. PICK a : a = Position(base) + reader["down"].rest
    OBVIOUS
  <2>6. Flow(base, wire["down"], a, x)
    BY <2>1, <2>5 DEF Downstream, Comes
  <2>7. Flow(base, Append(wire["down"], f), a, x)
    <3>1. PICK S : S = FrameSet \cup {f}
      OBVIOUS
    <3>2. wire["down"] \in Seq(FrameSet)
      BY DEF Shape, Hops
    <3>3. wire["down"] \in Seq(S) /\ f \in S
      BY <3>1, <3>2
    <3>4. Step(base, f, x, x)
      BY <2>3 DEF Step, DataOps
    <3> QED
      BY <1>2, <2>6, <3>3, <3>4, FlowAppend
  <2>8. Flow(base, wire'["down"], a, x)
    BY <2>4, <2>6, <2>7
  <2>9. Position(base)' = Position(base) /\ reader'["down"] = reader["down"]
    BY <1>1 DEF Position, Shape, Hops
  <2> QED
    BY <2>1, <2>5, <2>8, <2>9 DEF Downstream, Comes
<1>4. ASSUME rpc = "reading", ~failed'
      PROVE  x = base[Len(sent) + 1]
  <2>1. ~failed /\ held = Nothing /\ ReadFails("up")
    BY <1>1, <1>4
  <2>2. ~cut["down"] /\ ~cut["up"]
    BY <1>U, <2>1 DEF Closing
  <2>3. Upstream(base, x, y) /\ SenderAt(base, y)
    BY <1>1, <1>4, <2>2 DEF InOrder
  <2>4. x + held.size = x
    BY <1>2, <2>1, NothingFacts
  <2>5. CASE ~shut["up"]
    BY <1>2, <2>1, <2>2, <2>3, <2>4, <2>5, AllRead DEF Upstream
  <2>6. CASE shut["up"]
    <3>1. y = x
      BY <2>1, <2>3, <2>4, <2>6 DEF Upstream
    <3>2. spc = "gone"
      BY <2>1, <2>6 DEF Closing
    <3> QED
      BY <2>1, <2>2, <2>3, <3>1, <3>2 DEF SenderAt
  <2> QED
    BY <2>5, <2>6
<1> QED
  BY <1>1, <1>2, <1>3, <1>4 DEF InOrder

(* When the relay closes its connection to the sender first, what it holds *)
(* is the last of the stream, or something has failed.                     *)
LEMMA UpOrder ==
  ASSUME Shape, Progress, Closing, NEW base, NEW x, NEW y, InOrder(base, x, y), CloseUp
  PROVE  Ordered'
<1>U. "up" \in Hops /\ "down" \in Hops
  BY HopFacts
<1>1. /\ UNCHANGED <<spc, sent, cut, held, rpc, part, got>>
      /\ ~shut["up"] /\ shut'["up"] /\ shut'["down"] = shut["down"]
      /\ wire'["up"] = <<>> /\ wire'["down"] = wire["down"]
      /\ reader'["up"] = NewReader /\ reader'["down"] = reader["down"]
      /\ failed' = (failed \/ (~shut["down"] /\ ~ReadFails("up")))
  BY DEF CloseUp, receiving, Shape, Hops
<1>2. Bases(base)' /\ x \in Nat /\ y \in Nat /\ Bases(base)
  BY <1>1, SameBases DEF InOrder
<1>3. PICK z \in Nat : z = x + held.size
  BY <1>2, HeldSize
<1>4. rpc = "reading" => Downstream(base, x)'
  BY <1>1 DEF InOrder, Downstream, Position
<1>5. rpc = "reading" /\ shut["down"] /\ ~failed => x = base[Len(sent) + 1]
  BY DEF InOrder
<1>6. ASSUME rpc = "reading", ~shut["down"], ~cut["down"]
      PROVE  Upstream(base, x, z)' /\ SenderAt(base, z)'
  <2>1. Upstream(base, x, y) /\ SenderAt(base, y)
    BY <1>6 DEF InOrder
  <2>2. Comes(base, NewReader, <<>>, z, z)
    <3>1. NewReader.rest = 0 /\ z + 0 = z
      BY DEF NewReader
    <3>2. Flow(base, <<>>, z, z)
      BY FlowNone
    <3> QED
      BY <3>1, <3>2 DEF Comes
  <2>3. Upstream(base, x, z)'
    BY <1>1, <1>3, <2>1, <2>2, HeldSize DEF Upstream, Start
  <2>4. ASSUME ~failed', ~cut["up"]
        PROVE  z = base[Len(sent) + 1]
    BY <1>1, <1>3, <1>6, <2>1, <2>4, AllRead DEF Upstream
  <2>5. SenderAt(base, z)'
    BY <1>1, <2>4 DEF SenderAt
  <2> QED
    BY <2>3, <2>5
<1>7. InOrder(base, x, z)'
  BY <1>1, <1>2, <1>3, <1>4, <1>5, <1>6 DEF InOrder
<1> QED
  BY <1>7 DEF Ordered

(* The stream of a sender that has begun another message is the old one    *)
(* and what follows it.                                                    *)
LEMMA ComesExtends ==
  ASSUME Shape, NEW h \in Hops, NEW base, NEW base2,
         \A i \in 1 .. Len(sent) : base2[i] = base[i],
         NEW a, NEW b, Comes(base, reader[h], wire[h], a, b)
  PROVE  Comes(base2, reader[h], wire[h], a, b)
<1>1. \A p \in Pieces : Start(base2, p) = Start(base, p)
  <2>1. ASSUME NEW p \in Pieces
        PROVE  Start(base2, p) = Start(base, p)
    <3>1. base2[p.of] = base[p.of]
      BY PieceSizes
    <3> QED
      BY <3>1 DEF Start
  <2> QED
    BY <2>1
<1>2. wire[h] \in Seq(Frames(h))
  BY DEF Shape
<1>3. Flow(base2, wire[h], a + reader[h].rest, b)
  <2>1. \A i \in 1 .. Len(wire[h]) :
          wire[h][i].op \in DataOps => Start(base2, wire[h][i].body) = Start(base, wire[h][i].body)
    <3>1. ASSUME NEW i \in 1 .. Len(wire[h]), wire[h][i].op \in DataOps
          PROVE  Start(base2, wire[h][i].body) = Start(base, wire[h][i].body)
      <4>1. wire[h][i] \in Frames(h)
        BY <1>2
      <4>2. wire[h][i].body \in Pieces
        BY <3>1, <4>1, FrameFacts
      <4> QED
        BY <1>1, <4>2
    <3> QED
      BY <3>1
  <2>2. Flow(base, wire[h], a + reader[h].rest, b)
    BY DEF Comes
  <2>3. PICK q \in Seq(Frames(h)) : q = wire[h]
    BY <1>2
  <2>4. PICK c : c = a + reader[h].rest
    OBVIOUS
  <2>5. Flow(base2, q, c, b)
    BY <2>1, <2>2, <2>3, <2>4, FlowSame
  <2> QED
    BY <2>3, <2>4, <2>5
<1>4. reader[h].rest > 0 => a = Start(base2, reader[h].body) + reader[h].off
  <2>1. reader[h].rest > 0 => reader[h].body \in Pieces
    BY ReaderFacts
  <2> QED
    BY <1>1, <2>1 DEF Comes
<1> QED
  BY <1>3, <1>4 DEF Comes

LEMMA HeaderOrder ==
  ASSUME Shape, Progress, Closing, NEW base, NEW x, NEW y, InOrder(base, x, y),
         NEW n \in Sizes, SendHeader(n)
  PROVE  Ordered'
<1>U. "up" \in Hops /\ "down" \in Hops
  BY HopFacts
<1>0. n \in Nat /\ n <= MaxMessage /\ HeaderSize \in Nat
  BY StreamAssumption DEF SendHeader, HeaderSize
<1>1. /\ UNCHANGED <<reader, cut, held, shut, rpc, part, got, failed>>
      /\ spc = "idle" /\ spc' = "body" /\ sent' = Append(sent, n)
  BY DEF SendHeader, relaying, receiving
<1>2. PICK l \in Nat : l = Len(sent)
  BY SizeFacts
<1>3. /\ Len(sent') = l + 1 /\ sent'[l + 1] = n
      /\ \A i \in 1 .. l : sent'[i] = sent[i] /\ sent[i] \in Nat
  <2>1. sent \in Seq(0 .. MaxMessage)
    BY DEF Shape
  <2> QED
    BY <1>1, <1>2, <2>1, SizeFacts
<1>4. /\ base \in [1 .. l + 1 -> Nat] /\ x \in Nat /\ y \in Nat
      /\ \A j \in 1 .. l : base[j + 1] = base[j] + HeaderSize + sent[j]
      /\ \A j \in 1 .. l, k \in 1 .. l + 1 : j < k => base[j] + HeaderSize + sent[j] <= base[k]
  BY <1>2 DEF InOrder, Bases
<1>5. PICK e \in Nat : e = base[l + 1] + HeaderSize + n
  BY <1>0, <1>4
<1>6. PICK base2 : base2 = [i \in 1 .. l + 2 |-> IF i = l + 2 THEN e ELSE base[i]]
  OBVIOUS
<1>7. /\ base2 \in [1 .. l + 2 -> Nat] /\ base2[l + 2] = e
      /\ \A i \in 1 .. l + 1 : base2[i] = base[i]
  BY <1>4, <1>5, <1>6
<1>8. Bases(base2)'
  <2>1. ASSUME NEW j \in 1 .. l + 1
        PROVE  base2[j + 1] = base2[j] + HeaderSize + sent'[j]
    <3>1. CASE j = l + 1
      <4>1. j + 1 = l + 2 /\ base2[j] = base[l + 1]
        BY <1>7, <3>1
      <4> QED
        BY <1>3, <1>5, <1>7, <3>1, <4>1
    <3>2. CASE j # l + 1
      <4>1. j \in 1 .. l /\ j + 1 \in 1 .. l + 1
        BY <3>2
      <4> QED
        BY <1>3, <1>4, <1>7, <4>1
    <3> QED
      BY <3>1, <3>2
  <2>2. ASSUME NEW j \in 1 .. l + 1, NEW k \in 1 .. l + 2, j < k
        PROVE  base2[j] + HeaderSize + sent'[j] <= base2[k]
    <3>1. CASE j = l + 1
      <4>1. k = l + 2 /\ base2[j] = base[l + 1] /\ sent'[j] = n /\ e <= e
        BY <1>3, <1>7, <2>2, <3>1
      <4> QED
        BY <1>5, <1>7, <4>1
    <3>2. CASE j # l + 1 /\ k # l + 2
      <4>1. j \in 1 .. l /\ k \in 1 .. l + 1
        BY <3>2
      <4> QED
        BY <1>3, <1>4, <1>7, <2>2, <4>1
    <3>3. CASE j # l + 1 /\ k = l + 2
      <4>1. j \in 1 .. l /\ j < l + 1 /\ l + 1 \in 1 .. l + 1 /\ j \in 1 .. l + 1
        BY <3>3
      <4>2. base[j] + HeaderSize + sent[j] <= base[l + 1]
        BY <1>4, <4>1
      <4>3. base2[j] = base[j] /\ sent'[j] = sent[j] /\ base2[k] = e
        BY <1>3, <1>7, <3>3, <4>1
      <4>4. base[j] \in Nat /\ sent[j] \in Nat /\ base[l + 1] \in Nat
        BY <1>3, <1>4, <4>1
      <4> QED
        BY <1>0, <1>5, <4>2, <4>3, <4>4
    <3> QED
      BY <3>1, <3>2, <3>3
  <2>3. Len(sent') + 1 = l + 2
    BY <1>3
  <2> QED
    BY <1>3, <1>7, <2>1, <2>2, <2>3 DEF Bases
<1>9. Position(base2)' = Position(base)
  <2>1. Len(got) + 1 \in 1 .. l + 1
    BY <1>2, SizeFacts DEF Progress
  <2> QED
    BY <1>1, <1>7, <2>1 DEF Position
<1>10. PICK body : body = Piece(l + 1, "head", 0, HeaderSize)
  OBVIOUS
<1>11. body.of = l + 1 /\ body.kind = "head" /\ body.from = 0 /\ body.size = HeaderSize
  BY <1>10 DEF Piece
<1>12. PICK f : f = Frame("up", "binary", body)
  OBVIOUS
<1>13. f.op = "binary" /\ f.body = body
  BY <1>12 DEF Frame
<1>14. \A i \in 1 .. Len(sent) : base2[i] = base[i]
  BY <1>2, <1>7
<1>15. wire' = Written("up", "binary", body) /\ wire'["down"] = wire["down"]
  BY <1>2, <1>10 DEF SendHeader, Write, Written, Shape, Hops
<1>16. ASSUME rpc = "reading"
       PROVE  Downstream(base2, x)'
  <2>1. PICK a : a = Position(base)
    OBVIOUS
  <2>2. Comes(base, reader["down"], wire["down"], a, x)
    BY <1>16, <2>1 DEF InOrder, Downstream
  <2>3. Comes(base2, reader["down"], wire["down"], a, x)
    BY <1>U, <1>14, <2>2, ComesExtends
  <2> QED
    BY <1>1, <1>9, <1>15, <2>1, <2>3 DEF Downstream
<1>17. ~(shut["down"] /\ ~failed)
  BY <1>1 DEF Closing
<1>18. PICK z \in Nat : z = y + HeaderSize
  BY <1>0, <1>4
<1>19. ASSUME rpc = "reading", ~shut["down"], ~cut["down"]
       PROVE  \E y2 \in Nat : Upstream(base2, x, y2)' /\ SenderAt(base2, y2)'
  <2>1. Upstream(base, x, y) /\ SenderAt(base, y)
    BY <1>19 DEF InOrder
  <2>2. PICK a : a = x + held.size
    OBVIOUS
  <2>3. Comes(base2, reader["up"], wire["up"], a, y)
    <3>1. Comes(base, reader["up"], wire["up"], a, y)
      BY <2>1, <2>2 DEF Upstream
    <3> QED
      BY <1>U, <1>14, <3>1, ComesExtends
  <2>4. held # Nothing => Start(base2, held) = x
    <3>1. SUFFICES ASSUME held # Nothing PROVE Start(base2, held) = x
      OBVIOUS
    <3>2. held \in Pieces
      BY <3>1 DEF Shape
    <3>3. base2[held.of] = base[held.of]
      BY <1>14, <3>2, PieceSizes
    <3> QED
      BY <2>1, <3>1, <3>3 DEF Upstream, Start
  <2>5. CASE cut["up"] \/ shut["up"]
    <3>1. wire' = wire /\ failed
      BY <1>U, <1>1, <1>15, <2>5 DEF Written, Gone, Closing
    <3>2. Upstream(base2, x, y)'
      BY <1>1, <2>2, <2>3, <2>4, <3>1, HeldSize DEF Upstream, Start
    <3>3. SenderAt(base2, y)'
      BY <1>1, <2>5 DEF SenderAt
    <3> QED
      BY <1>4, <3>2, <3>3
  <2>6. CASE ~cut["up"] /\ ~shut["up"]
    <3>1. wire'["up"] = Append(wire["up"], f)
      BY <1>12, <1>15, <1>19, <2>6 DEF Written, Gone, Shape, Hops
    <3>2. y = base[l + 1]
      BY <1>1, <1>2, <2>1, <2>6 DEF SenderAt
    <3>3. Start(base2, body) = y
      <4>1. l + 1 \in 1 .. l + 1
        OBVIOUS
      <4>2. base2[l + 1] = y
        BY <1>7, <3>2, <4>1
      <4>3. Skipped("head") = 0 /\ y + 0 + 0 = y
        BY <1>4 DEF Skipped
      <4> QED
        BY <1>11, <4>2, <4>3 DEF Start
    <3>4. Step(base2, f, y, z)
      BY <1>11, <1>13, <1>18, <3>3 DEF Step, DataOps
    <3>5. PICK c : c = a + reader["up"].rest
      OBVIOUS
    <3>6. Flow(base2, Append(wire["up"], f), c, z)
      <4>1. PICK S : S = FrameSet \cup {f}
        OBVIOUS
      <4>2. wire["up"] \in Seq(FrameSet)
        BY DEF Shape, Hops
      <4>3. wire["up"] \in Seq(S) /\ f \in S
        BY <4>1, <4>2
      <4>4. Flow(base2, wire["up"], c, y)
        BY <2>3, <3>5 DEF Comes
      <4> QED
        BY <3>4, <4>3, <4>4, FlowAppend
    <3>7. Comes(base2, reader["up"], wire'["up"], a, z)
      BY <2>3, <3>1, <3>5, <3>6 DEF Comes
    <3>8. Upstream(base2, x, z)'
      BY <1>1, <2>2, <2>4, <2>6, <3>7, HeldSize DEF Upstream, Start
    <3>9. SenderAt(base2, z)'
      <4>1. base2[l + 1] + HeaderSize = z
        BY <1>7, <1>18, <3>2
      <4> QED
        BY <1>1, <1>3, <4>1 DEF SenderAt
    <3> QED
      BY <3>8, <3>9
  <2> QED
    BY <2>5, <2>6
<1>20. CASE rpc = "reading" /\ ~shut["down"] /\ ~cut["down"]
  <2>1. PICK y2 \in Nat : Upstream(base2, x, y2)' /\ SenderAt(base2, y2)'
    BY <1>19, <1>20
  <2>2. InOrder(base2, x, y2)'
    BY <1>1, <1>4, <1>8, <1>16, <1>17, <2>1 DEF InOrder
  <2> QED
    BY <2>2 DEF Ordered
<1>21. CASE ~(rpc = "reading" /\ ~shut["down"] /\ ~cut["down"])
  <2>1. InOrder(base2, x, y)'
    BY <1>1, <1>4, <1>8, <1>16, <1>17, <1>21 DEF InOrder
  <2> QED
    BY <2>1 DEF Ordered
<1> QED
  BY <1>20, <1>21

(* A frame that is written up comes after all that is on the way.          *)
LEMMA ComesAppend ==
  ASSUME Shape, NEW base, NEW h \in Hops, NEW f, NEW a, NEW b, NEW c \in Nat,
         Comes(base, reader[h], wire[h], a, b), Step(base, f, b, c)
  PROVE  Comes(base, reader[h], Append(wire[h], f), a, c)
<1>1. PICK S : S = FrameSet \cup {f}
  OBVIOUS
<1>2. wire[h] \in Seq(FrameSet)
  BY DEF Shape
<1>3. wire[h] \in Seq(S) /\ f \in S
  BY <1>1, <1>2
<1>4. PICK d : d = a + reader[h].rest
  OBVIOUS
<1>5. Flow(base, wire[h], d, b)
  BY <1>4 DEF Comes
<1>6. Flow(base, Append(wire[h], f), d, c)
  BY <1>3, <1>5, FlowAppend
<1> QED
  BY <1>4, <1>6 DEF Comes

LEMMA SenderOrder ==
  ASSUME Shape, Progress, Closing, NEW base, NEW x, NEW y, InOrder(base, x, y), Sender
  PROVE  Ordered'
<1>U. "up" \in Hops /\ "down" \in Hops
  BY HopFacts
<1>1. ASSUME NEW n \in Sizes, SendRefuses(n)
      PROVE  Ordered'
  <2>1. /\ UNCHANGED <<sent, wire, reader, cut, held, shut, rpc, part, got, failed>>
        /\ spc = "idle" /\ spc' = "refused"
    BY <1>1 DEF SendRefuses, relaying, receiving
  <2>2. InOrder(base, x, y)'
    BY <2>1, SameBases, HeldSize
       DEF InOrder, Downstream, Position, Upstream, SenderAt, Start
  <2> QED
    BY <2>2 DEF Ordered
<1>2. CASE SendBody
  <2>1. /\ UNCHANGED <<sent, reader, cut, held, shut, rpc, part, got, failed>>
        /\ spc = "body" /\ spc' = "idle"
    BY <1>2 DEF SendBody, relaying, receiving
  <2>2. Bases(base)' /\ x \in Nat /\ y \in Nat /\ Bases(base)
    BY <2>1, SameBases DEF InOrder
  <2>3. PICK body : body = Piece(Len(sent), "body", 0, sent[Len(sent)])
    OBVIOUS
  <2>4. PICK f : f = Frame("up", "binary", body)
    OBVIOUS
  <2>5. f.op = "binary" /\ f.body = body
    BY <2>4 DEF Frame
  <2>6. wire' = Written("up", "binary", body) /\ wire'["down"] = wire["down"]
    BY <1>2, <2>3 DEF SendBody, Write, Written, Shape, Hops
  <2>7. rpc = "reading" => Downstream(base, x)'
    BY <2>1, <2>6 DEF InOrder, Downstream, Position
  <2>8. ~(shut["down"] /\ ~failed)
    BY <2>1 DEF Closing
  <2>9. PICK l \in Nat : l = Len(sent) /\ l > 0
    BY <2>1, SizeFacts DEF Shape
  <2>10. /\ base[l] \in Nat /\ sent[l] \in Nat
         /\ base[l + 1] = base[l] + HeaderSize + sent[l]
    <3>1. l \in 1 .. l /\ l \in 1 .. l + 1
      BY <2>9
    <3> QED
      BY <2>2, <2>9, <3>1, SizeFacts DEF Bases
  <2>11. CASE rpc = "reading" /\ ~shut["down"] /\ ~cut["down"] /\ ~cut["up"] /\ ~shut["up"]
    <3>1. Upstream(base, x, y) /\ y = base[l] + HeaderSize
      BY <2>1, <2>9, <2>11 DEF InOrder, SenderAt
    <3>2. PICK z \in Nat : z = base[l + 1]
      BY <2>10, <3>1 DEF HeaderSize
    <3>3. wire'["up"] = Append(wire["up"], f)
      BY <2>4, <2>6, <2>11 DEF Written, Gone, Shape, Hops
    <3>4. Step(base, f, y, z)
      <4>1. /\ body.of = l /\ body.kind = "body" /\ body.from = 0 /\ body.size = sent[l]
        BY <1>2, <2>3, <2>9, BodyIsGood
      <4>2. Start(base, body) = y
        BY <2>10, <3>1, <4>1 DEF Start, Skipped, HeaderSize
      <4>3. z = y + body.size
        BY <2>10, <3>1, <3>2, <4>1
      <4> QED
        BY <2>5, <4>2, <4>3 DEF Step, DataOps
    <3>5. PICK a : a = x + held.size
      OBVIOUS
    <3>6. Comes(base, reader["up"], wire'["up"], a, z)
      BY <1>U, <3>1, <3>3, <3>4, <3>5, ComesAppend DEF Upstream
    <3>7. Upstream(base, x, z)'
      BY <2>1, <2>11, <3>1, <3>5, <3>6, HeldSize DEF Upstream, Start
    <3>8. SenderAt(base, z)'
      BY <2>1, <2>9, <3>2 DEF SenderAt
    <3>9. InOrder(base, x, z)'
      BY <2>1, <2>2, <2>7, <2>8, <3>7, <3>8 DEF InOrder
    <3> QED
      BY <3>9 DEF Ordered
  <2>12. CASE ~(rpc = "reading" /\ ~shut["down"] /\ ~cut["down"] /\ ~cut["up"] /\ ~shut["up"])
    <3>1. rpc = "reading" /\ ~shut["down"] /\ ~cut["down"] =>
            Upstream(base, x, y)' /\ SenderAt(base, y)'
      <4>1. SUFFICES ASSUME rpc = "reading" /\ ~shut["down"] /\ ~cut["down"]
                     PROVE  Upstream(base, x, y)' /\ SenderAt(base, y)'
        OBVIOUS
      <4>2. cut["up"] \/ shut["up"]
        BY <2>12, <4>1
      <4>3. wire' = wire
        BY <2>6, <4>2 DEF Written, Gone
      <4>4. Upstream(base, x, y)
        BY <4>1 DEF InOrder
      <4>5. Upstream(base, x, y)'
        BY <2>1, <4>3, <4>4, HeldSize DEF Upstream, Start
      <4> QED
        BY <2>1, <4>2, <4>5 DEF SenderAt
    <3>2. InOrder(base, x, y)'
      BY <2>1, <2>2, <2>7, <2>8, <3>1 DEF InOrder
    <3> QED
      BY <3>2 DEF Ordered
  <2> QED
    BY <2>11, <2>12
<1>3. CASE SenderCloses
  <2>1. /\ UNCHANGED <<sent, reader, cut, held, shut, rpc, part, got, failed>>
        /\ spc' = "gone"
        /\ spc \in {"idle", "refused"} \/ (spc = "body" /\ Gone("up"))
    BY <1>3 DEF SenderCloses, relaying, receiving
  <2>2. Bases(base)' /\ x \in Nat /\ y \in Nat /\ Bases(base)
    BY <2>1, SameBases DEF InOrder
  <2>3. PICK f : f = Frame("up", "close", Nothing)
    OBVIOUS
  <2>4. f.op = "close"
    BY <2>3 DEF Frame
  <2>5. /\ wire'["up"] = wire["up"] \/ wire'["up"] = Append(wire["up"], f)
        /\ wire'["down"] = wire["down"]
    BY <1>3, <2>3 DEF SenderCloses, Write, Written, Shape, Hops
  <2>6. rpc = "reading" => Downstream(base, x)'
    BY <2>1, <2>5 DEF InOrder, Downstream, Position
  <2>7. ASSUME rpc = "reading", ~shut["down"], ~cut["down"]
        PROVE  Upstream(base, x, y)' /\ SenderAt(base, y)'
    <3>1. Upstream(base, x, y) /\ SenderAt(base, y)
      BY <2>7 DEF InOrder
    <3>2. PICK a : a = x + held.size
      OBVIOUS
    <3>3. Comes(base, reader["up"], wire["up"], a, y)
      BY <3>1, <3>2 DEF Upstream
    <3>4. Step(base, f, y, y)
      BY <2>4 DEF Step, DataOps
    <3>5. Comes(base, reader["up"], Append(wire["up"], f), a, y)
      BY <1>U, <2>2, <3>3, <3>4, ComesAppend
    <3>6. Upstream(base, x, y)'
      BY <2>1, <2>5, <3>1, <3>2, <3>3, <3>5, HeldSize DEF Upstream, Start
    <3>7. SenderAt(base, y)'
      <4>1. spc = "body" => cut["up"] \/ shut["up"]
        BY <2>1, <2>7 DEF Gone
      <4>2. shut["up"] => failed
        BY <2>1 DEF Closing
      <4> QED
        BY <2>1, <3>1, <4>1, <4>2 DEF SenderAt
    <3> QED
      BY <3>6, <3>7
  <2>8. rpc = "reading" /\ shut["down"] /\ ~failed => x = base[Len(sent) + 1]
    BY DEF InOrder
  <2>9. InOrder(base, x, y)'
    BY <2>1, <2>2, <2>6, <2>7, <2>8 DEF InOrder
  <2> QED
    BY <2>9 DEF Ordered
<1> QED
  BY <1>1, <1>2, <1>3, HeaderOrder DEF Sender

LEMMA FragmentOrder ==
  ASSUME Shape, Progress, Closing, NEW base, NEW x, NEW y, InOrder(base, x, y),
         NEW h \in Hops, Fragment(h)
  PROVE  InOrder(base, x, y)'
<1>1. /\ Len(wire[h]) \in Nat /\ Len(wire[h]) > 0
      /\ Latest(h) \in Frames(h) /\ Latest(h).op = "binary"
      /\ Latest(h).body \in Pieces
      /\ UNCHANGED <<spc, sent, reader, cut, held, shut, rpc, part, got, failed>>
  BY BetweenFacts DEF Fragment
<1>2. PICK b \in Pieces : b = Latest(h).body
  BY <1>1
<1>3. PICK n \in 1 .. b.size - 1 :
        wire' = [wire EXCEPT ![h] =
           Front(wire[h]) \o
             <<Frame(h, "binary", [b EXCEPT !.size = n]),
               Frame(h, "continuation", [b EXCEPT !.from = @ + n, !.size = @ - n])>>]
  BY <1>2 DEF Fragment
<1>4. PICK b1, b2 : /\ b1 = [b EXCEPT !.size = n]
                    /\ b2 = [b EXCEPT !.from = @ + n, !.size = @ - n]
  OBVIOUS
<1>5. b \in PieceSet /\ b.size \in Nat /\ b.from \in Nat /\ n \in Nat /\ b.size - n \in Nat
      /\ n <= b.size
  <2>1. b \in PieceSet /\ b.size \in Nat /\ b.from \in Nat
    BY PieceSizes
  <2>2. n \in Nat /\ b.size - n \in Nat /\ n <= b.size
    BY <2>1
  <2> QED
    BY <2>1, <2>2
<1>6. /\ b1.of = b.of /\ b1.kind = b.kind /\ b1.from = b.from /\ b1.size = n
      /\ b2.of = b.of /\ b2.kind = b.kind /\ b2.from = b.from + n /\ b2.size = b.size - n
  BY <1>4, <1>5 DEF PieceSet
<1>7. PICK f1, f2 : f1 = Frame(h, "binary", b1) /\ f2 = Frame(h, "continuation", b2)
  OBVIOUS
<1>8. f1.op = "binary" /\ f2.op = "continuation" /\ f1.body = b1 /\ f2.body = b2
  BY <1>7 DEF Frame
<1>9. PICK S : S = FrameSet \cup {f1, f2}
  OBVIOUS
<1>10. PICK q \in Seq(S) : q = wire[h]
  <2>1. wire[h] \in Seq(FrameSet)
    BY DEF Shape
  <2> QED
    BY <1>9, <2>1
<1>11. PICK k \in 0 .. Len(q) : k + 1 = Len(q)
  <2>1. Len(q) - 1 \in 0 .. Len(q) /\ (Len(q) - 1) + 1 = Len(q)
    BY <1>1, <1>10
  <2> QED
    BY <2>1
<1>12. PICK r \in Seq(S) : r = SubSeq(q, 1, k)
  <2>1. SubSeq(q, 1, k) \in Seq(S)
    OBVIOUS
  <2> QED
    BY <2>1
<1>13. wire'[h] = Append(Append(r, f1), f2)
  <2>1. wire'[h] = Front(q) \o <<f1, f2>>
    BY <1>3, <1>4, <1>7, <1>10 DEF Shape
  <2>2. Front(q) = r
    <3>1. Len(q) - 1 = k
      BY <1>11
    <3> QED
      BY <1>12, <3>1 DEF Front
  <2>3. r \o <<f1, f2>> = Append(Append(r, f1), f2)
    <3>1. f1 \in S /\ f2 \in S
      BY <1>9
    <3> QED
      BY <1>12, <3>1
  <2> QED
    BY <2>1, <2>2, <2>3
<1>14. ASSUME NEW a \in Nat, NEW d, Comes(base, reader[h], wire[h], a, d)
       PROVE  Comes(base, reader[h], wire'[h], a, d)
  <2>1. PICK e : e = a + reader[h].rest
    OBVIOUS
  <2>2. Flow(base, q, e, d)
    BY <1>10, <1>14, <2>1 DEF Comes
  <2>3. PICK c \in Nat : Flow(base, r, e, c) /\ Step(base, q[k + 1], c, d)
    BY <1>11, <1>12, <2>2, FlowPart
  <2>4. q[k + 1].op = "binary" /\ q[k + 1].body = b
    BY <1>1, <1>2, <1>10, <1>11 DEF Latest
  <2>5. c = Start(base, b) /\ d = c + b.size
    BY <2>3, <2>4 DEF Step, DataOps
  <2>6. PICK m \in Nat : m = c + n
    BY <1>5
  <2>7. Step(base, f1, c, m)
    BY <1>6, <1>8, <2>5, <2>6 DEF Step, DataOps, Start
  <2>8. Step(base, f2, m, d)
    <3>1. base[b.of] \in Nat /\ Skipped(b.kind) \in Nat
      BY BaseFacts DEF InOrder, Skipped, HeaderSize
    <3>2. Start(base, b2) = m
      <4>1. Start(base, b2) = base[b.of] + Skipped(b.kind) + (b.from + n)
        BY <1>6 DEF Start
      <4>2. c = base[b.of] + Skipped(b.kind) + b.from
        BY <2>5 DEF Start
      <4>3. PICK i \in Nat, j \in Nat, l \in Nat :
              i = base[b.of] /\ j = Skipped(b.kind) /\ l = b.from
        BY <1>5, <3>1
      <4>4. i + j + (l + n) = (i + j + l) + n
        BY <1>5
      <4> QED
        BY <2>6, <4>1, <4>2, <4>3, <4>4
    <3>3. d = m + b2.size
      BY <1>5, <1>6, <2>5, <2>6
    <3> QED
      BY <1>8, <3>2, <3>3 DEF Step, DataOps
  <2>9. Flow(base, Append(r, f1), e, m)
    <3>1. f1 \in S
      BY <1>9
    <3> QED
      BY <2>3, <2>7, <3>1, FlowAppend
  <2>10. Flow(base, Append(Append(r, f1), f2), e, d)
    <3>1. f2 \in S /\ Append(r, f1) \in Seq(S) /\ d \in Nat
      BY <1>5, <1>9, <2>5
    <3> QED
      BY <2>8, <2>9, <3>1, FlowAppend
  <2> QED
    BY <1>13, <1>14, <2>1, <2>10 DEF Comes
<1>15. \A k2 \in Hops : k2 # h => wire'[k2] = wire[k2]
  BY <1>3 DEF Shape
<1>16. ASSUME NEW k2 \in Hops, NEW a \in Nat, NEW d, Comes(base, reader[k2], wire[k2], a, d)
       PROVE  Comes(base, reader'[k2], wire'[k2], a, d)
  BY <1>1, <1>14, <1>15, <1>16
<1> QED
  BY <1>1, <1>16, OrderKept

LEMMA ControlOrder ==
  ASSUME Shape, Progress, Closing, NEW base, NEW x, NEW y, InOrder(base, x, y),
         NEW h \in Hops, Control(h)
  PROVE  InOrder(base, x, y)'
<1>1. UNCHANGED <<spc, sent, reader, cut, held, shut, rpc, part, got, failed>>
  BY BetweenFacts DEF Control
<1>2. PICK op \in {"ping", "pong"}, n \in 0 .. MaxControl :
        wire' = [wire EXCEPT ![h] = Append(@, Frame(h, op, Piece(0, "control", 0, n)))]
  BY ControlWritten
<1>3. PICK f : f = Frame(h, op, Piece(0, "control", 0, n))
  OBVIOUS
<1>4. f.op \in {"ping", "pong"}
  BY <1>3 DEF Frame
<1>5. /\ wire'[h] = Append(wire[h], f)
      /\ \A k \in Hops : k # h => wire'[k] = wire[k]
  BY <1>2, <1>3 DEF Shape
<1>6. ASSUME NEW a \in Nat, NEW b, Comes(base, reader[h], wire[h], a, b)
      PROVE  Comes(base, reader[h], wire'[h], a, b)
  <2>1. b \in Nat
    <3>1. wire[h] \in Seq(FrameSet)
      BY DEF Shape
    <3>2. PICK c : c = a + reader[h].rest
      OBVIOUS
    <3>3. Flow(base, wire[h], c, b)
      BY <1>6, <3>2 DEF Comes
    <3> QED
      BY <3>1, <3>3, FlowEnds
  <2>2. Step(base, f, b, b)
    BY <1>4 DEF Step, DataOps
  <2> QED
    BY <1>5, <1>6, <2>1, <2>2, ComesAppend
<1>7. ASSUME NEW k \in Hops, NEW a \in Nat, NEW b, Comes(base, reader[k], wire[k], a, b)
      PROVE  Comes(base, reader'[k], wire'[k], a, b)
  BY <1>1, <1>5, <1>6, <1>7
<1> QED
  BY <1>1, <1>7, OrderKept

(* What is cut off leaves the rest in order.                               *)
LEMMA ComesCut ==
  ASSUME Shape, NEW base, NEW h \in Hops, Cut(h),
         NEW a \in Nat, NEW b, Comes(base, reader[h], wire[h], a, b)
  PROVE  \E c \in Nat : Comes(base, reader'[h], wire'[h], a, c)
<1>1. PICK k \in 0 .. Len(wire[h]) :
        /\ \/ wire' = [wire EXCEPT ![h] = SubSeq(@, 1, k)]
           \/ \E n : k > 0 /\ wire' = [wire EXCEPT ![h] = [SubSeq(@, 1, k) EXCEPT ![k].here = n]]
        /\ UNCHANGED reader \/ reader' = [reader EXCEPT ![h].here = reader[h].off]
  BY DEF Cut
<1>2. PICK q \in Seq(FrameSet) : q = wire[h]
  BY DEF Shape
<1>3. PICK e : e = a + reader[h].rest
  OBVIOUS
<1>4. Flow(base, q, e, b)
  BY <1>2, <1>3 DEF Comes
<1>5. PICK r \in Seq(FrameSet) : r = SubSeq(q, 1, k)
  <2>1. SubSeq(q, 1, k) \in Seq(FrameSet)
    BY <1>2
  <2> QED
    BY <2>1
<1>6. PICK c : Flow(base, r, e, c)
  BY <1>1, <1>2, <1>4, <1>5, FlowPart
<1>7. c \in Nat
  BY <1>6, FlowEnds
<1>8. Len(r) = k /\ k \in Nat
  BY <1>1, <1>2, <1>5
<1>9. Flow(base, wire'[h], e, c)
  <2>1. CASE wire' = [wire EXCEPT ![h] = r]
    BY <1>6, <2>1 DEF Shape
  <2>2. ASSUME NEW n, k > 0, wire' = [wire EXCEPT ![h] = [r EXCEPT ![k].here = n]]
        PROVE  Flow(base, wire'[h], e, c)
    <3>1. PICK f \in FrameSet : f = r[k]
      BY <1>5, <1>8, <2>2
    <3>2. PICK g : g = [f EXCEPT !.here = n]
      OBVIOUS
    <3>3. g.op = f.op /\ g.body = f.body
      BY <3>1, <3>2 DEF FrameSet
    <3>4. PICK S : S = FrameSet \cup {g}
      OBVIOUS
    <3>5. r \in Seq(S) /\ g \in S
      BY <1>5, <3>4
    <3>6. PICK r2 : r2 = [r EXCEPT ![k] = g]
      OBVIOUS
    <3>7. /\ r2 \in Seq(S) /\ Len(r2) = Len(r)
          /\ \A i \in 1 .. Len(r) : r2[i] = IF i = k THEN g ELSE r[i]
      BY <1>8, <2>2, <3>5, <3>6
    <3>8. \A i \in 1 .. Len(r) : r2[i].op = r[i].op /\ r2[i].body = r[i].body
      BY <3>1, <3>3, <3>7
    <3>9. Flow(base, r2, e, c)
      BY <1>6, <3>5, <3>7, <3>8, FlowSame
    <3>10. wire'[h] = r2
      BY <2>2, <3>1, <3>2, <3>6 DEF Shape
    <3> QED
      BY <3>9, <3>10
  <2> QED
    BY <1>1, <1>2, <1>5, <2>1, <2>2
<1>10. /\ reader'[h].rest = reader[h].rest /\ reader'[h].body = reader[h].body
       /\ reader'[h].off = reader[h].off
  <2>1. PICK w \in ReaderSet : w = reader[h]
    BY DEF Shape
  <2>2. PICK v : v = [w EXCEPT !.here = w.off]
    OBVIOUS
  <2>3. v.rest = w.rest /\ v.body = w.body /\ v.off = w.off
    BY <2>1, <2>2 DEF ReaderSet
  <2>4. reader'[h] = w \/ reader'[h] = v
    BY <1>1, <2>1, <2>2 DEF Shape
  <2> QED
    BY <2>1, <2>3, <2>4
<1>11. Comes(base, reader'[h], wire'[h], a, c)
  BY <1>3, <1>9, <1>10 DEF Comes
<1> QED
  BY <1>7, <1>11

LEMMA CutOrder ==
  ASSUME Shape, Progress, Closing, NEW base, NEW x, NEW y, InOrder(base, x, y),
         NEW h \in Hops, Cut(h)
  PROVE  Ordered'
<1>1. /\ UNCHANGED <<spc, sent, held, shut, rpc, part, got>> /\ failed' = TRUE
      /\ cut' = [cut EXCEPT ![h] = TRUE]
  BY DEF Cut, relaying, receiving
<1>2. cut'[h] /\ \A k \in Hops : k # h => cut'[k] = cut[k] /\ reader'[k] = reader[k]
                                         /\ wire'[k] = wire[k]
  BY <1>1 DEF Cut, Shape
<1>3. Bases(base)' /\ x \in Nat /\ y \in Nat /\ Bases(base)
  BY <1>1, SameBases DEF InOrder
<1>4. PICK p \in Nat : p = Position(base) /\ Position(base)' = p
  BY <1>1, <1>3, PositionFacts DEF Position
<1>5. CASE rpc # "reading"
  <2>1. InOrder(base, x, y)'
    BY <1>1, <1>3, <1>5 DEF InOrder
  <2> QED
    BY <2>1 DEF Ordered
<1>6. CASE rpc = "reading" /\ h = "down"
  <2>1. Comes(base, reader[h], wire[h], p, x)
    BY <1>4, <1>6 DEF InOrder, Downstream
  <2>2. PICK c \in Nat : Comes(base, reader'[h], wire'[h], p, c)
    BY <2>1, ComesCut
  <2>3. InOrder(base, c, y)'
    BY <1>1, <1>2, <1>3, <1>4, <1>6, <2>2 DEF InOrder, Downstream
  <2> QED
    BY <2>3 DEF Ordered
<1>7. CASE rpc = "reading" /\ h = "up" /\ ~shut["down"] /\ ~cut["down"]
  <2>1. Upstream(base, x, y) /\ Downstream(base, x)
    BY <1>7 DEF InOrder
  <2>2. PICK a \in Nat : a = x + held.size
    BY <1>3, HeldSize
  <2>3. PICK c \in Nat : Comes(base, reader'["up"], wire'["up"], a, c)
    BY <1>7, <2>1, <2>2, ComesCut DEF Upstream
  <2>4. Upstream(base, x, c)'
    BY <1>1, <2>1, <2>2, <2>3, HeldSize DEF Upstream, Start
  <2>5. SenderAt(base, c)'
    BY <1>2, <1>7 DEF SenderAt
  <2>6. Downstream(base, x)'
    BY <1>2, <1>4, <1>7, <2>1, HopFacts DEF Downstream
  <2>7. InOrder(base, x, c)'
    BY <1>1, <1>3, <2>4, <2>5, <2>6 DEF InOrder
  <2> QED
    BY <2>7 DEF Ordered
<1>8. CASE rpc = "reading" /\ h = "up" /\ ~(~shut["down"] /\ ~cut["down"])
  <2>1. Downstream(base, x)'
    BY <1>2, <1>4, <1>8, HopFacts DEF Downstream, InOrder
  <2>2. cut'["down"] = cut["down"]
    BY <1>2, <1>8, HopFacts
  <2>3. InOrder(base, x, y)'
    BY <1>1, <1>3, <1>8, <2>1, <2>2 DEF InOrder
  <2> QED
    BY <2>3 DEF Ordered
<1> QED
  BY <1>5, <1>6, <1>7, <1>8, HopFacts

LEMMA ProgressKept ==
  ASSUME Shape, Progress, UNCHANGED got,
         UNCHANGED part \/ part' = NextPart("head", HeaderSize, 0),
         Len(sent) <= Len(sent'), Len(sent') \in Nat, \A i \in 1 .. Len(sent) : sent'[i] = sent[i]
  PROVE  Progress'
<1>1. Len(sent) \in Nat /\ Len(got) \in Nat /\ Len(got) <= Len(sent)
  BY SizeFacts DEF Progress
<1>2. /\ got' \in Seq(0 .. MaxMessage) /\ Len(got') <= Len(sent')
      /\ \A i \in 1 .. Len(got') : got'[i] = sent'[i]
  BY <1>1 DEF Progress
<1>3. CASE part' = part
  <2>1. part.kind = "body" \/ part.have > 0 => part.of = Len(got) + 1 /\ part.of <= Len(sent)
    BY DEF Progress
  <2>2. part.kind = "body" => sent'[part.of] = sent[part.of]
    BY <1>1, <2>1
  <2> QED
    BY <1>1, <1>2, <1>3, <2>1, <2>2 DEF Progress
<1>4. CASE part' = NextPart("head", HeaderSize, 0)
  <2>1. /\ part'.kind = "head" /\ part'.need = HeaderSize /\ part'.have = 0
        /\ part'.sound = TRUE
    BY <1>4 DEF NextPart
  <2> QED
    BY <1>2, <2>1 DEF Progress, HeaderSize
<1> QED
  BY <1>3, <1>4

LEMMA ProgressStep ==
  ASSUME Shape, Progress, Closing, Ordered, [Next]_vars
  PROVE  Progress'
<1>1. CASE Receives
  <2>1. PICK base, x, y : InOrder(base, x, y)
    BY DEF Ordered
  <2>2. Bases(base) /\ Downstream(base, x)
    BY <1>1, <2>1 DEF InOrder, Receives, Reading
  <2> QED
    BY <1>1, <2>2, ReceivesInOrder
<1>2. ASSUME NEW n \in Sizes, SendHeader(n)
      PROVE  Progress'
  <2>1. UNCHANGED <<got, part>> /\ sent' = Append(sent, n)
    BY <1>2 DEF SendHeader, receiving
  <2>2. sent \in Seq(0 .. MaxMessage) /\ n \in Nat
    BY StreamAssumption DEF Shape
  <2>3. /\ Len(sent) <= Len(sent') /\ Len(sent') \in Nat
        /\ \A i \in 1 .. Len(sent) : sent'[i] = sent[i]
    BY <2>1, <2>2
  <2> QED
    BY <2>1, <2>3, ProgressKept
<1>3. CASE \/ UNCHANGED <<sent, got, part>>
           \/ UNCHANGED <<sent, got>> /\ part' = NextPart("head", HeaderSize, 0)
  <2>1. Len(sent) <= Len(sent') /\ Len(sent') \in Nat
    BY <1>3, SizeFacts
  <2> QED
    BY <1>3, <2>1, ProgressKept
<1>4. ReceiveFails \/ ReceiverLeaves =>
        UNCHANGED <<sent, got>> /\ part' = NextPart("head", HeaderSize, 0)
  BY DEF ReceiveFails, ReceiverLeaves, Departs
<1>5. ASSUME NEW n \in Sizes, SendRefuses(n)
      PROVE  UNCHANGED <<sent, got, part>>
  BY <1>5 DEF SendRefuses, receiving
<1>6. SendBody \/ SenderCloses \/ KillSender => UNCHANGED <<sent, got, part>>
  BY DEF SendBody, SenderCloses, KillSender, receiving
<1>7. RelayReads \/ RelayWrites \/ CloseDown \/ CloseUp => UNCHANGED <<sent, got, part>>
  BY DEF RelayReads, RelayWrites, CloseDown, CloseUp, receiving
<1>8. ASSUME NEW h \in Hops, NextFrame(h) \/ Fragment(h) \/ Control(h) \/ Cut(h)
      PROVE  UNCHANGED <<sent, got, part>>
  BY <1>8 DEF NextFrame, Fragment, Control, Between, Cut, receiving
<1>9. UNCHANGED vars => UNCHANGED <<sent, got, part>>
  BY DEF vars, receiving
<1> QED
  BY <1>1, <1>2, <1>3, <1>4, <1>5, <1>6, <1>7, <1>8, <1>9, HopFacts
     DEF Next, Sender, Relay, Receiver, Surroundings, Quiet

LEMMA OrderStep ==
  ASSUME Shape, Progress, Closing, Ordered, [Next]_vars
  PROVE  Ordered'
<1>1. PICK base, x, y : InOrder(base, x, y)
  BY DEF Ordered
<1>2. CASE Sender
  BY <1>1, <1>2, SenderOrder
<1>3. CASE Relay
  <2>1. CASE NextFrame("up")
    BY <1>1, <2>1, HopFacts, NextFrameOrder DEF Ordered
  <2>2. CASE RelayReads
    BY <1>1, <2>2, ReadsOrder DEF Ordered
  <2>3. CASE RelayWrites
    BY <1>1, <2>3, WritesOrder
  <2>4. CASE CloseDown
    BY <1>1, <2>4, DownOrder DEF Ordered
  <2>5. CASE CloseUp
    BY <1>1, <2>5, UpOrder
  <2> QED
    BY <1>3, <2>1, <2>2, <2>3, <2>4, <2>5 DEF Relay
<1>4. ASSUME ReceiveFails \/ ReceiverLeaves
      PROVE  Ordered'
  <2>1. rpc' = "ended" /\ sent' = sent
    BY <1>4 DEF ReceiveFails, ReceiverLeaves, Departs
  <2>2. Bases(base)' /\ x \in Nat /\ y \in Nat
    BY <1>1, <2>1, SameBases DEF InOrder
  <2>3. InOrder(base, x, y)'
    BY <2>1, <2>2 DEF InOrder
  <2> QED
    BY <2>3 DEF Ordered
<1>5. CASE Receiver
  <2>1. CASE NextFrame("down")
    BY <1>1, <2>1, HopFacts, NextFrameOrder DEF Ordered
  <2>2. CASE Receives
    BY <1>1, <2>2, ReceivesOrder DEF Ordered
  <2> QED
    BY <1>4, <1>5, <2>1, <2>2 DEF Receiver
<1>6. CASE KillSender
  <2>1. /\ UNCHANGED <<sent, wire, reader, cut, held, shut, rpc, part, got>>
        /\ spc' = "gone" /\ failed' = TRUE
    BY <1>6 DEF KillSender, relaying, receiving
  <2>2. InOrder(base, x, y)'
    BY <1>1, <2>1, SameBases, HeldSize
       DEF InOrder, Downstream, Position, Upstream, SenderAt, Start
  <2> QED
    BY <2>2 DEF Ordered
<1>7. ASSUME NEW h \in Hops, Fragment(h) \/ Control(h) \/ Cut(h)
      PROVE  Ordered'
  BY <1>1, <1>7, FragmentOrder, ControlOrder, CutOrder DEF Ordered
<1>8. CASE Surroundings
  BY <1>4, <1>6, <1>7, <1>8 DEF Surroundings
<1>9. CASE UNCHANGED vars
  <2>1. UNCHANGED <<spc, sent, wire, reader, cut, held, shut, rpc, part, got, failed>>
    BY <1>9 DEF vars, relaying, receiving
  <2>2. InOrder(base, x, y)'
    BY <1>1, <2>1, SameBases, HeldSize
       DEF InOrder, Downstream, Position, Upstream, SenderAt, Start
  <2> QED
    BY <2>2 DEF Ordered
<1> QED
  BY <1>2, <1>3, <1>5, <1>8, <1>9 DEF Next, Quiet

StreamInv == Shape /\ Progress /\ Closing /\ Ordered

LEMMA StreamInit == Init => StreamInv
<1> SUFFICES ASSUME Init PROVE StreamInv
  OBVIOUS
<1>1. Shape
  BY ShapeInit
<1>2. /\ spc = "idle" /\ sent = <<>> /\ got = <<>> /\ held = Nothing
      /\ ~shut["up"] /\ ~shut["down"]
      /\ rpc = "reading" /\ failed = FALSE
      /\ wire["up"] = <<>> /\ wire["down"] = <<>>
      /\ reader["up"] = NewReader /\ reader["down"] = NewReader
      /\ cut["up"] = FALSE /\ cut["down"] = FALSE
      /\ part.kind = "head" /\ part.need = HeaderSize /\ part.have = 0 /\ part.sound = TRUE
  BY DEF Init, Hops
<1>3. Progress
  BY <1>2 DEF Progress, HeaderSize
<1>4. Closing
  BY <1>2, CloseNone, HopFacts DEF Closing, HungUp
<1>5. Ordered
  <2>1. PICK base : base = [i \in 1 .. 1 |-> 0]
    OBVIOUS
  <2>2. base \in [1 .. 1 -> Nat] /\ base[1] = 0
    BY <2>1
  <2>3. Len(sent) = 0 /\ Len(got) = 0 /\ 0 + 1 = 1
    BY <1>2
  <2>4. Bases(base)
    BY <2>2, <2>3 DEF Bases
  <2>5. Position(base) = 0
    BY <1>2, <2>2, <2>3 DEF Position, Skipped
  <2>6. Comes(base, NewReader, <<>>, 0, 0)
    <3>1. NewReader.rest = 0 /\ 0 + 0 = 0
      BY DEF NewReader
    <3>2. Flow(base, <<>>, 0, 0)
      BY FlowNone
    <3> QED
      BY <3>1, <3>2 DEF Comes
  <2>7. Downstream(base, 0)
    BY <1>2, <2>5, <2>6 DEF Downstream
  <2>8. Upstream(base, 0, 0)
    BY <1>2, <2>6, NothingFacts DEF Upstream
  <2>9. SenderAt(base, 0)
    BY <1>2, <2>2, <2>3 DEF SenderAt
  <2>10. InOrder(base, 0, 0)
    BY <1>2, <2>4, <2>7, <2>8, <2>9 DEF InOrder
  <2> QED
    BY <2>10 DEF Ordered
<1> QED
  BY <1>1, <1>3, <1>4, <1>5 DEF StreamInv

LEMMA StreamStep == StreamInv /\ [Next]_vars => StreamInv'
BY ShapeStep, ClosingStep, ProgressStep, OrderStep DEF StreamInv

LEMMA StreamAlways == Spec => []StreamInv
BY StreamInit, StreamStep, PTL DEF Spec

(* A frame is never read past its end, and of the header or the body that  *)
(* comm.Receive reads something is always missing.                         *)
THEOREM StreamTypes == Spec => []TypeOK
<1>1. ASSUME Shape, Progress
      PROVE  TypeOK
  <2>1. sent \in Seq(Nat) /\ got \in Seq(Nat)
    <3>1. 0 .. MaxMessage \subseteq Nat
      BY StreamAssumption
    <3> QED
      BY <1>1, <3>1, MoreElements DEF Shape, Progress
  <2>2. ASSUME NEW h \in Hops, NEW i \in DOMAIN wire[h]
        PROVE  wire[h][i].here \in 0 .. wire[h][i].body.size
    <3>1. wire[h][i] \in Frames(h)
      BY <1>1 DEF Shape
    <3> QED
      BY <3>1, FrameFacts
  <2>3. ASSUME NEW h \in Hops
        PROVE  /\ reader[h].off \in 0 .. reader[h].here
               /\ reader[h].off + reader[h].rest = reader[h].body.size
    BY <1>1, ReaderFacts
  <2> QED
    BY <1>1, <2>1, <2>2, <2>3 DEF TypeOK, Shape
<1> QED
  BY <1>1, StreamAlways, PTL DEF StreamInv

(* When nothing has failed, the receiver is told of the end only when it   *)
(* has every message.                                                      *)
LEMMA EndIsClean ==
  ASSUME StreamInv, Reading("down"), ReadFails("down"), ~failed
  PROVE  got = sent
<1>1. Shape /\ Progress /\ Closing /\ Ordered
  BY DEF StreamInv
<1>2. PICK base, x, y : InOrder(base, x, y)
  BY <1>1 DEF Ordered
<1>3. rpc = "reading" /\ ReadFails("down") /\ "down" \in Hops
  BY HopFacts DEF Reading
<1>4. /\ reader["down"].rest = 0 /\ wire["down"] # <<>> /\ shut["down"]
      /\ Head(wire["down"]).op = "close" /\ Tail(wire["down"]) = <<>>
  BY <1>1, <1>3, FailsCleanly DEF HungUp
<1>5. Bases(base) /\ x = base[Len(sent) + 1] /\ Downstream(base, x)
  BY <1>2, <1>3, <1>4 DEF InOrder
<1>6. PICK a \in Nat : a = Position(base)
  BY <1>1, <1>5, PositionFacts
<1>7. x = a
  <2>1. a + reader["down"].rest = a
    BY <1>4
  <2>2. Flow(base, wire["down"], a, x)
    BY <1>5, <1>6, <2>1 DEF Downstream, Comes
  <2>3. wire["down"] \in Seq(FrameSet)
    BY <1>1, <1>3 DEF Shape
  <2>4. PICK c \in Nat : Step(base, Head(wire["down"]), a, c) /\ Flow(base, <<>>, c, x)
    BY <1>4, <2>2, <2>3, FlowTail
  <2> QED
    BY <1>4, <2>4, FlowNone DEF Step, DataOps
<1>8. PICK g \in Nat, l \in Nat : g = Len(got) /\ l = Len(sent) /\ g <= l
  BY <1>1, SizeFacts DEF Progress
<1>9. g = l
  <2>1. SUFFICES ASSUME g < l PROVE FALSE
    BY <1>8
  <2>2. g + 1 \in 1 .. l /\ l + 1 \in 1 .. l + 1 /\ g + 1 < l + 1
    BY <2>1
  <2>3. base[g + 1] + HeaderSize + sent[g + 1] <= base[l + 1]
    BY <1>5, <1>8, <2>2 DEF Bases
  <2>4. sent[g + 1] \in Nat /\ base[g + 1] \in Nat
    BY <1>1, <1>5, <1>8, <2>2, SizeFacts, PositionFacts
  <2>5. /\ part.kind \in {"head", "body"} /\ part.need \in Nat /\ part.have \in Nat
        /\ part.have < part.need
    BY <1>1 DEF Shape, PartSet
  <2>6. a = base[g + 1] + Skipped(part.kind) + part.have
    BY <1>6, <1>8 DEF Position
  <2>7. PICK c \in Nat, m \in Nat, n \in Nat :
          c = base[g + 1] /\ m = sent[g + 1] /\ n = part.have
    BY <2>4, <2>5
  <2>8. c + HeaderSize + m <= a
    BY <1>5, <1>7, <1>8, <2>3, <2>7
  <2>9. CASE part.kind = "head"
    <3>1. n < HeaderSize
      BY <1>1, <2>5, <2>7, <2>9 DEF Progress
    <3>2. a = c + 0 + n
      BY <2>6, <2>7, <2>9 DEF Skipped
    <3> QED
      BY <2>8, <3>1, <3>2 DEF HeaderSize
  <2>10. CASE part.kind = "body"
    <3>1. n < m
      BY <1>1, <1>8, <2>5, <2>7, <2>10 DEF Progress
    <3>2. a = c + HeaderSize + n
      BY <2>6, <2>7, <2>10 DEF Skipped
    <3> QED
      BY <2>8, <3>1, <3>2 DEF HeaderSize
  <2> QED
    BY <2>5, <2>9, <2>10
<1> QED
  <2>1. /\ sent \in Seq(0 .. MaxMessage) /\ got \in Seq(0 .. MaxMessage)
        /\ \A i \in 1 .. Len(got) : got[i] = sent[i]
    BY <1>1 DEF Shape, Progress
  <2>2. PICK s \in Seq(0 .. MaxMessage) : s = sent
    BY <2>1
  <2>3. PICK r \in Seq(0 .. MaxMessage) : r = got
    BY <2>1
  <2>4. Len(r) = Len(s) /\ \A i \in 1 .. Len(r) : r[i] = s[i]
    BY <1>8, <1>9, <2>1, <2>2, <2>3
  <2>5. r = s
    BY <2>4
  <2> QED
    BY <2>2, <2>3, <2>5

LEMMA ImplementsInit == Init => Promise!Init
BY DEF Init, Promise!Init

(* Every step of the stream is one of the channel's, or invisible to it.   *)
LEMMA ImplementsStep == StreamInv /\ [Next]_vars => [Promise!Next]_(Promise!vars)
<1> SUFFICES ASSUME StreamInv, [Next]_vars
             PROVE  [Promise!Next]_(Promise!vars)
  OBVIOUS
<1>1. Shape /\ Progress /\ Closing /\ Ordered /\ failed \in BOOLEAN
  BY DEF StreamInv, Shape
<1>2. ASSUME UNCHANGED <<sent, got, rpc>>, failed' \in {failed, TRUE}
      PROVE  [Promise!Next]_(Promise!vars)
  BY <1>2 DEF Promise!Next, Promise!Fail, Promise!vars
<1>3. ASSUME NEW n \in Sizes, SendHeader(n)
      PROVE  Promise!Put
  BY <1>3 DEF SendHeader, Promise!Put, receiving
<1>4. ASSUME NEW n \in Sizes, SendRefuses(n)
      PROVE  UNCHANGED <<sent, got, rpc, failed>>
  BY <1>4 DEF SendRefuses, receiving
<1>5. SendBody \/ SenderCloses \/ RelayReads \/ RelayWrites \/ UNCHANGED vars
        => UNCHANGED <<sent, got, rpc, failed>>
  BY DEF SendBody, SenderCloses, RelayReads, RelayWrites, receiving, vars
<1>6. KillSender => UNCHANGED <<sent, got, rpc>> /\ failed' = TRUE
  BY DEF KillSender, receiving
<1>7. ASSUME NEW h \in Hops, NextFrame(h)
      PROVE  UNCHANGED <<sent, got, rpc>> /\ failed' \in {failed, TRUE}
  <2>1. UNCHANGED <<sent, got, rpc>>
    BY <1>7 DEF NextFrame, receiving
  <2>2. failed' = failed \/ failed' = (failed \/ HungUp(h))
    BY <1>7, Zenon DEF NextFrame
  <2>3. failed' \in {failed, TRUE}
    <3>1. (failed \/ HungUp(h)) \in {failed, TRUE}
      BY <1>1
    <3> QED
      BY <2>2, <3>1
  <2> QED
    BY <2>1, <2>3
<1>8. ASSUME CloseDown \/ CloseUp
      PROVE  UNCHANGED <<sent, got, rpc>> /\ failed' \in {failed, TRUE}
  <2>1. UNCHANGED <<sent, got, rpc>>
    BY <1>8 DEF CloseDown, CloseUp, receiving
  <2>2. \/ failed' = (failed \/ held # Nothing \/ ~ReadFails("up"))
        \/ failed' = (failed \/ (~shut["down"] /\ ~ReadFails("up")))
    BY <1>8 DEF CloseDown, CloseUp
  <2>3. /\ (failed \/ held # Nothing \/ ~ReadFails("up")) \in {failed, TRUE}
        /\ (failed \/ (~shut["down"] /\ ~ReadFails("up"))) \in {failed, TRUE}
    BY <1>1
  <2> QED
    BY <2>1, <2>2, <2>3
<1>9. ASSUME NEW h \in Hops, Fragment(h) \/ Control(h)
      PROVE  UNCHANGED <<sent, got, rpc, failed>>
  BY <1>9 DEF Fragment, Control, Between, receiving
<1>10. ASSUME NEW h \in Hops, Cut(h)
       PROVE  UNCHANGED <<sent, got, rpc>> /\ failed' = TRUE
  BY <1>10 DEF Cut, receiving
<1>11. ASSUME Receives
       PROVE  [Promise!Next]_(Promise!vars)
  <2>1. PICK base, x, y : InOrder(base, x, y)
    BY <1>1 DEF Ordered
  <2>2. rpc = "reading" /\ UNCHANGED <<sent, failed>>
    BY <1>11 DEF Receives, Reading
  <2>3. Bases(base) /\ Downstream(base, x)
    BY <2>1, <2>2 DEF InOrder
  <2>4. \/ got' = got
        \/ Len(got) < Len(sent) /\ got' = Append(got, sent[Len(got) + 1])
    BY <1>1, <1>11, <2>3, ReceivesInOrder
  <2>5. rpc' = rpc
    <3>1. Shape'
      BY <1>1, <1>11, ReceiverShape
    <3>2. rpc' = "reading" \/ rpc' = "refused"
      BY <1>11, <2>2 DEF Receives, HeaderRead, BodyRead
    <3> QED
      BY <2>2, <3>1, <3>2 DEF Shape
  <2> QED
    BY <2>2, <2>4, <2>5 DEF Promise!Next, Promise!Take, Promise!vars
<1>12. ASSUME ReceiveFails
       PROVE  Promise!End \/ Promise!Fail
  <2>1. /\ rpc' = "ended" /\ UNCHANGED <<sent, got>> /\ Reading("down")
        /\ failed' = (failed \/ ~ReadFails("down"))
    BY <1>12 DEF ReceiveFails, Departs
  <2>2. CASE ReadFails("down")
    <3>1. got = sent \/ failed
      BY <2>1, <2>2, EndIsClean
    <3>2. failed' = failed
      BY <1>1, <2>1, <2>2
    <3> QED
      BY <2>1, <3>1, <3>2 DEF Promise!End
  <2>3. CASE ~ReadFails("down")
    <3>1. failed' = TRUE
      BY <2>1, <2>3
    <3> QED
      BY <2>1, <3>1 DEF Promise!Fail
  <2> QED
    BY <2>2, <2>3
<1>13. ASSUME ReceiverLeaves
       PROVE  Promise!Fail
  BY <1>13 DEF ReceiverLeaves, Departs, Promise!Fail
<1>14. CASE UNCHANGED <<sent, got, rpc, failed>>
  BY <1>2, <1>14
<1> QED
  BY <1>2, <1>3, <1>4, <1>5, <1>6, <1>7, <1>8, <1>9, <1>10, <1>11, <1>12, <1>13, <1>14, HopFacts
     DEF Next, Sender, Relay, Receiver, Surroundings, Quiet, Promise!Next

(* What comm.Receive returns, on top of ws.Conn.Read and the relay's pipe, *)
(* is what comm.Send was given: whole, unaltered, in order and once; and   *)
(* the end comes before every message has only if something failed.        *)
THEOREM ChannelImplements == Spec => Implements
BY StreamAlways, ImplementsInit, ImplementsStep, PTL DEF Spec, Implements, Promise!Spec
=============================================================================
