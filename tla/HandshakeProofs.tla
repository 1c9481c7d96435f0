-------------------------- MODULE HandshakeProofs ---------------------------
(***************************************************************************)
(* Theorems about Spake2 and Handshake, over any curve that satisfies      *)
(* CurveAssumption, for any codes, secrets and salts, and whatever is      *)
(* killed or lost.                                                         *)
(***************************************************************************)
EXTENDS Handshake, TLAPS

-----------------------------------------------------------------------------
(* The key agreement of internal/pake.                                     *)

(* A share is a point of the curve.                                        *)
LEMMA ShareIsPoint ==
  ASSUME NEW r \in Role, NEW a \in Scalar, NEW w \in Scalar
  PROVE  Share(r, a, w) \in Point
<1>1. a \in 0 .. Order /\ w \in 0 .. Order
  BY CurveAssumption DEF Scalar
<1>2. Base \in Point /\ BlindPoint(r) \in Point
  BY CurveAssumption DEF BlindPoint
<1>3. Mult(a, Base) \in Point /\ Mult(w, BlindPoint(r)) \in Point
  BY <1>1, <1>2, CurveAssumption
<1> QED
  BY <1>3, CurveAssumption DEF Share

(* Taking the mask off a share with the scalar it was put on with leaves   *)
(* what the ephemeral secret made of the generator (Update).               *)
LEMMA MaskComesOff ==
  ASSUME NEW r \in Role, NEW a \in Scalar, NEW w \in Scalar
  PROVE  Add(Share(r, a, w), Mult(Order - w, BlindPoint(r))) = Mult(a, Base)
<1>1. a \in 0 .. Order
  BY CurveAssumption DEF Scalar
<1>2. Mult(a, Base) \in Point /\ BlindPoint(r) \in Point
  BY <1>1, CurveAssumption DEF BlindPoint
<1> QED
  BY <1>2, CurveAssumption DEF Share

(* A sender and a receiver that use the same scalar for the code derive    *)
(* the same key, whatever their secrets (New, Update).                     *)
THEOREM SameCodeSameKey ==
  ASSUME NEW a \in Scalar, NEW b \in Scalar, NEW w \in Scalar
  PROVE  Key("A", a, w, Share("B", b, w)) = Key("B", b, w, Share("A", a, w))
<1>1. Add(Share("B", b, w), Mult(Order - w, BlindPoint("B"))) = Mult(b, Base)
  BY MaskComesOff DEF Role
<1>2. Add(Share("A", a, w), Mult(Order - w, BlindPoint("A"))) = Mult(a, Base)
  BY MaskComesOff DEF Role
<1>3. Mult(a, Mult(b, Base)) = Mult(b, Mult(a, Base))
  BY CurveAssumption
<1>4. OtherRole("A") = "B" /\ OtherRole("B") = "A"
  BY DEF OtherRole
<1> QED
  BY <1>1, <1>2, <1>3, <1>4 DEF Key

-----------------------------------------------------------------------------
Place == {"share", "peer", "salt", "confirm", "check"} \cup Stopped

(* The places after a side has sent its confirmation: it does not change   *)
(* its key or its salt any more.                                           *)
Settled == {"check"} \cup Stopped

Queues == \E M : chan \in [Ends -> Seq(M)]

Carried(e) == {chan[e][k] : k \in 1 .. Len(chan[e])}

Shape ==
  /\ Queues
  /\ pc \in [Ends -> Place]
  /\ DOMAIN key = Ends
  /\ DOMAIN salt = Ends

KeyHasCode(e) ==
  pc[e] \in {"salt", "confirm", "check", "ready"} => key[e].password = code[e]

(* A sealed message under way is what the other end has sealed with the    *)
(* key that it still has.                                                  *)
Honest(e) ==
  \A m \in Carried(e) : m.type = "sealed" =>
    LET o == Other(e) IN
      /\ pc[o] \in Settled
      /\ m = Sealed(o, role[o])
      /\ key[o].password = code[o]

Agreed(e) ==
  pc[e] = "ready" =>
    LET o == Other(e) IN
      /\ pc[o] \in Settled
      /\ key[o] = key[e]
      /\ salt[o] = salt[e]
      /\ role[o] = OtherRole(role[e])
      /\ code[o] = code[e]

(* The inductive invariant: what a side that is ready has seen can only    *)
(* come from a peer with its key, and a key holds its code.                *)
AgreementInv ==
  /\ Shape
  /\ \A e \in Ends : KeyHasCode(e) /\ Honest(e) /\ Agreed(e)

-----------------------------------------------------------------------------
LEMMA EndsFacts ==
  /\ \A e \in Ends : Other(e) \in Ends /\ Other(e) # e /\ Other(Other(e)) = e
  /\ \A d, e \in Ends : d = e \/ d = Other(e)
BY DEF Ends, Other

(* What a read, a close, a loss and a failure leave in the queues was in   *)
(* them before.                                                            *)
LEMMA Takes ==
  ASSUME Queues, NEW e \in Ends,
         Receive(e) \/ Close(e) \/ ReceiveAndClose(e) \/ Lose(e) \/ Fault
  PROVE  Queues' /\ \A d \in Ends : Carried(d)' \subseteq Carried(d)
<1>1. PICK M : chan \in [Ends -> Seq(M)]
  BY DEF Queues
<1>2. CASE Receive(e)
  <2>1. chan[e] \in Seq(M) /\ chan[e] # <<>>
    BY <1>1, <1>2 DEF Receive
  <2>2. Tail(chan[e]) \in Seq(M) /\ Len(Tail(chan[e])) = Len(chan[e]) - 1
    BY <2>1
  <2>3. \A k \in 1 .. Len(Tail(chan[e])) : Tail(chan[e])[k] = chan[e][k + 1]
    BY <2>1
  <2>4. chan' \in [Ends -> Seq(M)]
    BY <1>1, <1>2, <2>2 DEF Receive
  <2>5. chan'[e] = Tail(chan[e]) /\ \A d \in Ends : d # e => chan'[d] = chan[d]
    BY <1>1, <1>2 DEF Receive
  <2>6. \A k \in 1 .. Len(Tail(chan[e])) : k + 1 \in 1 .. Len(chan[e])
    BY <2>1, <2>2
  <2>7. Carried(e)' \subseteq Carried(e)
    BY <2>2, <2>3, <2>5, <2>6 DEF Carried
  <2>8. \A d \in Ends : d # e => Carried(d)' = Carried(d)
    BY <2>5 DEF Carried
  <2> QED
    BY <2>4, <2>7, <2>8 DEF Queues
<1>3. CASE Close(e) \/ ReceiveAndClose(e)
  <2>1. chan' \in [Ends -> Seq(M)]
    <3>1. CASE Close(e)
      BY <1>1, <3>1 DEF Close, HangUp
    <3>2. CASE ReceiveAndClose(e)
      <4>1. chan[e] \in Seq(M) /\ chan[e] # <<>>
        BY <1>1, <3>2 DEF ReceiveAndClose
      <4>2. Tail(chan[e]) \in Seq(M)
        BY <4>1
      <4> QED
        BY <1>1, <3>2, <4>2 DEF ReceiveAndClose, HangUp
    <3> QED
      BY <1>3, <3>1, <3>2
  <2>2. chan'[e] = <<>> /\ \A d \in Ends : d # e => chan'[d] = chan[d]
    BY <1>1, <1>3 DEF Close, ReceiveAndClose, HangUp
  <2>3. Carried(e)' = {}
    BY <2>2 DEF Carried
  <2>4. \A d \in Ends : d # e => Carried(d)' = Carried(d)
    BY <2>2 DEF Carried
  <2> QED
    BY <2>1, <2>3, <2>4 DEF Queues
<1>4. CASE Lose(e)
  <2>1. PICK k \in 0 .. Len(chan[e]) - 1 :
          chan' = [chan EXCEPT ![e] = SubSeq(chan[e], 1, k)]
    BY <1>4 DEF Lose
  <2>2. chan[e] \in Seq(M)
    BY <1>1
  <2>3. SubSeq(chan[e], 1, k) \in Seq(M) /\ Len(SubSeq(chan[e], 1, k)) = k
    BY <2>1, <2>2
  <2>4. \A j \in 1 .. k : SubSeq(chan[e], 1, k)[j] = chan[e][j] /\ j \in 1 .. Len(chan[e])
    BY <2>1, <2>2
  <2>5. chan' \in [Ends -> Seq(M)]
    BY <1>1, <2>1, <2>3
  <2>6. chan'[e] = SubSeq(chan[e], 1, k) /\ \A d \in Ends : d # e => chan'[d] = chan[d]
    BY <1>1, <2>1
  <2>7. Carried(e)' \subseteq Carried(e)
    BY <2>3, <2>4, <2>6 DEF Carried
  <2>8. \A d \in Ends : d # e => Carried(d)' = Carried(d)
    BY <2>6 DEF Carried
  <2> QED
    BY <2>5, <2>7, <2>8 DEF Queues
<1>5. CASE Fault
  BY <1>1, <1>5 DEF Fault, Queues, Carried
<1> QED
  BY <1>2, <1>3, <1>4, <1>5

(* A write adds what is written, to the queue to the other end only.       *)
LEMMA Adds ==
  ASSUME Queues, NEW e \in Ends, NEW m, Send(e, m)
  PROVE  /\ Queues'
         /\ Carried(e)' \subseteq Carried(e)
         /\ Carried(Other(e))' \subseteq Carried(Other(e)) \cup {m}
<1>1. PICK M : chan \in [Ends -> Seq(M)]
  BY DEF Queues
<1>2. Other(e) \in Ends /\ Other(e) # e
  BY EndsFacts
<1>3. CASE chan' = chan
  BY <1>1, <1>3 DEF Queues, Carried
<1>4. CASE chan' = [chan EXCEPT ![Other(e)] = Append(chan[Other(e)], m)]
  <2> DEFINE q == chan[Other(e)]
             L == M \cup {m}
  <2>1. chan \in [Ends -> Seq(L)]
    <3>1. \A s \in Seq(M) : s \in Seq(L)
      OBVIOUS
    <3> QED
      BY <1>1, <3>1
  <2>2. q \in Seq(L) /\ m \in L
    BY <1>2, <2>1
  <2> HIDE DEF L
  <2>3. /\ Append(q, m) \in Seq(L)
        /\ Len(Append(q, m)) = Len(q) + 1
        /\ Append(q, m)[Len(q) + 1] = m
        /\ \A k \in 1 .. Len(q) : Append(q, m)[k] = q[k]
        /\ Len(q) \in Nat
    BY <2>2
  <2>4. chan' \in [Ends -> Seq(L)] /\ chan'[Other(e)] = Append(q, m) /\ chan'[e] = chan[e]
    BY <1>2, <1>4, <2>1, <2>3
  <2>5. \A k \in 1 .. Len(q) + 1 : k \in 1 .. Len(q) \/ k = Len(q) + 1
    BY <2>3
  <2> QED
    BY <2>3, <2>4, <2>5 DEF Queues, Carried
<1> QED
  BY <1>3, <1>4 DEF Send, Written

-----------------------------------------------------------------------------
(* What a side has sealed with stays as it is.                             *)
Frozen(e) ==
  pc[e] \in Settled => pc'[e] \in Settled /\ key'[e] = key[e] /\ salt'[e] = salt[e]

NothingSealed(d) == \A m \in Carried(d)' : m.type = "sealed" => m \in Carried(d)

LEMMA HonestKept ==
  ASSUME NEW d \in Ends, Honest(d), NothingSealed(d), Frozen(Other(d)),
         UNCHANGED <<role, code>>
  PROVE  Honest(d)'
BY DEF Honest, NothingSealed, Frozen, Sealed

LEMMA AgreedKept ==
  ASSUME NEW d \in Ends, Agreed(d), Frozen(d), Frozen(Other(d)),
         pc'[d] = "ready" => pc[d] = "ready",
         UNCHANGED <<role, code>>
  PROVE  Agreed(d)'
BY DEF Agreed, Frozen, Settled, Stopped

(* The steps that seal nothing and trust nothing keep the invariant.       *)
LEMMA Keeps ==
  ASSUME AgreementInv,
         Shape',
         UNCHANGED <<role, code>>,
         \A d \in Ends : Frozen(d) /\ NothingSealed(d) /\ KeyHasCode(d)',
         \A d \in Ends : pc'[d] = "ready" => pc[d] = "ready"
  PROVE  AgreementInv'
BY HonestKept, AgreedKept, EndsFacts DEF AgreementInv

(* The same for a step of e that leaves keys alone and goes to l.          *)
LEMMA Goes ==
  ASSUME AgreementInv,
         NEW e \in Ends, NEW l \in Place \ {"ready"},
         Goto(e, l),
         pc[e] \in Settled => l \in Settled /\ salt' = salt,
         l \in {"salt", "confirm", "check"} => pc[e] \in {"salt", "confirm", "check"},
         Queues',
         \A d \in Ends : NothingSealed(d),
         DOMAIN salt' = Ends,
         \A d \in Ends : d # e => salt'[d] = salt[d],
         UNCHANGED <<role, code, key>>
  PROVE  AgreementInv'
<1>1. pc'[e] = l /\ \A d \in Ends : d # e => pc'[d] = pc[d]
  BY DEF Goto, AgreementInv, Shape
<1>2. Shape'
  BY DEF Goto, AgreementInv, Shape
<1>3. \A d \in Ends : Frozen(d)
  BY <1>1 DEF Frozen
<1>4. \A d \in Ends : KeyHasCode(d)'
  BY <1>1 DEF AgreementInv, KeyHasCode
<1>5. \A d \in Ends : pc'[d] = "ready" => pc[d] = "ready"
  BY <1>1
<1> QED
  BY <1>2, <1>3, <1>4, <1>5, Keeps

LEMMA AgreementInit == Init => AgreementInv
<1> SUFFICES ASSUME Init PROVE AgreementInv
  OBVIOUS
<1>1. chan = [e \in Ends |-> <<>>] /\ pc = [e \in Ends |-> "share"]
  BY DEF Init, LinkInit
<1>2. chan \in [Ends -> Seq({})]
  BY <1>1
<1>3. \A e \in Ends : Carried(e) = {} /\ pc[e] = "share"
  BY <1>1 DEF Carried
<1>4. Shape
  BY <1>1, <1>2 DEF Shape, Queues, Place, Init
<1> QED
  BY <1>3, <1>4 DEF AgreementInv, KeyHasCode, Honest, Agreed

(* A message that is not sealed is no danger.                              *)
LEMMA PlainSend ==
  ASSUME Queues, NEW e \in Ends, NEW m, m.type # "sealed", Send(e, m)
  PROVE  Queues' /\ \A d \in Ends : NothingSealed(d)
<1>1. /\ Queues'
      /\ Carried(e)' \subseteq Carried(e)
      /\ Carried(Other(e))' \subseteq Carried(Other(e)) \cup {m}
  BY Adds
<1>2. NothingSealed(e) /\ NothingSealed(Other(e))
  BY <1>1 DEF NothingSealed
<1> QED
  BY <1>1, <1>2, EndsFacts

LEMMA TakesNothingSealed ==
  ASSUME Queues, NEW e \in Ends,
         Receive(e) \/ Close(e) \/ ReceiveAndClose(e) \/ Lose(e) \/ Fault
  PROVE  Queues' /\ \A d \in Ends : NothingSealed(d)
BY Takes DEF NothingSealed

-----------------------------------------------------------------------------
(* Every step of a side keeps the invariant.                               *)

LEMMA StepAgreement ==
  ASSUME AgreementInv, NEW e \in Ends, Step(e)
  PROVE  AgreementInv'
<1> USE DEF AgreementInv, Shape
<1>1. CASE SendShare(e)
  <2>1. PICK v \in Secret : Send(e, ShareMsg(Share(role[e], v, code[e])))
    BY <1>1 DEF SendShare
  <2>2. ShareMsg(Share(role[e], v, code[e])).type # "sealed"
    BY DEF ShareMsg
  <2>3. Queues' /\ \A d \in Ends : NothingSealed(d)
    BY <2>1, <2>2, PlainSend
  <2>4. "peer" \in Place \ {"ready"}
    BY DEF Place, Stopped
  <2> QED
    BY <1>1, <2>3, <2>4, Goes DEF SendShare, Settled, Stopped
<1>2. CASE ReadShare(e)
  <2>1. Queues' /\ \A d \in Ends : NothingSealed(d)
    BY <1>2, TakesNothingSealed DEF ReadShare
  <2>2. /\ pc[e] = "peer" /\ pc'[e] = "salt"
        /\ key'[e] = Key(role[e], x[e], code[e], Head(chan[e]).point)
        /\ \A d \in Ends : d # e => pc'[d] = pc[d] /\ key'[d] = key[d]
        /\ UNCHANGED <<role, code, salt>>
    BY <1>2 DEF ReadShare, Goto
  <2>3. Shape'
    BY <1>2, <2>1 DEF ReadShare, Goto, Place
  <2>4. \A d \in Ends : Frozen(d)
    BY <2>2 DEF Frozen, Settled, Stopped
  <2>5. key'[e].password = code[e]
    BY <2>2 DEF Key
  <2>6. \A d \in Ends : KeyHasCode(d)'
    BY <2>2, <2>5 DEF KeyHasCode
  <2>7. \A d \in Ends : pc'[d] = "ready" => pc[d] = "ready"
    BY <2>2
  <2> QED
    BY <2>1, <2>2, <2>3, <2>4, <2>6, <2>7, Keeps
<1>3. CASE SendSalt(e)
  <2>1. PICK s \in Salt : salt' = [salt EXCEPT ![e] = s] /\ Send(e, SaltMsg(s))
    BY <1>3 DEF SendSalt
  <2>2. SaltMsg(s).type # "sealed"
    BY DEF SaltMsg
  <2>3. Queues' /\ \A d \in Ends : NothingSealed(d)
    BY <2>1, <2>2, PlainSend
  <2>4. "confirm" \in Place \ {"ready"}
    BY DEF Place, Stopped
  <2> QED
    BY <1>3, <2>1, <2>3, <2>4, Goes DEF SendSalt, Settled, Stopped
<1>4. CASE ReadSalt(e)
  <2>1. Queues' /\ \A d \in Ends : NothingSealed(d)
    BY <1>4, TakesNothingSealed DEF ReadSalt
  <2>2. "confirm" \in Place \ {"ready"}
    BY DEF Place, Stopped
  <2> QED
    BY <1>4, <2>1, <2>2, Goes DEF ReadSalt, Settled, Stopped
<1>5. CASE SendConfirm(e)
  <2> DEFINE o == Other(e)
             m == Sealed(e, role[e])
  <2>1. /\ Queues'
        /\ Carried(e)' \subseteq Carried(e)
        /\ Carried(o)' \subseteq Carried(o) \cup {m}
    BY <1>5, Adds DEF SendConfirm
  <2>2. /\ pc[e] = "confirm" /\ pc'[e] = "check"
        /\ \A d \in Ends : d # e => pc'[d] = pc[d]
        /\ UNCHANGED <<role, code, key, salt>>
    BY <1>5 DEF SendConfirm, Goto
  <2>3. Shape'
    BY <1>5, <2>1 DEF SendConfirm, Goto, Place
  <2>4. \A d \in Ends : Frozen(d)
    BY <2>2 DEF Frozen, Settled, Stopped
  <2>5. \A d \in Ends : KeyHasCode(d)' /\ (pc'[d] = "ready" => pc[d] = "ready")
    BY <2>2 DEF KeyHasCode
  <2>6. \A d \in Ends : Agreed(d)'
    BY <2>2, <2>4, <2>5, EndsFacts, AgreedKept
  <2>7. Honest(e)'
    BY <2>1, <2>2, <2>4, EndsFacts, HonestKept DEF NothingSealed
  <2>8. Honest(o)'
    <3>1. o \in Ends /\ Other(o) = e /\ Honest(o) /\ KeyHasCode(e)
      BY EndsFacts
    <3>2. pc'[e] \in Settled /\ m = Sealed(e, role[e])' /\ key'[e].password = code[e]
      BY <2>2, <3>1 DEF Sealed, Settled, KeyHasCode
    <3>3. \A n \in Carried(o) : n.type = "sealed" =>
            pc[e] \in Settled /\ n = Sealed(e, role[e]) /\ key[e].password = code[e]
      BY <3>1 DEF Honest
    <3> QED
      BY <2>1, <2>2, <3>1, <3>2, <3>3 DEF Honest, Sealed
  <2> QED
    BY <2>3, <2>5, <2>6, <2>7, <2>8, EndsFacts
<1>6. CASE ReadConfirm(e)
  <2> DEFINE o == Other(e)
  <2>1. Queues' /\ \A d \in Ends : NothingSealed(d)
    BY <1>6, TakesNothingSealed DEF ReadConfirm
  <2>2. /\ pc[e] = "check" /\ pc'[e] = "ready"
        /\ \A d \in Ends : d # e => pc'[d] = pc[d]
        /\ UNCHANGED <<role, code, key, salt>>
    BY <1>6 DEF ReadConfirm, Goto
  <2>3. Shape'
    BY <1>6, <2>1 DEF ReadConfirm, Goto, Place, Stopped
  <2>4. \A d \in Ends : Frozen(d)
    BY <2>2 DEF Frozen, Settled, Stopped
  <2>5. \A d \in Ends : KeyHasCode(d)'
    BY <2>2 DEF KeyHasCode
  <2>6. \A d \in Ends : Honest(d)'
    BY <2>1, <2>2, <2>4, EndsFacts, HonestKept
  <2>7. Agreed(o)'
    BY <2>2, <2>4, EndsFacts, AgreedKept
  <2>8. Agreed(e)'
    <3>1. PICK M : chan \in [Ends -> Seq(M)]
      BY DEF Queues
    <3>2. chan[e] \in Seq(M) /\ chan[e] # <<>>
      BY <1>6, <3>1 DEF ReadConfirm
    <3>3. Head(chan[e]) \in Carried(e)
      BY <3>2 DEF Carried
    <3>4. Head(chan[e]) = Sealed(e, OtherRole(role[e]))
      BY <1>6 DEF ReadConfirm
    <3>5. /\ pc[o] \in Settled
          /\ Sealed(e, OtherRole(role[e])) = Sealed(o, role[o])
          /\ key[o].password = code[o]
      BY <3>3, <3>4 DEF Honest, Sealed
    <3>6. key[e] = key[o] /\ salt[e] = salt[o] /\ OtherRole(role[e]) = role[o]
      BY <3>5 DEF Sealed
    <3>7. key[e].password = code[e]
      BY <2>2 DEF KeyHasCode
    <3> QED
      BY <2>2, <3>5, <3>6, <3>7, EndsFacts DEF Agreed
  <2> QED
    BY <2>3, <2>5, <2>6, <2>7, <2>8, EndsFacts
<1>7. CASE Mismatch(e)
  <2>1. Close(e) \/ ReceiveAndClose(e)
    BY <1>7 DEF Mismatch
  <2>2. Queues' /\ \A d \in Ends : NothingSealed(d)
    BY <2>1, TakesNothingSealed
  <2>3. "mismatch" \in Place \ {"ready"} /\ "mismatch" \in Settled
    BY DEF Place, Stopped, Settled
  <2> QED
    BY <1>7, <2>2, <2>3, Goes DEF Mismatch
<1>8. CASE Fails(e)
  <2>1. Queues' /\ \A d \in Ends : NothingSealed(d)
    BY <1>8, TakesNothingSealed DEF Fails
  <2>2. "failed" \in Place \ {"ready"} /\ "failed" \in Settled
    BY DEF Place, Stopped, Settled
  <2> QED
    BY <1>8, <2>1, <2>2, Goes DEF Fails
<1> QED
  BY <1>1, <1>2, <1>3, <1>4, <1>5, <1>6, <1>7, <1>8 DEF Step

(* So do a kill, the network and standing still.                           *)
LEMMA NextAgreement ==
  ASSUME AgreementInv, [Next]_vars
  PROVE  AgreementInv'
<1>1. CASE \E e \in Ends : Step(e)
  BY <1>1, StepAgreement
<1>2. ASSUME NEW e \in Ends, Kill(e) PROVE AgreementInv'
  <2>1. Queues' /\ \A d \in Ends : NothingSealed(d)
    BY <1>2, TakesNothingSealed DEF Kill, AgreementInv, Shape
  <2>2. "killed" \in Place \ {"ready"} /\ "killed" \in Settled
    BY DEF Place, Stopped, Settled
  <2> QED
    BY <1>2, <2>1, <2>2, Goes DEF Kill, AgreementInv, Shape
<1>3. CASE Network
  <2>1. Fault \/ \E e \in Ends : Lose(e)
    BY <1>3 DEF Network
  <2>2. "left" \in Ends
    BY DEF Ends
  <2>3. Queues' /\ \A d \in Ends : NothingSealed(d)
    BY <2>1, <2>2, TakesNothingSealed DEF AgreementInv, Shape
  <2>4. UNCHANGED <<role, code, pc, key, salt>>
    BY <1>3 DEF Network
  <2> QED
    BY <2>3, <2>4, Keeps DEF AgreementInv, Shape, Frozen, KeyHasCode
<1>4. CASE UNCHANGED vars
  <2>1. UNCHANGED <<chan, role, code, pc, key, salt>>
    BY <1>4 DEF vars, link
  <2>2. Queues' /\ \A d \in Ends : NothingSealed(d)
    BY <2>1 DEF AgreementInv, Shape, Queues, NothingSealed, Carried
  <2> QED
    BY <2>1, <2>2, Keeps DEF AgreementInv, Shape, Frozen, KeyHasCode
<1> QED
  BY <1>1, <1>2, <1>3, <1>4 DEF Next, Over

LEMMA AgreementCorrect == Spec => []AgreementInv
<1>1. Init => AgreementInv
  BY AgreementInit
<1>2. AgreementInv /\ [Next]_vars => AgreementInv'
  BY NextAgreement
<1> QED
  BY <1>1, <1>2, PTL DEF Spec

(* Whoever gets through handshake and confirmKeys has a peer with the same *)
(* key, the same code and salt and the other role, on any curve, whatever  *)
(* the relay has paired, and whatever was lost or killed.                  *)
THEOREM ReadyMeansAgreedHolds == Spec => []ReadyMeansAgreed
<1>1. ASSUME AgreementInv, role \in [Ends -> Role] PROVE ReadyMeansAgreed
  <2>1. SUFFICES ASSUME NEW e \in Ends, pc[e] = "ready"
                 PROVE  /\ key[Other(e)] = key[e] /\ salt[Other(e)] = salt[e]
                        /\ OneSender /\ SameCode
    BY DEF ReadyMeansAgreed
  <2>2. /\ key[Other(e)] = key[e] /\ salt[Other(e)] = salt[e]
        /\ role[Other(e)] = OtherRole(role[e]) /\ code[Other(e)] = code[e]
    BY <1>1, <2>1 DEF AgreementInv, Agreed
  <2>3. \/ e = "left" /\ Other(e) = "right"
        \/ e = "right" /\ Other(e) = "left"
    BY <2>1 DEF Ends, Other
  <2>4. role[Other(e)] # role[e]
    BY <2>2 DEF OtherRole
  <2> QED
    BY <2>2, <2>3, <2>4 DEF OneSender, SameCode
<1>2. Init => role \in [Ends -> Role]
  BY DEF Init
<1>3. role \in [Ends -> Role] /\ [Next]_vars => (role \in [Ends -> Role])'
  BY DEF Next, Step, SendShare, ReadShare, SendSalt, ReadSalt, SendConfirm, ReadConfirm,
         Mismatch, Fails, Kill, Network, Over, vars
<1> QED
  BY <1>1, <1>2, <1>3, AgreementCorrect, PTL DEF Spec

-----------------------------------------------------------------------------
(* The order of the messages.  A side reads without looking at the type of *)
(* a message; what comes next is what it expects, because the other side   *)
(* writes its two or three messages in the order of its role.              *)

Reading == {"share", "peer", "salt"}

Turn(r, k) == IF k = 1 THEN "share" ELSE IF r = "A" /\ k = 2 THEN "salt" ELSE "sealed"

(* The messages a side has read, while it reads without looking.           *)
Got(e) == IF pc[e] = "salt" THEN 1 ELSE 0

(* The messages a side that has not stopped has written.                   *)
Told(e) ==
  IF pc[e] = "share" THEN 0
  ELSE IF pc[e] \in {"peer", "salt"} THEN 1
  ELSE IF pc[e] = "confirm" THEN IF role[e] = "A" THEN 2 ELSE 1
  ELSE IF role[e] = "A" THEN 3 ELSE 2

InTurn(e) ==
  pc[e] \in Reading =>
    \A k \in 1 .. Len(chan[e]) : chan[e][k].type = Turn(role[Other(e)], Got(e) + k)

(* Nothing is missing while both go on and the connection holds.           *)
Counted(e) ==
  pc[e] \in Reading /\ pc[Other(e)] \notin Stopped /\ ~broken =>
    Len(chan[e]) + Got(e) = Told(Other(e))

(* Two receivers never get as far as a confirmation.                       *)
Served(e) ==
  /\ role[e] = "B" /\ pc[e] \in {"confirm", "check"} => role[Other(e)] = "A"
  /\ \A k \in 1 .. Len(chan[e]) :
       chan[e][k].type = "sealed" /\ role[Other(e)] = "B" => role[e] = "A"

Keyed(e) ==
  pc[e] \in {"confirm", "check", "ready"} => key[e] \in SessionKey /\ salt[e] \in Salt

Derived(e) == pc[e] \in {"salt", "confirm", "check"} => key[e] \in SessionKey

Values ==
  /\ chan \in [Ends -> Seq(Message)]
  /\ closed \in [Ends -> BOOLEAN]
  /\ broken \in BOOLEAN
  /\ role \in [Ends -> Role]
  /\ code \in [Ends -> Code]
  /\ pc \in [Ends -> Place]
  /\ x \in [Ends -> Scalar]
  /\ key \in [Ends -> SessionKey \cup {None}]
  /\ salt \in [Ends -> Salt \cup {None}]

Ordered(e) == InTurn(e) /\ Counted(e) /\ Served(e)

(* The inductive invariant of the handshake's types.                       *)
TurnInv ==
  /\ Values
  /\ \A e \in Ends : Keyed(e) /\ Derived(e)
  /\ \A e \in Ends : closed[e] => pc[e] \in Stopped
  /\ \A e \in Ends : Ordered(e)

-----------------------------------------------------------------------------
LEMMA QueueHead ==
  ASSUME NEW S, NEW q \in Seq(S), q # <<>>
  PROVE  /\ Head(q) \in S /\ Head(q) = q[1] /\ 1 \in 1 .. Len(q)
         /\ Len(q) \in Nat
         /\ Tail(q) \in Seq(S) /\ Len(Tail(q)) = Len(q) - 1
         /\ \A k \in 1 .. Len(Tail(q)) : Tail(q)[k] = q[k + 1] /\ k + 1 \in 1 .. Len(q)
<1>1. Len(q) \in Nat \ {0} /\ Head(q) \in S /\ Head(q) = q[1]
  OBVIOUS
<1>2. Tail(q) \in Seq(S) /\ Len(Tail(q)) = Len(q) - 1
  OBVIOUS
<1>3. \A k \in 1 .. Len(Tail(q)) : Tail(q)[k] = q[k + 1]
  OBVIOUS
<1> QED
  BY <1>1, <1>2, <1>3

LEMMA QueueEnd ==
  ASSUME NEW S, NEW q \in Seq(S), NEW m \in S
  PROVE  /\ Len(q) \in Nat
         /\ Append(q, m) \in Seq(S) /\ Len(Append(q, m)) = Len(q) + 1
         /\ \A k \in 1 .. Len(q) : Append(q, m)[k] = q[k]
         /\ Append(q, m)[Len(q) + 1] = m
OBVIOUS

LEMMA QueueCut ==
  ASSUME NEW S, NEW q \in Seq(S), NEW n \in 0 .. Len(q) - 1
  PROVE  /\ SubSeq(q, 1, n) \in Seq(S) /\ Len(SubSeq(q, 1, n)) = n
         /\ \A k \in 1 .. n : SubSeq(q, 1, n)[k] = q[k] /\ k \in 1 .. Len(q)
OBVIOUS

LEMMA MessageParts ==
  /\ \A m \in Message : m.type = "share" => m.point \in Point
  /\ \A m \in Message : m.type = "salt" => m.salt \in Salt
  /\ \A p \in Point : ShareMsg(p) \in Message /\ ShareMsg(p).type = "share"
  /\ \A s \in Salt : SaltMsg(s) \in Message /\ SaltMsg(s).type = "salt"
BY DEF Message, ShareMsg, SaltMsg

LEMMA SealedParts ==
  ASSUME NEW e, key[e] \in SessionKey, salt[e] \in Salt, role[e] \in Role
  PROVE  Sealed(e, role[e]) \in Message /\ Sealed(e, role[e]).type = "sealed"
BY DEF Message, Sealed

(* The key that comes of a share has its parts on the curve.               *)
LEMMA KeyIsKey ==
  ASSUME NEW r \in Role, NEW v \in Scalar, NEW w \in Scalar, NEW p \in Point
  PROVE  Key(r, v, w, p) \in SessionKey
<1>1. Share(r, v, w) \in Point
  BY ShareIsPoint
<1>2. Order - w \in 0 .. Order /\ v \in 0 .. Order
  BY CurveAssumption DEF Scalar
<1>3. BlindPoint(OtherRole(r)) \in Point
  BY CurveAssumption DEF BlindPoint
<1>4. Mult(Order - w, BlindPoint(OtherRole(r))) \in Point
  BY <1>2, <1>3, CurveAssumption
<1>5. Add(p, Mult(Order - w, BlindPoint(OtherRole(r)))) \in Point
  BY <1>4, CurveAssumption
<1>6. Mult(v, Add(p, Mult(Order - w, BlindPoint(OtherRole(r))))) \in Point
  BY <1>2, <1>5, CurveAssumption
<1> QED
  BY <1>1, <1>6 DEF Key, SessionKey

-----------------------------------------------------------------------------
(* What each operation of the link does to a side that goes from one place *)
(* to another, for the side e itself and for the other one.                *)

Moves(e) ==
  /\ pc'[e] \in Place
  /\ pc' = [pc EXCEPT ![e] = pc'[e]]
  /\ UNCHANGED role

LEMMA MovesOne ==
  ASSUME Values, NEW e \in Ends, Moves(e)
  PROVE  /\ pc' \in [Ends -> Place]
         /\ pc'[Other(e)] = pc[Other(e)]
         /\ Got(Other(e))' = Got(Other(e))
         /\ Told(Other(e))' = Told(Other(e))
BY EndsFacts DEF Values, Moves, Got, Told

(* A queue that only lost some of its end holds no surprise.               *)
LEMMA LessKept ==
  ASSUME NEW d \in Ends, InTurn(d), Served(d), UNCHANGED role,
         pc'[d] \in Reading => pc[d] \in Reading /\ Got(d)' = Got(d),
         pc'[d] \in {"confirm", "check"} => pc[d] \in {"confirm", "check"},
         \A k \in 1 .. Len(chan'[d]) :
           k \in 1 .. Len(chan[d]) /\ chan'[d][k] = chan[d][k]
  PROVE  InTurn(d)' /\ Served(d)'
<1>1. InTurn(d)'
  BY DEF InTurn
<1>2. Served(d)'
  BY DEF Served
<1> QED
  BY <1>1, <1>2

LEMMA SendOrdered ==
  ASSUME TurnInv, NEW e \in Ends, NEW m \in Message, Send(e, m), Moves(e),
         pc[e] \notin Stopped, Told(e)' = Told(e) + 1,
         m.type = Turn(role[e], Told(e) + 1),
         m.type = "sealed" /\ role[e] = "B" => role[Other(e)] = "A",
         pc'[e] \in Reading => pc[e] \in Reading /\ Got(e)' = Got(e),
         pc'[e] = "check" => pc[e] = "confirm",
         pc'[e] = "confirm" => role[e] = "A"
  PROVE  /\ chan' \in [Ends -> Seq(Message)] /\ broken' \in BOOLEAN
         /\ \A d \in Ends : Ordered(d)'
<1> DEFINE o == Other(e)
<1>0. o \in Ends /\ o # e /\ Other(o) = e /\ \A d \in Ends : d = e \/ d = o
  BY EndsFacts
<1>1. /\ chan \in [Ends -> Seq(Message)] /\ broken \in BOOLEAN /\ closed \in [Ends -> BOOLEAN]
      /\ pc \in [Ends -> Place] /\ role \in [Ends -> Role]
  BY DEF TurnInv, Values
<1>2. InTurn(e) /\ Counted(e) /\ Served(e) /\ InTurn(o) /\ Counted(o) /\ Served(o)
  BY <1>0 DEF TurnInv, Ordered
<1>3. /\ pc' \in [Ends -> Place] /\ pc'[o] = pc[o]
      /\ Got(o)' = Got(o) /\ Told(o)' = Told(o)
  BY MovesOne DEF TurnInv
<1>4. broken' = (broken \/ closed[o])
  BY DEF Send
<1>5. role' = role
  BY DEF Moves
<1>6. chan'[e] = chan[e]
  BY <1>0, <1>1 DEF Send, Written
<1>7. InTurn(e)' /\ Served(e)'
  <2>1. InTurn(e)'
    BY <1>2, <1>5, <1>6 DEF InTurn
  <2>2. Served(e)'
    BY <1>2, <1>5, <1>6 DEF Served
  <2> QED
    BY <2>1, <2>2
<1>8. Counted(e)'
  BY <1>2, <1>3, <1>4, <1>6 DEF Counted
<1>9. CASE broken \/ closed[o]
  <2>1. chan' = chan
    BY <1>9 DEF Send, Written
  <2>2. InTurn(o)' /\ Served(o)'
    <3>1. InTurn(o)'
      BY <1>2, <1>3, <1>5, <2>1 DEF InTurn
    <3>2. Served(o)'
      BY <1>2, <1>3, <1>5, <2>1 DEF Served
    <3> QED
      BY <3>1, <3>2
  <2>3. Counted(o)'
    BY <1>4, <1>9 DEF Counted
  <2> QED
    BY <1>0, <1>1, <1>4, <1>7, <1>8, <2>1, <2>2, <2>3 DEF Ordered
<1>10. CASE ~broken /\ ~closed[o]
  <2> DEFINE q == chan[o]
  <2>1. chan' = [chan EXCEPT ![o] = Append(q, m)]
    BY <1>10 DEF Send, Written
  <2>2. chan'[o] = Append(q, m)
    BY <1>0, <1>1, <2>1
  <2>3. q \in Seq(Message)
    BY <1>0, <1>1
  <2> HIDE DEF q
  <2>4. /\ Len(q) \in Nat
        /\ Append(q, m) \in Seq(Message) /\ Len(Append(q, m)) = Len(q) + 1
        /\ \A k \in 1 .. Len(q) : Append(q, m)[k] = q[k]
        /\ Append(q, m)[Len(q) + 1] = m
    BY <2>3, QueueEnd
  <2>5. \A k \in 1 .. Len(q) + 1 : k \in 1 .. Len(q) \/ k = Len(q) + 1
    BY <2>4
  <2>6. chan' \in [Ends -> Seq(Message)]
    BY <1>1, <2>1, <2>4
  <2>7. pc[o] \in Reading => Len(q) + Got(o) = Told(e)
    BY <1>0, <1>2, <1>10 DEF Counted, q
  <2>8. Got(o) \in {0, 1} /\ Told(e) \in {0, 1, 2, 3}
    BY DEF Got, Told
  <2>9. InTurn(o)'
    <3>1. SUFFICES ASSUME pc[o] \in Reading, NEW k \in 1 .. Len(q) + 1
                   PROVE  Append(q, m)[k].type = Turn(role[e], Got(o) + k)
      BY <1>0, <1>3, <1>5, <2>2, <2>4 DEF InTurn
    <3>2. CASE k \in 1 .. Len(q)
      BY <1>0, <1>2, <2>4, <3>1, <3>2 DEF InTurn, q
    <3>3. CASE k = Len(q) + 1
      <4>1. Got(o) + k = Told(e) + 1
        BY <2>4, <2>7, <2>8, <3>1, <3>3
      <4> QED
        BY <2>4, <3>3, <4>1
    <3> QED
      BY <2>5, <3>2, <3>3
  <2>10. Counted(o)'
    <3>1. pc[o] \in Reading => Len(q) + 1 + Got(o) = Told(e) + 1
      BY <2>4, <2>7, <2>8
    <3> QED
      BY <1>0, <1>3, <2>2, <2>4, <3>1 DEF Counted
  <2>11. Served(o)'
    <3>1. role[o] = "B" /\ pc[o] \in {"confirm", "check"} => role[e] = "A"
      BY <1>0, <1>2 DEF Served
    <3>2. \A k \in 1 .. Len(q) : q[k].type = "sealed" /\ role[e] = "B" => role[o] = "A"
      BY <1>0, <1>2 DEF Served, q
    <3>3. \A k \in 1 .. Len(q) + 1 :
            Append(q, m)[k].type = "sealed" /\ role[e] = "B" => role[o] = "A"
      BY <2>4, <2>5, <3>2
    <3> QED
      BY <1>0, <1>3, <1>5, <2>2, <2>4, <3>1, <3>3 DEF Served
  <2> QED
    BY <1>0, <1>1, <1>4, <1>7, <1>8, <2>6, <2>9, <2>10, <2>11 DEF Ordered
<1> QED
  BY <1>1, <1>9, <1>10

(* A side that stops, and has read or closed before it does.               *)
LEMMA StopOrdered ==
  ASSUME TurnInv, NEW e \in Ends, Moves(e), pc'[e] \in Stopped,
         Receive(e) \/ Close(e) \/ ReceiveAndClose(e)
  PROVE  /\ chan' \in [Ends -> Seq(Message)] /\ broken' \in BOOLEAN
         /\ \A d \in Ends : Ordered(d)'
<1> DEFINE o == Other(e)
<1>0. o \in Ends /\ o # e /\ Other(o) = e /\ \A d \in Ends : d = e \/ d = o
  BY EndsFacts
<1>1. /\ chan \in [Ends -> Seq(Message)] /\ broken \in BOOLEAN
      /\ pc \in [Ends -> Place] /\ role \in [Ends -> Role]
  BY DEF TurnInv, Values
<1>2. InTurn(o) /\ Served(o) /\ Served(e)
  BY <1>0 DEF TurnInv, Ordered
<1>3. /\ pc' \in [Ends -> Place] /\ pc'[o] = pc[o] /\ Got(o)' = Got(o)
  BY MovesOne DEF TurnInv
<1>4. role' = role /\ pc'[e] \notin Reading \cup {"confirm", "check"}
  BY DEF Moves, Stopped, Reading
<1>5. chan[e] # <<>> => /\ Tail(chan[e]) \in Seq(Message)
                        /\ \A k \in 1 .. Len(Tail(chan[e])) :
                             Tail(chan[e])[k] = chan[e][k + 1] /\ k + 1 \in 1 .. Len(chan[e])
  BY <1>1, QueueHead
<1>6. /\ chan' \in [Ends -> Seq(Message)]
      /\ broken' \in BOOLEAN
      /\ chan'[o] = chan[o]
      /\ \/ chan[e] # <<>> /\ chan'[e] = Tail(chan[e])
         \/ chan'[e] = <<>>
  <2>1. CASE Receive(e)
    BY <1>0, <1>1, <1>5, <2>1 DEF Receive
  <2>2. CASE Close(e)
    BY <1>0, <1>1, <2>2 DEF Close, HangUp
  <2>3. CASE ReceiveAndClose(e)
    BY <1>0, <1>1, <1>5, <2>3 DEF ReceiveAndClose, HangUp
  <2> QED
    BY <2>1, <2>2, <2>3
<1>7. Ordered(e)'
  <2>1. InTurn(e)' /\ Counted(e)'
    BY <1>4 DEF InTurn, Counted
  <2>2. Served(e)'
    <3>1. \A k \in 1 .. Len(chan'[e]) :
            chan'[e][k].type = "sealed" /\ role[o] = "B" => role[e] = "A"
      <4>1. CASE chan'[e] = <<>>
        BY <4>1
      <4>2. CASE chan[e] # <<>> /\ chan'[e] = Tail(chan[e])
        BY <1>2, <1>5, <4>2 DEF Served
      <4> QED
        BY <1>6, <4>1, <4>2
    <3> QED
      BY <1>4, <3>1 DEF Served
  <2> QED
    BY <2>1, <2>2 DEF Ordered
<1>8. Ordered(o)'
  <2>1. InTurn(o)'
    BY <1>2, <1>3, <1>4, <1>6 DEF InTurn
  <2>2. Served(o)'
    BY <1>2, <1>3, <1>4, <1>6 DEF Served
  <2>3. Counted(o)'
    BY <1>0 DEF Counted
  <2> QED
    BY <2>1, <2>2, <2>3 DEF Ordered
<1> QED
  BY <1>0, <1>6, <1>7, <1>8

(* A read of the message that is due, by a side that goes on.              *)
LEMMA ReceiveOrdered ==
  ASSUME TurnInv, NEW e \in Ends, Moves(e), Receive(e),
         pc[e] \in Reading, pc'[e] \in {"salt", "confirm"},
         pc'[e] = "salt" => Got(e)' = Got(e) + 1,
         Told(e)' = Told(e),
         pc'[e] = "confirm" /\ role[e] = "B" => role[Other(e)] = "A"
  PROVE  /\ chan' \in [Ends -> Seq(Message)] /\ broken' \in BOOLEAN
         /\ \A d \in Ends : Ordered(d)'
<1> DEFINE o == Other(e)
           q == chan[e]
<1>0. o \in Ends /\ o # e /\ Other(o) = e /\ \A d \in Ends : d = e \/ d = o
  BY EndsFacts
<1>1. /\ chan \in [Ends -> Seq(Message)] /\ broken \in BOOLEAN
      /\ pc \in [Ends -> Place] /\ role \in [Ends -> Role]
  BY DEF TurnInv, Values
<1>2. InTurn(o) /\ Served(o) /\ Counted(o) /\ InTurn(e) /\ Served(e) /\ Counted(e)
  BY <1>0 DEF TurnInv, Ordered
<1>3. /\ pc' \in [Ends -> Place] /\ pc'[o] = pc[o] /\ Got(o)' = Got(o) /\ Told(o)' = Told(o)
  BY MovesOne DEF TurnInv
<1>4. role' = role
  BY DEF Moves
<1>5. q \in Seq(Message) /\ q # <<>>
  BY <1>1 DEF Receive
<1>6. /\ chan' = [chan EXCEPT ![e] = Tail(q)] /\ broken' = broken
      /\ chan'[e] = Tail(q) /\ chan'[o] = chan[o]
  BY <1>0, <1>1 DEF Receive
<1> HIDE DEF q
<1>7. /\ Len(q) \in Nat
      /\ Tail(q) \in Seq(Message) /\ Len(Tail(q)) = Len(q) - 1
      /\ \A k \in 1 .. Len(Tail(q)) : Tail(q)[k] = q[k + 1] /\ k + 1 \in 1 .. Len(q)
  BY <1>5, QueueHead
<1>8. Got(e) \in {0, 1} /\ Told(o) \in {0, 1, 2, 3}
  BY DEF Got, Told
<1>9. pc'[e] \in Reading => Got(e)' = Got(e) + 1
  BY DEF Reading
<1>10. InTurn(e)'
  <2>1. SUFFICES ASSUME pc'[e] \in Reading, NEW k \in 1 .. Len(Tail(q))
                 PROVE  Tail(q)[k].type = Turn(role[o], (Got(e) + 1) + k)
    BY <1>4, <1>6, <1>9 DEF InTurn
  <2>2. q[k + 1].type = Turn(role[o], Got(e) + (k + 1))
    BY <1>2, <1>7, <2>1 DEF InTurn, q
  <2>3. Got(e) + (k + 1) = (Got(e) + 1) + k
    BY <1>7, <1>8
  <2> QED
    BY <1>7, <2>2, <2>3
<1>11. Counted(e)'
  <2>1. SUFFICES ASSUME pc'[e] \in Reading, pc[o] \notin Stopped, ~broken
                 PROVE  Len(Tail(q)) + (Got(e) + 1) = Told(o)
    BY <1>3, <1>6, <1>9 DEF Counted
  <2>2. Len(q) + Got(e) = Told(o)
    BY <1>2, <2>1 DEF Counted, q
  <2> QED
    BY <1>7, <1>8, <2>2
<1>12. Served(e)'
  <2>1. \A k \in 1 .. Len(q) : q[k].type = "sealed" /\ role[o] = "B" => role[e] = "A"
    BY <1>2 DEF Served, q
  <2>2. \A k \in 1 .. Len(Tail(q)) :
          Tail(q)[k].type = "sealed" /\ role[o] = "B" => role[e] = "A"
    BY <1>7, <2>1
  <2> QED
    BY <1>4, <1>6, <2>2 DEF Served
<1>13. InTurn(o)' /\ Served(o)' /\ Counted(o)'
  <2>1. InTurn(o)'
    BY <1>2, <1>3, <1>4, <1>6 DEF InTurn
  <2>2. Served(o)'
    BY <1>2, <1>3, <1>4, <1>6 DEF Served
  <2>3. pc[e] \notin Stopped
    BY DEF Reading, Stopped
  <2>4. Counted(o)'
    BY <1>0, <1>2, <1>3, <1>6, <2>3 DEF Counted
  <2> QED
    BY <2>1, <2>2, <2>4
<1>14. chan' \in [Ends -> Seq(Message)]
  BY <1>1, <1>6, <1>7
<1> QED
  BY <1>0, <1>1, <1>6, <1>10, <1>11, <1>12, <1>13, <1>14 DEF Ordered

(* The network loses what comes last, when no more follows.                *)
LEMMA NetworkOrdered ==
  ASSUME TurnInv, Fault \/ \E e \in Ends : Lose(e), UNCHANGED <<role, pc>>
  PROVE  /\ chan' \in [Ends -> Seq(Message)] /\ broken' \in BOOLEAN
         /\ \A d \in Ends : Ordered(d)'
<1>1. /\ chan \in [Ends -> Seq(Message)] /\ broken \in BOOLEAN
      /\ \A d \in Ends : InTurn(d) /\ Counted(d) /\ Served(d)
  BY DEF TurnInv, Values, Ordered
<1>2. CASE Fault
  <2>1. chan' = chan /\ broken'
    BY <1>2 DEF Fault
  <2>2. ASSUME NEW d \in Ends PROVE InTurn(d)' /\ Counted(d)' /\ Served(d)'
    <3>1. InTurn(d)'
      BY <1>1, <2>1 DEF InTurn, Got
    <3>2. Served(d)'
      BY <1>1, <2>1 DEF Served
    <3>3. Counted(d)'
      BY <2>1 DEF Counted
    <3> QED
      BY <3>1, <3>2, <3>3
  <2> QED
    BY <1>1, <1>2, <2>1, <2>2 DEF Ordered, Fault
<1>3. ASSUME NEW e \in Ends, Lose(e)
      PROVE  /\ chan' \in [Ends -> Seq(Message)] /\ broken' \in BOOLEAN
             /\ \A d \in Ends : Ordered(d)'
  <2>1. PICK n \in 0 .. Len(chan[e]) - 1 :
          chan' = [chan EXCEPT ![e] = SubSeq(chan[e], 1, n)]
    BY <1>3 DEF Lose
  <2>2. /\ SubSeq(chan[e], 1, n) \in Seq(Message) /\ Len(SubSeq(chan[e], 1, n)) = n
        /\ \A k \in 1 .. n : SubSeq(chan[e], 1, n)[k] = chan[e][k] /\ k \in 1 .. Len(chan[e])
    BY <1>1, <2>1, QueueCut
  <2>3. chan' \in [Ends -> Seq(Message)] /\ chan'[e] = SubSeq(chan[e], 1, n)
        /\ \A d \in Ends : d # e => chan'[d] = chan[d]
    BY <1>1, <2>1, <2>2
  <2>4. broken' = broken /\ (broken \/ pc[Other(e)] \in Stopped)
    BY <1>3, EndsFacts DEF Lose, TurnInv
  <2>5. ASSUME NEW d \in Ends PROVE InTurn(d)' /\ Counted(d)' /\ Served(d)'
    <3>1. \A k \in 1 .. Len(chan'[d]) : k \in 1 .. Len(chan[d]) /\ chan'[d][k] = chan[d][k]
      <4>1. CASE d = e
        BY <2>2, <2>3, <4>1
      <4>2. CASE d # e
        BY <2>3, <4>2
      <4> QED
        BY <4>1, <4>2
    <3>2. Got(d)' = Got(d) /\ Told(Other(d))' = Told(Other(d))
      BY DEF Got, Told
    <3>3. InTurn(d)' /\ Served(d)'
      BY <1>1, <3>1, <3>2, LessKept
    <3>4. Counted(d)'
      <4>1. CASE d = e
        BY <2>4, <4>1 DEF Counted
      <4>2. CASE d # e
        BY <1>1, <2>3, <2>4, <3>2, <4>2 DEF Counted
      <4> QED
        BY <4>1, <4>2
    <3> QED
      BY <3>3, <3>4
  <2> QED
    BY <1>1, <2>3, <2>4, <2>5 DEF Ordered
<1> QED
  BY <1>2, <1>3

-----------------------------------------------------------------------------
(* Every step of a side keeps the invariant.                               *)

LEMMA TurnStep ==
  ASSUME TurnInv, NEW e \in Ends, Step(e) \/ Kill(e)
  PROVE  TurnInv'
<1> DEFINE o == Other(e)
           Kept == /\ chan' \in [Ends -> Seq(Message)] /\ broken' \in BOOLEAN
                   /\ \A d \in Ends : Ordered(d)'
<1>0. o \in Ends /\ o # e /\ Other(o) = e /\ \A d \in Ends : d = e \/ d = o
  BY EndsFacts
<1>1. /\ chan \in [Ends -> Seq(Message)] /\ broken \in BOOLEAN
      /\ closed \in [Ends -> BOOLEAN] /\ pc \in [Ends -> Place]
      /\ role \in [Ends -> Role] /\ code \in [Ends -> Code] /\ x \in [Ends -> Scalar]
      /\ key \in [Ends -> SessionKey \cup {None}] /\ salt \in [Ends -> Salt \cup {None}]
  BY DEF TurnInv, Values
<1>2. /\ InTurn(e) /\ Served(e)
      /\ \A d \in Ends : Keyed(d) /\ Derived(d) /\ (closed[d] => pc[d] \in Stopped)
  BY DEF TurnInv, Ordered
<1>3. Values
  BY DEF TurnInv
<1>4. Code \subseteq Scalar /\ Secret \subseteq Scalar
  BY HandshakeAssumption
<1>5. ASSUME NEW l \in Place, Goto(e, l), UNCHANGED role
      PROVE  /\ Moves(e) /\ pc' \in [Ends -> Place] /\ pc'[e] = l
             /\ \A d \in Ends : d # e => pc'[d] = pc[d]
  BY <1>1, <1>5 DEF Goto, Moves
<1>6. ASSUME Kept, UNCHANGED <<role, code, x, closed>>,
             pc' \in [Ends -> Place], pc[e] \notin Stopped,
             \A d \in Ends : d # e => pc'[d] = pc[d],
             key' \in [Ends -> SessionKey \cup {None}],
             salt' \in [Ends -> Salt \cup {None}],
             \A d \in Ends : d # e => key'[d] = key[d] /\ salt'[d] = salt[d],
             Keyed(e)', Derived(e)'
      PROVE  TurnInv'
  <2>1. Values'
    BY <1>1, <1>6 DEF Values
  <2>2. \A d \in Ends : Keyed(d)' /\ Derived(d)'
    BY <1>2, <1>6 DEF Keyed, Derived
  <2>3. \A d \in Ends : closed'[d] => pc'[d] \in Stopped
    BY <1>2, <1>6
  <2> QED
    BY <1>6, <2>1, <2>2, <2>3 DEF TurnInv
<1>7. ASSUME Receive(e) \/ Close(e) \/ ReceiveAndClose(e),
             NEW l \in Stopped, Goto(e, l), l = "ready" => Receive(e) /\ pc[e] = "check",
             UNCHANGED <<role, code, x, key, salt>>
      PROVE  TurnInv'
  <2>1. l \in Place
    BY DEF Place
  <2>2. /\ Moves(e) /\ pc' \in [Ends -> Place] /\ pc'[e] = l
        /\ \A d \in Ends : d # e => pc'[d] = pc[d]
    BY <1>5, <1>7, <2>1
  <2>3. Kept
    BY <1>7, <2>2, StopOrdered
  <2>4. closed' \in [Ends -> BOOLEAN] /\ \A d \in Ends : d # e => closed'[d] = closed[d]
    BY <1>1, <1>7 DEF Receive, Close, ReceiveAndClose, HangUp
  <2>5. Values'
    BY <1>1, <1>7, <2>2, <2>3, <2>4 DEF Values
  <2>6. ASSUME NEW d \in Ends PROVE Keyed(d)' /\ Derived(d)'
    BY <1>2, <1>7, <2>2 DEF Keyed, Derived, Stopped
  <2>7. \A d \in Ends : closed'[d] => pc'[d] \in Stopped
    BY <1>2, <2>2, <2>4
  <2> QED
    BY <2>3, <2>5, <2>6, <2>7 DEF TurnInv
<1>8. CASE SendShare(e)
  <2>1. PICK v \in Secret :
          /\ x' = [x EXCEPT ![e] = v]
          /\ Send(e, ShareMsg(Share(role[e], v, code[e])))
    BY <1>8 DEF SendShare
  <2> DEFINE m == ShareMsg(Share(role[e], v, code[e]))
  <2>2. m \in Message /\ m.type = "share"
    <3>1. role[e] \in Role /\ v \in Scalar /\ code[e] \in Scalar
      BY <1>1, <1>4, <2>1
    <3>2. Share(role[e], v, code[e]) \in Point
      BY <3>1, ShareIsPoint
    <3> QED
      BY <3>2, MessageParts
  <2>3. pc[e] = "share" /\ Goto(e, "peer") /\ UNCHANGED <<role, code, key, salt>>
    BY <1>8 DEF SendShare
  <2>4. "peer" \in Place
    BY DEF Place
  <2>5. /\ Moves(e) /\ pc' \in [Ends -> Place] /\ pc'[e] = "peer"
        /\ \A d \in Ends : d # e => pc'[d] = pc[d]
    BY <1>5, <2>3, <2>4
  <2>6. Send(e, m)
    BY <2>1
  <2> HIDE DEF m
  <2>7. /\ Told(e) = 0 /\ Told(e)' = 1 /\ Got(e) = 0 /\ Got(e)' = 0
        /\ pc[e] \notin Stopped /\ pc[e] \in Reading
        /\ m.type = Turn(role[e], Told(e) + 1)
    BY <2>2, <2>3, <2>5 DEF Told, Got, Stopped, Reading, Turn
  <2>8. Kept
    BY <2>2, <2>5, <2>6, <2>7, SendOrdered
  <2>9. closed' = closed
    BY <2>6 DEF Send
  <2>10. x' \in [Ends -> Scalar]
    BY <1>1, <1>4, <2>1
  <2>11. Values'
    BY <1>1, <2>3, <2>5, <2>8, <2>9, <2>10 DEF Values
  <2>12. \A d \in Ends : Keyed(d)' /\ Derived(d)'
    BY <1>2, <2>3, <2>5 DEF Keyed, Derived
  <2>13. \A d \in Ends : closed'[d] => pc'[d] \in Stopped
    BY <1>2, <2>5, <2>7, <2>9
  <2> QED
    BY <2>8, <2>11, <2>12, <2>13 DEF TurnInv
<1>9. CASE ReadShare(e)
  <2>1. /\ pc[e] = "peer" /\ Receive(e) /\ Goto(e, "salt") /\ UNCHANGED <<role, code, x, salt>>
        /\ key' = [key EXCEPT ![e] = Key(role[e], x[e], code[e], Head(chan[e]).point)]
    BY <1>9 DEF ReadShare
  <2>2. "salt" \in Place
    BY DEF Place
  <2>3. /\ Moves(e) /\ pc' \in [Ends -> Place] /\ pc'[e] = "salt"
        /\ \A d \in Ends : d # e => pc'[d] = pc[d]
    BY <1>5, <2>1, <2>2
  <2>4. /\ Got(e) = 0 /\ Got(e)' = 1 /\ Told(e) = 1 /\ Told(e)' = 1
        /\ pc[e] \in Reading /\ pc[e] \notin Stopped
    BY <2>1, <2>3 DEF Got, Told, Reading, Stopped
  <2>5. Kept
    BY <2>1, <2>3, <2>4, ReceiveOrdered
  <2>6. chan[e] \in Seq(Message) /\ chan[e] # <<>>
    BY <1>1, <2>1 DEF Receive
  <2>7. Head(chan[e]) \in Message /\ Head(chan[e]) = chan[e][1] /\ 1 \in 1 .. Len(chan[e])
    BY <2>6, QueueHead
  <2>8. Head(chan[e]).type = "share"
    <3>1. chan[e][1].type = Turn(role[o], Got(e) + 1)
      BY <1>2, <2>4, <2>7 DEF InTurn
    <3> QED
      BY <2>4, <2>7, <3>1 DEF Turn
  <2>9. Head(chan[e]).point \in Point
    BY <2>7, <2>8, MessageParts
  <2>10. role[e] \in Role /\ x[e] \in Scalar /\ code[e] \in Scalar
    BY <1>1, <1>4
  <2>11. Key(role[e], x[e], code[e], Head(chan[e]).point) \in SessionKey
    BY <2>9, <2>10, KeyIsKey
  <2>12. /\ key' \in [Ends -> SessionKey \cup {None}] /\ key'[e] \in SessionKey
         /\ \A d \in Ends : d # e => key'[d] = key[d]
    BY <1>1, <2>1, <2>11
  <2>13. Keyed(e)' /\ Derived(e)'
    BY <2>3, <2>12 DEF Keyed, Derived
  <2>14. closed' = closed
    BY <2>1 DEF Receive
  <2> QED
    BY <1>1, <1>6, <2>1, <2>3, <2>4, <2>5, <2>12, <2>13, <2>14
<1>10. CASE SendSalt(e)
  <2>1. /\ pc[e] = "salt" /\ role[e] = "A" /\ Goto(e, "confirm")
        /\ UNCHANGED <<role, code, x, key>>
    BY <1>10 DEF SendSalt
  <2>2. PICK s \in Salt : salt' = [salt EXCEPT ![e] = s] /\ Send(e, SaltMsg(s))
    BY <1>10 DEF SendSalt
  <2>3. SaltMsg(s) \in Message /\ SaltMsg(s).type = "salt"
    BY <2>2, MessageParts
  <2>4. "confirm" \in Place
    BY DEF Place
  <2>5. /\ Moves(e) /\ pc' \in [Ends -> Place] /\ pc'[e] = "confirm"
        /\ \A d \in Ends : d # e => pc'[d] = pc[d]
    BY <1>5, <2>1, <2>4
  <2>6. /\ Told(e) = 1 /\ Told(e)' = 2 /\ "confirm" \notin Reading
        /\ pc[e] \notin Stopped /\ Turn(role[e], Told(e) + 1) = "salt"
    BY <2>1, <2>5 DEF Told, Turn, Stopped, Reading
  <2>7. Kept
    BY <2>1, <2>2, <2>3, <2>5, <2>6, SendOrdered
  <2>8. closed' = closed
    BY <2>2 DEF Send
  <2>9. /\ salt' \in [Ends -> Salt \cup {None}] /\ salt'[e] \in Salt
        /\ \A d \in Ends : d # e => salt'[d] = salt[d]
    BY <1>1, <2>2
  <2>10. key[e] \in SessionKey
    BY <1>2, <2>1 DEF Derived
  <2>11. Keyed(e)' /\ Derived(e)'
    BY <2>1, <2>9, <2>10 DEF Keyed, Derived
  <2> QED
    BY <1>1, <1>6, <2>1, <2>5, <2>6, <2>7, <2>8, <2>9, <2>11
<1>11. CASE ReadSalt(e)
  <2>1. /\ pc[e] = "salt" /\ role[e] = "B" /\ Receive(e) /\ Goto(e, "confirm")
        /\ UNCHANGED <<role, code, x, key>>
        /\ salt' = [salt EXCEPT ![e] = Head(chan[e]).salt]
    BY <1>11 DEF ReadSalt
  <2>2. "confirm" \in Place
    BY DEF Place
  <2>3. /\ Moves(e) /\ pc' \in [Ends -> Place] /\ pc'[e] = "confirm"
        /\ \A d \in Ends : d # e => pc'[d] = pc[d]
    BY <1>5, <2>1, <2>2
  <2>4. /\ Got(e) = 1 /\ Told(e) = 1 /\ Told(e)' = 1
        /\ pc[e] \in Reading /\ pc[e] \notin Stopped
    BY <2>1, <2>3 DEF Got, Told, Reading, Stopped
  <2>5. chan[e] \in Seq(Message) /\ chan[e] # <<>>
    BY <1>1, <2>1 DEF Receive
  <2>6. Head(chan[e]) \in Message /\ Head(chan[e]) = chan[e][1] /\ 1 \in 1 .. Len(chan[e])
    BY <2>5, QueueHead
  <2>7. chan[e][1].type = Turn(role[o], Got(e) + 1)
    BY <1>2, <2>4, <2>6 DEF InTurn
  <2>8. role[o] = "A"
    <3>1. role[o] \in {"A", "B"}
      BY <1>0, <1>1 DEF Role
    <3>2. ASSUME role[o] = "B" PROVE FALSE
      <4>1. chan[e][1].type = "sealed"
        BY <2>4, <2>7, <3>2 DEF Turn
      <4> QED
        BY <1>2, <2>1, <2>6, <3>2, <4>1 DEF Served
    <3> QED
      BY <3>1, <3>2
  <2>9. Head(chan[e]).type = "salt"
    BY <2>4, <2>6, <2>7, <2>8 DEF Turn
  <2>10. Head(chan[e]).salt \in Salt
    BY <2>6, <2>9, MessageParts
  <2>11. Kept
    BY <2>1, <2>3, <2>4, <2>8, ReceiveOrdered
  <2>12. closed' = closed
    BY <2>1 DEF Receive
  <2>13. /\ salt' \in [Ends -> Salt \cup {None}] /\ salt'[e] \in Salt
         /\ \A d \in Ends : d # e => salt'[d] = salt[d]
    BY <1>1, <2>1, <2>10
  <2>14. key[e] \in SessionKey
    BY <1>2, <2>1 DEF Derived
  <2>15. Keyed(e)' /\ Derived(e)'
    BY <2>1, <2>13, <2>14 DEF Keyed, Derived
  <2> QED
    BY <1>1, <1>6, <2>1, <2>3, <2>4, <2>11, <2>12, <2>13, <2>15
<1>12. CASE SendConfirm(e)
  <2>1. /\ pc[e] = "confirm" /\ Send(e, Sealed(e, role[e])) /\ Goto(e, "check")
        /\ UNCHANGED <<role, code, x, key, salt>>
    BY <1>12 DEF SendConfirm
  <2>2. key[e] \in SessionKey /\ salt[e] \in Salt /\ role[e] \in Role
    BY <1>1, <1>2, <2>1 DEF Keyed
  <2>3. Sealed(e, role[e]) \in Message /\ Sealed(e, role[e]).type = "sealed"
    BY <2>2, SealedParts
  <2>4. "check" \in Place
    BY DEF Place
  <2>5. /\ Moves(e) /\ pc' \in [Ends -> Place] /\ pc'[e] = "check"
        /\ \A d \in Ends : d # e => pc'[d] = pc[d]
    BY <1>5, <2>1, <2>4
  <2>6. /\ Told(e)' = Told(e) + 1 /\ "check" \notin Reading
        /\ pc[e] \notin Stopped /\ Turn(role[e], Told(e) + 1) = "sealed"
    BY <2>1, <2>2, <2>5 DEF Told, Turn, Stopped, Reading, Role
  <2>7. role[e] = "B" => role[o] = "A"
    BY <1>2, <2>1 DEF Served
  <2>8. Kept
    BY <2>1, <2>3, <2>5, <2>6, <2>7, SendOrdered
  <2>9. closed' = closed
    BY <2>1 DEF Send
  <2>10. Keyed(e)' /\ Derived(e)'
    BY <2>1, <2>2 DEF Keyed, Derived
  <2> QED
    BY <1>1, <1>6, <2>1, <2>5, <2>6, <2>8, <2>9, <2>10
<1>13. CASE ReadConfirm(e)
  BY <1>7, <1>13 DEF ReadConfirm, Stopped
<1>14. CASE Mismatch(e)
  BY <1>7, <1>14 DEF Mismatch, Stopped
<1>15. CASE Fails(e)
  BY <1>7, <1>15 DEF Fails, Stopped
<1>16. CASE Kill(e)
  BY <1>7, <1>16 DEF Kill, Stopped
<1> QED
  BY <1>8, <1>9, <1>10, <1>11, <1>12, <1>13, <1>14, <1>15, <1>16 DEF Step

LEMMA TurnNext ==
  ASSUME TurnInv, [Next]_vars
  PROVE  TurnInv'
<1>1. CASE \E e \in Ends : Step(e) \/ Kill(e)
  BY <1>1, TurnStep
<1>2. CASE Network
  <2>1. /\ Fault \/ \E e \in Ends : Lose(e)
        /\ UNCHANGED <<role, code, pc, x, key, salt, closed>>
    BY <1>2 DEF Network, Fault, Lose
  <2>2. /\ chan' \in [Ends -> Seq(Message)] /\ broken' \in BOOLEAN
        /\ \A d \in Ends : Ordered(d)'
    BY <2>1, NetworkOrdered
  <2>3. Values'
    BY <2>1, <2>2 DEF TurnInv, Values
  <2>4. \A d \in Ends : Keyed(d)' /\ Derived(d)' /\ (closed'[d] => pc'[d] \in Stopped)
    BY <2>1 DEF TurnInv, Keyed, Derived
  <2> QED
    BY <2>2, <2>3, <2>4 DEF TurnInv
<1>3. CASE UNCHANGED vars
  <2>1. UNCHANGED <<chan, closed, broken, role, code, pc, x, key, salt>>
    BY <1>3 DEF vars, link
  <2>2. Values'
    BY <2>1 DEF TurnInv, Values
  <2>3. ASSUME NEW e \in Ends
        PROVE  Keyed(e)' /\ Derived(e)' /\ (closed'[e] => pc'[e] \in Stopped)
    BY <2>1 DEF TurnInv, Keyed, Derived
  <2>4. ASSUME NEW e \in Ends
        PROVE  InTurn(e)' /\ Counted(e)' /\ Served(e)'
    <3>1. Got(e)' = Got(e) /\ Told(Other(e))' = Told(Other(e))
      BY <2>1 DEF Got, Told
    <3>2. InTurn(e) /\ Counted(e) /\ Served(e)
      BY DEF TurnInv, Ordered
    <3>3. InTurn(e)'
      BY <2>1, <3>1, <3>2 DEF InTurn
    <3>4. Counted(e)'
      BY <2>1, <3>1, <3>2 DEF Counted
    <3>5. Served(e)'
      BY <2>1, <3>2 DEF Served
    <3> QED
      BY <3>3, <3>4, <3>5
  <2> QED
    BY <2>2, <2>3, <2>4 DEF TurnInv, Ordered
<1> QED
  BY <1>1, <1>2, <1>3 DEF Next, Over

(* Whatever two clients the relay pairs, handshake takes a share for a     *)
(* share and a salt for a salt, so that a key and a salt are there when    *)
(* crypt.New uses them.                                                    *)
THEOREM HandshakeTypes == Spec => []TypeOK
<1>1. Init => TurnInv
  <2>1. SUFFICES ASSUME Init PROVE TurnInv
    OBVIOUS
  <2>2. /\ chan = [e \in Ends |-> <<>>] /\ pc = [e \in Ends |-> "share"] /\ broken = FALSE
        /\ closed = [e \in Ends |-> FALSE]
        /\ role \in [Ends -> Role] /\ code \in [Ends -> Code] /\ x = [e \in Ends |-> 0]
        /\ key = [e \in Ends |-> None] /\ salt = [e \in Ends |-> None]
    BY <2>1 DEF Init, LinkInit
  <2>3. 0 \in Scalar /\ "share" \in Place
    BY CurveAssumption DEF Scalar, Place
  <2>4. Values
    <3>1. <<>> \in Seq(Message)
      OBVIOUS
    <3>2. chan \in [Ends -> Seq(Message)]
      BY <2>2, <3>1
    <3>3. /\ pc \in [Ends -> Place] /\ closed \in [Ends -> BOOLEAN] /\ broken \in BOOLEAN
          /\ x \in [Ends -> Scalar]
      BY <2>2, <2>3
    <3>4. key \in [Ends -> SessionKey \cup {None}] /\ salt \in [Ends -> Salt \cup {None}]
      BY <2>2
    <3> QED
      BY <2>2, <3>2, <3>3, <3>4 DEF Values
  <2>5. ASSUME NEW e \in Ends
        PROVE  /\ Keyed(e) /\ Derived(e) /\ ~closed[e]
               /\ InTurn(e) /\ Counted(e) /\ Served(e)
    <3>1. chan[e] = <<>> /\ pc[e] = "share" /\ pc[Other(e)] = "share" /\ ~closed[e]
      BY <2>2, EndsFacts
    <3>2. Len(chan[e]) = 0
      BY <3>1
    <3> QED
      BY <3>1, <3>2 DEF Keyed, Derived, InTurn, Counted, Served, Got, Told
  <2> QED
    BY <2>4, <2>5 DEF TurnInv, Ordered
<1>2. TurnInv /\ [Next]_vars => TurnInv'
  BY TurnNext
<1>3. TurnInv => TypeOK
  BY DEF TurnInv, Values, Keyed, TypeOK, Place
<1> QED
  BY <1>1, <1>2, <1>3, PTL DEF Spec
=============================================================================
