--------------------------- MODULE TransferProofs ---------------------------
(***************************************************************************)
(* Theorems about Transfer, for any number of files, any contents, any     *)
(* buffers, and whatever is killed, lost, edited or written by others.     *)
(***************************************************************************)
EXTENDS Transfer, TLAPS

LinkTypeOK ==
  /\ chan \in [Ends -> Seq(Frame)]
  /\ closed \in [Ends -> BOOLEAN]
  /\ broken \in BOOLEAN

(* TypeOK made inductive: where the loops over the files are, what the     *)
(* manifest has got to, and when the temporary file is there.              *)
TypeInv ==
  /\ TypeOK
  /\ spc \in {"stat", "hash"} => si <= N /\ Len(manifest) = si - 1
  /\ spc \in {"offer", "answer", "open", "stream"} => si <= N
  /\ spc \in {"offer", "answer", "open", "stream", "final"} => Len(manifest) = N
  /\ chan[R] # <<>> \/ rpc \notin {"offer", "failed", "killed"} => Len(manifest) = N
  /\ spc = "stream" => src[si] # Absent
  /\ rpc \in {"recv", "verify"} => ri <= N /\ tmp # Absent

-----------------------------------------------------------------------------
(* The operations of the link keep its type.                               *)

LEMMA EndsFacts ==
  /\ S \in Ends /\ R \in Ends
  /\ Other(S) = R /\ Other(R) = S
  /\ \A e \in Ends : Other(e) \in Ends
  /\ Ends = {S, R} /\ S # R
BY DEF S, R, Ends, Other

LEMMA FrameFacts ==
  /\ \A t \in {"manifest", "accept", "reject", "error"} : Signal(t) \in Frame
  /\ \A i \in File : EndOf(i) \in Frame
  /\ \A i \in File, b \in Block : Data(i, b) \in Frame
  /\ \A m \in Frame : m.type = "data" => m.block \in Block
BY DEF Frame, Signal, EndOf, Data

LEMMA ContentFacts ==
  /\ <<>> \in Seq(Block) /\ <<>> # Absent
  /\ \A c \in Contents : c \in Seq(Block) /\ c # Absent
<1>1. <<>> \in Seq(Block)
  OBVIOUS
<1> QED
  BY <1>1, TransferAssumption

LEMMA EntryType ==
  ASSUME manifest \in Seq(FileInfo),
         NEW i \in Nat, i >= 1, i <= Len(manifest)
  PROVE  /\ manifest[i].path \in Path
         /\ manifest[i].size \in Nat
         /\ manifest[i].sum \in Contents
<1>1. manifest[i] \in FileInfo
  OBVIOUS
<1> QED
  BY <1>1 DEF FileInfo

LEMMA WrittenType ==
  ASSUME LinkTypeOK, NEW e \in Ends, NEW m \in Frame
  PROVE  Written(e, m) \in [Ends -> Seq(Frame)]
<1>1. Other(e) \in Ends
  BY EndsFacts
<1>2. Append(chan[Other(e)], m) \in Seq(Frame)
  BY <1>1 DEF LinkTypeOK
<1> QED
  BY <1>1, <1>2 DEF Written, LinkTypeOK

LEMMA SendType ==
  ASSUME LinkTypeOK, NEW e \in Ends, NEW m \in Frame, Send(e, m)
  PROVE  LinkTypeOK'
<1>1. chan' \in [Ends -> Seq(Frame)]
  BY WrittenType DEF Send
<1>2. broken' \in BOOLEAN
  BY EndsFacts DEF Send, LinkTypeOK
<1> QED
  BY <1>1, <1>2 DEF Send, LinkTypeOK

LEMMA ReceiveType ==
  ASSUME LinkTypeOK, NEW e \in Ends, Receive(e)
  PROVE  LinkTypeOK' /\ Head(chan[e]) \in Frame
<1>1. chan[e] \in Seq(Frame) /\ chan[e] # <<>>
  BY DEF LinkTypeOK, Receive
<1>2. Head(chan[e]) \in Frame /\ Tail(chan[e]) \in Seq(Frame)
  BY <1>1
<1> QED
  BY <1>2 DEF LinkTypeOK, Receive

LEMMA HangUpType ==
  ASSUME LinkTypeOK, NEW e \in Ends,
         NEW queues \in [Ends -> Seq(Frame)], HangUp(e, queues)
  PROVE  LinkTypeOK'
<1>1. <<>> \in Seq(Frame)
  OBVIOUS
<1>2. chan' \in [Ends -> Seq(Frame)]
  BY <1>1 DEF HangUp
<1>3. closed' \in [Ends -> BOOLEAN] /\ broken' \in BOOLEAN
  BY DEF HangUp, LinkTypeOK
<1> QED
  BY <1>2, <1>3 DEF LinkTypeOK

LEMMA TailType ==
  ASSUME NEW queues \in [Ends -> Seq(Frame)], NEW e \in Ends, queues[e] # <<>>
  PROVE  [queues EXCEPT ![e] = Tail(@)] \in [Ends -> Seq(Frame)]
<1>1. Tail(queues[e]) \in Seq(Frame)
  OBVIOUS
<1> QED
  BY <1>1

LEMMA CloseType ==
  ASSUME LinkTypeOK, NEW e \in Ends,
         \/ Close(e)
         \/ ReceiveAndClose(e)
         \/ \E m \in Frame : SendAndClose(e, m)
  PROVE  LinkTypeOK'
<1>1. CASE Close(e)
  BY <1>1, HangUpType DEF Close, LinkTypeOK
<1>2. CASE ReceiveAndClose(e)
  <2>1. [chan EXCEPT ![e] = Tail(@)] \in [Ends -> Seq(Frame)]
    BY <1>2, TailType DEF ReceiveAndClose, LinkTypeOK
  <2> QED
    BY <1>2, <2>1, HangUpType DEF ReceiveAndClose
<1>3. CASE \E m \in Frame : SendAndClose(e, m)
  BY <1>3, WrittenType, HangUpType DEF SendAndClose
<1> QED
  BY <1>1, <1>2, <1>3

(* Only a write of the sender puts anything into an empty queue to the     *)
(* receiver.                                                               *)
LEMMA NothingNew ==
  ASSUME LinkTypeOK,
         \/ \E e \in Ends : Receive(e) \/ Close(e) \/ ReceiveAndClose(e) \/ Lose(e)
         \/ \E m \in Frame : Send(R, m) \/ SendAndClose(R, m)
         \/ Fault
         \/ \E queues \in [Ends -> Seq(Frame)] : HangUp(R, queues),
         chan[R] = <<>>
  PROVE  chan'[R] = <<>>
<1>1. \A e \in Ends : Receive(e) \/ Close(e) \/ ReceiveAndClose(e) => chan'[R] = <<>>
  BY EndsFacts DEF LinkTypeOK, Receive, Close, ReceiveAndClose, HangUp
<1>2. \A e \in Ends : Lose(e) => chan'[R] = <<>>
  BY EndsFacts DEF LinkTypeOK, Lose
<1>3. \A m \in Frame : Send(R, m) \/ SendAndClose(R, m) => chan'[R] = <<>>
  <2>1. \A m \in Frame : Written(R, m)[R] = chan[R]
    BY EndsFacts DEF Written, LinkTypeOK
  <2>2. \A m \in Frame : Written(R, m) \in [Ends -> Seq(Frame)]
    BY WrittenType, EndsFacts
  <2> QED
    BY <2>1, <2>2, EndsFacts DEF Send, SendAndClose, HangUp
<1>4. Fault => chan'[R] = <<>>
  BY DEF Fault
<1>5. \A queues \in [Ends -> Seq(Frame)] : HangUp(R, queues) => chan'[R] = <<>>
  BY EndsFacts DEF HangUp
<1> QED
  BY <1>1, <1>2, <1>3, <1>4, <1>5

LEMMA NetworkType ==
  ASSUME LinkTypeOK, Fault \/ \E e \in Ends : Lose(e)
  PROVE  LinkTypeOK'
<1>1. CASE Fault
  BY <1>1 DEF Fault, LinkTypeOK
<1>2. ASSUME NEW e \in Ends, Lose(e)
      PROVE  LinkTypeOK'
  <2>1. PICK k \in 0 .. Len(chan[e]) - 1 :
          chan' = [chan EXCEPT ![e] = SubSeq(@, 1, k)]
    BY <1>2 DEF Lose
  <2>2. SubSeq(chan[e], 1, k) \in Seq(Frame)
    BY DEF LinkTypeOK
  <2> QED
    BY <1>2, <2>1, <2>2 DEF Lose, LinkTypeOK
<1> QED
  BY <1>1, <1>2
-----------------------------------------------------------------------------
(* Every step of the sender, of the receiver and of the surroundings keeps *)
(* TypeInv.                                                                *)

LEMMA SenderType ==
  ASSUME TypeInv, SenderStep
  PROVE  TypeInv'
<1> USE TransferAssumption DEF TypeInv, TypeOK, SenderEnded, ReceiverEnded, receiver
<1>L. LinkTypeOK
  BY DEF LinkTypeOK
<1>1. CASE DescribeStat
  BY <1>1 DEF DescribeStat, link, File
<1>2. CASE DescribeHash
  <2>1. PICK p \in Path :
          manifest' = Append(manifest, [path |-> p, size |-> stat, sum |-> src[si]])
    BY <1>2 DEF DescribeHash
  <2>2. si \in File /\ src[si] \in Contents
    BY <1>2 DEF DescribeHash, File
  <2>3. [path |-> p, size |-> stat, sum |-> src[si]] \in FileInfo
    BY <2>2 DEF FileInfo
  <2>4. manifest' \in Seq(FileInfo) /\ Len(manifest') = si
    BY <1>2, <2>1, <2>3 DEF DescribeHash
  <2> QED
    BY <1>2, <2>2, <2>4 DEF DescribeHash, link, File
<1>3. CASE Offer
  <2>1. LinkTypeOK'
    BY <1>L, <1>3, SendType, EndsFacts, FrameFacts DEF Offer
  <2> QED
    BY <1>3, <2>1 DEF Offer, LinkTypeOK
<1>4. CASE ReadAnswer
  <2>1. LinkTypeOK' /\ (chan[R] = <<>> => chan'[R] = <<>>)
    BY <1>L, NothingNew, <1>4, ReceiveType, EndsFacts DEF ReadAnswer
  <2> QED
    BY <1>4, <2>1 DEF ReadAnswer, LinkTypeOK
<1>5. CASE OpenSource
  BY <1>5 DEF OpenSource, link
<1>6. CASE SendBlock
  <2>1. si \in File /\ src[si] \in Seq(Block) /\ off + 1 \in 1 .. Len(src[si])
    BY <1>6 DEF SendBlock, File
  <2>2. Data(si, src[si][off + 1]) \in Frame
    BY <2>1, FrameFacts
  <2>3. LinkTypeOK'
    BY <1>L, <1>6, <2>2, SendType, CloseType, EndsFacts DEF SendBlock
  <2> QED
    BY <1>6, <2>3 DEF SendBlock, LinkTypeOK
<1>7. CASE SendEnd
  <2>1. si \in File
    BY <1>7 DEF SendEnd, File
  <2>2. LinkTypeOK'
    BY <1>L, <1>7, <2>1, SendType, EndsFacts, FrameFacts DEF SendEnd
  <2> QED
    BY <1>7, <2>1, <2>2 DEF SendEnd, LinkTypeOK, File
<1>8. CASE ReadFinal
  <2>1. LinkTypeOK' /\ (chan[R] = <<>> => chan'[R] = <<>>)
    BY <1>L, NothingNew, <1>8, CloseType, EndsFacts DEF ReadFinal
  <2> QED
    BY <1>8, <2>1 DEF ReadFinal, LinkTypeOK
<1>9. CASE SenderFails
  <2>1. LinkTypeOK' /\ (chan[R] = <<>> => chan'[R] = <<>>)
    BY <1>L, NothingNew, <1>9, CloseType, EndsFacts DEF SenderFails
  <2> QED
    BY <1>9, <2>1 DEF SenderFails, LinkTypeOK
<1> QED
  BY <1>1, <1>2, <1>3, <1>4, <1>5, <1>6, <1>7, <1>8, <1>9 DEF SenderStep

LEMMA ReceiverType ==
  ASSUME TypeInv, ReceiverStep
  PROVE  TypeInv'
<1> USE TransferAssumption DEF TypeInv, TypeOK, SenderEnded, ReceiverEnded, sender
<1>L. LinkTypeOK
  BY DEF LinkTypeOK
<1>1. CASE ReadOffer
  <2>1. LinkTypeOK' /\ (chan[R] = <<>> => chan'[R] = <<>>)
    BY <1>L, NothingNew, <1>1, ReceiveType, EndsFacts DEF ReadOffer
  <2> QED
    BY <1>1, <2>1 DEF ReadOffer, Receive, LinkTypeOK
<1>2. CASE Accept
  <2>1. LinkTypeOK' /\ (chan[R] = <<>> => chan'[R] = <<>>)
    BY <1>L, NothingNew, <1>2, SendType, EndsFacts, FrameFacts DEF Accept
  <2> QED
    BY <1>2, <2>1 DEF Accept, LinkTypeOK
<1>3. CASE Decline
  <2>1. LinkTypeOK' /\ (chan[R] = <<>> => chan'[R] = <<>>)
    BY <1>L, NothingNew, <1>3, CloseType, EndsFacts, FrameFacts DEF Decline
  <2> QED
    BY <1>3, <2>1 DEF Decline, LinkTypeOK
<1>4. CASE Prepare
  BY <1>4, ContentFacts DEF Prepare, link
<1>5. CASE ReadBlock
  <2>1. LinkTypeOK' /\ Head(chan[R]) \in Frame
    BY <1>L, <1>5, ReceiveType, EndsFacts DEF ReadBlock
  <2>2. Append(tmp, Head(chan[R]).block) \in Seq(Block)
    BY <1>5, <2>1, FrameFacts DEF ReadBlock
  <2> QED
    BY <1>5, <2>1, <2>2 DEF ReadBlock, LinkTypeOK
<1>6. CASE ReadEnd
  <2>1. LinkTypeOK' /\ (chan[R] = <<>> => chan'[R] = <<>>)
    BY <1>L, NothingNew, <1>6, ReceiveType, EndsFacts DEF ReadEnd
  <2> QED
    BY <1>6, <2>1 DEF ReadEnd, LinkTypeOK
<1>7. CASE Publish
  <2>1. manifest[ri].path \in Path /\ manifest[ri].sum \in Contents
    BY <1>7, EntryType DEF Publish
  <2>2. disk' \in [Name -> Contents \cup Existing \cup {Absent}]
    BY <1>7, <2>1 DEF Publish, Verified, Dest
  <2>3. ri + 1 \in 1 .. N + 1
    BY <1>7 DEF Publish
  <2> QED
    BY <1>7, <2>2, <2>3 DEF Publish, link
<1>8. CASE Finish
  <2>1. LinkTypeOK' /\ (chan[R] = <<>> => chan'[R] = <<>>)
    BY <1>L, NothingNew, <1>8, CloseType, EndsFacts, FrameFacts DEF Finish
  <2> QED
    BY <1>8, <2>1 DEF Finish, LinkTypeOK
<1>9. CASE FileFails
  <2>1. Written(R, Signal("error")) \in [Ends -> Seq(Frame)]
    BY <1>L, WrittenType, EndsFacts, FrameFacts
  <2>2. chan[R] # <<>> => Written(R, Signal("error"))[R] # <<>>
    BY EndsFacts DEF Written
  <2>3. chan[R] # <<>> =>
          [Written(R, Signal("error")) EXCEPT ![R] = Tail(@)] \in [Ends -> Seq(Frame)]
    BY <2>1, <2>2, TailType, EndsFacts
  <2>4. LinkTypeOK' /\ (chan[R] = <<>> => chan'[R] = <<>>)
    BY <1>L, NothingNew, <1>9, <2>3, HangUpType, CloseType, EndsFacts, FrameFacts DEF FileFails
  <2> QED
    BY <1>9, <2>4 DEF FileFails, LinkTypeOK
<1>10. CASE ReceiverFails
  <2>1. LinkTypeOK' /\ (chan[R] = <<>> => chan'[R] = <<>>)
    BY <1>L, NothingNew, <1>10, CloseType, EndsFacts DEF ReceiverFails
  <2> QED
    BY <1>10, <2>1 DEF ReceiverFails, LinkTypeOK
<1> QED
  BY <1>1, <1>2, <1>3, <1>4, <1>5, <1>6, <1>7, <1>8, <1>9, <1>10 DEF ReceiverStep

LEMMA SurroundingsType ==
  ASSUME TypeInv,
         \/ \E i \in File : Edit(i)
         \/ KillSender
         \/ KillReceiver
         \/ \E p \in Name : OutsiderWrites(p)
         \/ Network
  PROVE  TypeInv'
<1> USE TransferAssumption
    DEF TypeInv, TypeOK, SenderEnded, ReceiverEnded, sender, receiver
<1>L. LinkTypeOK
  BY DEF LinkTypeOK
<1>1. ASSUME NEW i \in File, Edit(i)
      PROVE  TypeInv'
  <2>1. PICK c \in Contents \cup {Absent} :
          /\ c = Absent => ~(spc = "stream" /\ si = i)
          /\ src' = [src EXCEPT ![i] = c]
    BY <1>1 DEF Edit
  <2>2. spc = "stream" => src'[si] # Absent
    BY <2>1 DEF File
  <2> QED
    BY <1>1, <2>1, <2>2 DEF Edit, link
<1>2. CASE KillSender
  <2>1. LinkTypeOK' /\ (chan[R] = <<>> => chan'[R] = <<>>)
    BY <1>L, NothingNew, <1>2, CloseType, EndsFacts DEF KillSender
  <2> QED
    BY <1>2, <2>1 DEF KillSender, LinkTypeOK
<1>3. CASE KillReceiver
  <2>1. LinkTypeOK' /\ (chan[R] = <<>> => chan'[R] = <<>>)
    BY <1>L, NothingNew, <1>3, CloseType, EndsFacts DEF KillReceiver
  <2> QED
    BY <1>3, <2>1 DEF KillReceiver, LinkTypeOK
<1>4. ASSUME NEW p \in Name, OutsiderWrites(p)
      PROVE  TypeInv'
  BY <1>4 DEF OutsiderWrites, link
<1>5. CASE Network
  <2>1. LinkTypeOK' /\ (chan[R] = <<>> => chan'[R] = <<>>)
    BY <1>L, NothingNew, <1>5, NetworkType DEF Network
  <2> QED
    BY <1>5, <2>1 DEF Network, LinkTypeOK
<1> QED
  BY <1>1, <1>2, <1>3, <1>4, <1>5

LEMMA TypeInit == Init => TypeInv
<1> SUFFICES ASSUME Init
             PROVE  TypeInv
  OBVIOUS
<1>1. LinkTypeOK
  <2>1. <<>> \in Seq(Frame)
    OBVIOUS
  <2> QED
    BY <2>1 DEF Init, LinkInit, LinkTypeOK
<1>2. /\ manifest \in Seq(FileInfo)
      /\ Len(manifest) = 0
  BY DEF Init
<1>3. /\ src \in [File -> Contents \cup {Absent}]
      /\ disk \in [Name -> Contents \cup Existing \cup {Absent}]
  BY DEF Init
<1>4. N \in Nat /\ N >= 1
  BY TransferAssumption
<1>5. chan[R] = <<>>
  BY EndsFacts DEF Init, LinkInit
<1> QED
  BY <1>1, <1>2, <1>3, <1>4, <1>5 DEF Init, LinkTypeOK, TypeInv, TypeOK

LEMMA TypeStep == TypeInv /\ [Next]_vars => TypeInv'
<1> SUFFICES ASSUME TypeInv, [Next]_vars
             PROVE  TypeInv'
  OBVIOUS
<1>1. CASE UNCHANGED vars
  BY <1>1 DEF vars, link, sender, receiver, TypeInv, TypeOK
<1>2. CASE Ended
  BY <1>2 DEF Ended, vars, link, sender, receiver, TypeInv, TypeOK
<1> QED
  BY <1>1, <1>2, SenderType, ReceiverType, SurroundingsType DEF Next

(* Every variable has its type in every reachable state: among others, the *)
(* loops never index past the manifest.                                    *)
THEOREM TypeCorrect == Spec => []TypeOK
<1>1. TypeInv => TypeOK
  BY DEF TypeInv
<1> QED
  BY <1>1, TypeInit, TypeStep, PTL DEF Spec
=============================================================================
