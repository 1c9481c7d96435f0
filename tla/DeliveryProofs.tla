--------------------------- MODULE DeliveryProofs ---------------------------
(***************************************************************************)
(* What a transfer guarantees, proved from the type invariant of           *)
(* TransferProofs.                                                         *)
(***************************************************************************)
EXTENDS TransferProofs, FoldProofs

-----------------------------------------------------------------------------
(* What the operations of the link do to either queue.                     *)

Same(e) == chan'[e] = chan[e]

SameOrSent(e, m) ==
  Same(e) \/ (~closed[e] /\ chan'[e] = Append(chan[e], m))

Closes(e) ==
  /\ closed'[e] = TRUE /\ closed'[Other(e)] = closed[Other(e)]
  /\ chan'[e] = <<>>

LEMMA SendEffect ==
  ASSUME LinkTypeOK, NEW e \in Ends, NEW m \in Frame, Send(e, m)
  PROVE  closed' = closed /\ Same(e) /\ SameOrSent(Other(e), m)
BY EndsFacts DEF Send, Written, LinkTypeOK, Same, SameOrSent

LEMMA ReceiveEffect ==
  ASSUME LinkTypeOK, NEW e \in Ends, Receive(e)
  PROVE  closed' = closed /\ Same(Other(e)) /\ chan'[e] = Tail(chan[e]) /\ chan[e] # <<>>
BY EndsFacts DEF Receive, LinkTypeOK, Same

LEMMA CloseEffect ==
  ASSUME LinkTypeOK, NEW e \in Ends, Close(e) \/ ReceiveAndClose(e)
  PROVE  Closes(e) /\ Same(Other(e))
BY EndsFacts DEF Close, ReceiveAndClose, HangUp, LinkTypeOK, Same, Closes

LEMMA SendAndCloseEffect ==
  ASSUME LinkTypeOK, NEW e \in Ends, NEW m \in Frame, SendAndClose(e, m)
  PROVE  Closes(e) /\ SameOrSent(Other(e), m)
<1>1. Written(e, m) \in [Ends -> Seq(Frame)]
  BY WrittenType
<1> QED
  BY <1>1, EndsFacts
  DEF SendAndClose, HangUp, Written, LinkTypeOK, SameOrSent, Same, Closes

(* receiveFile reports a bad frame and hangs up.                           *)
LEMMA ReportEffect ==
  ASSUME LinkTypeOK, NEW m \in Frame,
         HangUp(R, [Written(R, m) EXCEPT ![R] = Tail(@)])
  PROVE  Closes(R) /\ SameOrSent(S, m)
<1>1. Written(R, m) \in [Ends -> Seq(Frame)]
  BY WrittenType, EndsFacts
<1>2. [Written(R, m) EXCEPT ![R] = Tail(@)][S] = Written(R, m)[S]
  BY <1>1, EndsFacts
<1>3. chan'[S] = Written(R, m)[S] /\ Closes(R)
  BY <1>1, <1>2, EndsFacts DEF HangUp, Closes, LinkTypeOK
<1> QED
  BY <1>3, EndsFacts DEF Written, LinkTypeOK, SameOrSent, Same

LEMMA NetworkEffect ==
  ASSUME LinkTypeOK, Fault \/ \E e \in Ends : Lose(e)
  PROVE  /\ closed' = closed
         /\ \A e \in Ends :
              /\ chan[e] = <<>> => chan'[e] = <<>>
              /\ \A k \in DOMAIN chan'[e] :
                   k \in DOMAIN chan[e] /\ chan'[e][k] = chan[e][k]
<1>1. CASE Fault
  BY <1>1 DEF Fault
<1>2. ASSUME NEW f \in Ends, Lose(f)
      PROVE  /\ closed' = closed
             /\ \A e \in Ends :
                  /\ chan[e] = <<>> => chan'[e] = <<>>
                  /\ \A k \in DOMAIN chan'[e] :
                       k \in DOMAIN chan[e] /\ chan'[e][k] = chan[e][k]
  <2>1. PICK n \in 0 .. Len(chan[f]) - 1 :
          chan' = [chan EXCEPT ![f] = SubSeq(@, 1, n)]
    BY <1>2 DEF Lose
  <2>2. chan[f] \in Seq(Frame) /\ chan[f] # <<>>
    BY <2>1 DEF LinkTypeOK
  <2>3. \A k \in DOMAIN SubSeq(chan[f], 1, n) :
          k \in DOMAIN chan[f] /\ SubSeq(chan[f], 1, n)[k] = chan[f][k]
    BY <2>2
  <2>4. \A e \in Ends : e # f => chan'[e] = chan[e]
    BY <2>1 DEF LinkTypeOK
  <2>5. chan'[f] = SubSeq(chan[f], 1, n)
    BY <2>1 DEF LinkTypeOK
  <2> QED
    BY <1>2, <2>2, <2>3, <2>4, <2>5 DEF Lose
<1> QED
  BY <1>1, <1>2

-----------------------------------------------------------------------------
(* The phases of the exchange                                              *)

(* An acceptance on its way to the sender is the answer to the offer, or,  *)
(* if the sender has had that or another frame is ahead of it, the final   *)
(* confirmation.                                                           *)
AnswerOrFinal(q) ==
  \A k \in DOMAIN q : q[k] = Signal("accept") =>
    /\ rpc \notin {"offer", "confirm", "declined"}
    /\ spc # "answer" \/ k > 1 => rpc = "done"

PhaseInv ==
  /\ closed[S] <=> spc \in SenderEnded
  /\ closed[R] <=> rpc \in ReceiverEnded
  /\ closed[S] => chan[S] = <<>>
  /\ spc \in {"stat", "hash", "offer"} =>
       chan[R] = <<>> /\ rpc \in {"offer", "failed", "killed"}
  /\ rpc \in {"offer", "confirm"} => chan[S] = <<>>
  /\ rpc = "confirm" => spc \in {"answer", "failed", "killed"}
  /\ Consent
  /\ AnswerOrFinal(chan[S])
  /\ spc = "done" => rpc = "done"

LEMMA AppendAnswer ==
  ASSUME NEW q \in Seq(Frame), NEW m \in Frame, NEW k \in DOMAIN Append(q, m)
  PROVE  \/ k \in DOMAIN q /\ Append(q, m)[k] = q[k]
         \/ k = Len(q) + 1 /\ Append(q, m)[k] = m
OBVIOUS

LEMMA TailAnswer ==
  ASSUME NEW q \in Seq(Frame), q # <<>>, NEW k \in DOMAIN Tail(q)
  PROVE  k \in Nat \ {0} /\ k + 1 \in DOMAIN q /\ Tail(q)[k] = q[k + 1]
OBVIOUS

LEMMA HeadAnswer ==
  ASSUME NEW q \in Seq(Frame), q # <<>>
  PROVE  1 \in DOMAIN q /\ Head(q) = q[1]
OBVIOUS

LEMMA SenderPhase ==
  ASSUME TypeInv, PhaseInv, SenderStep
  PROVE  PhaseInv'
<1> USE EndsFacts DEF PhaseInv, Consent, SenderEnded, ReceiverEnded, receiver
<1>L. LinkTypeOK
  BY DEF TypeInv, TypeOK, LinkTypeOK
<1>Q. chan[S] \in Seq(Frame)
  BY <1>L DEF LinkTypeOK
<1>1. CASE DescribeStat \/ DescribeHash \/ OpenSource
  BY <1>1 DEF DescribeStat, DescribeHash, OpenSource, link, AnswerOrFinal
<1>2. CASE Offer
  <2>1. closed' = closed /\ Same(S)
    BY <1>L, <1>2, SendEffect, FrameFacts DEF Offer
  <2> QED
    BY <1>2, <2>1 DEF Offer, Same, AnswerOrFinal
<1>3. CASE ReadAnswer
  <2>1. closed' = closed /\ Same(R) /\ chan'[S] = Tail(chan[S]) /\ chan[S] # <<>>
    BY <1>L, <1>3, ReceiveEffect DEF ReadAnswer
  <2>2. rpc \notin {"offer", "confirm", "declined"}
    BY <1>Q, <1>3, HeadAnswer DEF ReadAnswer, AnswerOrFinal
  <2>3. AnswerOrFinal(chan[S])'
    <3> SUFFICES ASSUME NEW k \in DOMAIN Tail(chan[S]),
                        Tail(chan[S])[k] = Signal("accept")
                 PROVE  rpc = "done"
      BY <1>3, <2>1, <2>2 DEF ReadAnswer, AnswerOrFinal
    <3>1. k + 1 \in DOMAIN chan[S] /\ chan[S][k + 1] = Signal("accept") /\ k + 1 > 1
      BY <1>Q, <2>1, TailAnswer
    <3> QED
      BY <3>1 DEF AnswerOrFinal
  <2> QED
    BY <1>3, <2>1, <2>2, <2>3 DEF ReadAnswer, Same
<1>4. CASE SendBlock
  <2>1. PICK m \in Frame :
          \/ Send(S, m) /\ spc' = "stream"
          \/ SendAndClose(S, m) /\ spc' = "panicked"
    <3>1. si \in File /\ src[si] \in Seq(Block) /\ off + 1 \in 1 .. Len(src[si])
      BY <1>4, TransferAssumption DEF SendBlock, File, TypeInv, TypeOK
    <3>2. Data(si, src[si][off + 1]) \in Frame
      BY <3>1, FrameFacts
    <3> QED
      BY <1>4, <3>2 DEF SendBlock
  <2>2. CASE Send(S, m) /\ spc' = "stream"
    <3>1. closed' = closed /\ Same(S)
      BY <1>L, <2>2, SendEffect
    <3> QED
      BY <1>4, <2>2, <3>1 DEF SendBlock, Same, AnswerOrFinal
  <2>3. CASE SendAndClose(S, m) /\ spc' = "panicked"
    <3>1. Closes(S)
      BY <1>L, <2>3, SendAndCloseEffect
    <3> QED
      BY <1>4, <2>3, <3>1 DEF SendBlock, Closes, AnswerOrFinal
  <2> QED
    BY <2>1, <2>2, <2>3
<1>5. CASE SendEnd
  <2>1. EndOf(si) \in Frame
    BY <1>5, FrameFacts DEF SendEnd, TypeInv, TypeOK, File
  <2>2. closed' = closed /\ Same(S)
    BY <1>L, <1>5, <2>1, SendEffect DEF SendEnd
  <2> QED
    BY <1>5, <2>2 DEF SendEnd, Same, AnswerOrFinal
<1>6. CASE ReadFinal
  <2>1. Closes(S) /\ Same(R)
    BY <1>L, <1>6, CloseEffect DEF ReadFinal
  <2>2. rpc = "done"
    BY <1>Q, <1>6, HeadAnswer DEF ReadFinal, AnswerOrFinal
  <2> QED
    BY <1>6, <2>1, <2>2 DEF ReadFinal, Closes, Same, AnswerOrFinal
<1>7. CASE SenderFails
  <2>1. Closes(S) /\ Same(R)
    BY <1>L, <1>7, CloseEffect DEF SenderFails
  <2> QED
    BY <1>7, <2>1 DEF SenderFails, Closes, Same, AnswerOrFinal
<1> QED
  BY <1>1, <1>2, <1>3, <1>4, <1>5, <1>6, <1>7 DEF SenderStep

(* A frame the receiver adds to the queue leaves it as it should be.       *)
LEMMA AnswerAdded ==
  ASSUME TypeInv, PhaseInv, NEW m \in Frame, SameOrSent(S, m), spc' = spc,
         rpc' \notin {"offer", "confirm", "declined"} \/ chan[S] = <<>>,
         rpc' = "done" \/ rpc # "done",
         m = Signal("accept") =>
           /\ rpc' \notin {"offer", "confirm", "declined"}
           /\ rpc' = "done" \/ (rpc = "confirm")
  PROVE  AnswerOrFinal(chan[S])' /\ (closed[S] => chan'[S] = <<>>)
<1> USE EndsFacts DEF PhaseInv
<1>Q. chan[S] \in Seq(Frame)
  BY DEF TypeInv, TypeOK
<1>1. CASE Same(S)
  BY <1>1 DEF Same, AnswerOrFinal
<1>2. CASE ~closed[S] /\ chan'[S] = Append(chan[S], m)
  <2> SUFFICES ASSUME NEW k \in DOMAIN Append(chan[S], m),
                      Append(chan[S], m)[k] = Signal("accept")
               PROVE  /\ rpc' \notin {"offer", "confirm", "declined"}
                      /\ spc # "answer" \/ k > 1 => rpc' = "done"
    BY <1>2 DEF AnswerOrFinal
  <2>1. CASE k \in DOMAIN chan[S] /\ Append(chan[S], m)[k] = chan[S][k]
    BY <1>Q, <2>1 DEF AnswerOrFinal
  <2>2. CASE k = Len(chan[S]) + 1 /\ Append(chan[S], m)[k] = m
    BY <1>2, <1>Q, <2>2 DEF SenderEnded
  <2> QED
    BY <1>Q, <2>1, <2>2, AppendAnswer
<1> QED
  BY <1>1, <1>2 DEF SameOrSent

LEMMA ReceiverPhase ==
  ASSUME TypeInv, PhaseInv, ReceiverStep
  PROVE  PhaseInv'
<1> USE EndsFacts DEF PhaseInv, Consent, SenderEnded, ReceiverEnded, sender
<1>L. LinkTypeOK
  BY DEF TypeInv, TypeOK, LinkTypeOK
<1>F. \A t \in {"manifest", "accept", "reject", "error"} :
        Signal(t) \in Frame /\ (Signal(t) = Signal("accept") => t = "accept")
  BY FrameFacts DEF Signal
<1>1. CASE ReadOffer
  <2>1. closed' = closed /\ Same(S) /\ chan[R] # <<>>
    BY <1>L, <1>1, ReceiveEffect DEF ReadOffer
  <2>2. AnswerOrFinal(chan[S])'
    BY <1>1, <2>1 DEF ReadOffer, Same, AnswerOrFinal
  <2> QED
    BY <1>1, <2>1, <2>2 DEF ReadOffer, Same, TypeInv, TypeOK
<1>2. CASE Accept
  <2>1. closed' = closed /\ Same(R) /\ SameOrSent(S, Signal("accept"))
    BY <1>L, <1>F, <1>2, SendEffect DEF Accept
  <2>2. AnswerOrFinal(chan[S])' /\ (closed[S] => chan'[S] = <<>>)
    BY <1>F, <1>2, <2>1, AnswerAdded DEF Accept
  <2> QED
    BY <1>2, <2>1, <2>2 DEF Accept, Same
<1>3. CASE Decline
  <2>1. Closes(R) /\ SameOrSent(S, Signal("reject"))
    BY <1>L, <1>F, <1>3, SendAndCloseEffect DEF Decline
  <2>2. AnswerOrFinal(chan[S])' /\ (closed[S] => chan'[S] = <<>>)
    BY <1>F, <1>3, <2>1, AnswerAdded DEF Decline
  <2> QED
    BY <1>3, <2>1, <2>2 DEF Decline, Closes
<1>4. CASE Prepare \/ Publish
  BY <1>4 DEF Prepare, Publish, link, AnswerOrFinal
<1>5. CASE ReadBlock \/ ReadEnd
  <2>1. closed' = closed /\ Same(S)
    BY <1>L, <1>5, ReceiveEffect DEF ReadBlock, ReadEnd
  <2> QED
    BY <1>5, <2>1 DEF ReadBlock, ReadEnd, Same, AnswerOrFinal
<1>6. CASE Finish
  <2>1. Closes(R) /\ SameOrSent(S, Signal("accept"))
    BY <1>L, <1>F, <1>6, SendAndCloseEffect DEF Finish
  <2>2. AnswerOrFinal(chan[S])' /\ (closed[S] => chan'[S] = <<>>)
    BY <1>F, <1>6, <2>1, AnswerAdded DEF Finish
  <2> QED
    BY <1>6, <2>1, <2>2 DEF Finish, Closes
<1>7. CASE FileFails
  <2>1. Closes(R) /\ SameOrSent(S, Signal("error"))
    BY <1>L, <1>F, <1>7, CloseEffect, SendAndCloseEffect, ReportEffect
    DEF FileFails, SameOrSent
  <2>2. AnswerOrFinal(chan[S])' /\ (closed[S] => chan'[S] = <<>>)
    BY <1>F, <1>7, <2>1, AnswerAdded DEF FileFails
  <2> QED
    BY <1>7, <2>1, <2>2 DEF FileFails, Closes
<1>8. CASE ReceiverFails
  <2>1. Closes(R) /\ Same(S)
    BY <1>L, <1>8, CloseEffect DEF ReceiverFails
  <2> QED
    BY <1>8, <2>1 DEF ReceiverFails, Closes, Same, AnswerOrFinal
<1> QED
  BY <1>1, <1>2, <1>3, <1>4, <1>5, <1>6, <1>7, <1>8 DEF ReceiverStep

LEMMA SurroundingsPhase ==
  ASSUME TypeInv, PhaseInv,
         \/ \E i \in File : Edit(i)
         \/ KillSender
         \/ KillReceiver
         \/ \E p \in Name : OutsiderWrites(p)
         \/ Network
  PROVE  PhaseInv'
<1> USE EndsFacts
    DEF PhaseInv, Consent, SenderEnded, ReceiverEnded, sender, receiver
<1>L. LinkTypeOK
  BY DEF TypeInv, TypeOK, LinkTypeOK
<1>1. CASE (\E i \in File : Edit(i)) \/ (\E p \in Name : OutsiderWrites(p))
  BY <1>1 DEF Edit, OutsiderWrites, link, AnswerOrFinal
<1>2. CASE KillSender
  <2>1. Closes(S) /\ Same(R)
    BY <1>L, <1>2, CloseEffect DEF KillSender
  <2> QED
    BY <1>2, <2>1 DEF KillSender, Closes, Same, AnswerOrFinal
<1>3. CASE KillReceiver
  <2>1. Closes(R) /\ Same(S)
    BY <1>L, <1>3, CloseEffect DEF KillReceiver
  <2> QED
    BY <1>3, <2>1 DEF KillReceiver, Closes, Same, AnswerOrFinal
<1>4. CASE Network
  <2>1. /\ closed' = closed
        /\ \A e \in Ends :
             /\ chan[e] = <<>> => chan'[e] = <<>>
             /\ \A k \in DOMAIN chan'[e] :
                  k \in DOMAIN chan[e] /\ chan'[e][k] = chan[e][k]
    BY <1>L, <1>4, NetworkEffect DEF Network
  <2>2. spc' = spc /\ rpc' = rpc
    BY <1>4 DEF Network
  <2>3. AnswerOrFinal(chan[S])'
    BY <2>1, <2>2 DEF AnswerOrFinal
  <2> QED
    BY <2>1, <2>2, <2>3
<1> QED
  BY <1>1, <1>2, <1>3, <1>4

LEMMA PhaseCorrect == Spec => [](TypeInv /\ PhaseInv)
<1>1. Init => TypeInv /\ PhaseInv
  BY TypeInit, EndsFacts
  DEF Init, LinkInit, PhaseInv, Consent, AnswerOrFinal, SenderEnded, ReceiverEnded
<1>2. TypeInv /\ PhaseInv /\ [Next]_vars => (TypeInv /\ PhaseInv)'
  <2> SUFFICES ASSUME TypeInv, PhaseInv, [Next]_vars
               PROVE  PhaseInv'
    BY TypeStep
  <2>1. CASE UNCHANGED vars \/ Ended
    BY <2>1 DEF Ended, vars, link, sender, receiver, PhaseInv, Consent, AnswerOrFinal
  <2> QED
    BY <2>1, SenderPhase, ReceiverPhase, SurroundingsPhase DEF Next
<1> QED
  BY <1>1, <1>2, PTL DEF Spec

(* Nothing is streamed without the receiver's consent.                     *)
THEOREM ConsentHolds == Spec => []Consent
<1>1. PhaseInv => Consent
  BY DEF PhaseInv
<1> QED
  BY <1>1, PhaseCorrect, PTL

-----------------------------------------------------------------------------
(* The files                                                               *)

(* Every file the receiver has moved past is in place.  While it works on  *)
(* one, the name is new to the transfer, or --force was given.             *)
FilesInv ==
  /\ spc \in {"stat", "hash", "offer"} \/ rpc \in {"offer", "confirm"} => ri = 1
  /\ rpc = "done" => ri = N + 1
  /\ rpc \in {"recv", "verify"} =>
       /\ Dest \in Name
       /\ ~Overwrite => \A i \in 1 .. ri - 1 : manifest[i].path # Dest
       /\ ~Overwrite /\ ~Outsiders => disk[Dest] = Absent
  /\ (Overwrite => DistinctNames) => \A i \in 1 .. ri - 1 : Delivered(i)
  /\ ri > 1 => Len(manifest) = N

LEMMA FilesKept ==
  ASSUME FilesInv, UNCHANGED <<manifest, ri, disk>>,
         /\ spc' \in {"stat", "hash", "offer"} => spc \in {"stat", "hash", "offer"}
         /\ rpc' \in {"offer", "confirm"} => rpc \in {"offer", "confirm"}
         /\ rpc' = "done" => rpc = "done" \/ ri = N + 1
         /\ rpc' \in {"recv", "verify"} => rpc \in {"recv", "verify"}
  PROVE  FilesInv'
BY DEF FilesInv, Dest, Delivered, DistinctNames

LEMMA PublishKeeps ==
  ASSUME TypeInv, PhaseInv, FilesInv, Publish
  PROVE  FilesInv'
<1> USE DEF Publish
<1>1. /\ ri \in 1 .. N /\ Len(manifest) = N /\ manifest \in Seq(FileInfo)
      /\ disk \in [Name -> Contents \cup Existing \cup {Absent}]
      /\ Dest \in Name
  BY TransferAssumption DEF TypeInv, TypeOK, FilesInv
<1>2. ASSUME Overwrite => DistinctNames, NEW i \in 1 .. ri
      PROVE  Delivered(i)'
  <2>1. CASE i = ri
    BY <1>1, <2>1 DEF Delivered, Dest, Verified, sender
  <2>2. CASE i # ri
    <3>1. i \in 1 .. ri - 1 /\ Delivered(i)
      BY <1>1, <1>2, <2>2 DEF FilesInv
    <3>2. manifest[i].path # Dest
      <4>1. CASE ~Overwrite
        BY <3>1, <4>1 DEF FilesInv
      <4>2. CASE Overwrite
        BY <1>1, <1>2, <3>1, <4>2 DEF DistinctNames, Dest
      <4> QED
        BY <4>1, <4>2
    <3> QED
      BY <1>1, <3>1, <3>2 DEF Delivered, Dest, sender
  <2> QED
    BY <2>1, <2>2
<1>3. (Overwrite => DistinctNames)' => \A i \in 1 .. ri' - 1 : Delivered(i)'
  BY <1>1, <1>2 DEF sender, DistinctNames
<1>4. spc' \notin {"stat", "hash", "offer"}
  BY DEF PhaseInv, sender
<1> QED
  BY <1>1, <1>3, <1>4 DEF FilesInv, sender

LEMMA FilesStep ==
  ASSUME TypeInv, PhaseInv, FilesInv, [Next]_vars
  PROVE  FilesInv'
<1>1. CASE DescribeStat \/ DescribeHash
  <2>1. ri = 1 /\ UNCHANGED receiver
    BY <1>1 DEF FilesInv, DescribeStat, DescribeHash
  <2>2. rpc \in {"offer", "failed", "killed"}
    BY <1>1 DEF PhaseInv, DescribeStat, DescribeHash
  <2> QED
    BY <2>1, <2>2 DEF FilesInv, receiver
<1>2. CASE Offer \/ ReadAnswer \/ OpenSource \/ SendBlock \/ SendEnd \/ ReadFinal
  <2>1. /\ spc' \notin {"stat", "hash", "offer"}
        /\ UNCHANGED <<manifest, rpc, ri, disk, tmp>>
    BY <1>2
    DEF Offer, ReadAnswer, OpenSource, SendBlock, SendEnd, ReadFinal, receiver
  <2> QED
    BY <2>1, FilesKept
<1>3. CASE SenderFails \/ KillSender
  <2>1. spc' \in {"failed", "killed"} /\ UNCHANGED <<manifest, rpc, ri, disk, tmp>>
    BY <1>3 DEF SenderFails, KillSender, receiver
  <2> QED
    BY <2>1, FilesKept
<1>4. CASE ReadOffer \/ Accept \/ Decline \/ ReadBlock \/ ReadEnd \/ Finish
           \/ FileFails \/ ReceiverFails \/ KillReceiver
  <2>1. /\ UNCHANGED <<manifest, spc, ri, disk>>
        /\ rpc' \in {"offer", "confirm"} => rpc \in {"offer", "confirm"}
        /\ rpc' = "done" => ri = N + 1
        /\ rpc' \in {"recv", "verify"} => rpc \in {"recv", "verify"}
    BY <1>4
    DEF ReadOffer, Accept, Decline, ReadBlock, ReadEnd, Finish, FileFails,
        ReceiverFails, KillReceiver, sender
  <2> QED
    BY <2>1, FilesKept
<1>5. CASE Prepare
  <2>1. Dest \in Name /\ Len(manifest) = N /\ manifest \in Seq(FileInfo)
    <3>1. Len(manifest) = N /\ ri \in Nat /\ ri >= 1 /\ ri <= Len(manifest)
      BY <1>5, TransferAssumption DEF Prepare, TypeInv, TypeOK
    <3>2. manifest \in Seq(FileInfo)
      BY DEF TypeInv, TypeOK
    <3> QED
      BY <1>5, <3>1, <3>2, EntryType DEF Prepare, Dest, Name
  <2>2. ASSUME ~Overwrite, NEW i \in 1 .. ri - 1
        PROVE  manifest[i].path # Dest
    <3>1. disk[Dest] = Absent /\ Delivered(i)
      BY <1>5, <2>2 DEF Prepare, MayWrite, FilesInv
    <3>2. manifest[i].sum \in Contents
      BY <1>5, <2>1, EntryType, TransferAssumption DEF Prepare, TypeInv, TypeOK
    <3> QED
      BY <3>1, <3>2, ContentFacts DEF Delivered
  <2>3. ~Overwrite => disk[Dest] = Absent
    BY <1>5 DEF Prepare, MayWrite
  <2>4. spc' \notin {"stat", "hash", "offer"}
    BY <1>5 DEF Prepare, PhaseInv, sender
  <2> QED
    BY <1>5, <2>1, <2>2, <2>3, <2>4
    DEF Prepare, FilesInv, Dest, Delivered, DistinctNames, sender
<1>6. CASE Publish
  BY <1>6, PublishKeeps
<1>7. CASE \E i \in File : Edit(i)
  BY <1>7, FilesKept DEF Edit, sender, receiver
<1>8. ASSUME NEW p \in Name, OutsiderWrites(p)
      PROVE  FilesInv'
  <2>1. PICK c \in Existing : disk' = [disk EXCEPT ![p] = c]
    BY <1>8 DEF OutsiderWrites
  <2>2. disk[p] = Absent /\ Outsiders /\ UNCHANGED <<manifest, spc, rpc, ri, tmp>>
    BY <1>8 DEF OutsiderWrites, sender
  <2>3. ASSUME NEW i \in 1 .. ri - 1, Delivered(i)
        PROVE  Delivered(i)'
    <3>1. Len(manifest) = N /\ ri <= N + 1 /\ ri \in Nat
      BY <2>3 DEF FilesInv, TypeInv, TypeOK
    <3>2. manifest[i].sum \in Contents
      BY <3>1, EntryType, TransferAssumption DEF TypeInv, TypeOK
    <3>3. manifest[i].path # p
      BY <2>2, <2>3, <3>2, ContentFacts DEF Delivered
    <3> QED
      BY <2>1, <2>2, <2>3, <3>3 DEF Delivered, TypeInv, TypeOK
  <2> QED
    BY <2>2, <2>3 DEF FilesInv, Dest, DistinctNames
<1>9. CASE Network \/ Ended \/ UNCHANGED vars
  BY <1>9, FilesKept DEF Network, Ended, vars, sender, receiver
<1> QED
  BY <1>1, <1>2, <1>3, <1>4, <1>5, <1>6, <1>7, <1>8, <1>9
  DEF Next, SenderStep, ReceiverStep

LEMMA FilesCorrect == Spec => [](TypeInv /\ PhaseInv /\ FilesInv)
<1>1. Init => FilesInv
  BY TransferAssumption DEF Init, FilesInv
<1>2. TypeInv /\ PhaseInv /\ FilesInv /\ [Next]_vars => FilesInv'
  BY FilesStep
<1> QED
  BY <1>1, <1>2, PhaseCorrect, PTL DEF Spec

(* "Transfer complete" is true: the receiver has confirmed, and every file *)
(* is in place with the content that was hashed.                           *)
THEOREM CompleteMeansDeliveredHolds == Spec => []CompleteMeansDelivered
<1>1. TypeInv /\ PhaseInv /\ FilesInv => CompleteMeansDelivered
  <2> SUFFICES ASSUME TypeInv, PhaseInv, FilesInv,
                      spc = "done", Overwrite => DistinctNames
               PROVE  rpc = "done" /\ \A i \in File : Delivered(i)
    BY DEF CompleteMeansDelivered
  <2>1. rpc = "done" /\ ri = N + 1
    BY DEF PhaseInv, FilesInv
  <2> QED
    BY <2>1, TransferAssumption DEF FilesInv, File
<1> QED
  BY <1>1, FilesCorrect, PTL

(* A receiver that stops leaves every file it has moved past complete.     *)
THEOREM PrefixDeliveredHolds == Spec => []PrefixDelivered
<1>1. FilesInv => PrefixDelivered
  BY DEF FilesInv, PrefixDelivered
<1> QED
  BY <1>1, FilesCorrect, PTL

(* If nobody else writes into the directory, a receiver without --force    *)
(* changes no file that exists there.                                      *)
THEOREM ExistingKeptHolds == ~Outsiders /\ Spec => ExistingKept
<1> SUFFICES ASSUME ~Outsiders
             PROVE  Spec => ExistingKept
  OBVIOUS
<1> DEFINE Kept ==
      ~Overwrite => \A p \in Name : disk[p] # Absent => disk'[p] = disk[p]
<1>1. TypeInv /\ FilesInv /\ [Next]_vars => [Kept]_vars
  <2> SUFFICES ASSUME TypeInv, FilesInv, [Next]_vars, ~Overwrite,
                      NEW p \in Name, disk[p] # Absent
               PROVE  disk'[p] = disk[p]
    OBVIOUS
  <2>1. CASE Publish
    BY <2>1 DEF Publish, FilesInv, TypeInv, TypeOK
  <2>2. CASE ~Publish
    <3>1. disk' = disk
      BY <2>2
      DEF Next, SenderStep, ReceiverStep, DescribeStat, DescribeHash, Offer,
          ReadAnswer, OpenSource, SendBlock, SendEnd, ReadFinal, SenderFails,
          ReadOffer, Accept, Decline, Prepare, ReadBlock, ReadEnd, Finish,
          FileFails, ReceiverFails, Edit, KillSender, KillReceiver,
          OutsiderWrites, Network, Ended, vars, receiver
    <3> QED
      BY <3>1
  <2> QED
    BY <2>1, <2>2
<1> QED
  BY <1>1, FilesCorrect, PTL DEF Spec, ExistingKept

-----------------------------------------------------------------------------
(* The refinement: what Delivery sees of a transfer                        *)

Listed == IF Len(manifest) = N THEN manifest ELSE <<>>

SeenOfSender ==
  CASE spc \in {"stat", "hash"} -> "listing"
    [] spc \in {"offer", "answer"} -> "offering"
    [] spc \in {"open", "stream", "final"} -> "streaming"
    [] spc = "done" -> "success"
    [] OTHER -> "failure"

SeenOfReceiver ==
  CASE rpc \in {"offer", "confirm"} -> "idle"
    [] rpc \in {"check", "recv", "verify"} -> "agreed"
    [] rpc = "declined" -> "declined"
    [] rpc = "done" -> "success"
    [] OTHER -> "failure"

Seen == <<Listed, SeenOfSender, SeenOfReceiver, ri - 1, disk>>

LEMMA SenderSeen ==
  ASSUME TypeInv, TypeInv', PhaseInv, SenderStep
  PROVE  Promise!Next \/ UNCHANGED Seen
<1> USE DEF Promise!Next, receiver
<1>1. CASE DescribeStat \/ Offer \/ OpenSource \/ SendEnd
  BY <1>1 DEF DescribeStat, Offer, OpenSource, SendEnd, Seen, Listed, SeenOfSender, SeenOfReceiver
<1>2. CASE DescribeHash /\ si < N
  BY <1>2 DEF DescribeHash, TypeInv, TypeOK, Seen, Listed, SeenOfSender, SeenOfReceiver
<1>3. CASE DescribeHash /\ si = N
  <2>1. /\ spc = "hash" /\ spc' = "offer"
        /\ manifest' \in Seq(FileInfo) /\ Len(manifest') = N
        /\ UNCHANGED <<rpc, ri, disk>>
    BY <1>3 DEF DescribeHash, TypeInv, TypeOK
  <2>2. manifest' \in [1 .. N -> FileInfo]
    BY <2>1
  <2>3. Promise!List
    BY <2>1, <2>2 DEF Promise!List
  <2> QED
    BY <2>3
<1>4. CASE ReadAnswer
  <2>1. /\ spc = "answer" /\ spc' = "open"
        /\ UNCHANGED <<manifest, rpc, ri, disk>>
    BY <1>4 DEF ReadAnswer
  <2>2. rpc \notin {"offer", "confirm", "declined"}
    BY <1>4, HeadAnswer DEF ReadAnswer, PhaseInv, AnswerOrFinal, TypeInv, TypeOK, S, Ends
  <2>3. Promise!Stream
    BY <2>1, <2>2 DEF Promise!Stream
  <2> QED
    BY <2>3
<1>5. CASE ReadFinal
  <2>1. /\ spc = "final" /\ spc' = "done"
        /\ UNCHANGED <<manifest, rpc, ri, disk>>
    BY <1>5 DEF ReadFinal
  <2>2. rpc = "done"
    BY <1>5, HeadAnswer DEF ReadFinal, PhaseInv, AnswerOrFinal, TypeInv, TypeOK, S, Ends
  <2>3. Promise!SenderSucceeds
    BY <2>1, <2>2 DEF Promise!SenderSucceeds
  <2> QED
    BY <2>3
<1>6. CASE SendBlock /\ spc' = "stream"
  BY <1>6 DEF SendBlock, Seen, Listed, SeenOfSender, SeenOfReceiver
<1>7. CASE SenderFails \/ (SendBlock /\ spc' # "stream")
  <2>1. /\ spc \in {"stat", "hash", "offer", "answer", "open", "stream", "final"}
        /\ spc' \in {"failed", "panicked"}
        /\ UNCHANGED <<manifest, rpc, ri, disk>>
    BY <1>7 DEF SenderFails, SendBlock
  <2>2. Promise!SenderFails
    BY <2>1 DEF Promise!SenderFails
  <2> QED
    BY <2>2
<1> HIDE DEF Promise!Next
<1>8. CASE DescribeHash
  <2>1. si \in Nat /\ N \in Nat /\ si <= N
    BY <1>8, TransferAssumption DEF DescribeHash, TypeInv, TypeOK
  <2>2. si < N \/ si = N
    BY <2>1
  <2> QED
    BY <1>2, <1>3, <1>8, <2>2
<1>9. CASE SendBlock
  BY <1>6, <1>7, <1>9
<1> QED
  BY <1>1, <1>4, <1>5, <1>7, <1>8, <1>9 DEF SenderStep

LEMMA ReceiverSeen ==
  ASSUME TypeInv, FilesInv, ~Outsiders, ReceiverStep
  PROVE  Promise!Next \/ UNCHANGED Seen
<1> USE DEF Promise!Next, sender
<1>1. CASE ReadOffer \/ Prepare \/ ReadBlock \/ ReadEnd
  BY <1>1 DEF ReadOffer, Prepare, ReadBlock, ReadEnd, Seen, Listed, SeenOfSender, SeenOfReceiver
<1>2. CASE Accept \/ Decline
  <2>1. /\ rpc = "confirm" /\ rpc' \in {"check", "declined"}
        /\ UNCHANGED <<manifest, spc, ri, disk>>
    BY <1>2 DEF Accept, Decline
  <2>2. Len(manifest) = N /\ manifest # <<>>
    BY <2>1, TransferAssumption DEF TypeInv, TypeOK
  <2>3. Promise!Answer
    BY <2>1, <2>2 DEF Promise!Answer
  <2> QED
    BY <2>3
<1>3. CASE Publish
  <2>1. /\ rpc = "verify" /\ rpc' = "check" /\ ri' = ri + 1
        /\ ri \in 1 .. N /\ Len(manifest) = N
        /\ UNCHANGED <<manifest, spc>>
    BY <1>3 DEF Publish, TypeInv, TypeOK
  <2>2. /\ manifest[ri].path \in Name
        /\ Overwrite \/ disk[manifest[ri].path] = Absent
        /\ disk' = [disk EXCEPT ![manifest[ri].path] = manifest[ri].sum]
    BY <1>3 DEF Publish, Verified, Dest, FilesInv
  <2>3. ri - 1 < N /\ (ri - 1) + 1 = ri /\ ri' - 1 = (ri - 1) + 1
    BY <2>1
  <2>4. Promise!Place
    BY <2>1, <2>2, <2>3 DEF Promise!Place
  <2> QED
    BY <2>4
<1>4. CASE Finish
  <2>1. /\ rpc = "check" /\ rpc' = "done" /\ ri - 1 = N
        /\ UNCHANGED <<manifest, spc, ri, disk>>
    BY <1>4, TransferAssumption DEF Finish
  <2>2. Promise!ReceiverSucceeds
    BY <2>1 DEF Promise!ReceiverSucceeds
  <2> QED
    BY <2>2
<1>5. CASE FileFails \/ ReceiverFails
  <2>1. /\ rpc \in {"offer", "confirm", "check", "recv", "verify"}
        /\ rpc' = "failed"
        /\ UNCHANGED <<manifest, spc, ri, disk>>
    BY <1>5 DEF FileFails, ReceiverFails
  <2>2. Promise!ReceiverFails
    BY <2>1 DEF Promise!ReceiverFails
  <2> QED
    BY <2>2
<1> QED
  BY <1>1, <1>2, <1>3, <1>4, <1>5 DEF ReceiverStep

LEMMA SurroundingsSeen ==
  ASSUME TypeInv, ~Outsiders,
         \/ \E i \in File : Edit(i)
         \/ KillSender \/ KillReceiver
         \/ \E p \in Name : OutsiderWrites(p)
         \/ Network
         \/ UNCHANGED vars
  PROVE  Promise!Next \/ UNCHANGED Seen
<1> USE DEF Promise!Next, sender, receiver
<1>1. CASE (\E i \in File : Edit(i)) \/ Network \/ UNCHANGED vars
  BY <1>1 DEF Edit, Network, vars, Seen, Listed, SeenOfSender, SeenOfReceiver
<1>2. CASE KillSender
  <2>1. /\ spc \in {"stat", "hash", "offer", "answer", "open", "stream", "final"}
        /\ spc' = "killed"
        /\ UNCHANGED <<manifest, rpc, ri, disk>>
    BY <1>2 DEF KillSender, SenderEnded, TypeInv, TypeOK
  <2>2. Promise!SenderFails
    BY <2>1 DEF Promise!SenderFails
  <2> QED
    BY <2>2
<1>3. CASE KillReceiver
  <2>1. /\ rpc \in {"offer", "confirm", "check", "recv", "verify"}
        /\ rpc' = "killed"
        /\ UNCHANGED <<manifest, spc, ri, disk>>
    BY <1>3 DEF KillReceiver, ReceiverEnded, TypeInv, TypeOK
  <2>2. Promise!ReceiverFails
    BY <2>1 DEF Promise!ReceiverFails
  <2> QED
    BY <2>2
<1> QED
  BY <1>1, <1>2, <1>3 DEF OutsiderWrites

(* If nobody else writes into the directory, a transfer does what Delivery *)
(* says.                                                                   *)
THEOREM TransferImplements == ~Outsiders /\ Spec => Implements
<1> SUFFICES ASSUME ~Outsiders
             PROVE  Spec => Implements
  OBVIOUS
<1>1. Init => Promise!Init
  <2> SUFFICES ASSUME Init PROVE Promise!Init
    OBVIOUS
  <2>1. /\ manifest = <<>> /\ Len(manifest) # N
        /\ spc = "stat" /\ rpc = "offer" /\ ri - 1 = 0
        /\ disk \in [Name -> Contents \cup Existing \cup {Absent}]
    BY TransferAssumption DEF Init
  <2> QED
    BY <2>1 DEF Promise!Init
<1>2. TypeInv /\ TypeInv' /\ PhaseInv /\ FilesInv /\ [Next]_vars =>
        [Promise!Next]_(Promise!vars)
  <2> SUFFICES ASSUME TypeInv, TypeInv', PhaseInv, FilesInv, [Next]_vars
               PROVE  Promise!Next \/ UNCHANGED Seen
    BY DEF Promise!vars, Seen, Listed, SeenOfSender, SeenOfReceiver
  <2> QED
    BY SenderSeen, ReceiverSeen, SurroundingsSeen DEF Next, Ended
<1> QED
  BY <1>1, <1>2, FilesCorrect, PTL DEF Spec, Implements, Promise!Spec

-----------------------------------------------------------------------------
(* The two loops over the files.  The file of the frame after m, what it   *)
(* is for a queue to hold frames of one file after the other from the i-th *)
(* on, and the file of the frame that comes next.                          *)

After(m) == IF m.type = "end" THEN m.file + 1 ELSE m.file

Follows(q, i) ==
  \A k \in DOMAIN q :
    /\ q[k].type \in {"data", "end"}
    /\ q[k].file = IF k = 1 THEN i ELSE After(q[k - 1])

NextFile(q, i) == IF q = <<>> THEN i ELSE After(q[Len(q)])

Looping == {"check", "recv", "verify"}
Sending == {"answer", "open", "stream", "final"}

(* The file the receiver reads the next frame of                           *)
Turn == IF rpc = "verify" THEN ri + 1 ELSE ri

(* What is under way to the receiver leads from the file it is at to the   *)
(* one the sender is at, unless the connection is broken: then it leads    *)
(* from there to wherever it was cut.                                      *)
LoopInv ==
  /\ rpc \in {"offer", "confirm"} => ri = 1
  /\ spc \in {"offer", "answer"} => si = 1
  /\ rpc = "offer" => Len(chan[R]) \in {0, 1}
  /\ rpc = "confirm" => chan[R] = <<>>
  /\ rpc \in Looping => Follows(chan[R], Turn)
  /\ rpc \in Looping /\ spc \in Sending /\ ~broken => si = NextFile(chan[R], Turn)

LEMMA NothingFollows == \A i : Follows(<<>>, i) /\ NextFile(<<>>, i) = i
BY DEF Follows, NextFile

LEMMA FollowsOne ==
  ASSUME NEW q \in Seq(Frame), NEW i \in Nat, Follows(q, i),
         NEW m \in Frame, m.type \in {"data", "end"}, m.file = NextFile(q, i)
  PROVE  Follows(Append(q, m), i) /\ NextFile(Append(q, m), i) = After(m)
<1> DEFINE a == Append(q, m)
<1>1. /\ a \in Seq(Frame) /\ Len(a) = Len(q) + 1 /\ a[Len(a)] = m
      /\ \A k \in 1 .. Len(q) : a[k] = q[k]
  OBVIOUS
<1>2. a # <<>>
  <2>1. Len(<<>>) = 0 /\ Len(q) \in Nat
    OBVIOUS
  <2> QED
    BY <1>1, <2>1
<1>3. NextFile(a, i) = After(m)
  BY <1>1, <1>2 DEF NextFile
<1>4. ASSUME NEW k \in DOMAIN a
      PROVE  /\ a[k].type \in {"data", "end"}
             /\ a[k].file = IF k = 1 THEN i ELSE After(a[k - 1])
  <2>1. k \in 1 .. Len(q) + 1 /\ Len(q) \in Nat /\ DOMAIN q = 1 .. Len(q)
    BY <1>1
  <2>2. CASE k \in 1 .. Len(q)
    <3>1. a[k] = q[k] /\ (k # 1 => a[k - 1] = q[k - 1])
      BY <1>1, <2>1, <2>2
    <3> QED
      BY <2>1, <2>2, <3>1 DEF Follows
  <2>3. CASE k = Len(q) + 1
    <3>1. a[k] = m
      BY <1>1, <2>3
    <3>2. CASE q = <<>>
      BY <2>3, <3>1, <3>2 DEF NextFile
    <3>3. CASE q # <<>>
      <4>1. Len(q) # 0 /\ k # 1 /\ k - 1 = Len(q)
        BY <2>1, <2>3, <3>3
      <4>2. a[k - 1] = q[Len(q)]
        BY <1>1, <2>1, <4>1
      <4> QED
        BY <3>1, <3>3, <4>1, <4>2 DEF NextFile
    <3> QED
      BY <3>2, <3>3
  <2> QED
    BY <2>1, <2>2, <2>3
<1> QED
  BY <1>3, <1>4 DEF Follows

LEMMA FollowsTail ==
  ASSUME NEW q \in Seq(Frame), q # <<>>, NEW i \in Nat, Follows(q, i)
  PROVE  /\ Head(q).file = i /\ Head(q).type \in {"data", "end"}
         /\ Follows(Tail(q), After(Head(q)))
         /\ NextFile(Tail(q), After(Head(q))) = NextFile(q, i)
<1>1. /\ 1 \in DOMAIN q /\ Head(q) = q[1] /\ Len(q) \in Nat \ {0} /\ DOMAIN q = 1 .. Len(q)
      /\ Tail(q) \in Seq(Frame) /\ Len(Tail(q)) = Len(q) - 1
      /\ \A k \in DOMAIN Tail(q) : k \in 1 .. Len(q) - 1 /\ Tail(q)[k] = q[k + 1]
  OBVIOUS
<1>2. Head(q).file = i /\ Head(q).type \in {"data", "end"}
  BY <1>1 DEF Follows
<1>3. ASSUME NEW k \in DOMAIN Tail(q)
      PROVE  /\ Tail(q)[k].type \in {"data", "end"}
             /\ Tail(q)[k].file = IF k = 1 THEN After(Head(q)) ELSE After(Tail(q)[k - 1])
  <2>1. k \in 1 .. Len(q) - 1 /\ Tail(q)[k] = q[k + 1] /\ k + 1 \in DOMAIN q /\ k + 1 # 1
    BY <1>1
  <2>2. q[k + 1].type \in {"data", "end"} /\ q[k + 1].file = After(q[(k + 1) - 1])
    BY <2>1 DEF Follows
  <2>3. (k + 1) - 1 = k
    BY <1>1, <2>1
  <2>4. k # 1 => k - 1 \in DOMAIN Tail(q) /\ Tail(q)[k - 1] = q[k]
    BY <1>1, <2>1
  <2> QED
    BY <1>1, <2>1, <2>2, <2>3, <2>4
<1>4. NextFile(Tail(q), After(Head(q))) = NextFile(q, i)
  <2>1. CASE Len(q) = 1
    <3>1. Tail(q) = <<>>
      <4>1. Len(Tail(q)) = 0
        BY <1>1, <2>1
      <4>2. \A p \in Seq(Frame) : Len(p) = 0 => p = <<>>
        OBVIOUS
      <4> QED
        BY <1>1, <4>1, <4>2
    <3> QED
      BY <1>1, <2>1, <3>1 DEF NextFile
  <2>2. CASE Len(q) # 1
    <3>1. Len(Tail(q)) \in DOMAIN Tail(q) /\ Tail(q) # <<>>
      <4>1. Len(Tail(q)) \in Nat \ {0} /\ Len(<<>>) = 0
        BY <1>1, <2>2
      <4>2. \A p \in Seq(Frame) : Len(p) \in Nat \ {0} => Len(p) \in DOMAIN p
        OBVIOUS
      <4> QED
        BY <1>1, <4>1, <4>2
    <3>2. Tail(q)[Len(Tail(q))] = q[Len(q)]
      BY <1>1, <3>1
    <3> QED
      BY <3>1, <3>2 DEF NextFile
  <2> QED
    BY <2>1, <2>2
<1> QED
  BY <1>2, <1>3, <1>4 DEF Follows

LEMMA FollowsCut ==
  ASSUME NEW q \in Seq(Frame), NEW p \in Seq(Frame), NEW i, Follows(q, i),
         \A k \in DOMAIN p : k \in DOMAIN q /\ p[k] = q[k]
  PROVE  Follows(p, i)
<1> SUFFICES ASSUME NEW k \in DOMAIN p
             PROVE  /\ p[k].type \in {"data", "end"}
                    /\ p[k].file = IF k = 1 THEN i ELSE After(p[k - 1])
  BY DEF Follows
<1>1. k # 1 => k - 1 \in DOMAIN p
  OBVIOUS
<1> QED
  BY <1>1 DEF Follows

(* Steps that neither add to the queue to the receiver nor move either     *)
(* loop; a queue may be cut if the sender no longer adds to it.            *)
LEMMA LoopKept ==
  ASSUME TypeInv, LoopInv, chan'[R] \in Seq(Frame),
         UNCHANGED <<ri, si>>,
         rpc' = rpc \/ rpc' \in ReceiverEnded,
         spc' = spc \/ spc' \in SenderEnded \/ (spc' = "stream" /\ spc = "open")
           \/ (spc' = "open" /\ spc = "answer"),
         \A k \in DOMAIN chan'[R] : k \in DOMAIN chan[R] /\ chan'[R][k] = chan[R][k],
         Same(R) \/ broken' \/ spc' \in SenderEnded,
         ~broken' => ~broken
  PROVE  LoopInv'
<1>1. chan[R] \in Seq(Frame)
  BY EndsFacts DEF TypeInv, TypeOK
<1>2. rpc' = "offer" => Len(chan'[R]) \in {0, 1}
  <2> SUFFICES ASSUME rpc' = "offer" PROVE Len(chan'[R]) \in {0, 1}
    OBVIOUS
  <2>1. Len(chan[R]) \in {0, 1}
    BY DEF LoopInv, ReceiverEnded
  <2>2. \A k \in 1 .. Len(chan'[R]) : k \in 1 .. Len(chan[R])
    BY <1>1
  <2>3. Len(chan'[R]) \in Nat /\ Len(chan[R]) \in Nat
    BY <1>1
  <2>4. Len(chan'[R]) <= Len(chan[R])
    BY <2>2, <2>3
  <2>5. \A n, k \in Nat : n <= k /\ k \in {0, 1} => n \in {0, 1}
    <3>1. \A n \in Nat : n <= 0 => n = 0
      OBVIOUS
    <3>2. \A n \in Nat : n <= 1 => n \in {0, 1}
      OBVIOUS
    <3> QED
      BY <3>1, <3>2
  <2> QED
    BY <2>1, <2>3, <2>4, <2>5
<1>3. chan[R] = <<>> => chan'[R] = <<>>
  BY HeadAnswer
<1>4. rpc' \in Looping => Turn' = Turn /\ rpc \in Looping
  BY DEF Turn, Looping, ReceiverEnded
<1>5. rpc' \in Looping => Follows(chan'[R], Turn')
  BY <1>1, <1>4, FollowsCut DEF LoopInv
<1>6. rpc' \in Looping /\ spc' \in Sending /\ ~broken' => si' = NextFile(chan'[R], Turn')
  BY <1>4 DEF LoopInv, Sending, SenderEnded, Same
<1> QED
  BY <1>2, <1>3, <1>5, <1>6 DEF LoopInv, ReceiverEnded, SenderEnded, Looping, Sending

LEMMA QueueFacts ==
  ASSUME TypeInv
  PROVE  /\ LinkTypeOK /\ chan[R] \in Seq(Frame)
         /\ ri \in Nat /\ Turn \in Nat /\ si \in Nat
BY EndsFacts, TransferAssumption DEF TypeInv, TypeOK, LinkTypeOK, Turn

(* What the sender writes while it is in its loop                          *)
LEMMA SentInTurn ==
  ASSUME TypeInv, PhaseInv, LoopInv, NEW m \in Frame,
         spc = "stream", m.type \in {"data", "end"}, m.file = si,
         \/ Send(S, m) /\ si' = After(m)
         \/ SendAndClose(S, m) /\ spc' \in SenderEnded,
         spc' \notin {"offer", "answer"}, UNCHANGED <<rpc, ri>>
  PROVE  LoopInv'
<1>1. rpc \notin {"offer", "confirm"}
  BY DEF PhaseInv, Consent
<1>2. \/ Same(R)
      \/ ~broken /\ chan'[R] = Append(chan[R], m)
  BY QueueFacts, EndsFacts, WrittenType DEF Send, SendAndClose, HangUp, Written, Same
<1>3. Send(S, m) => broken' \/ (~broken /\ chan'[R] = Append(chan[R], m))
  BY QueueFacts, EndsFacts DEF Send, Written, LinkTypeOK
<1>4. Turn' = Turn
  BY DEF Turn
<1>5. rpc \in Looping /\ ~broken => 
        /\ Follows(Append(chan[R], m), Turn)
        /\ NextFile(Append(chan[R], m), Turn) = After(m)
  BY QueueFacts, FollowsOne DEF LoopInv, Sending
<1>6. rpc' \in Looping => Follows(chan'[R], Turn')
  BY <1>2, <1>4, <1>5 DEF LoopInv, Same
<1>7. rpc' \in Looping /\ spc' \in Sending /\ ~broken' => si' = NextFile(chan'[R], Turn')
  BY <1>3, <1>4, <1>5 DEF Sending, SenderEnded
<1> QED
  BY <1>1, <1>6, <1>7 DEF LoopInv

LEMMA SenderLoop ==
  ASSUME TypeInv, PhaseInv, LoopInv, TypeInv', SenderStep
  PROVE  LoopInv'
<1> USE EndsFacts DEF SenderEnded, ReceiverEnded, receiver
<1>T. LinkTypeOK /\ chan'[R] \in Seq(Frame) /\ chan[R] \in Seq(Frame)
  BY QueueFacts DEF TypeInv, TypeOK
<1>1. CASE DescribeStat \/ DescribeHash
  <2>1. rpc \notin Looping /\ rpc # "confirm" /\ chan' = chan /\ broken' = broken /\ UNCHANGED <<rpc, ri>>
    BY <1>1 DEF DescribeStat, DescribeHash, link, PhaseInv, Looping
  <2>2. spc' \in {"offer", "answer"} => si' = 1
    BY <1>1 DEF DescribeStat, DescribeHash
  <2> QED
    BY <2>1, <2>2 DEF LoopInv
<1>2. CASE Offer
  <2>1. rpc \notin Looping /\ rpc # "confirm" /\ chan[R] = <<>> /\ UNCHANGED <<rpc, ri, si>>
    BY <1>2 DEF Offer, PhaseInv, Looping
  <2>2. SameOrSent(R, Signal("manifest"))
    BY <1>T, <1>2, SendEffect, FrameFacts DEF Offer
  <2>3. Len(chan'[R]) \in {0, 1}
    <3>1. Len(<<>>) = 0 /\ Len(Append(<<>>, Signal("manifest"))) = 1
      OBVIOUS
    <3> QED
      BY <2>1, <2>2, <3>1 DEF SameOrSent, Same
  <2> QED
    BY <1>2, <2>1, <2>3 DEF LoopInv, Offer
<1>3. CASE ReadAnswer
  <2>1. Same(R) /\ broken' = broken /\ UNCHANGED <<rpc, ri, si>>
    BY <1>T, <1>3, ReceiveEffect DEF ReadAnswer, Receive
  <2> QED
    BY <1>3, <1>T, <2>1, LoopKept DEF ReadAnswer, Same
<1>4. CASE OpenSource
  BY <1>4, <1>T, LoopKept DEF OpenSource, Same, link
<1>5. CASE SendBlock
  <2>1. si \in File /\ src[si][off + 1] \in Block
    <3>1. si \in File /\ src[si] \in Seq(Block) /\ off + 1 \in 1 .. Len(src[si])
      BY <1>5, TransferAssumption DEF SendBlock, File, TypeInv, TypeOK
    <3> QED
      BY <3>1
  <2>2. PICK m \in Frame : m = Data(si, src[si][off + 1])
    BY <2>1, FrameFacts
  <2>3. m.type = "data" /\ m.file = si /\ After(m) = si
    BY <2>2 DEF Data, After
  <2> QED
    BY <1>5, <2>2, <2>3, SentInTurn DEF SendBlock
<1>6. CASE SendEnd
  <2>1. EndOf(si) \in Frame
    BY <1>6, FrameFacts DEF SendEnd, TypeInv, TypeOK, File
  <2>2. EndOf(si).type = "end" /\ EndOf(si).file = si /\ After(EndOf(si)) = si + 1
    BY DEF EndOf, After
  <2> QED
    BY <1>6, <2>1, <2>2, SentInTurn DEF SendEnd
<1>7. CASE ReadFinal \/ SenderFails
  <2>1. Same(R) /\ spc' \in SenderEnded /\ (~broken' => ~broken) /\ UNCHANGED <<rpc, ri, si>>
    BY <1>T, <1>7, CloseEffect DEF ReadFinal, SenderFails, Close, ReceiveAndClose, HangUp
  <2> QED
    BY <1>T, <2>1, LoopKept DEF Same
<1> QED
  BY <1>1, <1>2, <1>3, <1>4, <1>5, <1>6, <1>7 DEF SenderStep

LEMMA ReceiverLoop ==
  ASSUME TypeInv, PhaseInv, LoopInv, TypeInv', ReceiverStep
  PROVE  LoopInv'
<1> USE EndsFacts DEF SenderEnded, ReceiverEnded, sender
<1>T. LinkTypeOK /\ chan'[R] \in Seq(Frame) /\ chan[R] \in Seq(Frame)
  BY QueueFacts DEF TypeInv, TypeOK
<1>1. CASE ReadOffer
  <2>1. chan[R] # <<>> /\ chan'[R] = Tail(chan[R]) /\ rpc = "offer" /\ rpc' = "confirm"
    BY <1>T, <1>1, ReceiveEffect DEF ReadOffer
  <2>2. Len(chan[R]) = 1
    BY <1>T, <2>1 DEF LoopInv
  <2>3. Tail(chan[R]) = <<>>
    <3>1. Tail(chan[R]) \in Seq(Frame) /\ Len(Tail(chan[R])) = 0
      BY <1>T, <2>1, <2>2
    <3>2. \A q \in Seq(Frame) : Len(q) = 0 => q = <<>>
      OBVIOUS
    <3> QED
      BY <3>1, <3>2
  <2> QED
    BY <1>1, <2>1, <2>3 DEF LoopInv, ReadOffer, Looping
<1>2. CASE Accept
  <2>1. Same(R) /\ (~broken' => ~broken) /\ UNCHANGED <<spc, si, ri>>
    BY <1>2, <1>T, SendEffect, FrameFacts DEF Accept, Send
  <2>2. chan[R] = <<>> /\ ri = 1 /\ rpc' = "check" /\ Turn' = 1
    BY <1>2, <2>1 DEF Accept, LoopInv, Turn
  <2>3. spc \in Sending => si = 1
    BY <1>2 DEF Accept, PhaseInv, LoopInv, Sending
  <2> QED
    BY <2>1, <2>2, <2>3, NothingFollows DEF LoopInv, Same
<1>3. CASE Decline \/ Finish \/ FileFails \/ ReceiverFails
  <2>1. rpc' \in ReceiverEnded /\ UNCHANGED <<spc, si>>
    BY <1>3 DEF Decline, Finish, FileFails, ReceiverFails
  <2> QED
    BY <2>1 DEF LoopInv, Looping
<1>4. CASE Prepare \/ Publish
  <2>1. /\ UNCHANGED <<chan, broken, spc, si>> /\ rpc \in Looping /\ rpc' \in Looping
        /\ rpc' # "verify"
    BY <1>4 DEF Prepare, Publish, link, Looping
  <2>2. Turn' = Turn
    BY <1>4 DEF Prepare, Publish, Turn
  <2> QED
    BY <2>1, <2>2 DEF LoopInv, Looping
<1>5. CASE ReadBlock \/ ReadEnd
  <2>1. /\ chan[R] # <<>> /\ chan'[R] = Tail(chan[R]) /\ broken' = broken
        /\ UNCHANGED <<spc, si, ri>> /\ rpc = "recv"
    BY <1>5, <1>T, ReceiveEffect DEF ReadBlock, ReadEnd, Receive
  <2>2. Turn = ri /\ ri \in Nat /\ Follows(chan[R], ri)
    BY <2>1, QueueFacts DEF Turn, LoopInv, Looping
  <2>3. /\ Head(chan[R]).file = ri
        /\ Follows(Tail(chan[R]), After(Head(chan[R])))
        /\ NextFile(Tail(chan[R]), After(Head(chan[R]))) = NextFile(chan[R], ri)
    BY <1>T, <2>1, <2>2, FollowsTail
  <2>4. Turn' = After(Head(chan[R])) /\ rpc' \in Looping
    BY <1>5, <2>1, <2>3 DEF ReadBlock, ReadEnd, After, Turn, Looping
  <2> QED
    BY <2>1, <2>2, <2>3, <2>4 DEF LoopInv, Looping
<1> QED
  BY <1>1, <1>2, <1>3, <1>4, <1>5 DEF ReceiverStep

LEMMA SurroundingsLoop ==
  ASSUME TypeInv, PhaseInv, LoopInv, TypeInv',
         \/ \E i \in File : Edit(i)
         \/ KillSender
         \/ KillReceiver
         \/ \E p \in Name : OutsiderWrites(p)
         \/ Network
         \/ UNCHANGED vars
  PROVE  LoopInv'
<1> USE EndsFacts DEF SenderEnded, ReceiverEnded, sender, receiver
<1>T. LinkTypeOK /\ chan'[R] \in Seq(Frame) /\ chan[R] \in Seq(Frame)
  BY QueueFacts DEF TypeInv, TypeOK
<1>1. CASE (\E i \in File : Edit(i)) \/ (\E p \in Name : OutsiderWrites(p)) \/ UNCHANGED vars
  <2>1. UNCHANGED <<chan, broken, spc, si, rpc, ri>>
    BY <1>1 DEF Edit, OutsiderWrites, link, vars
  <2> QED
    BY <1>T, <2>1, LoopKept DEF Same
<1>2. CASE KillSender
  <2>1. Same(R) /\ (~broken' => ~broken)
    BY <1>T, <1>2, CloseEffect DEF KillSender, Close, HangUp
  <2> QED
    BY <1>T, <1>2, <2>1, LoopKept DEF KillSender, Same
<1>3. CASE KillReceiver
  <2>1. rpc' \in ReceiverEnded /\ UNCHANGED <<spc, si>>
    BY <1>3 DEF KillReceiver
  <2> QED
    BY <2>1 DEF LoopInv, Looping
<1>4. CASE Network
  <2>1. \A k \in DOMAIN chan'[R] : k \in DOMAIN chan[R] /\ chan'[R][k] = chan[R][k]
    BY <1>T, <1>4, NetworkEffect DEF Network
  <2>2. UNCHANGED <<rpc, ri, spc, si>>
    BY <1>4 DEF Network
  <2>3. ~broken' => ~broken
    BY <1>4 DEF Network, Fault, Lose
  <2>4. Same(R) \/ broken' \/ spc' \in SenderEnded
    <3>1. CASE Fault
      BY <3>1 DEF Fault
    <3>2. ASSUME NEW e \in Ends, Lose(e)
          PROVE  Same(R) \/ broken' \/ spc' \in SenderEnded
      <4>1. CASE e = R
        BY <2>2, <3>2, <4>1 DEF Lose, PhaseInv
      <4>2. CASE e = S
        BY <1>T, <3>2, <4>2 DEF Lose, LinkTypeOK, Same
      <4> QED
        BY <4>1, <4>2
    <3> QED
      BY <1>4, <3>1, <3>2 DEF Network
  <2> QED
    BY <1>T, <2>1, <2>2, <2>3, <2>4, LoopKept
<1> QED
  BY <1>1, <1>2, <1>3, <1>4

LEMMA LoopCorrect == Spec => []LoopInv
<1>1. Init => LoopInv
  <2> SUFFICES ASSUME Init PROVE LoopInv
    OBVIOUS
  <2>1. chan[R] = <<>> /\ Len(<<>>) = 0
    BY EndsFacts DEF Init, LinkInit
  <2> QED
    BY <2>1 DEF Init, LoopInv, Looping, Sending
<1>2. TypeInv /\ PhaseInv /\ TypeInv' /\ LoopInv /\ [Next]_vars => LoopInv'
  BY SenderLoop, ReceiverLoop, SurroundingsLoop DEF Next, Ended
<1> QED
  BY <1>1, <1>2, PhaseCorrect, PTL DEF Spec

(* The receiver never takes a frame of one file for a frame of another,    *)
(* whatever is edited, killed or lost: the end of a file is always sent    *)
(* and always read, and nothing is read past a gap (sendFile, receiveFile).*)
THEOREM InStepHolds == Spec => []InStep
<1>1. TypeInv /\ LoopInv => InStep
  <2> SUFFICES ASSUME TypeInv, LoopInv, rpc = "recv", chan[R] # <<>>
               PROVE  Head(chan[R]).file = ri
    BY DEF InStep
  <2>1. Follows(chan[R], ri)
    BY DEF LoopInv, Looping, Turn
  <2> QED
    BY <2>1, QueueFacts, FollowsTail
<1> QED
  BY <1>1, PhaseCorrect, LoopCorrect, PTL

-----------------------------------------------------------------------------
(* The progress bar.  TotalSize adds up the sizes of the manifest, and     *)
(* while nothing is edited the sender counts what it has sent along the    *)
(* same sums: it is never past the total, and the bar never overfull.      *)

Sums(f) ==
  LET sums[s \in SUBSET DOMAIN f] ==
        IF s = {} THEN 0 ELSE sums[s \ {Max(s)}] + f[Max(s)].size
  IN  sums

(* The sizes of the first k files of f.                                    *)
Sum(f, k) == Sums(f)[1 .. k]

SizeInv ==
  edits = 0 =>
    /\ src \in [File -> Contents]
    /\ \A i \in DOMAIN manifest : manifest[i].size = Len(src[i])
    /\ spc = "hash" => stat = Len(src[si])
    /\ spc \in {"stat", "hash", "offer", "answer"} => sent = 0
    /\ spc = "open" => sent = Sum(manifest, si - 1)
    /\ spc = "stream" => sent = Sum(manifest, si - 1) + off /\ off <= Len(src[si])
    /\ spc # "panicked"

LEMMA TotalIsSum ==
  ASSUME manifest \in Seq(FileInfo)
  PROVE TotalSize = Sum(manifest, Len(manifest))
<1>1. TotalSize = Sums(manifest)[DOMAIN manifest]
  BY DEF TotalSize, Sums, FoldLeft, MapThenFoldSet
<1>2. DOMAIN manifest = 1 .. Len(manifest)
  OBVIOUS
<1> QED
  BY <1>1, <1>2 DEF Sum

LEMMA SumsDefined ==
  ASSUME NEW f \in Seq(FileInfo), NEW s \in SUBSET DOMAIN f
  PROVE  Sums(f)[s] = IF s = {} THEN 0 ELSE Sums(f)[s \ {Max(s)}] + f[Max(s)].size
<1> DEFINE step == [p \in Nat \X (1 .. Len(f)) |-> p[1] + f[p[2]].size]
<1>1. Len(f) \in Nat /\ DOMAIN f = 1 .. Len(f) /\ 0 \in Nat
  OBVIOUS
<1>2. \A i \in 1 .. Len(f) : f[i].size \in Nat
  <2>1. \A i \in 1 .. Len(f) : f[i] \in FileInfo
    OBVIOUS
  <2> QED
    BY <2>1 DEF FileInfo
<1>3. step \in [Nat \X (1 .. Len(f)) -> Nat]
  BY <1>2
<1>4. \A v \in Nat, i \in 1 .. Len(f) : step[<<v, i>>] = v + f[i].size
  OBVIOUS
<1> HIDE DEF step
<1>5. PICK g : FoldsTo(g, Len(f), Nat, 0, step)
  BY <1>1, <1>3, FoldIsDefined
<1>6. g \in [SUBSET DOMAIN f -> Nat]
  BY <1>1, <1>5 DEF FoldsTo
<1>7. ASSUME NEW t \in SUBSET DOMAIN f
      PROVE  g[t] = IF t = {} THEN 0 ELSE g[t \ {Max(t)}] + f[Max(t)].size
  <2>1. CASE t = {}
    BY <1>1, <1>5, <2>1 DEF FoldsTo
  <2>2. CASE t # {}
    <3>1. g[t] = step[<<g[t \ {Max(t)}], Max(t)>>]
      BY <1>1, <1>5, <2>2 DEF FoldsTo
    <3>2. Max(t) \in 1 .. Len(f)
      BY <1>1, <2>2, MaxIsGreatest
    <3>3. g[t \ {Max(t)}] \in Nat
      BY <1>6
    <3> QED
      BY <1>4, <2>2, <3>1, <3>2, <3>3
  <2> QED
    BY <2>1, <2>2
<1>8. g = [t \in SUBSET DOMAIN f |->
            IF t = {} THEN 0 ELSE g[t \ {Max(t)}] + f[Max(t)].size]
  BY <1>6, <1>7
<1>9. Sums(f) = [t \in SUBSET DOMAIN f |->
                  IF t = {} THEN 0 ELSE Sums(f)[t \ {Max(t)}] + f[Max(t)].size]
  BY <1>8 DEF Sums
<1> QED
  BY <1>9

LEMMA SumNext ==
  ASSUME NEW f \in Seq(FileInfo)
  PROVE  /\ Sum(f, 0) = 0
         /\ \A k \in Nat : k + 1 <= Len(f) => Sum(f, k + 1) = Sum(f, k) + f[k + 1].size
<1>1. Len(f) \in Nat /\ DOMAIN f = 1 .. Len(f)
  OBVIOUS
<1>2. Sum(f, 0) = 0
  <2>1. 1 .. 0 = {}
    OBVIOUS
  <2> QED
    BY <2>1, SumsDefined DEF Sum
<1>3. ASSUME NEW k \in Nat, k + 1 <= Len(f)
      PROVE  Sum(f, k + 1) = Sum(f, k) + f[k + 1].size
  <2>1. 1 .. k + 1 \in SUBSET DOMAIN f
    BY <1>1, <1>3
  <2>2. /\ 1 .. k + 1 # {} /\ Max(1 .. k + 1) = k + 1
        /\ (1 .. k + 1) \ {k + 1} = 1 .. k
    BY MaxOfInterval
  <2>3. Sums(f)[1 .. k + 1] = Sums(f)[1 .. k] + f[k + 1].size
    <3>1. PICK s \in SUBSET DOMAIN f : s = 1 .. k + 1
      BY <2>1
    <3>2. Sums(f)[s] = Sums(f)[s \ {Max(s)}] + f[Max(s)].size
      BY <2>2, <3>1, SumsDefined
    <3> QED
      BY <2>2, <3>1, <3>2
  <2> QED
    BY <2>3 DEF Sum
<1> QED
  BY <1>2, <1>3

(* The sums are naturals and never past the sum of all.                    *)
LEMMA SumBounds ==
  ASSUME NEW f \in Seq(FileInfo)
  PROVE  \A k \in 0 .. Len(f) : Sum(f, k) \in Nat /\ Sum(f, k) <= Sum(f, Len(f))
<1>1. Len(f) \in Nat /\ \A i \in 1 .. Len(f) : f[i].size \in Nat
  <2>1. Len(f) \in Nat /\ \A i \in 1 .. Len(f) : f[i] \in FileInfo
    OBVIOUS
  <2> QED
    BY <2>1 DEF FileInfo
<1> DEFINE A == {k \in Nat : k <= Len(f) =>
                  Sum(f, k) \in Nat /\ \A j \in 0 .. k : Sum(f, j) \in Nat /\ Sum(f, j) <= Sum(f, k)}
<1>2. 0 \in A
  <2>1. Sum(f, 0) \in Nat /\ Sum(f, 0) <= Sum(f, 0)
    BY SumNext
  <2>2. 0 .. 0 = {0}
    OBVIOUS
  <2> QED
    BY <2>1, <2>2
<1>3. ASSUME NEW k \in Nat, k \in A PROVE k + 1 \in A
  <2>1. SUFFICES ASSUME k + 1 <= Len(f)
                 PROVE  /\ Sum(f, k + 1) \in Nat
                        /\ \A j \in 0 .. k + 1 : Sum(f, j) \in Nat /\ Sum(f, j) <= Sum(f, k + 1)
    OBVIOUS
  <2>2. /\ Sum(f, k) \in Nat
        /\ \A j \in 0 .. k : Sum(f, j) \in Nat /\ Sum(f, j) <= Sum(f, k)
    BY <1>1, <1>3, <2>1
  <2>3. Sum(f, k + 1) = Sum(f, k) + f[k + 1].size /\ f[k + 1].size \in Nat
    BY <1>1, <2>1, SumNext
  <2>4. \A j \in 0 .. k + 1 : j \in 0 .. k \/ j = k + 1
    OBVIOUS
  <2> QED
    BY <2>2, <2>3, <2>4
<1> HIDE DEF A
<1>4. Len(f) \in A
  BY <1>1, <1>2, <1>3, Induction
<1> QED
  BY <1>1, <1>4 DEF A

(* A bar that is asked for no more than the total fits its width.          *)
LEMMA NotOverfull ==
  ASSUME NEW part \in Nat, NEW total \in Nat, part <= total
  PROVE  ~Overfull(part, total)
<1> SUFFICES ASSUME total > 0 PROVE (part * BarWidth) \div total <= BarWidth
  BY DEF Overfull, BarWidth
<1>1. part * 30 <= total * 30
  OBVIOUS
<1>2. (part * 30) \div total <= 30
  BY <1>1
<1> QED
  BY <1>2 DEF BarWidth

LEMMA SenderSize ==
  ASSUME TypeInv, LoopInv, SizeInv, SenderStep
  PROVE  SizeInv'
<1> USE TransferAssumption
<1> SUFFICES ASSUME edits = 0, edits' = 0, src' = src
             PROVE  SizeInv'
  BY DEF SizeInv, SenderStep, DescribeStat, DescribeHash, Offer, ReadAnswer, OpenSource,
         SendBlock, SendEnd, ReadFinal, SenderFails
<1>1. /\ src \in [File -> Contents]
      /\ \A i \in DOMAIN manifest : manifest[i].size = Len(src[i])
      /\ spc = "hash" => stat = Len(src[si])
      /\ spc \in {"stat", "hash", "offer", "answer"} => sent = 0
      /\ spc = "open" => sent = Sum(manifest, si - 1)
      /\ spc = "stream" => sent = Sum(manifest, si - 1) + off /\ off <= Len(src[si])
      /\ spc # "panicked"
  BY DEF SizeInv
<1>2. /\ manifest \in Seq(FileInfo) /\ si \in Nat /\ si >= 1 /\ N \in Nat
      /\ off \in Nat /\ sent \in Nat /\ stat \in Nat
  BY DEF TypeInv, TypeOK
<1>3. \A i \in File : src[i] \in Contents /\ Len(src[i]) \in Nat
  BY <1>1
<1>4. spc \in {"stat", "hash", "open", "stream"} => si \in File
  BY <1>2 DEF TypeInv, File
<1>5. spc \in {"open", "stream"} =>
        /\ Len(manifest) = N /\ DOMAIN manifest = 1 .. N
        /\ manifest[si].size = Len(src[si])
        /\ Sum(manifest, si) = Sum(manifest, si - 1) + Len(src[si])
        /\ Sum(manifest, si - 1) \in Nat
        /\ Sum(manifest, si) \in Nat
        /\ Sum(manifest, si) <= TotalSize
  <2> SUFFICES ASSUME spc \in {"open", "stream"}
               PROVE  /\ Len(manifest) = N /\ DOMAIN manifest = 1 .. N
                      /\ manifest[si].size = Len(src[si])
                      /\ Sum(manifest, si) = Sum(manifest, si - 1) + Len(src[si])
                      /\ Sum(manifest, si - 1) \in Nat
                      /\ Sum(manifest, si) \in Nat
                      /\ Sum(manifest, si) <= TotalSize
    OBVIOUS
  <2>1. Len(manifest) = N /\ DOMAIN manifest = 1 .. N /\ si <= N
    BY <1>2 DEF TypeInv
  <2>2. manifest[si].size = Len(src[si])
    BY <1>1, <1>2, <2>1
  <2>3. si - 1 \in Nat /\ (si - 1) + 1 = si /\ si - 1 \in 0 .. N /\ si \in 0 .. N
    BY <1>2, <2>1
  <2>4. Sum(manifest, si) = Sum(manifest, si - 1) + Len(src[si])
    BY <1>2, <2>1, <2>2, <2>3, SumNext
  <2>5. TotalSize = Sum(manifest, N)
    BY <1>2, <2>1, TotalIsSum
  <2> QED
    BY <1>2, <2>1, <2>2, <2>3, <2>4, <2>5, SumBounds
<1>6. CASE DescribeStat
  BY <1>1, <1>6 DEF DescribeStat, SizeInv
<1>7. CASE DescribeHash
  <2>1. PICK p \in Path :
          manifest' = Append(manifest, [path |-> p, size |-> stat, sum |-> src[si]])
    BY <1>7 DEF DescribeHash
  <2>2. si = Len(manifest) + 1 /\ stat = Len(src[si])
    BY <1>1, <1>2, <1>7 DEF DescribeHash, TypeInv
  <2>3. [path |-> p, size |-> stat, sum |-> src[si]] \in FileInfo
    BY <1>2, <1>3, <1>4, <1>7 DEF DescribeHash, FileInfo
  <2>4. \A i \in DOMAIN manifest' : manifest'[i].size = Len(src[i])
    <3>1. \A i \in DOMAIN manifest' :
            \/ i \in DOMAIN manifest /\ manifest'[i] = manifest[i]
            \/ i = si /\ manifest'[i].size = stat
      BY <1>2, <2>1, <2>2, <2>3
    <3> QED
      BY <1>1, <2>2, <3>1
  <2>5. spc' \in {"stat", "offer"} /\ sent' = 0
    BY <1>1, <1>7 DEF DescribeHash
  <2> QED
    BY <1>1, <2>4, <2>5 DEF SizeInv
<1>8. CASE Offer
  BY <1>1, <1>8 DEF Offer, SizeInv
<1>9. CASE ReadAnswer
  <2>1. si = 1 /\ sent = 0 /\ UNCHANGED <<manifest, si, sent>> /\ spc' = "open"
    BY <1>1, <1>9 DEF ReadAnswer, LoopInv
  <2>2. Sum(manifest, 0) = 0 /\ si - 1 = 0
    BY <1>2, <2>1, SumNext
  <2> QED
    BY <1>1, <2>1, <2>2 DEF SizeInv
<1>10. CASE OpenSource
  <2>1. si \in File /\ Len(src[si]) \in Nat
    BY <1>3, <1>4, <1>10 DEF OpenSource
  <2>2. sent = Sum(manifest, si - 1) /\ Sum(manifest, si - 1) \in Nat
    BY <1>1, <1>5, <1>10 DEF OpenSource
  <2>3. /\ UNCHANGED <<manifest, si, sent>> /\ spc' = "stream" /\ off' = 0
    BY <1>10 DEF OpenSource
  <2> QED
    BY <1>1, <2>1, <2>2, <2>3 DEF SizeInv
<1>11. CASE SendBlock
  <2>1. /\ sent = Sum(manifest, si - 1) + off /\ off < Len(src[si])
        /\ spc = "stream" /\ UNCHANGED <<manifest, si>>
        /\ off' = off + 1 /\ sent' = sent + 1
    BY <1>1, <1>11 DEF SendBlock
  <2>2. Len(src[si]) \in Nat /\ Sum(manifest, si - 1) \in Nat
    BY <1>3, <1>4, <1>5, <2>1
  <2>3. sent + 1 \in Nat /\ TotalSize \in Nat /\ sent + 1 <= TotalSize
    <3>1. TotalSize = Sum(manifest, Len(manifest)) /\ TotalSize \in Nat
      BY <1>2, TotalIsSum, SumBounds
    <3> QED
      BY <1>2, <1>5, <2>1, <2>2, <3>1, SMTT(30)
  <2>4. spc' = "stream"
    BY <1>11, <2>3, NotOverfull DEF SendBlock
  <2>5. sent' = Sum(manifest, si - 1) + off' /\ off' <= Len(src[si])
    BY <1>2, <2>1, <2>2
  <2> QED
    BY <1>1, <2>1, <2>4, <2>5 DEF SizeInv
<1>12. CASE SendEnd
  <2>1. /\ sent = Sum(manifest, si - 1) + off /\ off <= Len(src[si]) /\ off >= Len(src[si])
        /\ spc = "stream" /\ si' = si + 1 /\ UNCHANGED <<manifest, sent>>
        /\ spc' \in {"open", "final"}
    BY <1>1, <1>12 DEF SendEnd
  <2>2. Len(src[si]) \in Nat
    BY <1>3, <1>4, <2>1
  <2>3. sent' = Sum(manifest, si' - 1)
    <3>1. si' - 1 = si
      BY <1>2, <2>1
    <3> QED
      BY <1>2, <1>5, <2>1, <2>2, <3>1
  <2> QED
    BY <1>1, <2>1, <2>3 DEF SizeInv
<1>13. CASE ReadFinal \/ SenderFails
  BY <1>1, <1>13 DEF ReadFinal, SenderFails, SizeInv
<1> QED
  BY <1>6, <1>7, <1>8, <1>9, <1>10, <1>11, <1>12, <1>13 DEF SenderStep

LEMMA OthersSize ==
  ASSUME TypeInv, SizeInv,
         \/ ReceiverStep
         \/ \E i \in File : Edit(i)
         \/ KillSender
         \/ KillReceiver
         \/ \E p \in Name : OutsiderWrites(p)
         \/ Network
         \/ UNCHANGED vars
  PROVE  SizeInv'
<1>1. CASE \E i \in File : Edit(i)
  BY <1>1 DEF Edit, SizeInv, TypeInv, TypeOK
<1>2. CASE KillSender
  BY <1>2 DEF KillSender, SizeInv
<1>3. CASE ReceiverStep
  <2>1. UNCHANGED <<sender, src, edits>>
    BY <1>3 DEF ReceiverStep, ReadOffer, Accept, Decline, Prepare, ReadBlock, ReadEnd,
                Publish, Finish, FileFails, ReceiverFails
  <2> QED
    BY <2>1 DEF sender, SizeInv
<1>4. CASE KillReceiver \/ (\E p \in Name : OutsiderWrites(p)) \/ Network \/ UNCHANGED vars
  <2>1. UNCHANGED <<sender, src, edits>>
    BY <1>4 DEF KillReceiver, OutsiderWrites, Network, vars
  <2> QED
    BY <2>1 DEF sender, SizeInv
<1> QED
  BY <1>1, <1>2, <1>3, <1>4

(* The progress bar is never asked to draw more than its width unless a    *)
(* file was edited while the sender ran: what report divides is at most    *)
(* the total that Send was given (Progress.Add, progress.report).          *)
THEOREM NoPanicHolds == Spec => []NoPanicWithoutEdits
<1>1. Init => SizeInv
  BY DEF Init, SizeInv
<1>2. TypeInv /\ LoopInv /\ SizeInv /\ [Next]_vars => SizeInv'
  BY SenderSize, OthersSize DEF Next, Ended
<1>3. SizeInv => NoPanicWithoutEdits
  BY DEF SizeInv, NoPanicWithoutEdits
<1> QED
  BY <1>1, <1>2, <1>3, PhaseCorrect, LoopCorrect, PTL DEF Spec
=============================================================================
