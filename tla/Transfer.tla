------------------------------ MODULE Transfer ------------------------------
(***************************************************************************)
(* The exchange of internal/transfer between a sender and a receiver that  *)
(* have been paired and hold the same key: Send with BuildFileList,        *)
(* describe and sendFile on the left, Receive with receiveFile on the      *)
(* right, over a Link.                                                     *)
(*                                                                         *)
(* A file's content is a sequence of blocks, a block being what one data   *)
(* frame carries; its SHA-256 is the content itself.  "file" in a frame is *)
(* not on the wire and no action reads it: the properties need to know     *)
(* where a frame came from.  The manifest frame carries no copy of the     *)
(* manifest: the sender never changes it once it is sent, so the receiver  *)
(* reads the same value.  Pairing and key agreement  *)
(* are not part of it; they fall between BuildFileList and the offer.      *)
(*                                                                         *)
(* Definitions marked "faulty" are no part of the specification.  Each     *)
(* says what a plausible mistake in the operation below it would do, and   *)
(* is there to be put in its place and break a property.                   *)
(***************************************************************************)
EXTENDS Link, SequencesExt

CONSTANTS
  N,           \* files in the transfer
  Block,       \* what a data frame can carry
  Contents,    \* contents the sender's files may have
  Existing,    \* contents that files of others may have at the receiver
  Path,        \* names the manifest may give a file
  Unsafe,      \* the names that safeJoin refuses ("../x", as "send .." offers)
  Absent,      \* no file there
  Overwrite,   \* --force
  MaxEdits,    \* bound on changes to the sender's files while it runs
  Kills,       \* processes may be killed
  NetFaults,   \* the connection may fail
  DiskFaults,  \* file operations may fail, on either side
  Outsiders    \* other processes write into the receiver's directory

ASSUME TransferAssumption ==
  /\ N \in Nat \ {0}
  /\ Contents \cup Existing \subseteq Seq(Block)
  /\ Absent \notin Seq(Block)
  /\ Unsafe \subseteq Path
  /\ MaxEdits \in Nat
  /\ {Overwrite, Kills, NetFaults, DiskFaults, Outsiders} \subseteq BOOLEAN

VARIABLES
  src,       \* src[i]: the sender's i-th file as it is now
  edits,     \* how many changes src has seen
  manifest,  \* what describe has recorded so far
  stat,      \* size describe has read and not yet recorded
  spc,       \* where the sender is
  si,        \* file the sender is at
  off,       \* blocks of that file already read
  sent,      \* blocks of all files already sent
  rpc,       \* where the receiver is
  ri,        \* file the receiver is at
  tmp,       \* content of the receiver's temporary file
  disk       \* disk[p]: what the receiver's directory holds under name p

sender == <<manifest, stat, spc, si, off, sent>>
receiver == <<rpc, ri, tmp, disk>>
vars == <<link, sender, receiver, src, edits>>

S == "left"
R == "right"
File == 1 .. N
Name == Path \ Unsafe

SenderEnded == {"done", "failed", "panicked", "killed"}
ReceiverEnded == {"done", "failed", "declined", "killed"}

Signal(t) == [type |-> t]
Data(i, b) == [type |-> "data", file |-> i, block |-> b]
EndOf(i) == [type |-> "end", file |-> i]

Init ==
  /\ LinkInit
  /\ src \in [File -> Contents]
  /\ edits = 0
  /\ manifest = <<>>
  /\ stat = 0
  /\ spc = "stat"
  /\ si = 1
  /\ off = 0
  /\ sent = 0
  /\ rpc = "offer"
  /\ ri = 1
  /\ tmp = Absent
  /\ disk \in [Name -> {Absent} \cup Existing]

-----------------------------------------------------------------------------
(* BuildFileList and describe.  The size is read first, the hash after it, *)
(* and the file may change in between.  A name is whatever the arguments   *)
(* make it: two files may get the same one, and it may climb out of the    *)
(* directory.                                                              *)

DescribeStat ==
  /\ spc = "stat"
  /\ src[si] # Absent
  /\ stat' = Len(src[si])
  /\ spc' = "hash"
  /\ UNCHANGED <<link, manifest, si, off, sent, receiver, src, edits>>

DescribeHash ==
  /\ spc = "hash"
  /\ src[si] # Absent
  /\ \E p \in Path :
       manifest' = Append(manifest, [path |-> p, size |-> stat, sum |-> src[si]])
  /\ si' = IF si = N THEN 1 ELSE si + 1
  /\ spc' = IF si = N THEN "offer" ELSE "stat"
  /\ UNCHANGED <<link, stat, off, sent, receiver, src, edits>>

(* Send after the handshake                                                *)

OfferAndStream ==  \* faulty: does not wait for the answer
  /\ spc = "offer"
  /\ Send(S, Signal("manifest"))
  /\ spc' = "open"
  /\ UNCHANGED <<manifest, stat, si, off, sent, receiver, src, edits>>

Offer ==
  /\ spc = "offer"
  /\ Send(S, Signal("manifest"))
  /\ spc' = "answer"
  /\ UNCHANGED <<manifest, stat, si, off, sent, receiver, src, edits>>

ReadAnswer ==
  /\ spc = "answer"
  /\ chan[S] # <<>>
  /\ Head(chan[S]) = Signal("accept")
  /\ Receive(S)
  /\ spc' = "open"
  /\ UNCHANGED <<manifest, stat, si, off, sent, receiver, src, edits>>

(* sendFile                                                                *)

OpenSource ==
  /\ spc = "open"
  /\ src[si] # Absent
  /\ off' = 0
  /\ spc' = "stream"
  /\ UNCHANGED <<link, manifest, stat, si, sent, receiver, src, edits>>

LastSize ==  \* faulty: assigns where it should add
  FoldLeft(LAMBDA n, f : f.size, 0, manifest)

TotalSize == FoldLeft(LAMBDA n, f : n + f.size, 0, manifest)

(* progress.report draws "filled" of BarWidth cells and pads the rest with *)
(* strings.Repeat, which panics when asked for a negative count.  It skips *)
(* drawing when it drew less than 80ms ago and the transfer is not at its  *)
(* end, so an overfull bar may or may not be drawn.                        *)
BarWidth == 30

Overfull(done, total) == total > 0 /\ (done * BarWidth) \div total > BarWidth

SendBlock ==
  /\ spc = "stream"
  /\ off < Len(src[si])
  /\ off' = off + 1
  /\ sent' = sent + 1
  /\ \/ Send(S, Data(si, src[si][off + 1])) /\ spc' = "stream"
     \/ /\ Overfull(sent + 1, TotalSize)
        /\ SendAndClose(S, Data(si, src[si][off + 1]))
        /\ spc' = "panicked"
  /\ UNCHANGED <<manifest, stat, si, receiver, src, edits>>

SendEndUnlessEmpty ==  \* faulty: nothing is sent for an empty file
  /\ spc = "stream"
  /\ off >= Len(src[si])
  /\ IF off = 0 THEN UNCHANGED link ELSE Send(S, EndOf(si))
  /\ si' = si + 1
  /\ spc' = IF si = N THEN "final" ELSE "open"
  /\ UNCHANGED <<manifest, stat, off, sent, receiver, src, edits>>

SendEnd ==
  /\ spc = "stream"
  /\ off >= Len(src[si])
  /\ Send(S, EndOf(si))
  /\ si' = si + 1
  /\ spc' = IF si = N THEN "final" ELSE "open"
  /\ UNCHANGED <<manifest, stat, off, sent, receiver, src, edits>>

ReadFinalUnchecked ==  \* faulty: takes any answer for success
  /\ spc = "final"
  /\ ReceiveAndClose(S)
  /\ spc' = "done"
  /\ UNCHANGED <<manifest, stat, si, off, sent, receiver, src, edits>>

ReadFinal ==
  /\ spc = "final"
  /\ chan[S] # <<>>
  /\ Head(chan[S]) = Signal("accept")
  /\ ReceiveAndClose(S)
  /\ spc' = "done"
  /\ UNCHANGED <<manifest, stat, si, off, sent, receiver, src, edits>>

(* Every error return of Send: a source that is gone or cannot be read,    *)
(* be it half way through it, a write or a read of the connection that     *)
(* fails, an answer other than "accept".                                   *)
SenderFails ==
  /\ \/ /\ \/ spc \in {"stat", "hash", "open"} /\ src[si] = Absent
           \/ spc \in {"stat", "hash", "open", "stream"} /\ DiskFaults
        /\ Close(S)
     \/ /\ spc \in {"offer", "stream"}
        /\ SendFails
        /\ Close(S)
     \/ /\ spc \in {"answer", "final"}
        /\ ReceiveFails(S)
        /\ Close(S)
     \/ /\ spc \in {"answer", "final"}
        /\ chan[S] # <<>>
        /\ Head(chan[S]) # Signal("accept")
        /\ ReceiveAndClose(S)
  /\ spc' = "failed"
  /\ UNCHANGED <<manifest, stat, si, off, sent, receiver, src, edits>>

SenderStep ==
  \/ DescribeStat \/ DescribeHash \/ Offer \/ ReadAnswer \/ OpenSource
  \/ SendBlock \/ SendEnd \/ ReadFinal \/ SenderFails

-----------------------------------------------------------------------------
(* Receive                                                                 *)

ReadOffer ==
  /\ rpc = "offer"
  /\ Receive(R)
  /\ rpc' = "confirm"
  /\ UNCHANGED <<ri, tmp, disk, sender, src, edits>>

Accept ==
  /\ rpc = "confirm"
  /\ Send(R, Signal("accept"))
  /\ rpc' = "check"
  /\ UNCHANGED <<ri, tmp, disk, sender, src, edits>>

Decline ==
  /\ rpc = "confirm"
  /\ SendAndClose(R, Signal("reject"))
  /\ rpc' = "declined"
  /\ UNCHANGED <<ri, tmp, disk, sender, src, edits>>

(* receiveFile.  The temporary file's deferred removal is part of every    *)
(* return: tmp is Absent again.                                            *)

Dest == manifest[ri].path

MayAlwaysWrite(p) == TRUE  \* faulty: overwrites without --force

MayWrite(p) == Overwrite \/ disk[p] = Absent

PrepareInPlace ==  \* faulty: makes the temporary file under the final name
  /\ rpc = "check"
  /\ ri <= N
  /\ Dest \notin Unsafe
  /\ MayWrite(Dest)
  /\ tmp' = <<>>
  /\ disk' = [disk EXCEPT ![Dest] = <<>>]
  /\ rpc' = "recv"
  /\ UNCHANGED <<link, ri, sender, src, edits>>

Prepare ==
  /\ rpc = "check"
  /\ ri <= N
  /\ Dest \notin Unsafe
  /\ MayWrite(Dest)
  /\ tmp' = <<>>
  /\ rpc' = "recv"
  /\ UNCHANGED <<link, ri, disk, sender, src, edits>>

ReadBlock ==
  /\ rpc = "recv"
  /\ chan[R] # <<>>
  /\ Head(chan[R]).type = "data"
  /\ Len(tmp) < manifest[ri].size
  /\ tmp' = Append(tmp, Head(chan[R]).block)
  /\ Receive(R)
  /\ UNCHANGED <<rpc, ri, disk, sender, src, edits>>

ReadEnd ==
  /\ rpc = "recv"
  /\ chan[R] # <<>>
  /\ Head(chan[R]).type = "end"
  /\ Receive(R)
  /\ rpc' = "verify"
  /\ UNCHANGED <<ri, tmp, disk, sender, src, edits>>

SizeMatches == Len(tmp) = manifest[ri].size  \* faulty: no checksum

VerifiedUnlessEmpty ==  \* faulty: takes an empty file for a failure
  tmp # <<>> /\ tmp = manifest[ri].sum

Verified == Len(tmp) = manifest[ri].size /\ tmp = manifest[ri].sum

Publish ==
  /\ rpc = "verify"
  /\ Verified
  /\ disk' = [disk EXCEPT ![Dest] = tmp]
  /\ tmp' = Absent
  /\ ri' = ri + 1
  /\ rpc' = "check"
  /\ UNCHANGED <<link, sender, src, edits>>

Finish ==
  /\ rpc = "check"
  /\ ri = N + 1
  /\ SendAndClose(R, Signal("accept"))
  /\ rpc' = "done"
  /\ UNCHANGED <<ri, tmp, disk, sender, src, edits>>

(* The error returns of receiveFile, which Receive reports to the sender.  *)
(* This sender sends no empty frame and no frame of another type.          *)
FileFails ==
  /\ \/ /\ rpc = "check"
        /\ ri <= N
        /\ Dest \notin Unsafe
        /\ ~MayWrite(Dest) \/ DiskFaults
        /\ SendAndClose(R, Signal("error"))
     \/ /\ rpc = "recv"
        /\ ReceiveFails(R)
        /\ Close(R)
     \/ /\ rpc = "recv"
        /\ chan[R] # <<>>
        /\ Head(chan[R]).type = "data"
        /\ Len(tmp) >= manifest[ri].size \/ DiskFaults
        /\ Writable(R)
        /\ HangUp(R, [Written(R, Signal("error")) EXCEPT ![R] = Tail(@)])
     \/ /\ rpc = "verify"
        /\ ~Verified \/ DiskFaults
        /\ SendAndClose(R, Signal("error"))
  /\ rpc' = "failed"
  /\ tmp' = Absent
  /\ UNCHANGED <<ri, disk, sender, src, edits>>

ReceiverFailsSilently ==  \* faulty: leaves the connection open
  /\ \/ rpc = "offer" /\ ReceiveFails(R)
     \/ rpc = "confirm" /\ SendFails
     \/ rpc = "check" /\ ri = N + 1 /\ SendFails
     \/ rpc = "check" /\ ri <= N /\ Dest \in Unsafe
  /\ rpc' = "failed"
  /\ UNCHANGED <<link, ri, tmp, disk, sender, src, edits>>

(* The error returns of Receive itself, which tell the sender nothing.     *)
ReceiverFails ==
  /\ \/ rpc = "offer" /\ ReceiveFails(R)
     \/ rpc = "confirm" /\ SendFails
     \/ rpc = "check" /\ ri = N + 1 /\ SendFails
     \/ rpc = "check" /\ ri <= N /\ Dest \in Unsafe
  /\ Close(R)
  /\ rpc' = "failed"
  /\ UNCHANGED <<ri, tmp, disk, sender, src, edits>>

ReceiverStep ==
  \/ ReadOffer \/ Accept \/ Decline \/ Prepare \/ ReadBlock \/ ReadEnd
  \/ Publish \/ Finish \/ FileFails \/ ReceiverFails

-----------------------------------------------------------------------------
(* The surroundings                                                        *)

(* A file of the sender changes or disappears.  An open file stays         *)
(* readable when its name goes away.                                       *)
Edit(i) ==
  /\ edits < MaxEdits
  /\ spc \notin SenderEnded
  /\ \E c \in Contents \cup {Absent} :
       /\ c = Absent => ~(spc = "stream" /\ si = i)
       /\ src' = [src EXCEPT ![i] = c]
  /\ edits' = edits + 1
  /\ UNCHANGED <<link, sender, receiver>>

(* A process is killed.  No deferred call runs; the kernel hangs up.       *)
KillSender ==
  /\ Kills
  /\ spc \notin SenderEnded
  /\ spc' = "killed"
  /\ Close(S)
  /\ UNCHANGED <<manifest, stat, si, off, sent, receiver, src, edits>>

KillReceiver ==
  /\ Kills
  /\ rpc \notin ReceiverEnded
  /\ rpc' = "killed"
  /\ Close(R)
  /\ UNCHANGED <<ri, tmp, disk, sender, src, edits>>

OutsiderWrites(p) ==
  /\ Outsiders
  /\ disk[p] = Absent
  /\ \E c \in Existing : disk' = [disk EXCEPT ![p] = c]
  /\ UNCHANGED <<link, rpc, ri, tmp, sender, src, edits>>

Network ==
  /\ \/ NetFaults /\ Fault
     \/ \E e \in Ends : Lose(e)
  /\ UNCHANGED <<sender, receiver, src, edits>>

(* Both processes have exited.                                             *)
Ended ==
  /\ spc \in SenderEnded
  /\ rpc \in ReceiverEnded
  /\ UNCHANGED vars

Next ==
  \/ SenderStep
  \/ ReceiverStep
  \/ \E i \in File : Edit(i)
  \/ KillSender
  \/ KillReceiver
  \/ \E p \in Name : OutsiderWrites(p)
  \/ Network
  \/ Ended

Spec == Init /\ [][Next]_vars

(* Both programs run as long as they can: a system call that can complete  *)
(* does, and the user answers the prompt.  Nothing is assumed of edits,    *)
(* kills, the network or other processes.                                  *)
FairSpec == Spec /\ WF_vars(SenderStep) /\ WF_vars(ReceiverStep)

-----------------------------------------------------------------------------
(* Properties                                                              *)

Frame ==
  [type : {"manifest", "accept", "reject", "error"}]
    \cup [type : {"end"}, file : File]
    \cup [type : {"data"}, file : File, block : Block]

FileInfo == [path : Path, size : Nat, sum : Contents]

(* Every variable has its type.                                            *)
TypeOK ==
  /\ chan \in [Ends -> Seq(Frame)]
  /\ closed \in [Ends -> BOOLEAN]
  /\ broken \in BOOLEAN
  /\ src \in [File -> Contents \cup {Absent}]
  /\ edits \in Nat
  /\ manifest \in Seq(FileInfo)
  /\ Len(manifest) <= N
  /\ stat \in Nat
  /\ spc \in {"stat", "hash", "offer", "answer", "open", "stream", "final"}
             \cup SenderEnded
  /\ si \in 1 .. N + 1
  /\ off \in Nat
  /\ sent \in Nat
  /\ rpc \in {"offer", "confirm", "check", "recv", "verify"} \cup ReceiverEnded
  /\ ri \in 1 .. N + 1
  /\ tmp \in Seq(Block) \cup {Absent}
  /\ disk \in [Name -> Contents \cup Existing \cup {Absent}]

(* The sender streams nothing before the receiver's user has agreed, and   *)
(* nothing at all to one that declined ("asked before any file data        *)
(* arrives", ReceiveOptions.Confirm).                                      *)
Consent ==
  spc \in {"open", "stream", "final", "done", "panicked"} =>
    rpc \notin {"offer", "confirm", "declined"}

Delivered(i) ==
  /\ manifest[i].path \in Name
  /\ disk[manifest[i].path] = manifest[i].sum

DistinctNames ==
  \A i, j \in DOMAIN manifest : manifest[i].path = manifest[j].path => i = j

(* Send reports success only after the receiver has, and then every file   *)
(* of the manifest is in place with the content that was hashed, whatever  *)
(* was edited, lost or killed on the way.  With --force this needs the     *)
(* names to differ.                                                        *)
CompleteMeansDelivered ==
  spc = "done" /\ (Overwrite => DistinctNames) =>
    /\ rpc = "done"
    /\ \A i \in File : Delivered(i)

(* The same without the condition, as the comments on Send and Receive     *)
(* have it.                                                                *)
CompleteMeansAllDelivered ==
  spc = "done" => \A i \in File : Delivered(i)

(* A receiver that stops half way, for whatever reason, leaves the files   *)
(* it has moved past complete ("never leaves a half-written file behind"). *)
PrefixDelivered ==
  rpc # "offer" /\ (Overwrite => DistinctNames) => \A i \in 1 .. ri - 1 : Delivered(i)

(* Without --force no file that exists in the directory is ever changed.   *)
ExistingKept ==
  [][~Overwrite => \A p \in Name : disk[p] # Absent => disk'[p] = disk[p]]_vars

(* Seen from outside, a transfer does what Delivery says: every file comes *)
(* into the directory at once, whole and in its turn, only after both      *)
(* sides have agreed, and nobody succeeds before everything is there.      *)
Promise == INSTANCE Delivery WITH
  File <- FileInfo,
  Content <- Contents \cup Existing,
  list <- IF Len(manifest) = N THEN manifest ELSE <<>>,
  sender <- CASE spc \in {"stat", "hash"} -> "listing"
              [] spc \in {"offer", "answer"} -> "offering"
              [] spc \in {"open", "stream", "final"} -> "streaming"
              [] spc = "done" -> "success"
              [] OTHER -> "failure",
  receiver <- CASE rpc \in {"offer", "confirm"} -> "idle"
                [] rpc \in {"check", "recv", "verify"} -> "agreed"
                [] rpc = "declined" -> "declined"
                [] rpc = "done" -> "success"
                [] OTHER -> "failure",
  moved <- ri - 1,
  dir <- disk

Implements == Promise!Spec

(* The two loops over the files stay in step: the receiver never takes a   *)
(* frame of one file for a frame of another, although frames do not say    *)
(* which file they belong to.                                              *)
InStep ==
  rpc = "recv" /\ chan[R] # <<>> => Head(chan[R]).file = ri

(* The progress bar is never asked to draw more than its width unless a    *)
(* file grew after it was measured.                                        *)
NoPanicWithoutEdits == edits = 0 => spc # "panicked"

(* The progress bar always draws.                                          *)
ProgressDraws == spc # "panicked"

(* Both programs end, whatever fails, is killed, edited or declined: no    *)
(* write and no read blocks for ever.                                      *)
Termination == <>(spc \in SenderEnded /\ rpc \in ReceiverEnded)

(* Nothing in the way of the transfer: the files are still what the        *)
(* manifest says, and the names can be written.                            *)
Unobstructed ==
  /\ Len(manifest) = N
  /\ DistinctNames
  /\ \A i \in File :
       /\ manifest[i].path \in Name
       /\ src[i] = manifest[i].sum
       /\ Len(src[i]) = manifest[i].size

(* An accepted offer is delivered, and both sides report it, unless        *)
(* something gets in the way after the answer was sent.                    *)
AcceptedIsDelivered ==
  (rpc = "check" /\ spc = "answer" /\ []Unobstructed) ~>
    (spc = "done" /\ rpc = "done")
=============================================================================
