-------------------------------- MODULE Link --------------------------------
(***************************************************************************)
(* The path between two paired peers: the framed connection of            *)
(* internal/comm at either end and, between them, the two copying          *)
(* goroutines of the relay's pipe.  One message is one frame of            *)
(* comm.Send; the two hops and the relay's buffer are a single queue.      *)
(*                                                                         *)
(* What the peers can observe of that path:                                *)
(*   - frames arrive in order, none twice;                                 *)
(*   - a write blocks while the buffers on the way are full;               *)
(*   - after the far end hangs up, the frames it sent before are still     *)
(*     read, then the read fails (end of stream);                          *)
(*   - if an end hangs up with frames it has not read, or is written to    *)
(*     after it hung up, TCP answers with a reset.  The relay then closes  *)
(*     both sockets, and whatever was still in flight may be lost.         *)
(* A network failure has the same effect as a reset.  "broken" stands for  *)
(* either.  With --direct the relay runs inside the sender's process; it   *)
(* dies with it, and so does what it was about to forward.                 *)
(***************************************************************************)
EXTENDS Integers, Sequences

CONSTANTS
  Cap,   \* frames the buffers of one direction hold; bounds the queues
  Hosts  \* the ends whose process also runs the relay (--direct, --tunnel)

ASSUME LinkAssumption ==
  /\ Cap \in Nat \ {0}
  /\ Hosts \subseteq {"left", "right"}

VARIABLES
  chan,    \* chan[e]: the frames on their way to end e
  closed,  \* closed[e]: end e has hung up
  broken   \* a reset or a failure has hit the connection

link == <<chan, closed, broken>>

Ends == {"left", "right"}

Other(e) == IF e = "left" THEN "right" ELSE "left"

LinkInit ==
  /\ chan = [e \in Ends |-> <<>>]
  /\ closed = [e \in Ends |-> FALSE]
  /\ broken = FALSE

-----------------------------------------------------------------------------
(* comm.Send.  A frame written to an end that is gone, or over a broken    *)
(* connection that has not noticed yet, is accepted and lost.              *)

Writable(e) == broken \/ closed[Other(e)] \/ Len(chan[Other(e)]) < Cap

Written(e, m) ==
  IF broken \/ closed[Other(e)]
    THEN chan
    ELSE [chan EXCEPT ![Other(e)] = Append(@, m)]

Send(e, m) ==
  /\ Writable(e)
  /\ chan' = Written(e, m)
  /\ broken' = (broken \/ closed[Other(e)])
  /\ UNCHANGED closed

SendFails == broken

(* comm.Receive                                                            *)

Receive(e) ==
  /\ chan[e] # <<>>
  /\ chan' = [chan EXCEPT ![e] = Tail(@)]
  /\ UNCHANGED <<closed, broken>>

ReceiveFails(e) == chan[e] = <<>> /\ (broken \/ closed[Other(e)])

(* Close, also what the kernel does for a process that dies.  "queues" are *)
(* the frames in flight when e hangs up.                                   *)

HangUp(e, queues) ==
  /\ closed' = [closed EXCEPT ![e] = TRUE]
  /\ chan' = [queues EXCEPT ![e] = <<>>]
  /\ broken' = (broken \/ queues[e] # <<>>)

Close(e) == HangUp(e, chan)

ReceiveAndClose(e) ==
  /\ chan[e] # <<>>
  /\ HangUp(e, [chan EXCEPT ![e] = Tail(@)])

SendAndClose(e, m) ==
  /\ Writable(e)
  /\ HangUp(e, Written(e, m))

-----------------------------------------------------------------------------
(* The network                                                             *)

Fault == ~broken /\ broken' = TRUE /\ UNCHANGED <<chan, closed>>

(* The tail of what is in flight to e never arrives.                       *)
Lose(e) ==
  /\ \/ broken
     \/ closed[Other(e)] /\ Other(e) \in Hosts
  /\ \E k \in 0 .. Len(chan[e]) - 1 :
       chan' = [chan EXCEPT ![e] = SubSeq(@, 1, k)]
  /\ UNCHANGED <<closed, broken>>
=============================================================================
