------------------------------ MODULE Delivery ------------------------------
(***************************************************************************)
(* What a transfer promises its two users, without saying how: what was    *)
(* listed is offered once; nothing is streamed before the receiver has     *)
(* agreed; the files appear in the directory in the order of the list,     *)
(* each at once and with the content that was listed, and nothing else     *)
(* there changes; the receiver succeeds when all are there, the sender     *)
(* after the receiver; either may fail at any time before.                 *)
(***************************************************************************)
EXTENDS Integers, Sequences

CONSTANTS
  N,         \* files in the transfer
  File,      \* what a list may say of one: a path, a sum
  Name,      \* the names in the receiver's directory
  Content,   \* what may be there under a name
  Absent,    \* nothing there
  Overwrite  \* files that exist may be replaced

VARIABLES
  list,      \* the files on offer, once the list is complete
  sender,    \* how the transfer stands for the sender
  receiver,  \* how it stands for the receiver
  moved,     \* files the receiver has finished with
  dir        \* the receiver's directory

vars == <<list, sender, receiver, moved, dir>>

Init ==
  /\ list = <<>>
  /\ sender = "listing"
  /\ receiver = "idle"
  /\ moved = 0
  /\ dir \in [Name -> Content \cup {Absent}]

List ==
  /\ sender = "listing"
  /\ list' \in [1 .. N -> File]
  /\ sender' = "offering"
  /\ UNCHANGED <<receiver, moved, dir>>

Answer ==
  /\ list # <<>>
  /\ receiver = "idle"
  /\ receiver' \in {"agreed", "declined"}
  /\ UNCHANGED <<list, sender, moved, dir>>

Stream ==
  /\ sender = "offering"
  /\ receiver \notin {"idle", "declined"}
  /\ sender' = "streaming"
  /\ UNCHANGED <<list, receiver, moved, dir>>

Place ==
  LET f == list[moved + 1] IN
    /\ receiver = "agreed"
    /\ moved < N
    /\ f.path \in Name
    /\ Overwrite \/ dir[f.path] = Absent
    /\ dir' = [dir EXCEPT ![f.path] = f.sum]
    /\ moved' = moved + 1
    /\ UNCHANGED <<list, sender, receiver>>

ReceiverSucceeds ==
  /\ receiver = "agreed"
  /\ moved = N
  /\ receiver' = "success"
  /\ UNCHANGED <<list, sender, moved, dir>>

SenderSucceeds ==
  /\ sender = "streaming"
  /\ receiver = "success"
  /\ sender' = "success"
  /\ UNCHANGED <<list, receiver, moved, dir>>

ReceiverFails ==
  /\ receiver \in {"idle", "agreed"}
  /\ receiver' = "failure"
  /\ UNCHANGED <<list, sender, moved, dir>>

SenderFails ==
  /\ sender \in {"listing", "offering", "streaming"}
  /\ sender' = "failure"
  /\ UNCHANGED <<list, receiver, moved, dir>>

Next ==
  \/ List \/ Answer \/ Stream \/ Place
  \/ ReceiverSucceeds \/ SenderSucceeds
  \/ ReceiverFails \/ SenderFails

Spec == Init /\ [][Next]_vars
=============================================================================
