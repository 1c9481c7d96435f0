------------------------------ MODULE Channel -------------------------------
(***************************************************************************)
(* What a framed connection through the relay promises: messages arrive    *)
(* whole, in order and once; and the stream ends before every message has  *)
(* arrived only if something failed.                                       *)
(***************************************************************************)
EXTENDS Integers, Sequences

CONSTANT Size   \* of a message

VARIABLES
  sent,    \* the messages the sender has begun to send
  got,     \* the messages the receiver was given
  failed,  \* an end was killed or left, or the network failed
  ended    \* the receiver was told that nothing more will come

vars == <<sent, got, failed, ended>>

Init == sent = <<>> /\ got = <<>> /\ failed = FALSE /\ ended = FALSE

Put ==
  /\ \E n \in Size : sent' = Append(sent, n)
  /\ UNCHANGED <<got, failed, ended>>

Take ==
  /\ ~ended
  /\ Len(got) < Len(sent)
  /\ got' = Append(got, sent[Len(got) + 1])
  /\ UNCHANGED <<sent, failed, ended>>

Fail == failed' = TRUE /\ ended' \in {ended, TRUE} /\ UNCHANGED <<sent, got>>

End ==
  /\ got = sent \/ failed
  /\ ended' = TRUE
  /\ UNCHANGED <<sent, got, failed>>

Next == Put \/ Take \/ Fail \/ End

Spec == Init /\ [][Next]_vars
=============================================================================
