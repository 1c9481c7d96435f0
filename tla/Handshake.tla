----------------------------- MODULE Handshake ------------------------------
(***************************************************************************)
(* What two clients do once the relay has paired them: handshake and       *)
(* confirmKeys of internal/transfer, with the key agreement of Spake2 and  *)
(* the cipher of internal/crypt, over a Link.                              *)
(*                                                                         *)
(* The relay pairs any two clients that name the same room.  Nothing stops *)
(* two senders or two receivers from being paired, nor two that were given *)
(* codes that agree in the room only.                                      *)
(*                                                                         *)
(* Definitions marked "faulty" are no part of the specification.  Each     *)
(* says what a plausible mistake in the operation below it would do, and   *)
(* is there to be put in its place and break a property.                   *)
(***************************************************************************)
EXTENDS Link, Spake2

CONSTANTS
  Secret,     \* values the ephemeral secret may take
  Code,       \* scalars of the codes that name the room
  Salt,       \* values of the salt
  None,       \* no key, no salt
  Kills,      \* processes may be killed
  NetFaults   \* the connection may fail

ASSUME HandshakeAssumption ==
  /\ Secret \cup Code \subseteq Scalar
  /\ None \notin Salt \cup [first : Point, second : Point, point : Point, password : Scalar]
  /\ {Kills, NetFaults} \subseteq BOOLEAN

VARIABLES
  role,    \* role[e]: the role end e plays, by the command it was started with
  code,    \* code[e]: the code it was given
  pc,      \* pc[e]: where it is
  x,       \* x[e]: its secret
  key,     \* key[e]: its session key
  salt     \* salt[e]: the salt it uses

vars == <<link, role, code, pc, x, key, salt>>

Stopped == {"ready", "failed", "mismatch", "killed"}

ShareMsg(p) == [type |-> "share", point |-> p]
SaltMsg(s) == [type |-> "salt", salt |-> s]

(* crypt.New and Seal.  Open succeeds exactly for the same key and salt.   *)
Sealed(e, text) ==
  [type |-> "sealed", key |-> key[e], salt |-> salt[e], text |-> text]

Init ==
  /\ LinkInit
  /\ role \in [Ends -> Role]
  /\ code \in [Ends -> Code]
  /\ pc = [e \in Ends |-> "share"]
  /\ x = [e \in Ends |-> 0]
  /\ key = [e \in Ends |-> None]
  /\ salt = [e \in Ends |-> None]

Goto(e, l) == pc' = [pc EXCEPT ![e] = l]

-----------------------------------------------------------------------------
SendShare(e) ==
  /\ pc[e] = "share"
  /\ \E v \in Secret :
       /\ x' = [x EXCEPT ![e] = v]
       /\ Send(e, ShareMsg(Share(role[e], v, code[e])))
  /\ Goto(e, "peer")
  /\ UNCHANGED <<role, code, key, salt>>

ReadShare(e) ==
  /\ pc[e] = "peer"
  /\ Receive(e)
  /\ key' = [key EXCEPT ![e] = Key(role[e], x[e], code[e], Head(chan[e]).point)]
  /\ Goto(e, "salt")
  /\ UNCHANGED <<role, code, x, salt>>

SendSalt(e) ==
  /\ pc[e] = "salt"
  /\ role[e] = "A"
  /\ \E s \in Salt :
       /\ salt' = [salt EXCEPT ![e] = s]
       /\ Send(e, SaltMsg(s))
  /\ Goto(e, "confirm")
  /\ UNCHANGED <<role, code, x, key>>

ReadSaltRaw(e) ==  \* faulty: keeps the frame, not the salt in it
  /\ pc[e] = "salt"
  /\ role[e] = "B"
  /\ Receive(e)
  /\ salt' = [salt EXCEPT ![e] = Head(chan[e])]
  /\ Goto(e, "confirm")
  /\ UNCHANGED <<role, code, x, key>>

ReadSalt(e) ==
  /\ pc[e] = "salt"
  /\ role[e] = "B"
  /\ Receive(e)
  /\ salt' = [salt EXCEPT ![e] = Head(chan[e]).salt]
  /\ Goto(e, "confirm")
  /\ UNCHANGED <<role, code, x, key>>

(* confirmKeys                                                             *)

SendConfirm(e) ==
  /\ pc[e] = "confirm"
  /\ Send(e, Sealed(e, role[e]))
  /\ Goto(e, "check")
  /\ UNCHANGED <<role, code, x, key, salt>>

ReadAnyConfirm(e) ==  \* faulty: does not look at what was confirmed
  /\ pc[e] = "check"
  /\ Receive(e)
  /\ Goto(e, "ready")
  /\ UNCHANGED <<role, code, x, key, salt>>

ReadConfirm(e) ==
  /\ pc[e] = "check"
  /\ chan[e] # <<>>
  /\ Head(chan[e]) = Sealed(e, OtherRole(role[e]))
  /\ Receive(e)
  /\ Goto(e, "ready")
  /\ UNCHANGED <<role, code, x, key, salt>>

(* "the code did not match on the other side", for a confirmation that     *)
(* does not open or says something else, and for one that never came       *)
Mismatch(e) ==
  /\ pc[e] = "check"
  /\ \/ ReceiveFails(e) /\ Close(e)
     \/ /\ chan[e] # <<>>
        /\ Head(chan[e]) # Sealed(e, OtherRole(role[e]))
        /\ ReceiveAndClose(e)
  /\ Goto(e, "mismatch")
  /\ UNCHANGED <<role, code, x, key, salt>>

WriteFails(e) ==
  SendFails /\ (pc[e] \in {"share", "confirm"} \/ (pc[e] = "salt" /\ role[e] = "A"))

ReadFails(e) ==
  ReceiveFails(e) /\ (pc[e] = "peer" \/ (pc[e] = "salt" /\ role[e] = "B"))

FailsToWrite(e) ==  \* faulty: tries again to read what will not come
  /\ WriteFails(e)
  /\ Close(e)
  /\ Goto(e, "failed")
  /\ UNCHANGED <<role, code, x, key, salt>>

(* Every other error: a write or a read that fails                         *)
Fails(e) ==
  /\ WriteFails(e) \/ ReadFails(e)
  /\ Close(e)
  /\ Goto(e, "failed")
  /\ UNCHANGED <<role, code, x, key, salt>>

Step(e) ==
  \/ SendShare(e) \/ ReadShare(e) \/ SendSalt(e) \/ ReadSalt(e)
  \/ SendConfirm(e) \/ ReadConfirm(e) \/ Mismatch(e) \/ Fails(e)

-----------------------------------------------------------------------------
Kill(e) ==
  /\ Kills
  /\ pc[e] \notin Stopped
  /\ Close(e)
  /\ Goto(e, "killed")
  /\ UNCHANGED <<role, code, x, key, salt>>

Network ==
  /\ \/ NetFaults /\ Fault
     \/ \E e \in Ends : Lose(e)
  /\ UNCHANGED <<role, code, pc, x, key, salt>>

Over ==
  /\ \A e \in Ends : pc[e] \in Stopped
  /\ UNCHANGED vars

Next ==
  \/ \E e \in Ends : Step(e) \/ Kill(e)
  \/ Network
  \/ Over

Spec == Init /\ [][Next]_vars

(* Both programs run; a write or a read that can complete does.            *)
FairSpec == Spec /\ \A e \in Ends : WF_vars(Step(e))

-----------------------------------------------------------------------------
(* Properties                                                              *)

SessionKey == [first : Point, second : Point, point : Point, password : Scalar]

Message ==
  [type : {"share"}, point : Point]
    \cup [type : {"salt"}, salt : Salt]
    \cup [type : {"sealed"}, key : SessionKey, salt : Salt, text : Role]

(* Every variable has its type, and there are a key and a salt when they   *)
(* are used.                                                               *)
TypeOK ==
  /\ chan \in [Ends -> Seq(Message)]
  /\ closed \in [Ends -> BOOLEAN]
  /\ broken \in BOOLEAN
  /\ role \in [Ends -> Role]
  /\ code \in [Ends -> Code]
  /\ pc \in [Ends -> {"share", "peer", "salt", "confirm", "check"} \cup Stopped]
  /\ x \in [Ends -> Scalar]
  /\ key \in [Ends -> SessionKey \cup {None}]
  /\ salt \in [Ends -> Salt \cup {None}]
  /\ \A e \in Ends : pc[e] \in {"confirm", "check", "ready"} =>
       key[e] \in SessionKey /\ salt[e] \in Salt

OneSender == role["left"] # role["right"]
SameCode == code["left"] = code["right"]

(* A side that takes the key for good has a peer that holds the same key,  *)
(* used the same code and salt, and plays the other role.                  *)
ReadyMeansAgreed ==
  \A e \in Ends : pc[e] = "ready" =>
    /\ key[Other(e)] = key[e] /\ salt[Other(e)] = salt[e]
    /\ OneSender /\ SameCode

(* Nothing but the two programs has had a hand in it.                      *)
Undisturbed == ~broken /\ \A e \in Ends : pc[e] # "killed"

(* A sender and a receiver with the same code get to use the connection,   *)
(* unless something fails: neither blocks on the other.                    *)
SameCodeConnects ==
  OneSender /\ SameCode /\ []Undisturbed ~> \A e \in Ends : pc[e] = "ready"

(* A sender and a receiver with different codes are both told so           *)
(* ("turns a mistyped code into a clear error"), unless something fails.   *)
MistypedCodeIsReported ==
  OneSender /\ ~SameCode /\ []Undisturbed ~> \A e \in Ends : pc[e] = "mismatch"

(* The handshake of a sender and a receiver ends on both sides, whatever   *)
(* fails or is killed.                                                     *)
HandshakeEnds == OneSender ~> \A e \in Ends : pc[e] \in Stopped

(* The code is blamed only when the codes do differ, as the text of the    *)
(* error has it.                                                           *)
BlamesTheCodeRightly ==
  \A e \in Ends : pc[e] = "mismatch" => ~SameCode \/ ~OneSender
=============================================================================
