------------------------------- MODULE Relay --------------------------------
(***************************************************************************)
(* The relay server of internal/relay with the clients that connect to it. *)
(* Every connection has a handler goroutine (Server.handle); the handler   *)
(* of a connection that finds nobody in its room leaves it in the map      *)
(* "waiting", arms a timer (expireAfter) and returns, and the handler of   *)
(* the connection that finds it there serves both from then on: it tells   *)
(* each that it is paired and then copies between them with two goroutines *)
(* (pipe).  The mutex guards the map only, so its critical sections are    *)
(* single steps and everything else interleaves.                           *)
(*                                                                         *)
(* A client here is what the relay can see of one: it says hello, names a  *)
(* room, reads, may then say something to its peer, and may hang up or     *)
(* fall silent at any point.                                               *)
(*                                                                         *)
(* Definitions marked "faulty" are no part of the specification.  Each     *)
(* says what a plausible mistake in the operation below it would do, and   *)
(* is there to be put in its place and break a property.                   *)
(***************************************************************************)
EXTENDS Integers, Sequences

CONSTANTS
  Conn,  \* the connections clients make
  Room,  \* room names
  None   \* no connection, no room

ASSUME RelayAssumption == None \notin Conn \cup Room

VARIABLES
  client,   \* client[c]: what the client at the far end of c is doing
  inbox,    \* inbox[c]: what c's client sent and the relay has not read
  outbox,   \* outbox[c]: what the relay sent and c's client has not read
  heard,    \* heard[c]: the clients whose words c's client has read
  open,     \* open[c]: the relay has accepted c and not closed it
  hpc,      \* hpc[c]: where c's handler is
  room,     \* room[c]: the room c's handler has read
  mate,     \* mate[c]: the connection c was paired with
  waiting,  \* Server.waiting
  timer,    \* timer[c]: the timer expireAfter set for c
  copier    \* copier[c]: the goroutine of pipe that reads c

clients == <<client, heard>>
wires == <<inbox, outbox, open>>
server == <<hpc, room, mate, waiting, timer, copier>>
vars == <<clients, wires, server>>

Greeting == [type |-> "greeting"]
Noise == [type |-> "noise"]   \* a wrong greeting, or an empty room name
Named(r) == [type |-> "room", room |-> r]
Paired == [type |-> "paired"]
Words(c) == [type |-> "words", from |-> c]

Init ==
  /\ client = [c \in Conn |-> "off"]
  /\ inbox = [c \in Conn |-> <<>>]
  /\ outbox = [c \in Conn |-> <<>>]
  /\ heard = [c \in Conn |-> {}]
  /\ open = [c \in Conn |-> FALSE]
  /\ hpc = [c \in Conn |-> "off"]
  /\ room = [c \in Conn |-> None]
  /\ mate = [c \in Conn |-> None]
  /\ waiting = [r \in Room |-> None]
  /\ timer = [c \in Conn |-> "off"]
  /\ copier = [c \in Conn |-> "off"]

-----------------------------------------------------------------------------
(* Clients                                                                 *)

(* The listener accepts the connection and starts its handler.             *)
Dial(c) ==
  /\ client[c] = "off"
  /\ client' = [client EXCEPT ![c] = "hello"]
  /\ open' = [open EXCEPT ![c] = TRUE]
  /\ hpc' = [hpc EXCEPT ![c] = "greeting"]
  /\ UNCHANGED <<inbox, outbox, heard, room, mate, waiting, timer, copier>>

(* A frame to a connection the relay has closed is lost.                   *)
Says(c, m) ==
  inbox' = IF open[c] THEN [inbox EXCEPT ![c] = Append(@, m)] ELSE inbox

(* connect: the greeting, the room, then it waits to be told.              *)
Speak(c) ==
  /\ \/ /\ client[c] = "hello"
        /\ Says(c, Greeting)
        /\ client' = [client EXCEPT ![c] = "name"]
     \/ /\ client[c] = "name"
        /\ \E r \in Room : Says(c, Named(r))
        /\ client' = [client EXCEPT ![c] = "wait"]
     \/ /\ client[c] \in {"hello", "name"}
        /\ Says(c, Noise)
        /\ client' = [client EXCEPT ![c] = "wait"]
     \/ /\ client[c] = "paired"
        /\ Says(c, Words(c))
        /\ client' = [client EXCEPT ![c] = "spoke"]
  /\ UNCHANGED <<outbox, heard, open, server>>

Listen(c) ==
  /\ client[c] \in {"wait", "paired", "spoke"}
  /\ outbox[c] # <<>>
  /\ outbox' = [outbox EXCEPT ![c] = Tail(@)]
  /\ IF Head(outbox[c]) = Paired
       THEN /\ client' = [client EXCEPT ![c] = "paired"]
            /\ UNCHANGED heard
       ELSE /\ heard' = [heard EXCEPT ![c] = @ \cup {Head(outbox[c]).from}]
            /\ UNCHANGED client
  /\ UNCHANGED <<inbox, open, server>>

HangsUp(c) ==
  /\ client' = [client EXCEPT ![c] = "gone"]
  /\ outbox' = [outbox EXCEPT ![c] = <<>>]
  /\ UNCHANGED <<heard, inbox, open, server>>

Leave(c) == client[c] \notin {"off", "gone"} /\ HangsUp(c)

(* The end of the stream                                                   *)
Dropped(c) ==
  client[c] \notin {"off", "gone"} /\ ~open[c] /\ outbox[c] = <<>> /\ HangsUp(c)

(* The connection of a client that is gone may be reset, and then what it  *)
(* sent and nobody has read is lost.                                       *)
Reset(c) ==
  /\ client[c] = "gone"
  /\ inbox[c] # <<>>
  /\ inbox' = [inbox EXCEPT ![c] = <<>>]
  /\ UNCHANGED <<clients, outbox, open, server>>

-----------------------------------------------------------------------------
(* Server.handle                                                           *)

CloseAll(C) ==
  /\ open' = [c \in Conn |-> open[c] /\ c \notin C]
  /\ inbox' = [c \in Conn |-> IF c \in C THEN <<>> ELSE inbox[c]]

ReadGreeting(c) ==
  /\ hpc[c] = "greeting"
  /\ inbox[c] # <<>>
  /\ Head(inbox[c]) = Greeting
  /\ inbox' = [inbox EXCEPT ![c] = Tail(@)]
  /\ hpc' = [hpc EXCEPT ![c] = "room"]
  /\ UNCHANGED <<clients, outbox, open, room, mate, waiting, timer, copier>>

ReadRoomRaw(c) ==  \* faulty: keeps the frame, not the name in it
  /\ hpc[c] = "room"
  /\ inbox[c] # <<>>
  /\ Head(inbox[c]).type = "room"
  /\ room' = [room EXCEPT ![c] = Head(inbox[c])]
  /\ inbox' = [inbox EXCEPT ![c] = Tail(@)]
  /\ hpc' = [hpc EXCEPT ![c] = "join"]
  /\ UNCHANGED <<clients, outbox, open, mate, waiting, timer, copier>>

ReadRoom(c) ==
  /\ hpc[c] = "room"
  /\ inbox[c] # <<>>
  /\ Head(inbox[c]).type = "room"
  /\ room' = [room EXCEPT ![c] = Head(inbox[c]).room]
  /\ inbox' = [inbox EXCEPT ![c] = Tail(@)]
  /\ hpc' = [hpc EXCEPT ![c] = "join"]
  /\ UNCHANGED <<clients, outbox, open, mate, waiting, timer, copier>>

(* A wrong greeting, an empty room, the end of the stream, or 30 seconds   *)
(* without either frame, which may be up before anything else happens.     *)
Reject(c) ==
  /\ hpc[c] \in {"greeting", "room"}
  /\ hpc' = [hpc EXCEPT ![c] = "rejected"]
  /\ CloseAll({c})
  /\ UNCHANGED <<clients, outbox, room, mate, waiting, timer, copier>>

JoinKeeps(c) ==  \* faulty: leaves the partner in the map
  /\ hpc[c] = "join"
  /\ LET partner == waiting[room[c]] IN
       IF partner # None
         THEN /\ mate' = [mate EXCEPT ![c] = partner, ![partner] = c]
              /\ hpc' = [hpc EXCEPT ![c] = "tellPartner"]
              /\ UNCHANGED waiting
         ELSE /\ waiting' = [waiting EXCEPT ![room[c]] = c]
              /\ hpc' = [hpc EXCEPT ![c] = "arm"]
              /\ UNCHANGED mate
  /\ UNCHANGED <<clients, wires, room, timer, copier>>

(* The critical section                                                    *)
Join(c) ==
  /\ hpc[c] = "join"
  /\ LET partner == waiting[room[c]] IN
       IF partner # None
         THEN /\ waiting' = [waiting EXCEPT ![room[c]] = None]
              /\ mate' = [mate EXCEPT ![c] = partner, ![partner] = c]
              /\ hpc' = [hpc EXCEPT ![c] = "tellPartner"]
         ELSE /\ waiting' = [waiting EXCEPT ![room[c]] = c]
              /\ hpc' = [hpc EXCEPT ![c] = "arm"]
              /\ UNCHANGED mate
  /\ UNCHANGED <<clients, wires, room, timer, copier>>

ArmNothing(c) ==  \* faulty: sets no timer
  /\ hpc[c] = "arm"
  /\ hpc' = [hpc EXCEPT ![c] = "returned"]
  /\ UNCHANGED <<clients, wires, room, mate, waiting, timer, copier>>

(* expireAfter, after which the handler is gone                            *)
Arm(c) ==
  /\ hpc[c] = "arm"
  /\ timer' = [timer EXCEPT ![c] = "armed"]
  /\ hpc' = [hpc EXCEPT ![c] = "returned"]
  /\ UNCHANGED <<clients, wires, room, mate, waiting, copier>>

(* A write to a client that is gone succeeds until the reset is back.      *)
Sent(d, m) ==
  outbox' = IF client[d] = "gone" THEN outbox
                                  ELSE [outbox EXCEPT ![d] = Append(@, m)]

TellPartnerAndCopy(c) ==  \* faulty: copies before both are told
  /\ hpc[c] = "tellPartner"
  /\ Sent(mate[c], Paired)
  /\ hpc' = [hpc EXCEPT ![c] = "tellSelf"]
  /\ copier' = [copier EXCEPT ![mate[c]] = "copy"]
  /\ UNCHANGED <<clients, inbox, open, room, mate, waiting, timer>>

TellPartner(c) ==
  /\ hpc[c] = "tellPartner"
  /\ Sent(mate[c], Paired)
  /\ hpc' = [hpc EXCEPT ![c] = "tellSelf"]
  /\ UNCHANGED <<clients, inbox, open, room, mate, waiting, timer, copier>>

TellSelf(c) ==
  /\ hpc[c] = "tellSelf"
  /\ Sent(c, Paired)
  /\ hpc' = [hpc EXCEPT ![c] = "pipe"]
  /\ copier' = [copier EXCEPT ![c] = "copy", ![mate[c]] = "copy"]
  /\ UNCHANGED <<clients, inbox, open, room, mate, waiting, timer>>

TellFailsHalf(c) ==  \* faulty: closes one of the two
  /\ \/ hpc[c] = "tellPartner" /\ client[mate[c]] = "gone"
     \/ hpc[c] = "tellSelf" /\ client[c] = "gone"
  /\ CloseAll({mate[c]})
  /\ hpc' = [hpc EXCEPT ![c] = "returned"]
  /\ UNCHANGED <<clients, outbox, room, mate, waiting, timer, copier>>

TellFails(c) ==
  /\ \/ hpc[c] = "tellPartner" /\ client[mate[c]] = "gone"
     \/ hpc[c] = "tellSelf" /\ client[c] = "gone"
  /\ CloseAll({c, mate[c]})
  /\ hpc' = [hpc EXCEPT ![c] = "returned"]
  /\ UNCHANGED <<clients, outbox, room, mate, waiting, timer, copier>>

PipeReturns(c) ==
  /\ hpc[c] = "pipe"
  /\ copier[c] = "done"
  /\ copier[mate[c]] = "done"
  /\ hpc' = [hpc EXCEPT ![c] = "returned"]
  /\ UNCHANGED <<clients, wires, room, mate, waiting, timer, copier>>

Handle(c) ==
  \/ ReadGreeting(c) \/ ReadRoom(c) \/ Reject(c) \/ Join(c) \/ Arm(c)
  \/ TellPartner(c) \/ TellSelf(c) \/ TellFails(c) \/ PipeReturns(c)

(* copyOnce with c as its source                                           *)
Copy(c) ==
  /\ copier[c] = "copy"
  /\ inbox[c] # <<>>
  /\ Sent(mate[c], Head(inbox[c]))
  /\ inbox' = [inbox EXCEPT ![c] = Tail(@)]
  /\ UNCHANGED <<clients, open, server>>

CopyEndsOnly(c) ==  \* faulty: leaves the destination open
  /\ copier[c] = "copy"
  /\ \/ ~open[c]
     \/ inbox[c] = <<>> /\ client[c] = "gone"
     \/ inbox[c] # <<>> /\ client[mate[c]] = "gone"
  /\ copier' = [copier EXCEPT ![c] = "closing"]
  /\ UNCHANGED <<clients, wires, hpc, room, mate, waiting, timer>>

(* io.Copy returns, and the destination is closed; the source after it.    *)
CopyEnds(c) ==
  /\ copier[c] = "copy"
  /\ \/ ~open[c]
     \/ inbox[c] = <<>> /\ client[c] = "gone"
     \/ inbox[c] # <<>> /\ client[mate[c]] = "gone"
  /\ CloseAll({mate[c]})
  /\ copier' = [copier EXCEPT ![c] = "closing"]
  /\ UNCHANGED <<clients, outbox, hpc, room, mate, waiting, timer>>

CloseSource(c) ==
  /\ copier[c] = "closing"
  /\ CloseAll({c})
  /\ copier' = [copier EXCEPT ![c] = "done"]
  /\ UNCHANGED <<clients, outbox, hpc, room, mate, waiting, timer>>

ExpireAlways(c) ==  \* faulty: does not look who waits in the room
  /\ timer[c] = "armed"
  /\ waiting' = [waiting EXCEPT ![room[c]] = None]
  /\ timer' = [timer EXCEPT ![c] = "closing"]
  /\ UNCHANGED <<clients, wires, hpc, room, mate, copier>>

ExpireForgets(c) ==  \* faulty: leaves the connection in the map
  /\ timer[c] = "armed"
  /\ timer' = [timer EXCEPT ![c] = IF waiting[room[c]] = c THEN "closing" ELSE "done"]
  /\ UNCHANGED <<clients, wires, hpc, room, mate, waiting, copier>>

(* The timer of expireAfter: it looks at the map under the lock and closes *)
(* the connection after it.                                                *)
Expire(c) ==
  /\ timer[c] = "armed"
  /\ IF waiting[room[c]] = c
       THEN /\ waiting' = [waiting EXCEPT ![room[c]] = None]
            /\ timer' = [timer EXCEPT ![c] = "closing"]
       ELSE /\ timer' = [timer EXCEPT ![c] = "done"]
            /\ UNCHANGED waiting
  /\ UNCHANGED <<clients, wires, hpc, room, mate, copier>>

CloseExpired(c) ==
  /\ timer[c] = "closing"
  /\ CloseAll({c})
  /\ timer' = [timer EXCEPT ![c] = "done"]
  /\ UNCHANGED <<clients, outbox, hpc, room, mate, waiting, copier>>

-----------------------------------------------------------------------------
(* Every client has come and gone, and every goroutine and timer ended.    *)
Quiet ==
  /\ \A c \in Conn : client[c] = "gone" /\ ~open[c] /\ timer[c] \in {"off", "done"}
  /\ \A c \in Conn : hpc[c] \in {"rejected", "returned"} /\ copier[c] \in {"off", "done"}
  /\ UNCHANGED vars

Next ==
  \/ \E c \in Conn :
       \/ Dial(c) \/ Speak(c) \/ Listen(c) \/ Leave(c) \/ Dropped(c) \/ Reset(c)
       \/ Handle(c)
       \/ Copy(c) \/ CopyEnds(c) \/ CloseSource(c)
       \/ Expire(c) \/ CloseExpired(c)
  \/ Quiet

Spec == Init /\ [][Next]_vars

(* Goroutines run, timers go off, and a client reads what it is sent.      *)
(* Clients need not dial, speak or leave.                                  *)
FairSpec ==
  /\ Spec
  /\ \A c \in Conn :
       /\ WF_vars(Handle(c))
       /\ WF_vars(Copy(c) \/ CopyEnds(c) \/ CloseSource(c))
       /\ WF_vars(Expire(c) \/ CloseExpired(c))
       /\ WF_vars(Listen(c) \/ Dropped(c))

-----------------------------------------------------------------------------
(* Properties                                                              *)

ConnOrNone == Conn \cup {None}

Message ==
  [type : {"greeting", "noise", "paired"}]
    \cup [type : {"room"}, room : Room]
    \cup [type : {"words"}, from : Conn]

Joined == {"arm", "tellPartner", "tellSelf", "pipe", "returned"}

(* Every variable has its type.                                            *)
TypeOK ==
  /\ client \in [Conn -> {"off", "hello", "name", "wait", "paired", "spoke", "gone"}]
  /\ inbox \in [Conn -> Seq(Message)]
  /\ outbox \in [Conn -> Seq(Message)]
  /\ heard \in [Conn -> SUBSET Conn]
  /\ open \in [Conn -> BOOLEAN]
  /\ hpc \in [Conn -> {"off", "greeting", "room", "join", "rejected"} \cup Joined]
  /\ room \in [Conn -> Room \cup {None}]
  /\ mate \in [Conn -> ConnOrNone]
  /\ waiting \in [Room -> ConnOrNone]
  /\ timer \in [Conn -> {"off", "armed", "closing", "done"}]
  /\ copier \in [Conn -> {"off", "copy", "closing", "done"}]

(* Pairing is mutual, within one room, and of two connections that have    *)
(* both joined; nobody has two partners.                                   *)
Matched ==
  \A c \in Conn : mate[c] # None =>
    /\ mate[c] # c
    /\ mate[mate[c]] = c
    /\ room[mate[c]] = room[c] /\ room[c] # None
    /\ hpc[c] \in Joined

(* A connection in the map is open, unpaired, in its own room only, and    *)
(* its handler has set its timer or is about to.                           *)
WaitingSound ==
  \A r \in Room : waiting[r] # None =>
    LET c == waiting[r] IN
      /\ open[c]
      /\ mate[c] = None
      /\ room[c] = r
      /\ hpc[c] = "arm" \/ (hpc[c] = "returned" /\ timer[c] = "armed")

(* A connection whose handler is gone and that is still open belongs to    *)
(* somebody: it is in the map, or its timer is closing it, or its          *)
(* partner's handler serves it.                                            *)
NoStranded ==
  \A c \in Conn : hpc[c] = "returned" /\ open[c] =>
    \/ mate[c] = None /\ waiting[room[c]] = c /\ timer[c] = "armed"
    \/ mate[c] = None /\ timer[c] = "closing"
    \/ mate[c] # None /\ hpc[mate[c]] \in {"tellPartner", "tellSelf", "pipe"}

(* The timer never closes a connection that has found a partner, although  *)
(* it is never stopped and closes the connection after it has let go of    *)
(* the lock ("closes a lone peer that was never paired").                  *)
TimerSparesPairs ==
  \A c \in Conn : timer[c] = "closing" =>
    mate[c] = None /\ \A r \in Room : waiting[r] # c

(* No client hears anybody but the partner it was paired with.             *)
NoCrossTalk ==
  \A c, d \in Conn :
    d \in heard[c] \/ (\E k \in DOMAIN outbox[c] : outbox[c][k] = Words(d)) =>
      d = mate[c]

(* The first thing a client that waits is told is that it is paired: the   *)
(* partner, which learns it first, cannot get a word in before that.       *)
ToldFirst ==
  \A c \in Conn : client[c] = "wait" /\ outbox[c] # <<>> => Head(outbox[c]) = Paired

(* The relay does what Rendezvous says.                                    *)
Abstract == INSTANCE Rendezvous WITH
  seen <- {c \in Conn : hpc[c] \in Joined},
  lone <- {w \in Conn \X Room : waiting[w[2]] = w[1]},
  pairs <- {{c, mate[c]} : c \in {d \in Conn : mate[d] # None}}

Implements == Abstract!Spec

(* Nobody waits for ever: a client that has named its room is paired or    *)
(* dropped.                                                                *)
Settled == \A c \in Conn : client[c] = "wait" ~> client[c] # "wait"

(* The relay gives up the connection of a client that is gone.             *)
Released == \A c \in Conn : client[c] = "gone" ~> ~open[c]

(* When one of a pair hangs up, the other gets to know.                    *)
HangUpSpreads ==
  \A c \in Conn :
    mate[c] # None /\ client[c] = "gone" ~> mate[c] # None /\ client[mate[c]] = "gone"
=============================================================================
