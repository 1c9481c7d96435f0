---------------------------- MODULE RelayProofs -----------------------------
(***************************************************************************)
(* Theorems about Relay, for any number of connections and rooms: pairing  *)
(* is sound, no connection is forgotten or expired by mistake, and Relay   *)
(* implements Rendezvous.                                                  *)
(***************************************************************************)
EXTENDS Relay, TLAPS

Serving == {"tellPartner", "tellSelf", "pipe"}

Typed ==
  /\ client \in [Conn -> {"off", "hello", "name", "wait", "paired", "spoke", "gone"}]
  /\ inbox \in [Conn -> Seq(Message)]
  /\ open \in [Conn -> BOOLEAN]
  /\ hpc \in [Conn -> {"off", "greeting", "room", "join", "rejected"} \cup Joined]
  /\ room \in [Conn -> Room \cup {None}]
  /\ mate \in [Conn -> ConnOrNone]
  /\ waiting \in [Room -> ConnOrNone]
  /\ timer \in [Conn -> {"off", "armed", "closing", "done"}]
  /\ copier \in [Conn -> {"off", "copy", "closing", "done"}]

(* What is set goes with the place the handler is at.                      *)
Placed(c) ==
  /\ client[c] = "off" => hpc[c] = "off"
  /\ hpc[c] \in {"greeting", "room", "join"} => open[c]
  /\ hpc[c] \in {"join"} \cup Joined => room[c] \in Room
  /\ hpc[c] \in Serving => mate[c] # None
  /\ timer[c] # "off" => hpc[c] = "returned"
  /\ copier[c] # "off" => mate[c] # None
  /\ copier[c] = "done" => ~open[c]

(* Somebody looks after every open connection that its handler has left in *)
(* the map: NoStranded, from the moment the handler has let go of the lock.*)
CaredFor(c) ==
  hpc[c] \in {"arm", "returned"} /\ open[c] =>
    \/ mate[c] = None /\ waiting[room[c]] = c
         /\ (hpc[c] = "arm" \/ timer[c] = "armed")
    \/ mate[c] = None /\ timer[c] = "closing"
    \/ mate[c] # None /\ hpc[mate[c]] \in Serving

PairInv ==
  /\ Typed
  /\ \A c \in Conn : Placed(c) /\ CaredFor(c)
  /\ Matched
  /\ WaitingSound
  /\ TimerSparesPairs

-----------------------------------------------------------------------------
(* The invariant holds when the relay has no connection yet.               *)
THEOREM PairInit == Init => PairInv
<1> SUFFICES ASSUME Init PROVE PairInv
  OBVIOUS
<1>1. Typed
  BY DEF Init, Typed, ConnOrNone
<1>2. \A c \in Conn : Placed(c) /\ CaredFor(c)
  BY DEF Init, Placed, CaredFor, Joined, Serving
<1>3. Matched /\ WaitingSound /\ TimerSparesPairs
  BY DEF Init, Matched, WaitingSound, TimerSparesPairs
<1> QED
  BY <1>1, <1>2, <1>3 DEF PairInv

(* What clients do, and what is copied, does not touch the server.         *)
LEMMA ServerUntouched ==
  ASSUME PairInv, UNCHANGED <<server, open>>,
         inbox' \in [Conn -> Seq(Message)],
         client' \in [Conn -> {"off", "hello", "name", "wait", "paired", "spoke", "gone"}],
         \A c \in Conn : client'[c] = "off" => client[c] = "off"
  PROVE  PairInv'
<1>1. Typed'
  BY DEF PairInv, Typed, server, ConnOrNone
<1>2. \A c \in Conn : Placed(c)' /\ CaredFor(c)'
  BY DEF PairInv, Placed, CaredFor, server
<1>3. Matched' /\ WaitingSound' /\ TimerSparesPairs'
  BY DEF PairInv, Matched, WaitingSound, TimerSparesPairs, server
<1> QED
  BY <1>1, <1>2, <1>3 DEF PairInv

LEMMA ClientSteps ==
  ASSUME PairInv, NEW c \in Conn,
         Speak(c) \/ Listen(c) \/ Leave(c) \/ Dropped(c) \/ Reset(c) \/ Copy(c)
  PROVE  PairInv'
<1>1. inbox \in [Conn -> Seq(Message)]
  BY DEF PairInv, Typed
<1>2. client \in [Conn -> {"off", "hello", "name", "wait", "paired", "spoke", "gone"}]
  BY DEF PairInv, Typed
<1>3. UNCHANGED <<server, open>>
  BY DEF Speak, Listen, Leave, Dropped, HangsUp, Reset, Copy
<1>4. inbox' \in [Conn -> Seq(Message)]
  <2>1. CASE Speak(c)
    <3>1. \A m \in Message : Says(c, m) => inbox' \in [Conn -> Seq(Message)]
      BY <1>1 DEF Says
    <3>2. /\ Greeting \in Message /\ Noise \in Message /\ Words(c) \in Message
          /\ \A r \in Room : Named(r) \in Message
      BY DEF Message, Greeting, Noise, Words, Named
    <3> QED
      BY <2>1, <3>1, <3>2 DEF Speak
  <2>2. CASE Reset(c)
    BY <1>1, <2>2 DEF Reset
  <2>3. CASE Copy(c)
    BY <1>1, <2>3 DEF Copy
  <2>4. CASE Listen(c) \/ Leave(c) \/ Dropped(c)
    BY <1>1, <2>4 DEF Listen, Leave, Dropped, HangsUp
  <2> QED
    BY <2>1, <2>2, <2>3, <2>4
<1>5. /\ client' \in [Conn -> {"off", "hello", "name", "wait", "paired", "spoke", "gone"}]
      /\ \A d \in Conn : client'[d] = "off" => client[d] = "off"
  BY <1>2 DEF Speak, Listen, Leave, Dropped, HangsUp, Reset, Copy, clients
<1> QED
  BY <1>3, <1>4, <1>5, ServerUntouched

LEMMA DialStep ==
  ASSUME PairInv, NEW c \in Conn, Dial(c)
  PROVE  PairInv'
<1>1. Typed'
  BY DEF PairInv, Typed, Dial, ConnOrNone
<1>2. hpc[c] = "off" /\ copier[c] = "off" /\ mate[c] = None /\ timer[c] = "off"
  BY DEF PairInv, Typed, Placed, Matched, Joined, Dial
<1>3. \A d \in Conn : Placed(d)'
  BY <1>2 DEF PairInv, Typed, Placed, Dial, Joined, Serving
<1>4. \A d \in Conn : CaredFor(d)'
  BY <1>2 DEF PairInv, Typed, CaredFor, Dial, Serving
<1>5. Matched'
  BY <1>2 DEF PairInv, Typed, Matched, Dial, Joined
<1>6. WaitingSound'
  BY <1>2 DEF PairInv, Typed, WaitingSound, Dial, ConnOrNone
<1>7. TimerSparesPairs'
  BY DEF PairInv, TimerSparesPairs, Dial
<1> QED
  BY <1>1, <1>3, <1>4, <1>5, <1>6, <1>7 DEF PairInv

(* The handler before the critical section                                 *)
LEMMA GreetingSteps ==
  ASSUME PairInv, NEW c \in Conn, ReadGreeting(c) \/ ReadRoom(c) \/ Reject(c)
  PROVE  PairInv'
<1>1. hpc[c] \in {"greeting", "room"}
  BY DEF ReadGreeting, ReadRoom, Reject
<1>2. /\ hpc' \in [Conn -> {"off", "greeting", "room", "join", "rejected"} \cup Joined]
      /\ hpc'[c] \in {"room", "join", "rejected"}
      /\ \A d \in Conn : d # c => hpc'[d] = hpc[d]
  BY <1>1 DEF PairInv, Typed, ReadGreeting, ReadRoom, Reject
<1>3. /\ open' \in [Conn -> BOOLEAN]
      /\ \A d \in Conn : d # c => open'[d] = open[d]
      /\ open'[c] => open[c]
      /\ hpc'[c] # "rejected" => open'[c] = open[c]
  <2>1. open \in [Conn -> BOOLEAN]
    BY DEF PairInv, Typed
  <2>2. CASE ReadGreeting(c) \/ ReadRoom(c)
    BY <2>1, <2>2 DEF ReadGreeting, ReadRoom
  <2>3. CASE Reject(c)
    <3>1. open' = [d \in Conn |-> open[d] /\ d \notin {c}] /\ hpc'[c] = "rejected"
      BY <2>3 DEF Reject, CloseAll, PairInv, Typed
    <3>2. ~open'[c] /\ \A d \in Conn : d # c => open'[d] = open[d]
      BY <2>1, <3>1
    <3>3. open' \in [Conn -> BOOLEAN]
      BY <3>1
    <3> QED
      BY <3>1, <3>2, <3>3
  <2> QED
    BY <2>2, <2>3
<1>4. /\ room' \in [Conn -> Room \cup {None}]
      /\ \A d \in Conn : d # c => room'[d] = room[d]
      /\ hpc'[c] = "join" => room'[c] \in Room
  <2>1. CASE ReadRoom(c)
    <3>1. Head(inbox[c]) \in Message
      BY <2>1 DEF PairInv, Typed, ReadRoom
    <3>2. Head(inbox[c]).type = "room"
      BY <2>1 DEF ReadRoom
    <3>3. \A m \in Message : m.type = "room" => m.room \in Room
      BY DEF Message
    <3>4. Head(inbox[c]).room \in Room
      BY <3>1, <3>2, <3>3
    <3> QED
      BY <2>1, <3>4 DEF PairInv, Typed, ReadRoom
  <2>2. CASE ReadGreeting(c) \/ Reject(c)
    BY <2>2 DEF PairInv, Typed, ReadGreeting, Reject
  <2> QED
    BY <2>1, <2>2
<1>5. inbox' \in [Conn -> Seq(Message)]
  <2>1. inbox \in [Conn -> Seq(Message)]
    BY DEF PairInv, Typed
  <2>2. inbox[c] # <<>> => Tail(inbox[c]) \in Seq(Message)
    BY <2>1
  <2>3. CASE ReadGreeting(c) \/ ReadRoom(c)
    BY <2>1, <2>2, <2>3 DEF ReadGreeting, ReadRoom
  <2>4. CASE Reject(c)
    BY <2>1, <2>4 DEF Reject, CloseAll
  <2> QED
    BY <2>3, <2>4
<1>6. UNCHANGED <<client, mate, waiting, timer, copier>>
  BY DEF ReadGreeting, ReadRoom, Reject, clients
<1>7. mate[c] = None /\ timer[c] = "off" /\ copier[c] = "off"
  BY <1>1 DEF PairInv, Typed, Placed, Matched, Joined
<1>8. \A r \in Room : waiting[r] # c
  BY <1>1, RelayAssumption DEF PairInv, WaitingSound
<1>9. Typed'
  BY <1>2, <1>3, <1>4, <1>5, <1>6 DEF PairInv, Typed, ConnOrNone
<1>10. \A d \in Conn : Placed(d)'
  BY <1>1, <1>2, <1>3, <1>4, <1>6, <1>7 DEF PairInv, Placed, Joined, Serving
<1>11. \A d \in Conn : CaredFor(d)'
  BY <1>1, <1>2, <1>3, <1>4, <1>6, <1>7, ZenonT(60)
     DEF PairInv, Typed, CaredFor, Serving, ConnOrNone
<1>12. Matched'
  <2> SUFFICES ASSUME NEW d \in Conn, mate[d] # None
               PROVE  /\ mate[d] # d /\ mate[mate[d]] = d
                      /\ room'[mate[d]] = room'[d] /\ room'[d] # None
                      /\ hpc'[d] \in Joined
    BY <1>6 DEF Matched
  <2>1. /\ mate[d] # d /\ mate[mate[d]] = d /\ mate[d] \in Conn
        /\ room[mate[d]] = room[d] /\ room[d] # None /\ hpc[d] \in Joined
    BY DEF PairInv, Typed, Matched, ConnOrNone
  <2>2. d # c /\ mate[d] # c
    BY <1>7, <2>1, RelayAssumption
  <2> QED
    BY <1>2, <1>4, <2>1, <2>2
<1>13. WaitingSound'
  BY <1>2, <1>3, <1>4, <1>6, <1>8 DEF PairInv, Typed, WaitingSound, ConnOrNone
<1>14. TimerSparesPairs'
  BY <1>6 DEF PairInv, TimerSparesPairs
<1> QED
  BY <1>9, <1>10, <1>11, <1>12, <1>13, <1>14 DEF PairInv

-----------------------------------------------------------------------------
(* The critical section.  Whoever waits in the map is a connection of that *)
(* room, unpaired, and not the one that joins.                             *)
LEMMA WhoWaits ==
  ASSUME PairInv, NEW r \in Room, waiting[r] # None
  PROVE  /\ waiting[r] \in Conn
         /\ open[waiting[r]]
         /\ mate[waiting[r]] = None
         /\ room[waiting[r]] = r
         /\ hpc[waiting[r]] \in {"arm", "returned"}
         /\ timer[waiting[r]] # "closing"
         /\ \A q \in Room : waiting[q] = waiting[r] => q = r
<1>1. waiting[r] \in Conn
  BY DEF PairInv, Typed, ConnOrNone
<1>2. \A q \in Room : waiting[q] # None => room[waiting[q]] = q
  BY DEF PairInv, WaitingSound
<1> QED
  BY <1>1, <1>2 DEF PairInv, WaitingSound, TimerSparesPairs

LEMMA MeetStep ==
  ASSUME PairInv, NEW c \in Conn, Join(c), waiting[room[c]] # None
  PROVE  PairInv'
<1> DEFINE r == room[c]
           p == waiting[r]
<1>1. /\ r \in Room /\ hpc[c] = "join"
      /\ mate[c] = None /\ timer[c] = "off" /\ copier[c] = "off"
  BY DEF PairInv, Typed, Placed, Matched, Joined, Join
<1>2. /\ p \in Conn /\ p # c /\ p # None /\ c # None
      /\ mate[p] = None /\ room[p] = r /\ hpc[p] \in {"arm", "returned"}
      /\ timer[p] # "closing" /\ \A q \in Room : waiting[q] = p => q = r
  BY <1>1, WhoWaits, RelayAssumption
<1>3. /\ waiting' = [waiting EXCEPT ![r] = None]
      /\ mate' = [mate EXCEPT ![c] = p, ![p] = c]
      /\ hpc' = [hpc EXCEPT ![c] = "tellPartner"]
      /\ UNCHANGED <<client, inbox, open, room, timer, copier>>
  BY DEF Join, clients, wires
<1>4. /\ mate'[c] = p /\ mate'[p] = c
      /\ \A d \in Conn : d \notin {c, p} => mate'[d] = mate[d]
  BY <1>2, <1>3 DEF PairInv, Typed
<1>5. /\ hpc'[c] = "tellPartner"
      /\ \A d \in Conn : d # c => hpc'[d] = hpc[d]
  BY <1>3 DEF PairInv, Typed
<1>6. waiting'[r] = None /\ \A q \in Room : q # r => waiting'[q] = waiting[q]
  BY <1>1, <1>3 DEF PairInv, Typed
<1>7. \A q \in Room : waiting[q] # c
  BY <1>1, RelayAssumption DEF PairInv, WaitingSound
<1>8. \A d \in Conn : mate[d] # None => mate[d] \in Conn /\ mate[d] \notin {c, p} /\ d \notin {c, p}
  BY <1>1, <1>2, RelayAssumption DEF PairInv, Typed, Matched, ConnOrNone
<1>9. Typed'
  <2>1. waiting' \in [Room -> ConnOrNone]
    BY <1>3 DEF PairInv, Typed, ConnOrNone
  <2>2. mate' \in [Conn -> ConnOrNone]
    BY <1>2, <1>3 DEF PairInv, Typed, ConnOrNone
  <2>3. hpc' \in [Conn -> {"off", "greeting", "room", "join", "rejected"} \cup Joined]
    BY <1>3 DEF PairInv, Typed, Joined
  <2> QED
    BY <1>3, <2>1, <2>2, <2>3 DEF PairInv, Typed
<1>10. \A d \in Conn : Placed(d)'
  <2> SUFFICES ASSUME NEW d \in Conn
               PROVE  Placed(d)'
    OBVIOUS
  <2>1. Placed(d)
    BY DEF PairInv
  <2>2. CASE d = c
    BY <1>1, <1>2, <1>3, <1>4, <1>5, <2>1, <2>2 DEF Placed, Serving, Joined
  <2>3. CASE d = p
    BY <1>1, <1>2, <1>3, <1>4, <1>5, <2>1, <2>3 DEF Placed, Serving, Joined
  <2>4. CASE d \notin {c, p}
    BY <1>3, <1>4, <1>5, <2>1, <2>4 DEF Placed
  <2> QED
    BY <2>2, <2>3, <2>4
<1>11. \A d \in Conn : CaredFor(d)'
  <2> SUFFICES ASSUME NEW d \in Conn, hpc'[d] \in {"arm", "returned"}, open[d]
               PROVE  \/ mate'[d] = None /\ waiting'[room[d]] = d
                           /\ (hpc'[d] = "arm" \/ timer[d] = "armed")
                      \/ mate'[d] = None /\ timer[d] = "closing"
                      \/ mate'[d] # None /\ hpc'[mate'[d]] \in Serving
    BY <1>3 DEF CaredFor
  <2>1. CASE d = p
    BY <1>2, <1>4, <1>5, <2>1 DEF Serving
  <2>2. CASE d # p
    <3>1. d # c /\ hpc[d] \in {"arm", "returned"} /\ mate'[d] = mate[d]
      BY <1>4, <1>5, <2>2
    <3>2. CASE mate[d] # None
      BY <1>5, <1>8, <3>1, <3>2 DEF PairInv, CaredFor
    <3>3. CASE mate[d] = None
      <4>1. room[d] \in Room
        BY <3>1 DEF PairInv, Placed, Joined
      <4>2. waiting[room[d]] = d => waiting'[room[d]] = d
        BY <1>6, <2>2, <4>1
      <4> QED
        BY <1>5, <3>1, <3>3, <4>2 DEF PairInv, CaredFor
    <3> QED
      BY <3>2, <3>3
  <2> QED
    BY <2>1, <2>2
<1>12. Matched'
  <2> SUFFICES ASSUME NEW d \in Conn, mate'[d] # None
               PROVE  /\ mate'[d] # d /\ mate'[mate'[d]] = d
                      /\ room[mate'[d]] = room[d] /\ room[d] # None
                      /\ hpc'[d] \in Joined
    BY <1>3 DEF Matched
  <2>1. CASE d = c
    BY <1>1, <1>2, <1>4, <1>5, <2>1, RelayAssumption DEF Joined
  <2>2. CASE d = p
    BY <1>1, <1>2, <1>4, <1>5, <2>2, RelayAssumption DEF Joined
  <2>3. CASE d \notin {c, p}
    BY <1>4, <1>5, <1>8, <2>3 DEF PairInv, Matched
  <2> QED
    BY <2>1, <2>2, <2>3
<1>13. WaitingSound'
  <2> SUFFICES ASSUME NEW q \in Room, waiting'[q] # None
               PROVE  LET w == waiting'[q] IN
                        /\ open[w] /\ mate'[w] = None /\ room[w] = q
                        /\ hpc'[w] = "arm" \/ (hpc'[w] = "returned" /\ timer[w] = "armed")
    BY <1>3 DEF WaitingSound
  <2>1. q # r /\ waiting'[q] = waiting[q] /\ waiting[q] \notin {c, p}
    BY <1>2, <1>6, <1>7
  <2>2. waiting[q] \in Conn
    BY <2>1, WhoWaits
  <2> QED
    BY <1>4, <1>5, <2>1, <2>2 DEF PairInv, WaitingSound
<1>14. TimerSparesPairs'
  <2> SUFFICES ASSUME NEW d \in Conn, timer[d] = "closing"
               PROVE  mate'[d] = None /\ \A q \in Room : waiting'[q] # d
    BY <1>3 DEF TimerSparesPairs
  <2>1. mate[d] = None /\ \A q \in Room : waiting[q] # d
    BY DEF PairInv, TimerSparesPairs
  <2>2. d # c /\ d # p /\ d # None
    BY <1>1, <1>2, RelayAssumption
  <2> QED
    BY <1>4, <1>6, <2>1, <2>2
<1> QED
  BY <1>9, <1>10, <1>11, <1>12, <1>13, <1>14 DEF PairInv

LEMMA WaitStep ==
  ASSUME PairInv, NEW c \in Conn, Join(c), waiting[room[c]] = None
  PROVE  PairInv'
<1> DEFINE r == room[c]
<1>1. /\ r \in Room /\ hpc[c] = "join"
      /\ mate[c] = None /\ timer[c] = "off" /\ copier[c] = "off"
  BY DEF PairInv, Typed, Placed, Matched, Joined, Join
<1>2. /\ waiting' = [waiting EXCEPT ![r] = c]
      /\ hpc' = [hpc EXCEPT ![c] = "arm"]
      /\ UNCHANGED <<client, inbox, open, room, mate, timer, copier>>
  BY DEF Join, clients, wires
<1>3. waiting'[r] = c /\ \A q \in Room : q # r => waiting'[q] = waiting[q]
  BY <1>1, <1>2 DEF PairInv, Typed
<1>4. hpc'[c] = "arm" /\ \A d \in Conn : d # c => hpc'[d] = hpc[d]
  BY <1>2 DEF PairInv, Typed
<1>5. \A d \in Conn : mate[d] # None => mate[d] \in Conn /\ mate[d] # c /\ d # c
  BY <1>1, RelayAssumption DEF PairInv, Typed, Matched, ConnOrNone
<1>6. Typed'
  <2>1. waiting' \in [Room -> ConnOrNone]
    BY <1>2 DEF PairInv, Typed, ConnOrNone
  <2>2. hpc' \in [Conn -> {"off", "greeting", "room", "join", "rejected"} \cup Joined]
    BY <1>2 DEF PairInv, Typed, Joined
  <2> QED
    BY <1>2, <2>1, <2>2 DEF PairInv, Typed
<1>7. \A d \in Conn : Placed(d)'
  BY <1>1, <1>2, <1>4 DEF PairInv, Placed, Serving, Joined
<1>8. \A d \in Conn : CaredFor(d)'
  <2> SUFFICES ASSUME NEW d \in Conn, hpc'[d] \in {"arm", "returned"}, open[d]
               PROVE  \/ mate[d] = None /\ waiting'[room[d]] = d
                           /\ (hpc'[d] = "arm" \/ timer[d] = "armed")
                      \/ mate[d] = None /\ timer[d] = "closing"
                      \/ mate[d] # None /\ hpc'[mate[d]] \in Serving
    BY <1>2 DEF CaredFor
  <2>1. CASE d = c
    BY <1>1, <1>3, <1>4, <2>1
  <2>2. CASE d # c
    <3>1. hpc'[d] = hpc[d] /\ room[d] \in Room
      BY <1>4, <2>2 DEF PairInv, Placed, Joined
    <3>2. waiting[room[d]] = d => waiting'[room[d]] = d
      BY <1>3, <3>1, RelayAssumption
    <3> QED
      BY <1>4, <1>5, <3>1, <3>2 DEF PairInv, CaredFor
  <2> QED
    BY <2>1, <2>2
<1>9. Matched'
  BY <1>2, <1>4, <1>5 DEF PairInv, Matched
<1>10. WaitingSound'
  <2> SUFFICES ASSUME NEW q \in Room, waiting'[q] # None
               PROVE  LET w == waiting'[q] IN
                        /\ open[w] /\ mate[w] = None /\ room[w] = q
                        /\ hpc'[w] = "arm" \/ (hpc'[w] = "returned" /\ timer[w] = "armed")
    BY <1>2 DEF WaitingSound
  <2>1. CASE q = r
    BY <1>1, <1>3, <1>4, <2>1 DEF PairInv, Placed
  <2>2. CASE q # r
    <3>1. waiting'[q] = waiting[q] /\ waiting[q] \in Conn /\ hpc[waiting[q]] # "join"
      BY <1>3, <2>2, WhoWaits
    <3> QED
      BY <1>1, <1>4, <3>1 DEF PairInv, WaitingSound
  <2> QED
    BY <2>1, <2>2
<1>11. TimerSparesPairs'
  BY <1>1, <1>2, <1>3 DEF PairInv, TimerSparesPairs
<1> QED
  BY <1>6, <1>7, <1>8, <1>9, <1>10, <1>11 DEF PairInv

-----------------------------------------------------------------------------
(* After it                                                                *)

LEMMA ArmStep ==
  ASSUME PairInv, NEW c \in Conn, Arm(c)
  PROVE  PairInv'
<1>1. /\ hpc[c] = "arm"
      /\ hpc' = [hpc EXCEPT ![c] = "returned"]
      /\ timer' = [timer EXCEPT ![c] = "armed"]
      /\ UNCHANGED <<client, inbox, open, room, mate, waiting, copier>>
  BY DEF Arm, clients, wires
<1>2. /\ hpc'[c] = "returned" /\ timer'[c] = "armed" /\ timer[c] = "off"
      /\ \A d \in Conn : d # c => hpc'[d] = hpc[d] /\ timer'[d] = timer[d]
  BY <1>1 DEF PairInv, Typed, Placed
<1>3. Typed'
  BY <1>1 DEF PairInv, Typed, Joined
<1>4. \A d \in Conn : Placed(d)'
  BY <1>1, <1>2 DEF PairInv, Placed, Serving, Joined
<1>5. \A d \in Conn : CaredFor(d)'
  <2> SUFFICES ASSUME NEW d \in Conn
               PROVE  CaredFor(d)'
    OBVIOUS
  <2>1. mate[d] # None => mate[d] \in Conn
    BY DEF PairInv, Typed, ConnOrNone
  <2> QED
    BY <1>1, <1>2, <2>1 DEF PairInv, CaredFor, Serving
<1>6. Matched'
  BY <1>1, <1>2 DEF PairInv, Matched, Joined
<1>7. WaitingSound'
  <2> SUFFICES ASSUME NEW q \in Room, waiting[q] # None
               PROVE  LET w == waiting[q] IN
                        /\ open[w] /\ mate[w] = None /\ room[w] = q
                        /\ hpc'[w] = "arm" \/ (hpc'[w] = "returned" /\ timer'[w] = "armed")
    BY <1>1 DEF WaitingSound
  <2>1. waiting[q] \in Conn
    BY WhoWaits
  <2> QED
    BY <1>2, <2>1 DEF PairInv, WaitingSound
<1>8. TimerSparesPairs'
  BY <1>1, <1>2 DEF PairInv, TimerSparesPairs
<1> QED
  BY <1>3, <1>4, <1>5, <1>6, <1>7, <1>8 DEF PairInv

(* One that serves a pair goes on to tell the other, or to copy.           *)
LEMMA TellSteps ==
  ASSUME PairInv, NEW c \in Conn, TellPartner(c) \/ TellSelf(c)
  PROVE  PairInv'
<1>1. /\ hpc[c] \in Serving /\ hpc'[c] \in Serving
      /\ hpc' \in [Conn -> {"off", "greeting", "room", "join", "rejected"} \cup Joined]
      /\ \A d \in Conn : d # c => hpc'[d] = hpc[d]
      /\ UNCHANGED <<client, inbox, open, room, mate, waiting, timer>>
  BY DEF PairInv, Typed, TellPartner, TellSelf, Serving, Joined, clients
<1>2. mate[c] # None /\ mate[c] \in Conn /\ mate[mate[c]] = c /\ c # None
  BY <1>1, RelayAssumption DEF PairInv, Typed, Placed, Matched, ConnOrNone
<1>3. /\ copier' \in [Conn -> {"off", "copy", "closing", "done"}]
      /\ \A d \in Conn : copier'[d] = copier[d]
                         \/ (copier'[d] = "copy" /\ d \in {c, mate[c]})
  <2>1. copier \in [Conn -> {"off", "copy", "closing", "done"}]
    BY DEF PairInv, Typed
  <2>2. CASE TellPartner(c)
    <3>1. copier' = copier
      BY <2>2 DEF TellPartner
    <3> QED
      BY <2>1, <3>1
  <2>3. CASE TellSelf(c)
    <3>1. copier' = [copier EXCEPT ![c] = "copy", ![mate[c]] = "copy"]
      BY <2>3 DEF TellSelf
    <3>2. copier' \in [Conn -> {"off", "copy", "closing", "done"}]
      BY <1>2, <2>1, <3>1
    <3>3. /\ copier'[c] = "copy" /\ copier'[mate[c]] = "copy"
          /\ \A d \in Conn : d # c /\ d # mate[c] => copier'[d] = copier[d]
      BY <1>2, <2>1, <3>1
    <3> QED
      BY <3>2, <3>3
  <2> QED
    BY <2>2, <2>3
<1>4. Typed'
  BY <1>1, <1>3 DEF PairInv, Typed
<1>5. \A d \in Conn : Placed(d)'
  BY <1>1, <1>2, <1>3 DEF PairInv, Placed, Serving, Joined
<1>6. \A d \in Conn : CaredFor(d)'
  <2> SUFFICES ASSUME NEW d \in Conn
               PROVE  CaredFor(d)'
    OBVIOUS
  <2>1. mate[d] # None => mate[d] \in Conn
    BY DEF PairInv, Typed, ConnOrNone
  <2> QED
    BY <1>1, <2>1 DEF PairInv, CaredFor, Serving
<1>7. Matched'
  BY <1>1 DEF PairInv, Matched, Serving, Joined
<1>8. WaitingSound'
  <2> SUFFICES ASSUME NEW q \in Room, waiting[q] # None
               PROVE  LET w == waiting[q] IN
                        /\ open[w] /\ mate[w] = None /\ room[w] = q
                        /\ hpc'[w] = "arm" \/ (hpc'[w] = "returned" /\ timer[w] = "armed")
    BY <1>1 DEF WaitingSound
  <2>1. waiting[q] \in Conn /\ waiting[q] # c
    BY <1>2, WhoWaits
  <2> QED
    BY <1>1, <2>1 DEF PairInv, WaitingSound
<1>9. TimerSparesPairs'
  BY <1>1 DEF PairInv, TimerSparesPairs
<1> QED
  BY <1>4, <1>5, <1>6, <1>7, <1>8, <1>9 DEF PairInv

(* A pair comes to its end: some of its two connections are closed, its    *)
(* handler may return once both are, and nothing else is touched.          *)
LEMMA PairEnds ==
  ASSUME PairInv, NEW c \in Conn, NEW C \in SUBSET Conn,
         mate[c] # None, C \subseteq {c, mate[c]},
         open' = [d \in Conn |-> open[d] /\ d \notin C],
         inbox' \in [Conn -> Seq(Message)],
         hpc' \in [Conn -> {"off", "greeting", "room", "join", "rejected"} \cup Joined],
         \A d \in Conn : d # c => hpc'[d] = hpc[d],
         hpc'[c] # hpc[c] =>
           /\ hpc[c] \in Serving /\ hpc'[c] = "returned"
           /\ ~open'[c] /\ ~open'[mate[c]],
         copier' \in [Conn -> {"off", "copy", "closing", "done"}],
         \A d \in Conn : copier'[d] # copier[d] =>
           d = c /\ (copier'[c] = "done" => ~open'[c]),
         UNCHANGED <<client, room, mate, waiting, timer>>
  PROVE  PairInv'
<1>1. /\ mate[c] \in Conn /\ mate[mate[c]] = c /\ c # None /\ hpc[c] \in Joined
      /\ hpc[mate[c]] \in Joined
  BY RelayAssumption DEF PairInv, Typed, Matched, ConnOrNone
<1>2. Typed'
  BY DEF PairInv, Typed
<1>3. \A d \in Conn : Placed(d)'
  <2> SUFFICES ASSUME NEW d \in Conn
               PROVE  Placed(d)'
    OBVIOUS
  <2>1. hpc[d] \in {"greeting", "room", "join"} => d \notin C
    BY <1>1 DEF Joined
  <2>2. Placed(d)
    BY DEF PairInv
  <2>3. d # c => copier'[d] = copier[d] /\ hpc'[d] = hpc[d]
    OBVIOUS
  <2>4. CASE d # c
    BY <1>1, <2>1, <2>2, <2>3, <2>4 DEF Placed
  <2>5. CASE d = c
    BY <1>1, <2>1, <2>2, <2>5 DEF Placed, Serving, Joined
  <2> QED
    BY <2>4, <2>5
<1>4. \A d \in Conn : CaredFor(d)'
  <2> SUFFICES ASSUME NEW d \in Conn, hpc'[d] \in {"arm", "returned"}, open'[d]
               PROVE  \/ mate[d] = None /\ waiting[room[d]] = d
                           /\ (hpc'[d] = "arm" \/ timer[d] = "armed")
                      \/ mate[d] = None /\ timer[d] = "closing"
                      \/ mate[d] # None /\ hpc'[mate[d]] \in Serving
    BY DEF CaredFor
  <2>1. hpc'[d] = hpc[d] /\ open[d]
    OBVIOUS
  <2>2. mate[d] # None => mate[d] \in Conn /\ mate[mate[d]] = d
    BY DEF PairInv, Typed, Matched, ConnOrNone
  <2>3. mate[d] # None => hpc'[mate[d]] = hpc[mate[d]]
    BY <2>1, <2>2
  <2> QED
    BY <2>1, <2>3 DEF PairInv, CaredFor
<1>5. Matched'
  <2>1. \A d \in Conn : hpc[d] \in Joined => hpc'[d] \in Joined
    BY DEF Joined
  <2> QED
    BY <2>1 DEF PairInv, Matched
<1>6. WaitingSound'
  <2> SUFFICES ASSUME NEW q \in Room, waiting[q] # None
               PROVE  LET w == waiting[q] IN
                        /\ open'[w] /\ mate[w] = None /\ room[w] = q
                        /\ hpc'[w] = "arm" \/ (hpc'[w] = "returned" /\ timer[w] = "armed")
    BY DEF WaitingSound
  <2>1. waiting[q] \in Conn /\ waiting[q] # c /\ waiting[q] # mate[c]
    BY <1>1, WhoWaits
  <2> QED
    BY <2>1 DEF PairInv, WaitingSound
<1>7. TimerSparesPairs'
  BY DEF PairInv, TimerSparesPairs
<1> QED
  BY <1>2, <1>3, <1>4, <1>5, <1>6, <1>7 DEF PairInv

LEMMA EndSteps ==
  ASSUME PairInv, NEW c \in Conn, TellFails(c) \/ PipeReturns(c) \/ CopyEnds(c) \/ CloseSource(c)
  PROVE  PairInv'
<1>1. /\ hpc \in [Conn -> {"off", "greeting", "room", "join", "rejected"} \cup Joined]
      /\ copier \in [Conn -> {"off", "copy", "closing", "done"}]
      /\ open \in [Conn -> BOOLEAN]
      /\ inbox \in [Conn -> Seq(Message)]
  BY DEF PairInv, Typed
<1>2. /\ mate[c] # None /\ mate[c] \in Conn
      /\ {{c, mate[c]}, {c}, {mate[c]}, {}} \subseteq SUBSET Conn
  BY DEF PairInv, Typed, Placed, TellFails, PipeReturns, CopyEnds, CloseSource, Serving,
    ConnOrNone
<1>3. CASE TellFails(c)
  <2>1. /\ hpc[c] \in Serving
        /\ hpc' = [hpc EXCEPT ![c] = "returned"]
        /\ CloseAll({c, mate[c]})
        /\ UNCHANGED <<client, room, mate, waiting, timer, copier>>
    BY <1>3 DEF TellFails, Serving, clients
  <2>2. /\ open' = [d \in Conn |-> open[d] /\ d \notin {c, mate[c]}]
        /\ inbox' \in [Conn -> Seq(Message)]
    BY <1>1, <2>1 DEF CloseAll
  <2>3. ~open'[c] /\ ~open'[mate[c]]
    BY <1>2, <2>2
  <2>4. /\ hpc' \in [Conn -> {"off", "greeting", "room", "join", "rejected"} \cup Joined]
        /\ hpc'[c] = "returned" /\ \A d \in Conn : d # c => hpc'[d] = hpc[d]
    BY <1>1, <2>1 DEF Joined
  <2> QED
    BY <1>1, <1>2, <2>1, <2>2, <2>3, <2>4, PairEnds
<1>4. CASE PipeReturns(c)
  <2>1. /\ hpc[c] \in Serving
        /\ hpc' = [hpc EXCEPT ![c] = "returned"]
        /\ UNCHANGED <<client, inbox, open, room, mate, waiting, timer, copier>>
    BY <1>4 DEF PipeReturns, Serving, clients, wires
  <2>2. ~open'[c] /\ ~open'[mate[c]]
    BY <1>2, <1>4, <2>1 DEF PipeReturns, PairInv, Placed
  <2>3. /\ hpc' \in [Conn -> {"off", "greeting", "room", "join", "rejected"} \cup Joined]
        /\ hpc'[c] = "returned" /\ \A d \in Conn : d # c => hpc'[d] = hpc[d]
    BY <1>1, <2>1 DEF Joined
  <2>4. open' = [d \in Conn |-> open[d] /\ d \notin {}]
    BY <1>1, <2>1
  <2> QED
    BY <1>1, <1>2, <2>1, <2>2, <2>3, <2>4, PairEnds
<1>5. CASE CopyEnds(c)
  <2>1. /\ copier' = [copier EXCEPT ![c] = "closing"]
        /\ CloseAll({mate[c]})
        /\ UNCHANGED <<client, hpc, room, mate, waiting, timer>>
    BY <1>5 DEF CopyEnds, clients
  <2>2. /\ open' = [d \in Conn |-> open[d] /\ d \notin {mate[c]}]
        /\ inbox' \in [Conn -> Seq(Message)]
    BY <1>1, <2>1 DEF CloseAll
  <2>3. /\ copier' \in [Conn -> {"off", "copy", "closing", "done"}]
        /\ copier'[c] = "closing" /\ \A d \in Conn : copier'[d] # copier[d] => d = c
    BY <1>1, <2>1
  <2> QED
    BY <1>1, <1>2, <2>1, <2>2, <2>3, PairEnds
<1>6. CASE CloseSource(c)
  <2>1. /\ copier' = [copier EXCEPT ![c] = "done"]
        /\ CloseAll({c})
        /\ UNCHANGED <<client, hpc, room, mate, waiting, timer>>
    BY <1>6 DEF CloseSource, clients
  <2>2. /\ open' = [d \in Conn |-> open[d] /\ d \notin {c}]
        /\ inbox' \in [Conn -> Seq(Message)]
    BY <1>1, <2>1 DEF CloseAll
  <2>3. ~open'[c]
    BY <2>2
  <2>4. /\ copier' \in [Conn -> {"off", "copy", "closing", "done"}]
        /\ \A d \in Conn : copier'[d] # copier[d] => d = c
    BY <1>1, <2>1
  <2> QED
    BY <1>1, <1>2, <2>1, <2>2, <2>3, <2>4, PairEnds
<1> QED
  BY <1>3, <1>4, <1>5, <1>6

(* The timer.  What it closes after it has let go of the lock can not have *)
(* been paired, since it is not in the map any more.                       *)
LEMMA TimerSteps ==
  ASSUME PairInv, NEW c \in Conn, Expire(c) \/ CloseExpired(c)
  PROVE  PairInv'
<1>1. hpc[c] = "returned" /\ room[c] \in Room /\ timer[c] # "off"
  BY DEF PairInv, Placed, Expire, CloseExpired, Joined
<1>2. UNCHANGED <<client, hpc, room, mate, copier>>
  BY DEF Expire, CloseExpired, clients
<1>3. CASE Expire(c) /\ waiting[room[c]] = c
  <2>1. /\ waiting' = [waiting EXCEPT ![room[c]] = None]
        /\ timer' = [timer EXCEPT ![c] = "closing"]
        /\ UNCHANGED <<open, inbox>>
    BY <1>3 DEF Expire, wires
  <2>2. /\ waiting'[room[c]] = None
        /\ \A q \in Room : q # room[c] => waiting'[q] = waiting[q] /\ waiting[q] # c
    BY <1>1, <1>3, <2>1, RelayAssumption DEF PairInv, Typed, WaitingSound
  <2>3. timer'[c] = "closing" /\ \A d \in Conn : d # c => timer'[d] = timer[d]
    BY <2>1 DEF PairInv, Typed
  <2>4. mate[c] = None
    BY <1>1, <1>3, RelayAssumption DEF PairInv, WaitingSound
  <2>5. Typed'
    BY <1>2, <2>1 DEF PairInv, Typed, ConnOrNone
  <2>6. \A d \in Conn : Placed(d)'
    BY <1>1, <1>2, <2>1, <2>3 DEF PairInv, Placed
  <2>7. \A d \in Conn : CaredFor(d)'
    <3> SUFFICES ASSUME NEW d \in Conn, d # c
                 PROVE  CaredFor(d)'
      BY <1>2, <2>3, <2>4 DEF CaredFor
    <3>1. hpc[d] \in {"arm", "returned"} => room[d] \in Room
      BY DEF PairInv, Placed, Joined
    <3>2. room[d] \in Room /\ waiting[room[d]] = d => waiting'[room[d]] = d
      BY <1>3, <2>2
    <3> QED
      BY <1>2, <2>1, <2>3, <3>1, <3>2 DEF PairInv, CaredFor
  <2>8. Matched'
    BY <1>2 DEF PairInv, Matched
  <2>9. WaitingSound'
    <3> SUFFICES ASSUME NEW q \in Room, waiting'[q] # None
                 PROVE  LET w == waiting'[q] IN
                          /\ open[w] /\ mate[w] = None /\ room[w] = q
                          /\ hpc[w] = "arm" \/ (hpc[w] = "returned" /\ timer'[w] = "armed")
      BY <1>2, <2>1 DEF WaitingSound
    <3>1. waiting'[q] = waiting[q] /\ waiting[q] \in Conn /\ waiting[q] # c
      BY <2>2, WhoWaits
    <3> QED
      BY <2>3, <3>1 DEF PairInv, WaitingSound
  <2>10. TimerSparesPairs'
    BY <1>1, <1>2, <2>2, <2>3, <2>4, RelayAssumption DEF PairInv, TimerSparesPairs
  <2> QED
    BY <2>5, <2>6, <2>7, <2>8, <2>9, <2>10 DEF PairInv
<1>4. CASE CloseExpired(c) \/ (Expire(c) /\ waiting[room[c]] # c)
  <2>1. /\ timer' = [timer EXCEPT ![c] = "done"]
        /\ UNCHANGED waiting
    BY <1>4 DEF Expire, CloseExpired
  <2>2. timer'[c] = "done" /\ \A d \in Conn : d # c => timer'[d] = timer[d]
    BY <2>1 DEF PairInv, Typed
  <2>3. /\ open' \in [Conn -> BOOLEAN] /\ inbox' \in [Conn -> Seq(Message)]
        /\ \A d \in Conn : d # c => open'[d] = open[d]
        /\ open'[c] => open[c] /\ timer[c] = "armed" /\ waiting[room[c]] # c
    <3>1. open \in [Conn -> BOOLEAN] /\ inbox \in [Conn -> Seq(Message)]
      BY DEF PairInv, Typed
    <3>2. CASE CloseExpired(c)
      <4>1. /\ open' = [d \in Conn |-> open[d] /\ d \notin {c}]
            /\ inbox' = [d \in Conn |-> IF d \in {c} THEN <<>> ELSE inbox[d]]
        BY <3>2 DEF CloseExpired, CloseAll
      <4>2. inbox' \in [Conn -> Seq(Message)]
        BY <3>1, <4>1
      <4>3. ~open'[c] /\ \A d \in Conn : d # c => open'[d] = open[d]
        BY <3>1, <4>1
      <4>4. open' \in [Conn -> BOOLEAN]
        BY <4>1
      <4> QED
        BY <4>2, <4>3, <4>4
    <3>3. CASE Expire(c) /\ waiting[room[c]] # c
      BY <3>1, <3>3 DEF Expire, wires
    <3> QED
      BY <1>4, <3>2, <3>3
  <2>4. \A q \in Room : waiting[q] # c
    <3>1. \A q \in Room : waiting[q] = c => room[c] = q /\ timer[c] = "armed"
      BY <1>1, RelayAssumption DEF PairInv, WaitingSound
    <3>2. CASE CloseExpired(c)
      BY <3>1, <3>2 DEF CloseExpired
    <3>3. CASE Expire(c) /\ waiting[room[c]] # c
      BY <3>1, <3>3
    <3> QED
      BY <1>4, <3>2, <3>3
  <2>5. Typed'
    BY <1>2, <2>1, <2>3 DEF PairInv, Typed
  <2>6. \A d \in Conn : Placed(d)'
    BY <1>1, <1>2, <2>2, <2>3 DEF PairInv, Typed, Placed
  <2>7. \A d \in Conn : CaredFor(d)'
    BY <1>1, <1>2, <2>1, <2>2, <2>3 DEF PairInv, CaredFor
  <2>8. Matched'
    BY <1>2 DEF PairInv, Matched
  <2>9. WaitingSound'
    <3> SUFFICES ASSUME NEW q \in Room, waiting[q] # None
                 PROVE  LET w == waiting[q] IN
                          /\ open'[w] /\ mate[w] = None /\ room[w] = q
                          /\ hpc[w] = "arm" \/ (hpc[w] = "returned" /\ timer'[w] = "armed")
      BY <1>2, <2>1 DEF WaitingSound
    <3>1. waiting[q] \in Conn /\ waiting[q] # c
      BY <2>4, WhoWaits
    <3> QED
      BY <2>2, <2>3, <3>1 DEF PairInv, WaitingSound
  <2>10. TimerSparesPairs'
    BY <1>2, <2>1, <2>2 DEF PairInv, TimerSparesPairs
  <2> QED
    BY <2>5, <2>6, <2>7, <2>8, <2>9, <2>10 DEF PairInv
<1> QED
  BY <1>3, <1>4

(* No step of a handler, a timer, a goroutine of pipe or a client breaks it. *)
THEOREM PairStep == PairInv /\ [Next]_vars => PairInv'
<1> SUFFICES ASSUME PairInv, [Next]_vars PROVE PairInv'
  OBVIOUS
<1>1. ASSUME NEW c \in Conn, Join(c) PROVE PairInv'
  BY <1>1, MeetStep, WaitStep
<1>2. ASSUME NEW c \in Conn, Handle(c) PROVE PairInv'
  BY <1>1, <1>2, GreetingSteps, ArmStep, TellSteps, EndSteps DEF Handle
<1>3. CASE UNCHANGED vars
  <2>1. UNCHANGED <<server, open, inbox, client>>
    BY <1>3 DEF vars, wires, clients, server
  <2> QED
    BY <2>1, ServerUntouched DEF PairInv, Typed
<1> QED
  BY <1>2, <1>3, DialStep, ClientSteps, EndSteps, TimerSteps DEF Next, Quiet

(* So handlers, timers and the map always fit together.                    *)
THEOREM PairAlways == Spec => []PairInv
BY PairInit, PairStep, PTL DEF Spec

-----------------------------------------------------------------------------
(* Pairing is mutual and within one room (Server.handle).                  *)
THEOREM MatchedHolds == Spec => []Matched
<1>1. PairInv => Matched
  BY DEF PairInv
<1> QED
  BY <1>1, PairAlways, PTL

(* What the map holds is open, unpaired and under its own room, and will   *)
(* be looked at by its timer (Server.handle, expireAfter).                 *)
THEOREM WaitingSoundHolds == Spec => []WaitingSound
<1>1. PairInv => WaitingSound
  BY DEF PairInv
<1> QED
  BY <1>1, PairAlways, PTL

(* The timer, which is never stopped, never closes a connection that has   *)
(* found a partner (expireAfter).                                          *)
THEOREM TimerSparesPairsHolds == Spec => []TimerSparesPairs
<1>1. PairInv => TimerSparesPairs
  BY DEF PairInv
<1> QED
  BY <1>1, PairAlways, PTL

(* No connection is left open with nobody to look after it.                *)
THEOREM NoStrandedHolds == Spec => []NoStranded
<1>1. PairInv => NoStranded
  BY DEF PairInv, NoStranded, CaredFor, Serving
<1> QED
  BY <1>1, PairAlways, PTL

-----------------------------------------------------------------------------
(* The refinement.  Only the two outcomes of the critical section of       *)
(* handle, and that of the timer, are steps of Rendezvous.                 *)

Seen == {c \in Conn : hpc[c] \in Joined}

Lone == {w \in Conn \X Room : waiting[w[2]] = w[1]}

Pairs == {{c, mate[c]} : c \in {d \in Conn : mate[d] # None}}

LEMMA Stays ==
  ASSUME \A c \in Conn : hpc'[c] \in Joined <=> hpc[c] \in Joined,
         UNCHANGED <<waiting, mate>>
  PROVE  UNCHANGED <<Seen, Lone, Pairs>>
BY DEF Seen, Lone, Pairs

LEMMA MeetMeets ==
  ASSUME PairInv, NEW c \in Conn, Join(c), waiting[room[c]] # None
  PROVE  /\ room[c] \in Room
         /\ waiting[room[c]] \in Conn
         /\ c \notin Seen
         /\ <<waiting[room[c]], room[c]>> \in Lone
         /\ Seen' = Seen \cup {c}
         /\ Lone' = Lone \ {<<waiting[room[c]], room[c]>>}
         /\ Pairs' = Pairs \cup {{c, waiting[room[c]]}}
<1> DEFINE r == room[c]
           p == waiting[r]
<1>1. hpc[c] = "join" /\ r \in Room /\ mate[c] = None
  BY DEF PairInv, Placed, Matched, Joined, Join
<1>2. p \in Conn /\ p # c /\ p # None /\ mate[p] = None
  BY <1>1, WhoWaits
<1>3. /\ waiting' = [waiting EXCEPT ![r] = None]
      /\ mate' = [mate EXCEPT ![c] = p, ![p] = c]
      /\ hpc' = [hpc EXCEPT ![c] = "tellPartner"]
  BY DEF Join
<1>4. /\ mate'[c] = p /\ mate'[p] = c
      /\ \A d \in Conn : d \notin {c, p} => mate'[d] = mate[d]
  BY <1>2, <1>3 DEF PairInv, Typed
<1>5. hpc'[c] = "tellPartner" /\ \A d \in Conn : d # c => hpc'[d] = hpc[d]
  BY <1>3 DEF PairInv, Typed
<1>6. waiting'[r] = None /\ \A q \in Room : q # r => waiting'[q] = waiting[q]
  BY <1>1, <1>3 DEF PairInv, Typed
<1>7. c \notin Seen /\ Seen' = Seen \cup {c}
  BY <1>1, <1>5 DEF Seen, Joined
<1>8. <<p, r>> \in Lone
  BY <1>1, <1>2 DEF Lone
<1>9. Lone' = Lone \ {<<p, r>>}
  <2>1. ASSUME NEW w \in Conn \X Room
        PROVE  waiting'[w[2]] = w[1] <=> waiting[w[2]] = w[1] /\ w # <<p, r>>
    <3>1. w = <<w[1], w[2]>> /\ w[1] \in Conn /\ w[2] \in Room /\ w[1] # None
      BY <2>1, RelayAssumption
    <3>2. CASE w[2] = r
      BY <1>6, <3>1, <3>2
    <3>3. CASE w[2] # r
      BY <1>6, <3>1, <3>3
    <3> QED
      BY <3>2, <3>3
  <2> QED
    BY <2>1 DEF Lone
<1>10. Pairs' = Pairs \cup {{c, p}}
  <2>1. Pairs' \subseteq Pairs \cup {{c, p}}
    BY <1>2, <1>4 DEF Pairs
  <2>2. Pairs \subseteq Pairs'
    <3> SUFFICES ASSUME NEW d \in Conn, mate[d] # None
                 PROVE  {d, mate[d]} \in Pairs'
      BY DEF Pairs
    <3>1. mate'[d] = mate[d]
      BY <1>1, <1>2, <1>4
    <3> QED
      BY <3>1 DEF Pairs
  <2>3. {c, p} \in Pairs'
    BY <1>2, <1>4 DEF Pairs
  <2> QED
    BY <2>1, <2>2, <2>3
<1> QED
  BY <1>1, <1>2, <1>7, <1>8, <1>9, <1>10

LEMMA WaitWaits ==
  ASSUME PairInv, NEW c \in Conn, Join(c), waiting[room[c]] = None
  PROVE  /\ room[c] \in Room
         /\ c \notin Seen
         /\ \A d \in Conn : <<d, room[c]>> \notin Lone
         /\ Seen' = Seen \cup {c}
         /\ Lone' = Lone \cup {<<c, room[c]>>}
         /\ Pairs' = Pairs
<1> DEFINE r == room[c]
<1>1. hpc[c] = "join" /\ r \in Room
  BY DEF PairInv, Placed, Joined, Join
<1>2. /\ waiting' = [waiting EXCEPT ![r] = c]
      /\ hpc' = [hpc EXCEPT ![c] = "arm"]
      /\ UNCHANGED mate
  BY DEF Join
<1>3. hpc'[c] = "arm" /\ \A d \in Conn : d # c => hpc'[d] = hpc[d]
  BY <1>2 DEF PairInv, Typed
<1>4. waiting'[r] = c /\ \A q \in Room : q # r => waiting'[q] = waiting[q]
  BY <1>1, <1>2 DEF PairInv, Typed
<1>5. c \notin Seen /\ Seen' = Seen \cup {c}
  BY <1>1, <1>3 DEF Seen, Joined
<1>6. \A d \in Conn : <<d, r>> \notin Lone
  BY RelayAssumption DEF Lone
<1>7. Lone' = Lone \cup {<<c, r>>}
  <2>1. ASSUME NEW w \in Conn \X Room
        PROVE  waiting'[w[2]] = w[1] <=> waiting[w[2]] = w[1] \/ w = <<c, r>>
    <3>1. w = <<w[1], w[2]>> /\ w[1] \in Conn /\ w[2] \in Room /\ w[1] # None
      BY <2>1, RelayAssumption
    <3>2. CASE w[2] = r
      BY <1>4, <3>1, <3>2
    <3>3. CASE w[2] # r
      BY <1>4, <3>1, <3>3
    <3> QED
      BY <3>2, <3>3
  <2>2. <<c, r>> \in Conn \X Room
    BY <1>1
  <2> QED
    BY <2>1, <2>2 DEF Lone
<1>8. Pairs' = Pairs
  BY <1>2 DEF Pairs
<1> QED
  BY <1>1, <1>5, <1>6, <1>7, <1>8

LEMMA ExpireDrops ==
  ASSUME PairInv, NEW c \in Conn, Expire(c), waiting[room[c]] = c
  PROVE  /\ room[c] \in Room
         /\ <<c, room[c]>> \in Lone
         /\ Seen' = Seen
         /\ Lone' = Lone \ {<<c, room[c]>>}
         /\ Pairs' = Pairs
<1> DEFINE r == room[c]
<1>1. r \in Room
  BY DEF PairInv, Placed, Joined, Expire
<1>2. waiting' = [waiting EXCEPT ![r] = None] /\ UNCHANGED <<hpc, mate>>
  BY DEF Expire
<1>3. waiting'[r] = None /\ \A q \in Room : q # r => waiting'[q] = waiting[q]
  BY <1>1, <1>2 DEF PairInv, Typed
<1>4. <<c, r>> \in Lone
  BY <1>1 DEF Lone
<1>5. Lone' = Lone \ {<<c, r>>}
  <2>1. ASSUME NEW w \in Conn \X Room
        PROVE  waiting'[w[2]] = w[1] <=> waiting[w[2]] = w[1] /\ w # <<c, r>>
    <3>1. w = <<w[1], w[2]>> /\ w[1] \in Conn /\ w[2] \in Room /\ w[1] # None
      BY <2>1, RelayAssumption
    <3>2. CASE w[2] = r
      BY <1>3, <3>1, <3>2
    <3>3. CASE w[2] # r
      BY <1>3, <3>1, <3>3
    <3> QED
      BY <3>2, <3>3
  <2> QED
    BY <2>1 DEF Lone
<1>6. Seen' = Seen /\ Pairs' = Pairs
  BY <1>2 DEF Seen, Pairs
<1> QED
  BY <1>1, <1>4, <1>5, <1>6

(* Every other step leaves the three alone.                                *)
LEMMA OthersStay ==
  ASSUME PairInv, NEW c \in Conn,
         \/ Dial(c) \/ Speak(c) \/ Listen(c) \/ Leave(c) \/ Dropped(c) \/ Reset(c)
         \/ ReadGreeting(c) \/ ReadRoom(c) \/ Reject(c) \/ Arm(c)
         \/ TellPartner(c) \/ TellSelf(c) \/ TellFails(c) \/ PipeReturns(c)
         \/ Copy(c) \/ CopyEnds(c) \/ CloseSource(c) \/ CloseExpired(c)
         \/ (Expire(c) /\ waiting[room[c]] # c)
  PROVE  UNCHANGED <<Seen, Lone, Pairs>>
<1>1. UNCHANGED <<waiting, mate>>
  BY DEF Dial, Speak, Listen, Leave, Dropped, HangsUp, Reset, ReadGreeting,
         ReadRoom, Reject, Arm, TellPartner, TellSelf, TellFails, PipeReturns,
         Copy, CopyEnds, CloseSource, CloseExpired, Expire, server
<1>2. hpc \in [Conn -> {"off", "greeting", "room", "join", "rejected"} \cup Joined]
  BY DEF PairInv, Typed
<1>3. \A d \in Conn : hpc'[d] \in Joined <=> hpc[d] \in Joined
  <2>1. CASE \/ Speak(c) \/ Listen(c) \/ Leave(c) \/ Dropped(c) \/ Reset(c)
             \/ Copy(c) \/ CopyEnds(c) \/ CloseSource(c) \/ CloseExpired(c) \/ Expire(c)
    BY <2>1 DEF Speak, Listen, Leave, Dropped, HangsUp, Reset, Copy, CopyEnds,
                CloseSource, CloseExpired, Expire, server
  <2>2. CASE Dial(c) \/ ReadGreeting(c) \/ ReadRoom(c) \/ Reject(c)
    <3>1. hpc[c] \notin Joined
      BY <2>2 DEF PairInv, Placed, Dial, ReadGreeting, ReadRoom, Reject, Joined
    <3>2. /\ hpc'[c] \in {"greeting", "room", "join", "rejected"}
          /\ \A d \in Conn : d # c => hpc'[d] = hpc[d]
      BY <1>2, <2>2 DEF Dial, ReadGreeting, ReadRoom, Reject
    <3> QED
      BY <3>1, <3>2 DEF Joined
  <2>3. CASE \/ Arm(c) \/ TellPartner(c) \/ TellSelf(c) \/ TellFails(c)
             \/ PipeReturns(c)
    BY <1>2, <2>3 DEF Arm, TellPartner, TellSelf, TellFails, PipeReturns, Joined
  <2> QED
    BY <2>1, <2>2, <2>3
<1> QED
  BY <1>1, <1>3, Stays

(* The relay does what Rendezvous says.                                    *)
THEOREM RelayImplements == Spec => Implements
<1>1. Init => Abstract!Init
  <2> SUFFICES ASSUME Init PROVE Seen = {} /\ Lone = {} /\ Pairs = {}
    BY DEF Abstract!Init, Seen, Lone, Pairs
  <2>1. Seen = {} /\ Pairs = {}
    BY DEF Init, Seen, Pairs, Joined
  <2>2. Lone = {}
    BY RelayAssumption DEF Init, Lone
  <2> QED
    BY <2>1, <2>2
<1>2. PairInv /\ [Next]_vars => [Abstract!Next]_(Abstract!vars)
  <2> SUFFICES ASSUME PairInv, [Next]_vars
               PROVE  Abstract!Next \/ UNCHANGED <<Seen, Lone, Pairs>>
    BY DEF Abstract!vars, Seen, Lone, Pairs
  <2>1. ASSUME NEW c \in Conn, Join(c), waiting[room[c]] # None
        PROVE  Abstract!Next
    <3>1. Abstract!Meet(c, waiting[room[c]], room[c])
      BY <2>1, MeetMeets DEF Abstract!Meet, Seen, Lone, Pairs
    <3>2. room[c] \in Room /\ waiting[room[c]] \in Conn
      BY <2>1, MeetMeets
    <3> QED
      BY <3>1, <3>2 DEF Abstract!Next, Abstract!Meet
  <2>2. ASSUME NEW c \in Conn, Join(c), waiting[room[c]] = None
        PROVE  Abstract!Next
    <3>1. Abstract!Wait(c, room[c])
      BY <2>2, WaitWaits DEF Abstract!Wait, Seen, Lone, Pairs
    <3>2. room[c] \in Room
      BY <2>2, WaitWaits
    <3> QED
      BY <3>1, <3>2 DEF Abstract!Next, Abstract!Wait
  <2>3. ASSUME NEW c \in Conn, Expire(c), waiting[room[c]] = c
        PROVE  Abstract!Next
    <3>1. Abstract!Drop(c, room[c])
      BY <2>3, ExpireDrops DEF Abstract!Drop, Seen, Lone, Pairs
    <3>2. room[c] \in Room
      BY <2>3, ExpireDrops
    <3> QED
      BY <3>1, <3>2 DEF Abstract!Next, Abstract!Drop
  <2>4. CASE UNCHANGED vars
    BY <2>4 DEF vars, server, Seen, Lone, Pairs
  <2> QED
    BY <2>1, <2>2, <2>3, <2>4, OthersStay DEF Next, Handle, Quiet
<1> QED
  BY <1>1, <1>2, PairAlways, PTL DEF Spec, Implements, Abstract!Spec
=============================================================================
