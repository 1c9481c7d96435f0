------------------------------ MODULE TalkProofs ------------------------------
(***************************************************************************)
(* Theorems about what clients of Relay are told and hear, for any number  *)
(* of connections and rooms: a client hears nobody but its partner, and    *)
(* nothing before it knows that it is paired.                              *)
(***************************************************************************)
EXTENDS RelayProofs

(* How far a client can be ahead of its handler: what is under way to a    *)
(* handler that has not joined is what is left of the greeting and the     *)
(* room, and after that only the client's own words are.                   *)
Ahead(c) ==
  /\ hpc[c] = "off" => client[c] = "off"
  /\ hpc[c] \in {"off", "rejected"} => ~open[c]
  /\ ~open[c] => inbox[c] = <<>>
  /\ hpc[c] = "greeting" =>
       \/ client[c] = "hello" /\ Len(inbox[c]) = 0
       \/ client[c] = "name" /\ Len(inbox[c]) = 1
       \/ client[c] \in {"wait", "gone"} /\ Len(inbox[c]) \in {0, 1, 2}
  /\ hpc[c] = "room" =>
       \/ client[c] = "name" /\ Len(inbox[c]) = 0
       \/ client[c] \in {"wait", "gone"} /\ Len(inbox[c]) \in {0, 1}
  /\ hpc[c] = "join" => client[c] \in {"wait", "gone"} /\ Len(inbox[c]) = 0
  /\ hpc[c] \in Joined =>
       /\ client[c] \in {"wait", "paired", "spoke", "gone"}
       /\ \A k \in DOMAIN inbox[c] : inbox[c][k] = Words(c)
  /\ client[c] \in {"paired", "spoke"} => mate[c] # None

(* Nothing has been sent to c: it has no partner, or its own handler or    *)
(* its partner's has yet to tell it that it has.                           *)
Untold(c) ==
  \/ mate[c] = None
  \/ hpc[c] \in {"tellPartner", "tellSelf"}
  \/ hpc[mate[c]] = "tellPartner"

(* What the relay can have sent to the partner of d: first that it is      *)
(* paired, then words of d.                                                *)
Hearable(s, d) ==
  \A k \in DOMAIN s : s[k] = Words(d) \/ (k = 1 /\ s[k] = Paired)

(* What is under way to a client goes with what its handler and its        *)
(* partner's have done.                                                    *)
Told(c) ==
  /\ Untold(c) => outbox[c] = <<>> /\ client[c] \notin {"paired", "spoke"} /\ copier[c] = "off"
  /\ hpc[c] \in Serving => hpc[mate[c]] \in {"arm", "returned"}
  /\ hpc[c] = "tellSelf" /\ client[mate[c]] = "wait" => outbox[mate[c]] # <<>>
  /\ copier[c] # "off" =>
       copier[mate[c]] # "off" /\ (client[c] = "wait" => outbox[c] # <<>>)
  /\ Hearable(outbox[c], mate[c])
  /\ client[c] = "wait" /\ outbox[c] # <<>> => Head(outbox[c]) = Paired
  /\ client[c] = "gone" => outbox[c] = <<>>
  /\ \A d \in heard[c] : d = mate[c]

TalkInv ==
  /\ outbox \in [Conn -> Seq(Message)]
  /\ heard \in [Conn -> SUBSET Conn]
  /\ \A c \in Conn : Ahead(c) /\ Told(c)

-----------------------------------------------------------------------------
(* Sequences                                                               *)
LEMMA AppendOne ==
  ASSUME NEW S, NEW s \in Seq(S), NEW m \in S
  PROVE  /\ Append(s, m) \in Seq(S)
         /\ Len(Append(s, m)) = Len(s) + 1
         /\ Append(s, m) # <<>>
         /\ s # <<>> => Head(Append(s, m)) = Head(s)
         /\ s = <<>> => Head(Append(s, m)) = m
         /\ \A k \in DOMAIN Append(s, m) :
              \/ k \in DOMAIN s /\ Append(s, m)[k] = s[k]
              \/ k = Len(s) + 1 /\ Append(s, m)[k] = m
<1>1. Append(s, m) \in Seq(S) /\ Len(Append(s, m)) = Len(s) + 1
  OBVIOUS
<1>2. Append(s, m) # <<>>
  <2>1. Len(s) \in Nat /\ Len(<<>>) = 0
    OBVIOUS
  <2> QED
    BY <1>1, <2>1
<1>3. s # <<>> => Head(Append(s, m)) = Head(s)
  OBVIOUS
<1>4. s = <<>> => Head(Append(s, m)) = m
  OBVIOUS
<1>5. ASSUME NEW k \in DOMAIN Append(s, m)
      PROVE  \/ k \in DOMAIN s /\ Append(s, m)[k] = s[k]
             \/ k = Len(s) + 1 /\ Append(s, m)[k] = m
  OBVIOUS
<1> QED
  BY <1>1, <1>2, <1>3, <1>4, <1>5

LEMMA TailOne ==
  ASSUME NEW S, NEW s \in Seq(S), s # <<>>
  PROVE  /\ Tail(s) \in Seq(S)
         /\ Len(Tail(s)) = Len(s) - 1
         /\ Head(s) \in S
         /\ Head(s) = s[1] /\ 1 \in DOMAIN s
         /\ \A k \in DOMAIN Tail(s) :
              k + 1 \in DOMAIN s /\ Tail(s)[k] = s[k + 1] /\ k + 1 # 1
  OBVIOUS

(* What a client can say and be told are messages, and told apart.         *)
LEMMA MessagesApart ==
  /\ Greeting \in Message /\ Noise \in Message /\ Paired \in Message
  /\ \A r \in Room : Named(r) \in Message
  /\ \A c \in Conn : Words(c) \in Message /\ Words(c) # Paired /\ Words(c).from = c
  /\ \A c, d : Words(c) = Words(d) => c = d
<1>1. \A c : Words(c).from = c /\ Words(c).type = "words"
  BY DEF Words
<1>2. Paired.type = "paired"
  BY DEF Paired
<1>3. \A c, d : Words(c) = Words(d) => c = d
  BY <1>1
<1>4. \A c : Words(c) # Paired
  BY <1>1, <1>2
<1>5. /\ Greeting \in Message /\ Noise \in Message /\ Paired \in Message
      /\ \A r \in Room : Named(r) \in Message
      /\ \A c \in Conn : Words(c) \in Message
  BY DEF Message, Greeting, Noise, Words, Named, Paired
<1> QED
  BY <1>1, <1>3, <1>4, <1>5

LEMMA EmptyHearable == \A d : Hearable(<<>>, d)
  BY DEF Hearable

LEMMA FirstMessage ==
  /\ Append(<<>>, Paired) # <<>> /\ Head(Append(<<>>, Paired)) = Paired
  /\ \A d : Hearable(Append(<<>>, Paired), d)
<1>1. <<>> \in Seq(Message) /\ Paired \in Message
  BY MessagesApart
<1>2. Append(<<>>, Paired) # <<>> /\ Head(Append(<<>>, Paired)) = Paired
  BY <1>1, AppendOne
<1>3. ASSUME NEW k \in DOMAIN Append(<<>>, Paired)
      PROVE  k = 1 /\ Append(<<>>, Paired)[k] = Paired
  OBVIOUS
<1> QED
  BY <1>2, <1>3 DEF Hearable

LEMMA TalkInit == Init => TalkInv
<1> SUFFICES ASSUME Init PROVE TalkInv
  OBVIOUS
<1>1. outbox \in [Conn -> Seq(Message)] /\ heard \in [Conn -> SUBSET Conn]
  BY DEF Init
<1>2. ASSUME NEW c \in Conn PROVE Ahead(c)
  BY DEF Init, Ahead, Joined
<1>3. ASSUME NEW c \in Conn PROVE Told(c)
  BY EmptyHearable DEF Init, Told, Serving
<1> QED
  BY <1>1, <1>2, <1>3 DEF TalkInv

-----------------------------------------------------------------------------
(* Ahead is kept: where nothing that it mentions changes, and where a      *)
(* connection that has joined is closed.                                   *)
LEMMA AheadSame ==
  ASSUME NEW d \in Conn, Ahead(d), client'[d] = client[d], inbox'[d] = inbox[d],
         open'[d] = open[d], hpc'[d] = hpc[d], mate[d] # None => mate'[d] # None
  PROVE  Ahead(d)'
BY DEF Ahead

LEMMA AheadJoined ==
  ASSUME NEW d \in Conn, Ahead(d), client'[d] = client[d],
         inbox'[d] = inbox[d] \/ inbox'[d] = <<>>, ~open'[d] => inbox'[d] = <<>>,
         hpc[d] \in {"join"} \cup Joined, hpc'[d] \in Joined,
         inbox[d] \in Seq(Message), mate[d] # None => mate'[d] # None
  PROVE  Ahead(d)'
<1>1. client[d] \in {"wait", "paired", "spoke", "gone"}
  BY DEF Ahead, Joined
<1>2. ASSUME NEW k \in DOMAIN inbox'[d] PROVE inbox'[d][k] = Words(d)
  <2>1. CASE hpc[d] = "join"
    <3>1. inbox[d] = <<>>
      BY <2>1 DEF Ahead
    <3> QED
      BY <1>2, <3>1
  <2>2. CASE hpc[d] \in Joined
    BY <1>2, <2>2 DEF Ahead
  <2> QED
    BY <2>1, <2>2
<1> QED
  BY <1>1, <1>2 DEF Ahead, Joined

(* What a client says before it has been told is for its own handler, and  *)
(* what it says after that are its own words.                              *)
LEMMA AheadSpeak ==
  ASSUME PairInv, TalkInv, NEW c \in Conn, Speak(c)
  PROVE  \A d \in Conn : Ahead(d)'
<1>1. /\ client[c] \in {"hello", "name", "paired"}
      /\ \E m \in Message :
           /\ Says(c, m)
           /\ client[c] = "paired" => m = Words(c) /\ client'[c] = "spoke"
           /\ client[c] # "paired" => client'[c] \in {"name", "wait"}
           /\ client'[c] = "name" => client[c] = "hello"
      /\ \A d \in Conn : d # c => client'[d] = client[d]
      /\ UNCHANGED <<open, hpc, mate>>
  BY MessagesApart DEF Speak, server, PairInv, Typed
<1>2. PICK m \in Message :
           /\ Says(c, m)
           /\ client[c] = "paired" => m = Words(c) /\ client'[c] = "spoke"
           /\ client[c] # "paired" => client'[c] \in {"name", "wait"}
           /\ client'[c] = "name" => client[c] = "hello"
  BY <1>1
<1>3. /\ \A d \in Conn : d # c => inbox'[d] = inbox[d]
      /\ open[c] => inbox'[c] = Append(inbox[c], m)
      /\ ~open[c] => inbox'[c] = inbox[c]
  BY <1>2 DEF Says, PairInv, Typed
<1>4. \A d \in Conn : d # c => Ahead(d)'
  BY <1>1, <1>3, AheadSame DEF TalkInv
<1>5. Ahead(c)'
  <2>1. Ahead(c) /\ inbox[c] \in Seq(Message) /\ Len(inbox[c]) \in Nat
    BY DEF TalkInv, PairInv, Typed
  <2>2. CASE ~open[c]
    <3>1. hpc[c] \notin {"greeting", "room", "join"}
      BY <2>2 DEF PairInv, Placed
    <3>2. hpc[c] \in Joined => client[c] = "paired"
      BY <1>1, <2>1 DEF Ahead
    <3> QED
      BY <1>1, <1>2, <1>3, <2>1, <2>2, <3>1, <3>2 DEF Ahead, Joined
  <2>3. CASE open[c]
    <3>1. inbox'[c] \in Seq(Message) /\ Len(inbox'[c]) = Len(inbox[c]) + 1
      <4>1. inbox'[c] = Append(inbox[c], m)
        BY <1>3, <2>3
      <4> QED
        BY <2>1, <4>1, AppendOne
    <3>2. CASE client[c] = "paired"
      <4>1. hpc[c] \in Joined
        BY <2>1, <3>2 DEF Ahead, PairInv, Matched
      <4>2. \A k \in DOMAIN inbox'[c] : inbox'[c][k] = Words(c)
        BY <1>2, <1>3, <2>1, <2>3, <3>2, <4>1, AppendOne, SMTT(30) DEF Ahead
      <4> QED
        BY <1>1, <1>2, <2>1, <2>3, <3>2, <4>1, <4>2 DEF Ahead, Joined
    <3>3. CASE client[c] = "hello"
      <4>1. hpc[c] = "greeting" /\ Len(inbox[c]) = 0
        BY <2>1, <2>3, <3>3 DEF Ahead, PairInv, Typed
      <4> QED
        BY <1>1, <1>2, <2>3, <3>1, <3>3, <4>1 DEF Ahead, Joined
    <3>4. CASE client[c] = "name"
      <4>1. \/ hpc[c] = "greeting" /\ Len(inbox[c]) = 1
            \/ hpc[c] = "room" /\ Len(inbox[c]) = 0
        BY <2>1, <2>3, <3>4 DEF Ahead, PairInv, Typed
      <4>2. client'[c] = "wait" /\ hpc'[c] = hpc[c] /\ open'[c]
        BY <1>1, <1>2, <2>3, <3>4
      <4>3. \/ hpc[c] = "greeting" /\ Len(inbox'[c]) = 2
            \/ hpc[c] = "room" /\ Len(inbox'[c]) = 1
        <5>1. CASE hpc[c] = "greeting" /\ Len(inbox[c]) = 1
          BY <2>1, <3>1, <5>1
        <5>2. CASE hpc[c] = "room" /\ Len(inbox[c]) = 0
          BY <2>1, <3>1, <5>2
        <5> QED
          BY <4>1, <5>1, <5>2
      <4> QED
        BY <4>2, <4>3 DEF Ahead, Joined
    <3> QED
      BY <1>1, <3>2, <3>3, <3>4
  <2> QED
    BY <2>2, <2>3
<1> QED
  BY <1>4, <1>5

(* What a client does besides                                              *)
LEMMA AheadClient ==
  ASSUME PairInv, TalkInv, NEW c \in Conn,
         Dial(c) \/ Listen(c) \/ Leave(c) \/ Dropped(c) \/ Reset(c)
  PROVE  \A d \in Conn : Ahead(d)'
<1>1. \A d \in Conn : d # c => Ahead(d)'
  <2>1. ASSUME NEW d \in Conn, d # c
        PROVE  /\ client'[d] = client[d] /\ inbox'[d] = inbox[d] /\ open'[d] = open[d]
               /\ hpc'[d] = hpc[d] /\ mate'[d] = mate[d]
    BY <2>1 DEF Dial, Listen, Leave, Dropped, HangsUp, Reset, clients, server, PairInv, Typed
  <2> QED
    BY <2>1, AheadSame DEF TalkInv
<1>2. Ahead(c) /\ Told(c) /\ inbox[c] \in Seq(Message)
  BY DEF TalkInv, PairInv, Typed
<1>3. CASE Dial(c)
  <2>1. /\ client'[c] = "hello" /\ hpc'[c] = "greeting" /\ open'[c] = TRUE
        /\ inbox'[c] = inbox[c] /\ client[c] = "off"
    BY <1>3 DEF Dial, PairInv, Typed
  <2>2. inbox[c] = <<>>
    BY <1>2, <2>1 DEF Ahead, PairInv, Placed
  <2> QED
    BY <1>1, <2>1, <2>2 DEF Ahead, Joined
<1>4. CASE Listen(c)
  <2>1. UNCHANGED <<inbox, open, hpc, mate>> /\ outbox[c] # <<>>
    BY <1>4 DEF Listen, server
  <2>2. client'[c] = client[c] \/ client'[c] = "paired"
    BY <1>4 DEF Listen, PairInv, Typed
  <2>3. mate[c] # None /\ hpc[c] \in Joined
    BY <1>2, <2>1 DEF Told, Untold, PairInv, Matched
  <2> QED
    BY <1>1, <1>2, <2>1, <2>2, <2>3 DEF Ahead, Joined
<1>5. CASE Leave(c) \/ Dropped(c)
  <2>1. /\ UNCHANGED <<inbox, open, hpc, mate>> /\ client'[c] = "gone"
        /\ client[c] # "off"
    BY <1>5 DEF Leave, Dropped, HangsUp, server, PairInv, Typed
  <2>2. /\ hpc[c] = "greeting" => Len(inbox[c]) \in {0, 1, 2}
        /\ hpc[c] = "room" => Len(inbox[c]) \in {0, 1}
    BY <1>2 DEF Ahead
  <2>3. /\ hpc'[c] = hpc[c] /\ inbox'[c] = inbox[c] /\ open'[c] = open[c]
        /\ hpc[c] # "off"
    BY <1>2, <2>1 DEF Ahead
  <2>4. hpc[c] = "join" => Len(inbox[c]) = 0
    BY <1>2 DEF Ahead
  <2>5. Ahead(c)'
    <3>1. hpc[c] \in Joined => \A k \in DOMAIN inbox'[c] : inbox'[c][k] = Words(c)
      BY <1>2, <2>3 DEF Ahead
    <3>2. /\ hpc'[c] \in {"off", "rejected"} => ~open'[c]
          /\ ~open'[c] => inbox'[c] = <<>>
      BY <1>2, <2>3 DEF Ahead
    <3> QED
      BY <2>1, <2>2, <2>3, <2>4, <3>1, <3>2 DEF Ahead, Joined
  <2> QED
    BY <1>1, <2>5
<1>6. CASE Reset(c)
  <2>1. /\ UNCHANGED <<client, open, hpc, mate>> /\ client[c] = "gone"
        /\ inbox'[c] = <<>>
    BY <1>6 DEF Reset, clients, server, PairInv, Typed
  <2> QED
    BY <1>1, <1>2, <2>1 DEF Ahead, Joined
<1> QED
  BY <1>3, <1>4, <1>5, <1>6

(* The handler before the critical section                                 *)
LEMMA AheadGreeting ==
  ASSUME PairInv, TalkInv, NEW c \in Conn,
         ReadGreeting(c) \/ ReadRoom(c) \/ Reject(c)
  PROVE  \A d \in Conn : Ahead(d)'
<1>1. \A d \in Conn : d # c => Ahead(d)'
  <2>1. ASSUME NEW d \in Conn, d # c
        PROVE  /\ client'[d] = client[d] /\ inbox'[d] = inbox[d] /\ open'[d] = open[d]
               /\ hpc'[d] = hpc[d] /\ mate'[d] = mate[d]
    <3>1. CASE ReadGreeting(c) \/ ReadRoom(c)
      BY <2>1, <3>1 DEF ReadGreeting, ReadRoom, clients, PairInv, Typed
    <3>2. CASE Reject(c)
      BY <2>1, <3>2 DEF Reject, CloseAll, clients, PairInv, Typed
    <3> QED
      BY <3>1, <3>2
  <2> QED
    BY <2>1, AheadSame DEF TalkInv
<1>2. Ahead(c) /\ inbox[c] \in Seq(Message)
  BY DEF TalkInv, PairInv, Typed
<1>3. ASSUME ReadGreeting(c) \/ ReadRoom(c)
      PROVE  /\ UNCHANGED <<client, open, mate>>
             /\ inbox[c] # <<>> /\ inbox'[c] = Tail(inbox[c])
             /\ Len(inbox[c]) \in Nat \ {0} /\ Len(inbox'[c]) = Len(inbox[c]) - 1
  <2>1. /\ UNCHANGED <<client, open, mate>>
        /\ inbox[c] # <<>> /\ inbox'[c] = Tail(inbox[c])
    BY <1>3 DEF ReadGreeting, ReadRoom, clients, PairInv, Typed
  <2> QED
    BY <1>2, <2>1, TailOne
<1>4. CASE ReadGreeting(c)
  <2>1. hpc[c] = "greeting" /\ hpc'[c] = "room" /\ open[c]
    BY <1>4 DEF ReadGreeting, PairInv, Typed, Placed
  <2>2. CASE client[c] = "name" /\ Len(inbox[c]) = 1
    <3>1. Len(inbox'[c]) = 0
      BY <1>3, <1>4, <2>2
    <3> QED
      BY <1>1, <1>3, <1>4, <2>1, <2>2, <3>1 DEF Ahead, Joined
  <2>3. CASE client[c] \in {"wait", "gone"} /\ Len(inbox[c]) \in {0, 1, 2}
    <3>1. Len(inbox'[c]) \in {0, 1}
      <4>1. Len(inbox[c]) \in {1, 2}
        BY <1>3, <1>4, <2>3
      <4>2. Len(inbox'[c]) = Len(inbox[c]) - 1
        BY <1>3, <1>4
      <4>3. CASE Len(inbox[c]) = 1
        BY <4>2, <4>3
      <4>4. CASE Len(inbox[c]) = 2
        BY <4>2, <4>4
      <4> QED
        BY <4>1, <4>3, <4>4
    <3> QED
      BY <1>1, <1>3, <1>4, <2>1, <2>3, <3>1 DEF Ahead, Joined
  <2> QED
    BY <1>2, <1>3, <1>4, <2>1, <2>2, <2>3 DEF Ahead
<1>5. CASE ReadRoom(c)
  <2>1. hpc[c] = "room" /\ hpc'[c] = "join" /\ open[c]
    BY <1>5 DEF ReadRoom, PairInv, Typed, Placed
  <2>2. client[c] \in {"wait", "gone"} /\ Len(inbox[c]) = 1
    BY <1>2, <1>3, <1>5, <2>1 DEF Ahead
  <2>3. Len(inbox'[c]) = 0
    BY <1>3, <1>5, <2>2
  <2> QED
    BY <1>1, <1>3, <1>5, <2>1, <2>2, <2>3 DEF Ahead, Joined
<1>6. CASE Reject(c)
  <2>1. /\ hpc'[c] = "rejected" /\ UNCHANGED <<client, mate>>
        /\ open' = [d \in Conn |-> open[d] /\ d \notin {c}]
        /\ inbox'[c] = <<>>
    BY <1>6 DEF Reject, CloseAll, clients, PairInv, Typed
  <2>2. ~open'[c]
    BY <2>1
  <2> QED
    BY <1>1, <1>2, <2>1, <2>2 DEF Ahead, Joined
<1> QED
  BY <1>4, <1>5, <1>6

(* The handler after it, and the timer at work                             *)
LEMMA AheadServing ==
  ASSUME PairInv, TalkInv, NEW c \in Conn,
         \/ Join(c) \/ Arm(c) \/ TellPartner(c) \/ TellSelf(c) \/ PipeReturns(c)
         \/ Expire(c)
  PROVE  \A d \in Conn : Ahead(d)'
<1>1. UNCHANGED <<client, inbox, open>>
  BY DEF Join, Arm, TellPartner, TellSelf, PipeReturns, Expire, clients, wires
<1>2. ASSUME NEW d \in Conn, mate[d] # None PROVE mate'[d] # None
  <2>1. CASE Join(c)
    <3>1. CASE waiting[room[c]] = None
      BY <1>2, <2>1, <3>1 DEF Join
    <3>2. CASE waiting[room[c]] # None
      <4>1. room[c] \in Room /\ waiting[room[c]] \in Conn
        BY <2>1, <3>2, WhoWaits DEF Join, PairInv, Placed
      <4>2. mate' = [mate EXCEPT ![c] = waiting[room[c]], ![waiting[room[c]]] = c]
        BY <2>1, <3>2 DEF Join
      <4> QED
        BY <1>2, <4>1, <4>2, RelayAssumption DEF PairInv, Typed
    <3> QED
      BY <3>1, <3>2
  <2>2. CASE ~Join(c)
    BY <1>2, <2>2 DEF Arm, TellPartner, TellSelf, PipeReturns, Expire
  <2> QED
    BY <2>1, <2>2
<1>3. ASSUME NEW d \in Conn
      PROVE  hpc'[d] = hpc[d] \/ (hpc[d] \in {"join"} \cup Joined /\ hpc'[d] \in Joined)
  BY DEF Join, Arm, TellPartner, TellSelf, PipeReturns, Expire, Joined, PairInv, Typed
<1> SUFFICES ASSUME NEW d \in Conn PROVE Ahead(d)'
  OBVIOUS
<1>4. Ahead(d) /\ inbox[d] \in Seq(Message)
  BY DEF TalkInv, PairInv, Typed
<1>5. ~open'[d] => inbox'[d] = <<>>
  BY <1>1, <1>4 DEF Ahead
<1> QED
  BY <1>1, <1>2, <1>3, <1>4, <1>5, AheadSame, AheadJoined

LEMMA AheadCopy ==
  ASSUME PairInv, TalkInv, NEW c \in Conn, Copy(c)
  PROVE  \A d \in Conn : Ahead(d)'
<1>1. /\ UNCHANGED <<client, open, hpc, mate>> /\ inbox[c] # <<>>
      /\ inbox'[c] = Tail(inbox[c])
      /\ \A d \in Conn : d # c => inbox'[d] = inbox[d]
  BY DEF Copy, clients, server, PairInv, Typed
<1>2. \A d \in Conn : d # c => Ahead(d)'
  BY <1>1, AheadSame DEF TalkInv
<1>3. Ahead(c) /\ inbox[c] \in Seq(Message)
  BY DEF TalkInv, PairInv, Typed
<1>4. hpc[c] \in Joined
  BY DEF Copy, PairInv, Placed, Matched
<1>5. \A k \in DOMAIN inbox'[c] : inbox'[c][k] = Words(c)
  BY <1>1, <1>3, <1>4, TailOne DEF Ahead
<1>6. open[c]
  BY <1>1, <1>3 DEF Ahead
<1> QED
  BY <1>1, <1>2, <1>3, <1>4, <1>5, <1>6, ZenonT(60) DEF Ahead, Joined

(* Only connections that have joined are closed besides.                   *)
LEMMA AheadClosed ==
  ASSUME PairInv, TalkInv, NEW c \in Conn,
         TellFails(c) \/ CopyEnds(c) \/ CloseSource(c) \/ CloseExpired(c)
  PROVE  \A d \in Conn : Ahead(d)'
<1>1. /\ UNCHANGED <<client, mate>>
      /\ \E C \in SUBSET {d \in Conn : hpc[d] \in Joined} : CloseAll(C)
  <2>1. CASE TellFails(c)
    <3>1. hpc[c] \in Joined /\ mate[c] # None
      BY <2>1 DEF TellFails, PairInv, Placed, Joined, Serving
    <3>2. mate[c] \in Conn /\ hpc[mate[c]] \in Joined
      BY <3>1, RelayAssumption DEF PairInv, Typed, Matched, ConnOrNone
    <3>3. CloseAll({c, mate[c]}) /\ UNCHANGED <<client, mate>>
      BY <2>1 DEF TellFails, clients
    <3> QED
      BY <3>1, <3>2, <3>3
  <2>2. CASE CopyEnds(c)
    <3>1. hpc[c] \in Joined /\ mate[c] # None
      BY <2>2 DEF CopyEnds, PairInv, Placed, Matched
    <3>2. mate[c] \in Conn /\ hpc[mate[c]] \in Joined
      BY <3>1, RelayAssumption DEF PairInv, Typed, Matched, ConnOrNone
    <3>3. CloseAll({mate[c]}) /\ UNCHANGED <<client, mate>>
      BY <2>2 DEF CopyEnds, clients
    <3> QED
      BY <3>1, <3>2, <3>3
  <2>3. CASE CloseSource(c) \/ CloseExpired(c)
    <3>1. hpc[c] \in Joined
      BY <2>3 DEF CloseSource, CloseExpired, PairInv, Placed, Matched, Joined
    <3>2. CloseAll({c}) /\ UNCHANGED <<client, mate>>
      BY <2>3 DEF CloseSource, CloseExpired, clients
    <3> QED
      BY <3>1, <3>2
  <2> QED
    BY <2>1, <2>2, <2>3
<1>2. PICK C \in SUBSET {d \in Conn : hpc[d] \in Joined} : CloseAll(C)
  BY <1>1
<1>3. \A d \in Conn : hpc'[d] = hpc[d] \/ (hpc[d] \in Joined /\ hpc'[d] \in Joined)
  BY DEF TellFails, CopyEnds, CloseSource, CloseExpired, Joined, PairInv, Typed
<1> SUFFICES ASSUME NEW d \in Conn PROVE Ahead(d)'
  OBVIOUS
<1>4. Ahead(d) /\ inbox[d] \in Seq(Message) /\ open[d] \in BOOLEAN
  BY DEF TalkInv, PairInv, Typed
<1>5. CASE d \notin C
  <2>1. inbox'[d] = inbox[d]
    BY <1>2, <1>5 DEF CloseAll
  <2>2. open'[d] = open[d]
    <3>1. open'[d] <=> open[d]
      BY <1>2, <1>5 DEF CloseAll
    <3>2. open'[d] \in BOOLEAN
      BY <1>2 DEF CloseAll
    <3> QED
      BY <1>4, <3>1, <3>2
  <2>3. ~open'[d] => inbox'[d] = <<>>
    BY <1>4, <2>1, <2>2 DEF Ahead
  <2> QED
    BY <1>1, <1>3, <1>4, <2>1, <2>2, <2>3, AheadSame, AheadJoined
<1>6. CASE d \in C
  <2>1. inbox'[d] = <<>> /\ hpc[d] \in Joined
    BY <1>2, <1>6 DEF CloseAll
  <2>2. hpc'[d] \in Joined
    BY <1>3, <2>1
  <2> QED
    BY <1>1, <1>4, <2>1, <2>2, AheadJoined
<1> QED
  BY <1>5, <1>6

-----------------------------------------------------------------------------
(* Told is kept by whatever sends and reads nothing: no handler starts to  *)
(* serve, none that has left its connection takes it up again, no copier   *)
(* starts, and no client of a pair begins or ceases to wait.               *)
LEMMA ToldQuiet ==
  ASSUME PairInv, TalkInv, UNCHANGED <<outbox, heard, mate>>,
         \A d \in Conn : hpc'[d] \in Serving => hpc'[d] = hpc[d],
         \A d \in Conn : hpc[d] \in {"arm", "returned"} => hpc'[d] \in {"arm", "returned"},
         \A d \in Conn : copier'[d] = "off" <=> copier[d] = "off",
         \A d \in Conn : client'[d] = "wait" => client[d] = "wait" \/ mate[d] = None,
         \A d \in Conn : client'[d] \in {"paired", "spoke"} => client[d] \in {"paired", "spoke"},
         \A d \in Conn : client'[d] = "gone" => client[d] = "gone"
  PROVE  \A d \in Conn : Told(d)'
<1> SUFFICES ASSUME NEW c \in Conn PROVE Told(c)'
  OBVIOUS
<1>1. Told(c)
  BY DEF TalkInv
<1>2. mate[c] # None => mate[c] \in Conn /\ mate[mate[c]] = c
  BY RelayAssumption DEF PairInv, Typed, Matched, ConnOrNone
<1>3. Untold(c)' => Untold(c)
  BY <1>2 DEF Untold, Serving
<1>4. Untold(c)' => outbox'[c] = <<>> /\ client'[c] \notin {"paired", "spoke"} /\ copier'[c] = "off"
  BY <1>1, <1>3 DEF Told
<1>5. hpc'[c] \in Serving => hpc'[mate'[c]] \in {"arm", "returned"}
  BY <1>1, <1>2 DEF Told, PairInv, Placed
<1>6. hpc'[c] = "tellSelf" /\ client'[mate'[c]] = "wait" => outbox'[mate'[c]] # <<>>
  <2> SUFFICES ASSUME hpc'[c] = "tellSelf", client'[mate[c]] = "wait"
               PROVE  outbox[mate[c]] # <<>>
    OBVIOUS
  <2>1. hpc[c] = "tellSelf"
    BY DEF Serving
  <2>2. mate[c] \in Conn /\ mate[mate[c]] # None
    BY <1>2, <2>1, RelayAssumption DEF PairInv, Placed, Serving
  <2>3. client[mate[c]] = "wait"
    BY <2>2
  <2> QED
    BY <1>1, <2>1, <2>3 DEF Told
<1>7. copier'[c] # "off" =>
        copier'[mate'[c]] # "off" /\ (client'[c] = "wait" => outbox'[c] # <<>>)
  BY <1>1, <1>2 DEF Told, PairInv, Placed
<1>8. Hearable(outbox[c], mate[c])'
  BY <1>1 DEF Told, Hearable
<1>9. client'[c] = "wait" /\ outbox'[c] # <<>> => Head(outbox'[c]) = Paired
  BY <1>1 DEF Told, Untold
<1>10. client'[c] = "gone" => outbox'[c] = <<>>
  BY <1>1 DEF Told
<1>11. \A d \in heard'[c] : d = mate'[c]
  BY <1>1 DEF Told
<1> QED
  BY <1>4, <1>5, <1>6, <1>7, <1>8, <1>9, <1>10, <1>11 DEF Told

LEMMA ToldClient ==
  ASSUME PairInv, TalkInv, NEW c \in Conn, Dial(c) \/ Speak(c) \/ Reset(c)
  PROVE  \A d \in Conn : Told(d)'
<1>1. UNCHANGED <<outbox, heard, mate, copier>>
  BY DEF Dial, Speak, Reset, clients, server
<1>2. \A d \in Conn : hpc'[d] = hpc[d] \/ (hpc[d] = "off" /\ hpc'[d] = "greeting")
  BY DEF Dial, Speak, Reset, server, PairInv, Typed, Placed
<1>3. \A d \in Conn : d # c => client'[d] = client[d]
  BY DEF Dial, Speak, Reset, clients, PairInv, Typed
<1>4. \/ client'[c] = client[c]
      \/ client[c] \in {"off", "hello", "name"} /\ client'[c] \in {"hello", "name", "wait"}
      \/ client[c] = "paired" /\ client'[c] = "spoke"
  BY DEF Dial, Speak, Reset, clients, PairInv, Typed
<1>5. client[c] \in {"off", "hello", "name"} => mate[c] = None
  BY DEF PairInv, Matched, TalkInv, Ahead
<1> QED
  BY <1>1, <1>2, <1>3, <1>4, <1>5, ToldQuiet DEF Serving

LEMMA ToldServer ==
  ASSUME PairInv, TalkInv, NEW c \in Conn,
         \/ ReadGreeting(c) \/ ReadRoom(c) \/ Reject(c) \/ Arm(c)
         \/ Join(c) /\ waiting[room[c]] = None
         \/ TellFails(c) \/ PipeReturns(c) \/ CopyEnds(c) \/ CloseSource(c)
         \/ Expire(c) \/ CloseExpired(c)
  PROVE  \A d \in Conn : Told(d)'
<1>1. UNCHANGED <<outbox, heard, mate, client>>
  BY DEF ReadGreeting, ReadRoom, Reject, Arm, Join, TellFails, PipeReturns, CopyEnds,
         CloseSource, Expire, CloseExpired, clients, wires
<1>2. \A d \in Conn : copier'[d] = "off" <=> copier[d] = "off"
  BY DEF ReadGreeting, ReadRoom, Reject, Arm, Join, TellFails, PipeReturns, CopyEnds,
         CloseSource, Expire, CloseExpired, PairInv, Typed
<1>3. \A d \in Conn :
        \/ hpc'[d] = hpc[d]
        \/ hpc[d] # "returned" /\ hpc'[d] \in {"room", "join", "rejected", "arm", "returned"}
              /\ (hpc[d] = "arm" => hpc'[d] = "returned")
  BY DEF ReadGreeting, ReadRoom, Reject, Arm, Join, TellFails, PipeReturns, CopyEnds,
         CloseSource, Expire, CloseExpired, PairInv, Typed
<1> QED
  BY <1>1, <1>2, <1>3, ToldQuiet DEF Serving

(* The steps that send or read.  Told(d) is kept where neither d nor its   *)
(* partner is concerned.                                                   *)
LEMMA Partner ==
  ASSUME PairInv, NEW c \in Conn, mate[c] # None
  PROVE  mate[c] \in Conn /\ mate[c] # c /\ mate[mate[c]] = c /\ mate[mate[c]] # None
BY RelayAssumption DEF PairInv, Typed, Matched, ConnOrNone

LEMMA ToldOther ==
  ASSUME PairInv, NEW d \in Conn, Told(d),
         client'[d] = client[d], outbox'[d] = outbox[d], heard'[d] = heard[d],
         hpc'[d] = hpc[d], copier'[d] = copier[d], mate'[d] = mate[d],
         mate[d] # None =>
           /\ client'[mate[d]] = client[mate[d]] /\ outbox'[mate[d]] = outbox[mate[d]]
           /\ hpc'[mate[d]] = hpc[mate[d]] /\ copier'[mate[d]] = copier[mate[d]]
  PROVE  Told(d)'
<1>1. Untold(d)' => Untold(d)
  BY DEF Untold
<1>2. hpc[d] \in Serving => mate[d] # None
  BY DEF PairInv, Placed
<1>3. copier[d] # "off" => mate[d] # None
  BY DEF PairInv, Placed
<1>4. Hearable(outbox[d], mate[d])'
  BY DEF Told, Hearable
<1> QED
  BY <1>1, <1>2, <1>3, <1>4 DEF Told, Serving

LEMMA ToldMeet ==
  ASSUME PairInv, TalkInv, NEW c \in Conn, Join(c), waiting[room[c]] # None
  PROVE  \A d \in Conn : Told(d)'
<1> DEFINE p == waiting[room[c]]
<1>1. room[c] \in Room /\ hpc[c] = "join" /\ mate[c] = None
  BY DEF PairInv, Placed, Matched, Joined, Join
<1>2. p \in Conn /\ p # c /\ mate[p] = None /\ hpc[p] \in {"arm", "returned"}
  BY <1>1, WhoWaits
<1>3. /\ mate' = [mate EXCEPT ![c] = p, ![p] = c]
      /\ hpc' = [hpc EXCEPT ![c] = "tellPartner"]
      /\ UNCHANGED <<client, outbox, heard, copier>>
  BY DEF Join, clients, wires
<1>4. /\ mate'[c] = p /\ mate'[p] = c
      /\ \A d \in Conn : d \notin {c, p} => mate'[d] = mate[d]
  BY <1>2, <1>3 DEF PairInv, Typed
<1>5. hpc'[c] = "tellPartner" /\ \A d \in Conn : d # c => hpc'[d] = hpc[d]
  BY <1>3 DEF PairInv, Typed
<1>6. ASSUME NEW d \in {c, p} PROVE Told(d)'
  <2>1. Told(d) /\ Untold(d) /\ d \in Conn
    BY <1>1, <1>2 DEF TalkInv, Untold
  <2>2. /\ outbox'[d] = <<>> /\ client'[d] \notin {"paired", "spoke"}
        /\ copier'[d] = "off"
    BY <1>3, <2>1 DEF Told
  <2>3. heard'[d] = {}
    BY <1>1, <1>2, <1>3, <2>1, RelayAssumption DEF Told, TalkInv
  <2>4. hpc'[d] \in Serving => d = c
    BY <1>2, <1>5 DEF Serving
  <2>5. hpc'[mate'[c]] \in {"arm", "returned"} /\ hpc'[d] # "tellSelf"
    BY <1>2, <1>4, <1>5
  <2>6. Hearable(outbox'[d], mate'[d])
    BY <2>2, EmptyHearable
  <2> QED
    BY <2>2, <2>3, <2>4, <2>5, <2>6 DEF Told, Hearable
<1>7. ASSUME NEW d \in Conn, d \notin {c, p} PROVE Told(d)'
  <2>1. mate[d] # None => mate[d] \in Conn /\ mate[d] \notin {c, p}
    BY <1>1, <1>2, <1>7, Partner, RelayAssumption
  <2> QED
    BY <1>3, <1>4, <1>5, <1>7, <2>1, ToldOther DEF TalkInv
<1> QED
  BY <1>6, <1>7

LEMMA ToldTellPartner ==
  ASSUME PairInv, TalkInv, NEW c \in Conn, NEW p \in Conn, p = mate[c], TellPartner(c)
  PROVE  \A d \in Conn : Told(d)'
<1>1. hpc[c] = "tellPartner" /\ p # None
  BY DEF PairInv, Placed, Serving, TellPartner
<1>2. p \in Conn /\ p # c /\ mate[p] = c /\ mate[p] # None
  BY <1>1, Partner
<1>3. Told(c) /\ Told(p) /\ Untold(c) /\ Untold(p) /\ hpc[p] \in {"arm", "returned"}
  BY <1>1, <1>2 DEF TalkInv, Untold, Told, Serving
<1>4. /\ UNCHANGED <<client, heard, mate, copier>>
      /\ hpc'[c] = "tellSelf" /\ \A d \in Conn : d # c => hpc'[d] = hpc[d]
  BY DEF TellPartner, clients, PairInv, Typed
<1>5. /\ \A d \in Conn : d # p => outbox'[d] = outbox[d]
      /\ client[p] = "gone" => outbox'[p] = <<>>
      /\ client[p] # "gone" => outbox'[p] = Append(<<>>, Paired)
  BY <1>2, <1>3 DEF TellPartner, Sent, TalkInv, Told
<1>6. /\ Append(<<>>, Paired) # <<>> /\ Head(Append(<<>>, Paired)) = Paired
      /\ Hearable(Append(<<>>, Paired), c)
  BY FirstMessage
<1>7. Told(p)'
  <2>1. ~Untold(p)'
    BY <1>2, <1>3, <1>4 DEF Untold
  <2>2. hpc'[p] \notin Serving
    BY <1>2, <1>3, <1>4 DEF Serving
  <2>3. copier'[p] = "off"
    BY <1>3, <1>4 DEF Told
  <2>4. Hearable(outbox'[p], mate'[p])
    BY <1>2, <1>4, <1>5, <1>6, EmptyHearable
  <2>5. client'[p] = "wait" /\ outbox'[p] # <<>> => Head(outbox'[p]) = Paired
    BY <1>4, <1>5, <1>6
  <2>6. \A d \in heard'[p] : d = mate'[p]
    BY <1>3, <1>4 DEF Told
  <2> QED
    BY <1>4, <1>5, <2>1, <2>2, <2>3, <2>4, <2>5, <2>6 DEF Told, Hearable, Serving
<1>8. Told(c)'
  <2>1. /\ outbox'[c] = <<>> /\ client'[c] \notin {"paired", "spoke"}
        /\ copier'[c] = "off" /\ hpc'[p] \in {"arm", "returned"}
    BY <1>2, <1>3, <1>4, <1>5 DEF Told
  <2>2. client'[p] = "wait" => outbox'[p] # <<>>
    BY <1>4, <1>5, <1>6
  <2>3. Hearable(outbox'[c], mate'[c])
    BY <2>1, EmptyHearable
  <2>4. \A d \in heard'[c] : d = mate'[c]
    BY <1>3, <1>4 DEF Told
  <2> QED
    BY <1>4, <2>1, <2>2, <2>3, <2>4 DEF Told, Hearable
<1>9. ASSUME NEW d \in Conn, d \notin {c, p} PROVE Told(d)'
  <2>1. mate[d] # None => mate[d] \in Conn /\ mate[d] \notin {c, p}
    BY <1>2, <1>9, Partner
  <2> QED
    BY <1>4, <1>5, <1>9, <2>1, ToldOther DEF TalkInv
<1> QED
  BY <1>7, <1>8, <1>9

LEMMA ToldTellSelf ==
  ASSUME PairInv, TalkInv, NEW c \in Conn, NEW p \in Conn, p = mate[c], TellSelf(c)
  PROVE  \A d \in Conn : Told(d)'
<1>1. hpc[c] = "tellSelf" /\ p # None
  BY DEF PairInv, Placed, Serving, TellSelf
<1>2. p \in Conn /\ p # c /\ mate[p] = c /\ mate[p] # None
  BY <1>1, Partner
<1>3. Told(c) /\ Told(p) /\ Untold(c) /\ hpc[p] \in {"arm", "returned"}
  BY <1>1, <1>2 DEF TalkInv, Untold, Told, Serving
<1>4. /\ UNCHANGED <<client, heard, mate>>
      /\ hpc'[c] = "pipe" /\ \A d \in Conn : d # c => hpc'[d] = hpc[d]
      /\ copier'[c] = "copy" /\ copier'[p] = "copy"
      /\ \A d \in Conn : d \notin {c, p} => copier'[d] = copier[d]
  BY <1>2 DEF TellSelf, clients, PairInv, Typed
<1>5. /\ \A d \in Conn : d # c => outbox'[d] = outbox[d]
      /\ client[c] = "gone" => outbox'[c] = <<>>
      /\ client[c] # "gone" => outbox'[c] = Append(<<>>, Paired)
  BY <1>3 DEF TellSelf, Sent, TalkInv, Told
<1>6. /\ Append(<<>>, Paired) # <<>> /\ Head(Append(<<>>, Paired)) = Paired
      /\ Hearable(Append(<<>>, Paired), p)
  BY FirstMessage
<1>7. Told(p)'
  <2>1. ~Untold(p)'
    BY <1>2, <1>3, <1>4 DEF Untold
  <2>2. hpc'[p] \notin Serving
    BY <1>2, <1>3, <1>4 DEF Serving
  <2>3. client'[p] = "wait" => outbox'[p] # <<>>
    BY <1>1, <1>2, <1>3, <1>4, <1>5 DEF Told
  <2>4. Hearable(outbox'[p], mate'[p])
    BY <1>2, <1>3, <1>4, <1>5 DEF Told
  <2>5. copier'[mate'[p]] # "off"
    BY <1>2, <1>4
  <2> QED
    BY <1>2, <1>3, <1>4, <1>5, <2>1, <2>2, <2>3, <2>4, <2>5 DEF Told, Hearable, Serving
<1>8. Told(c)'
  <2>1. ~Untold(c)'
    BY <1>1, <1>2, <1>3, <1>4 DEF Untold
  <2>2. /\ hpc'[p] \in {"arm", "returned"} /\ copier'[mate'[c]] # "off"
        /\ client'[c] = "wait" => outbox'[c] # <<>> /\ Head(outbox'[c]) = Paired
    BY <1>2, <1>3, <1>4, <1>5, <1>6
  <2>3. Hearable(outbox'[c], mate'[c])
    BY <1>4, <1>5, <1>6, EmptyHearable
  <2>4. \A d \in heard'[c] : d = mate'[c]
    BY <1>3, <1>4 DEF Told
  <2> QED
    BY <1>4, <1>5, <2>1, <2>2, <2>3, <2>4 DEF Told, Hearable
<1>9. ASSUME NEW d \in Conn, d \notin {c, p} PROVE Told(d)'
  <2>1. mate[d] # None => mate[d] \in Conn /\ mate[d] \notin {c, p}
    BY <1>2, <1>9, Partner
  <2> QED
    BY <1>4, <1>5, <1>9, <2>1, ToldOther DEF TalkInv
<1> QED
  BY <1>7, <1>8, <1>9

LEMMA ToldCopy ==
  ASSUME PairInv, TalkInv, NEW c \in Conn, NEW p \in Conn, p = mate[c], Copy(c)
  PROVE  \A d \in Conn : Told(d)'
<1> DEFINE s == outbox[p]
<1>1. copier[c] # "off" /\ p # None /\ hpc[c] \in Joined
  BY DEF PairInv, Placed, Matched, Copy
<1>2. p \in Conn /\ p # c /\ mate[p] = c /\ mate[p] # None
  BY <1>1, Partner
<1>3. Told(c) /\ Told(p) /\ Ahead(c) /\ copier[p] # "off"
  BY <1>1, <1>2 DEF TalkInv, Told
<1>4. /\ UNCHANGED <<client, heard, hpc, mate, copier>>
      /\ inbox[c] # <<>> /\ Sent(p, Head(inbox[c]))
  BY DEF Copy, clients, server
<1>5. Head(inbox[c]) = Words(c)
  <2>1. inbox[c] \in Seq(Message)
    BY DEF PairInv, Typed
  <2>2. Head(inbox[c]) = inbox[c][1] /\ 1 \in DOMAIN inbox[c]
    BY <1>4, <2>1, TailOne
  <2> QED
    BY <1>1, <1>3, <2>2 DEF Ahead
<1>6. /\ \A d \in Conn : d # p => outbox'[d] = outbox[d]
      /\ client[p] = "gone" => outbox'[p] = outbox[p]
      /\ client[p] # "gone" => outbox'[p] = Append(s, Words(c))
  BY <1>2, <1>4, <1>5 DEF Sent, TalkInv
<1>7. s \in Seq(Message) /\ Words(c) \in Message
  BY <1>2, MessagesApart DEF TalkInv
<1>8. Told(p)'
  <2>1. ~Untold(p)'
    BY <1>2, <1>3, <1>4 DEF Untold, Told
  <2>2. client'[p] = "wait" => outbox[p] # <<>> /\ Head(outbox[p]) = Paired
    BY <1>3, <1>4 DEF Told
  <2>3. client'[p] = "wait" => outbox'[p] # <<>> /\ Head(outbox'[p]) = Paired
    BY <1>4, <1>6, <1>7, <2>2, AppendOne
  <2>4. Hearable(outbox'[p], mate'[p])
    <3>1. Hearable(s, c)
      BY <1>2, <1>3 DEF Told
    <3>2. Hearable(Append(s, Words(c)), c)
      BY <1>7, <3>1, AppendOne DEF Hearable
    <3> QED
      BY <1>2, <1>4, <1>6, <3>1, <3>2
  <2>5. /\ hpc'[p] \in Serving => hpc'[mate'[p]] \in {"arm", "returned"}
        /\ hpc'[p] # "tellSelf"
        /\ copier'[mate'[p]] # "off"
        /\ client'[p] = "gone" => outbox'[p] = <<>>
        /\ \A d \in heard'[p] : d = mate'[p]
    BY <1>1, <1>2, <1>3, <1>4, <1>6, <2>1 DEF Told, Untold
  <2> QED
    BY <2>1, <2>3, <2>4, <2>5 DEF Told, Hearable
<1>9. Told(c)'
  <2>1. ~Untold(c)'
    BY <1>1, <1>3, <1>4 DEF Untold, Told
  <2>2. Hearable(outbox'[c], mate'[c])
    BY <1>2, <1>3, <1>4, <1>6 DEF Told
  <2>3. hpc'[c] # "tellSelf"
    BY <2>1 DEF Untold
  <2> QED
    BY <1>2, <1>3, <1>4, <1>6, <2>1, <2>2, <2>3 DEF Told, Hearable
<1>10. ASSUME NEW d \in Conn, d \notin {c, p} PROVE Told(d)'
  <2>1. mate[d] # None => mate[d] \in Conn /\ mate[d] \notin {c, p}
    BY <1>2, <1>10, Partner
  <2> QED
    BY <1>4, <1>6, <1>10, <2>1, ToldOther DEF TalkInv
<1> QED
  BY <1>8, <1>9, <1>10

LEMMA ToldListen ==
  ASSUME PairInv, TalkInv, NEW c \in Conn, NEW p \in Conn, p = mate[c], Listen(c)
  PROVE  \A d \in Conn : Told(d)'
<1> DEFINE s == outbox[c]
<1>1. Told(c) /\ s # <<>> /\ s \in Seq(Message)
  BY DEF TalkInv, Listen
<1>2. ~Untold(c) /\ p # None
  BY <1>1 DEF Told, Untold
<1>3. p \in Conn /\ p # c /\ mate[p] = c /\ mate[p] # None /\ Told(p)
  BY <1>2, Partner DEF TalkInv
<1>4. /\ UNCHANGED <<hpc, mate, copier>>
      /\ outbox'[c] = Tail(s) /\ \A d \in Conn : d # c => outbox'[d] = outbox[d]
      /\ \A d \in Conn : d # c => client'[d] = client[d] /\ heard'[d] = heard[d]
  BY DEF Listen, server, PairInv, Typed, TalkInv
<1>5. Hearable(Tail(s), p)
  BY <1>1, TailOne DEF Told, Hearable
<1>6. client'[c] \in {"paired", "spoke"} /\ \A d \in heard'[c] : d = p
  <2>1. CASE Head(s) = Paired
    BY <1>1, <2>1 DEF Listen, Told, PairInv, Typed
  <2>2. CASE Head(s) # Paired
    <3>1. Head(s) = Words(p)
      BY <1>1, <2>2, TailOne DEF Told, Hearable
    <3>2. heard'[c] = heard[c] \cup {p} /\ client'[c] = client[c]
      BY <1>3, <2>2, <3>1, MessagesApart DEF Listen, TalkInv
    <3>3. client[c] \in {"paired", "spoke"}
      BY <1>1, <2>2 DEF Listen, Told
    <3> QED
      BY <1>1, <3>2, <3>3 DEF Told
  <2> QED
    BY <2>1, <2>2
<1>7. Told(c)'
  <2>1. ~Untold(c)'
    BY <1>2, <1>4 DEF Untold
  <2>2. hpc'[c] # "tellSelf"
    BY <2>1 DEF Untold
  <2>3. Hearable(outbox'[c], mate'[c])
    BY <1>4, <1>5
  <2> QED
    BY <1>1, <1>4, <1>6, <2>1, <2>2, <2>3 DEF Told, Hearable
<1>8. Told(p)'
  <2>1. Untold(p)' => Untold(p)
    BY <1>3, <1>4 DEF Untold
  <2>2. Hearable(outbox'[p], mate'[p])
    BY <1>3, <1>4 DEF Told
  <2> QED
    BY <1>3, <1>4, <1>6, <2>1, <2>2 DEF Told, Hearable
<1>9. ASSUME NEW d \in Conn, d \notin {c, p} PROVE Told(d)'
  <2>1. mate[d] # None => mate[d] \in Conn /\ mate[d] \notin {c, p}
    BY <1>3, <1>9, Partner
  <2> QED
    BY <1>4, <1>9, <2>1, ToldOther DEF TalkInv
<1> QED
  BY <1>7, <1>8, <1>9

LEMMA ToldHangsUp ==
  ASSUME PairInv, TalkInv, NEW c \in Conn, Leave(c) \/ Dropped(c)
  PROVE  \A d \in Conn : Told(d)'
<1>1. /\ UNCHANGED <<heard, hpc, mate, copier>>
      /\ client'[c] = "gone" /\ \A d \in Conn : d # c => client'[d] = client[d]
      /\ outbox'[c] = <<>> /\ \A d \in Conn : d # c => outbox'[d] = outbox[d]
  BY DEF Leave, Dropped, HangsUp, server, PairInv, Typed, TalkInv
<1> SUFFICES ASSUME NEW d \in Conn PROVE Told(d)'
  OBVIOUS
<1>2. Told(d)
  BY DEF TalkInv
<1>3. Untold(d)' => Untold(d)
  BY <1>1 DEF Untold
<1>4. Hearable(outbox'[d], mate'[d])
  BY <1>1, <1>2, EmptyHearable DEF Told
<1>5. /\ client'[d] = "gone" => outbox'[d] = <<>>
      /\ client'[d] = "wait" => client[d] = "wait" /\ outbox'[d] = outbox[d]
      /\ client'[d] \in {"paired", "spoke"} => client[d] \in {"paired", "spoke"}
      /\ Untold(d)' => outbox'[d] = <<>>
  BY <1>1, <1>2, <1>3 DEF Told
<1>6. hpc[d] = "tellSelf" /\ client'[mate[d]] = "wait" => outbox'[mate[d]] # <<>>
  <2>1. hpc[d] = "tellSelf" => mate[d] \in Conn
    BY Partner DEF PairInv, Placed, Serving
  <2> QED
    BY <1>1, <1>2, <2>1 DEF Told
<1> QED
  BY <1>1, <1>2, <1>3, <1>4, <1>5, <1>6 DEF Told, Hearable

-----------------------------------------------------------------------------
LEMMA TalkTyped ==
  ASSUME PairInv, TalkInv, [Next]_vars
  PROVE  outbox' \in [Conn -> Seq(Message)] /\ heard' \in [Conn -> SUBSET Conn]
<1>1. /\ outbox \in [Conn -> Seq(Message)] /\ heard \in [Conn -> SUBSET Conn]
      /\ inbox \in [Conn -> Seq(Message)]
  BY DEF TalkInv, PairInv, Typed
<1>2. ASSUME NEW d, NEW m \in Message, Sent(d, m)
      PROVE  outbox' \in [Conn -> Seq(Message)]
  <2>1. d \in Conn => Append(outbox[d], m) \in Seq(Message)
    BY <1>1, AppendOne
  <2>2. outbox' = outbox \/ outbox' = [outbox EXCEPT ![d] = Append(@, m)]
    BY <1>2 DEF Sent
  <2> QED
    BY <1>1, <2>1, <2>2
<1>3. CASE UNCHANGED vars \/ Quiet
  BY <1>1, <1>3 DEF vars, Quiet, clients, wires
<1>4. ASSUME NEW c \in Conn, TellPartner(c) \/ TellSelf(c)
      PROVE  outbox' \in [Conn -> Seq(Message)] /\ UNCHANGED heard
  BY <1>2, <1>4, MessagesApart DEF TellPartner, TellSelf, clients
<1>5. ASSUME NEW c \in Conn, Copy(c)
      PROVE  outbox' \in [Conn -> Seq(Message)] /\ UNCHANGED heard
  <2>1. Head(inbox[c]) \in Message
    BY <1>1, <1>5, TailOne DEF Copy
  <2> QED
    BY <1>2, <1>5, <2>1 DEF Copy, clients
<1>6. ASSUME NEW c \in Conn, Listen(c)
      PROVE  outbox' \in [Conn -> Seq(Message)] /\ heard' \in [Conn -> SUBSET Conn]
  <2>1. outbox[c] # <<>> /\ outbox' = [outbox EXCEPT ![c] = Tail(@)]
    BY <1>6 DEF Listen
  <2>2. Tail(outbox[c]) \in Seq(Message)
    BY <1>1, <2>1, TailOne
  <2>3. heard' \in [Conn -> SUBSET Conn]
    <3>1. CASE Head(outbox[c]) = Paired
      BY <1>1, <1>6, <3>1 DEF Listen
    <3>2. CASE Head(outbox[c]) # Paired
      <4>1. Told(c)
        BY DEF TalkInv
      <4>2. mate[c] \in Conn
        BY <2>1, <4>1, Partner DEF Told, Untold
      <4>3. Head(outbox[c]) = Words(mate[c])
        BY <1>1, <2>1, <3>2, <4>1, TailOne DEF Told, Hearable
      <4>4. Head(outbox[c]).from \in Conn
        BY <4>2, <4>3, MessagesApart
      <4>5. heard' = [heard EXCEPT ![c] = @ \cup {Head(outbox[c]).from}]
        BY <1>6, <3>2 DEF Listen
      <4> QED
        BY <1>1, <4>4, <4>5
    <3> QED
      BY <3>1, <3>2
  <2> QED
    BY <1>1, <2>1, <2>2, <2>3
<1>7. ASSUME NEW c \in Conn, Leave(c) \/ Dropped(c)
      PROVE  outbox' \in [Conn -> Seq(Message)] /\ UNCHANGED heard
  <2>1. outbox' = [outbox EXCEPT ![c] = <<>>] /\ UNCHANGED heard
    BY <1>7 DEF Leave, Dropped, HangsUp
  <2>2. <<>> \in Seq(Message)
    OBVIOUS
  <2> QED
    BY <1>1, <2>1, <2>2
<1>8. ASSUME NEW c \in Conn,
             \/ Dial(c) \/ Speak(c) \/ Reset(c)
             \/ ReadGreeting(c) \/ ReadRoom(c) \/ Reject(c) \/ Join(c) \/ Arm(c)
             \/ TellFails(c) \/ PipeReturns(c) \/ CopyEnds(c) \/ CloseSource(c)
             \/ Expire(c) \/ CloseExpired(c)
      PROVE  UNCHANGED <<outbox, heard>>
  BY <1>8 DEF Dial, Speak, Reset, ReadGreeting, ReadRoom, Reject, Join, Arm, TellFails,
              PipeReturns, CopyEnds, CloseSource, Expire, CloseExpired, clients, wires
<1> QED
  BY <1>1, <1>3, <1>4, <1>5, <1>6, <1>7, <1>8 DEF Next, Handle

LEMMA TalkStep == PairInv /\ TalkInv /\ [Next]_vars => TalkInv'
<1> SUFFICES ASSUME PairInv, TalkInv, [Next]_vars PROVE TalkInv'
  OBVIOUS
<1>1. \A d \in Conn : Ahead(d)'
  <2>1. CASE UNCHANGED vars \/ Quiet
    BY <2>1 DEF vars, Quiet, clients, wires, server, TalkInv, Ahead
  <2>2. ASSUME NEW c \in Conn,
               \/ Dial(c) \/ Speak(c) \/ Listen(c) \/ Leave(c) \/ Dropped(c) \/ Reset(c)
               \/ Handle(c) \/ Copy(c) \/ CopyEnds(c) \/ CloseSource(c)
               \/ Expire(c) \/ CloseExpired(c)
        PROVE  \A d \in Conn : Ahead(d)'
    BY <2>2, AheadSpeak, AheadClient, AheadGreeting, AheadServing, AheadCopy, AheadClosed
       DEF Handle
  <2> QED
    BY <2>1, <2>2 DEF Next
<1>2. \A d \in Conn : Told(d)'
  <2>1. CASE UNCHANGED vars \/ Quiet
    BY <2>1 DEF vars, Quiet, clients, wires, server, TalkInv, Told, Untold, Hearable
  <2>2. ASSUME NEW c \in Conn, TellPartner(c) \/ TellSelf(c) \/ Copy(c) \/ Listen(c)
        PROVE  \A d \in Conn : Told(d)'
    <3>1. mate[c] # None
      <4>1. CASE TellPartner(c) \/ TellSelf(c) \/ Copy(c)
        BY <4>1 DEF TellPartner, TellSelf, Copy, PairInv, Placed, Serving
      <4>2. CASE Listen(c)
        BY <4>2 DEF Listen, TalkInv, Told, Untold
      <4> QED
        BY <2>2, <4>1, <4>2
    <3>2. mate[c] \in Conn
      BY <3>1, Partner
    <3> QED
      BY <2>2, <3>2, ToldTellPartner, ToldTellSelf, ToldCopy, ToldListen
  <2>3. ASSUME NEW c \in Conn, Join(c)
        PROVE  \A d \in Conn : Told(d)'
    BY <2>3, ToldMeet, ToldServer
  <2>4. ASSUME NEW c \in Conn,
               \/ Dial(c) \/ Speak(c) \/ Leave(c) \/ Dropped(c) \/ Reset(c)
               \/ ReadGreeting(c) \/ ReadRoom(c) \/ Reject(c) \/ Arm(c)
               \/ TellFails(c) \/ PipeReturns(c) \/ CopyEnds(c) \/ CloseSource(c)
               \/ Expire(c) \/ CloseExpired(c)
        PROVE  \A d \in Conn : Told(d)'
    BY <2>4, ToldClient, ToldHangsUp, ToldServer
  <2> QED
    BY <2>1, <2>2, <2>3, <2>4 DEF Next, Handle
<1> QED
  BY <1>1, <1>2, TalkTyped DEF TalkInv

(* What is under way to a client or to a handler always fits where both of *)
(* them are (handshake, handle, pipe).                                     *)
THEOREM TalkAlways == Spec => []TalkInv
BY PairAlways, TalkInit, TalkStep, PTL DEF Spec

-----------------------------------------------------------------------------
(* Every variable of the relay has its type: what is on its way between a  *)
(* client and the relay are messages, and the map holds connections only.  *)
THEOREM RelayTypes == Spec => []TypeOK
<1>1. PairInv /\ TalkInv => TypeOK
  BY DEF PairInv, Typed, TalkInv, TypeOK
<1> QED
  BY <1>1, PairAlways, TalkAlways, PTL

(* Nobody hears, or is about to hear, anybody but its partner              *)
(* (Server.handle, pipe, copyOnce).                                        *)
THEOREM NoCrossTalkHolds == Spec => []NoCrossTalk
<1>1. PairInv /\ TalkInv => NoCrossTalk
  <2> SUFFICES ASSUME TalkInv, NEW c \in Conn, NEW d \in Conn,
                      \/ d \in heard[c]
                      \/ \E k \in DOMAIN outbox[c] : outbox[c][k] = Words(d)
               PROVE  d = mate[c]
    BY DEF NoCrossTalk
  <2>1. Told(c)
    BY DEF TalkInv
  <2>2. CASE d \in heard[c]
    BY <2>1, <2>2 DEF Told
  <2>3. ASSUME NEW k \in DOMAIN outbox[c], outbox[c][k] = Words(d)
        PROVE  d = mate[c]
    BY <2>1, <2>3, MessagesApart DEF Told, Hearable
  <2> QED
    BY <2>2, <2>3
<1> QED
  BY <1>1, PairAlways, TalkAlways, PTL

(* A client that waits is told that it is paired before it hears anything  *)
(* else (Server.handle: both writes come before pipe).                     *)
THEOREM ToldFirstHolds == Spec => []ToldFirst
<1>1. TalkInv => ToldFirst
  BY DEF TalkInv, Told, ToldFirst
<1> QED
  BY <1>1, TalkAlways, PTL
=============================================================================
