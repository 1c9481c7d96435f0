------------------------------- MODULE Stream -------------------------------
(***************************************************************************)
(* One direction of a framed connection over WebSocket: a client sends     *)
(* messages with comm.Send, each as a header of four bytes and a body; ws  *)
(* puts every write into one frame; the relay reads bytes off the frames   *)
(* and copies them, a buffer at a time, into frames of its own; and the    *)
(* other client puts the messages together again with comm.Receive.        *)
(* On the way proxies may fragment frames and put pings and pongs between  *)
(* them.  The other direction is alike, with the clients exchanged.        *)
(*                                                                         *)
(* A byte is known by the write it comes from and its offset in it, so     *)
(* that lengths have their real size.  A mask key is a fresh one for every *)
(* frame; a byte is unmasked right when the reader's position in the key   *)
(* is the byte's in the frame, modulo the key's four bytes.                *)
(*                                                                         *)
(* Definitions marked "faulty" are no part of the specification.           *)
(***************************************************************************)
EXTENDS Integers, Sequences, SequencesExt

CONSTANTS
  MaxMessage,   \* comm.MaxMessage
  MaxFrame,     \* ws.maxFrame
  CopyBuffer,   \* bytes that io.Copy reads at most at once
  Buffer,       \* frames in flight on one hop before a write blocks
  Sizes,        \* sizes of messages
  Messages,     \* bounds the messages sent
  Cuts,         \* where a short read, a fragment or a failure may cut
  Quirks        \* bounds short reads, fragments and control frames together

HeaderSize == 4
MaxControl == 125   \* a control frame's payload, by RFC 6455

ASSUME StreamAssumption ==
  /\ {MaxMessage, MaxFrame, CopyBuffer, Buffer} \subseteq Nat \ {0}
  /\ MaxMessage <= MaxFrame
  /\ MaxFrame \in MaxControl .. 256 ^ 3    \* ws has these 16 MiB
  /\ {Messages, Quirks} \subseteq Nat
  /\ Sizes \cup Cuts \subseteq Nat

VARIABLES
  spc,     \* the sender: between messages, in one, stopped by a limit, gone
  sent,    \* the sizes of the messages it has begun
  wire,    \* wire[h]: frames on hop h that its reader has not begun to read
  reader,  \* reader[h]: ws.Conn of the reading end of hop h
  cut,     \* cut[h]: the connection of hop h has failed
  held,    \* the bytes io.Copy has read and not written
  shut,    \* shut[h]: the relay has closed its connection of hop h
  rpc,     \* the receiver
  part,    \* comm.Receive: the header or body it is reading
  got,     \* the messages it has returned
  failed,  \* something has failed on the way
  quirks   \* counts towards Quirks

relaying == <<held, shut>>
receiving == <<rpc, part, got>>
vars == <<spc, sent, wire, reader, cut, relaying, receiving, failed, quirks>>

Hops == {"up", "down"}    \* client to relay, relay to client

-----------------------------------------------------------------------------
(* Lengths, as writeFrame and nextFrame and comm put them into bytes       *)

Least(a, b) == IF a < b THEN a ELSE b

(* n in w bytes, the most significant first.  No length needs more than    *)
(* four.                                                                   *)
Digits(n, w) ==
  [i \in 1 .. w |-> IF w - i > 3 THEN 0 ELSE (n \div 256 ^ (w - i)) % 256]

Number(ds) == FoldLeft(LAMBDA n, d : 256 * n + d, 0, ds)

(* faulty: the boundary between two and eight bytes is off by one          *)
LengthCodeOffByOne(n) ==
  IF n < 126 THEN <<n>>
  ELSE IF n <= 65536 THEN <<126>> \o Digits(n, 2)
  ELSE <<127>> \o Digits(n, 8)

LengthCode(n) ==
  IF n < 126 THEN <<n>>
  ELSE IF n <= 65535 THEN <<126>> \o Digits(n, 2)
  ELSE <<127>> \o Digits(n, 8)

LengthOf(code) == IF code[1] < 126 THEN code[1] ELSE Number(Tail(code))

-----------------------------------------------------------------------------
(* Bytes and frames                                                        *)

(* "size" bytes of the header or the body of message "of", starting at     *)
(* "from"; "sound" says that they are what was written.                    *)
Piece(of, kind, from, size) ==
  [of |-> of, kind |-> kind, from |-> from, size |-> size, sound |-> TRUE]

Nothing == Piece(0, "none", 0, 0)

(* "here" counts the bytes of the payload that will arrive.                *)
Frame(h, op, body) ==
  [op |-> op, masked |-> h = "up", code |-> LengthCode(body.size),
   body |-> body, here |-> body.size]

NewReader == [body |-> Nothing, here |-> 0, off |-> 0, rest |-> 0,
              masked |-> FALSE, keyPos |-> 0]

Init ==
  /\ spc = "idle" /\ sent = <<>>
  /\ wire = [h \in Hops |-> <<>>]
  /\ reader = [h \in Hops |-> NewReader]
  /\ cut = [h \in Hops |-> FALSE]
  /\ held = Nothing /\ shut = [h \in Hops |-> FALSE]
  /\ rpc = "reading" /\ got = <<>>
  /\ part = [kind |-> "head", need |-> HeaderSize, have |-> 0, of |-> 0,
             sound |-> TRUE]
  /\ failed = FALSE
  /\ quirks = 0

-----------------------------------------------------------------------------
(* The ends of a hop                                                       *)

(* The writing end has closed the socket.                                  *)
HungUp(h) == IF h = "up" THEN spc = "gone" ELSE shut["down"]

(* The reading end has, or the connection is broken.                       *)
Gone(h) ==
  cut[h] \/ (IF h = "up" THEN shut["up"] ELSE rpc # "reading")

(* The reading end is in Read.                                             *)
Reading(h) ==
  IF h = "up" THEN ~shut["up"] /\ ~shut["down"] /\ held = Nothing
  ELSE rpc = "reading"

(* writeFrame.  What is written to an end that is gone is lost, or the     *)
(* write fails.                                                            *)
Writable(h) == Gone(h) \/ Len(wire[h]) < Buffer

Written(h, op, body) ==
  IF Gone(h) THEN wire
  ELSE [wire EXCEPT ![h] = Append(@, Frame(h, op, body))]

Write(h, op, body) == Writable(h) /\ wire' = Written(h, op, body)

-----------------------------------------------------------------------------
(* ws.Conn.Read                                                            *)

(* faulty: the position is carried over from frame to frame                *)
KeyPosOfLast(r, f) == r.keyPos

(* Where the reader is in the key after the header of a frame, whatever    *)
(* the frame is.                                                           *)
KeyPos(r, f) == IF f.masked THEN 0 ELSE r.keyPos

BeginFrame(h, f) ==
  reader' = [reader EXCEPT ![h] =
    [body |-> f.body, here |-> f.here, off |-> 0, rest |-> LengthOf(f.code),
     masked |-> f.masked, keyPos |-> KeyPos(@, f)]]

(* A ping or a pong leaves its key behind, a ping also the position after  *)
(* its payload, which is unmasked.                                         *)
BetweenFrames(h, f) ==
  reader' = [reader EXCEPT ![h] =
    [NewReader EXCEPT
       !.masked = f.masked,
       !.keyPos = KeyPos(reader[h], f)
                    + (IF f.op = "ping" /\ f.masked THEN f.body.size ELSE 0)]]

(* nextFrame, when it returns no error: a data frame is begun, a ping is   *)
(* answered, a pong is skipped.  The answer to a writer that has hung up   *)
(* draws a reset.                                                          *)
NextFrame(h) ==
  /\ Reading(h)
  /\ reader[h].rest = 0
  /\ wire[h] # <<>>
  /\ LET f == Head(wire[h]) IN
       /\ LengthOf(f.code) <= MaxFrame
       /\ \/ /\ f.op \in {"binary", "continuation"}
             /\ BeginFrame(h, f)
             /\ UNCHANGED failed
          \/ /\ f.op = "ping" /\ f.here = f.body.size
             /\ BetweenFrames(h, f)
             /\ failed' = (failed \/ HungUp(h))
          \/ /\ f.op = "pong"
             /\ BetweenFrames(h, f)
             /\ UNCHANGED failed
  /\ wire' = [wire EXCEPT ![h] = Tail(@)]
  /\ UNCHANGED <<spc, sent, cut, relaying, receiving, quirks>>

Over(h) == HungUp(h) \/ cut[h]

(* Read returns an error, the end of the stream among them.                *)
ReadFails(h) ==
  IF reader[h].rest > 0 THEN reader[h].off = reader[h].here /\ Over(h)
  ELSE IF wire[h] = <<>> THEN Over(h)
  ELSE LET f == Head(wire[h]) IN
         \/ f.op = "close"
         \/ LengthOf(f.code) > MaxFrame
         \/ f.op = "ping" /\ f.here < f.body.size

(* Read returns the error of a pong that could not be written.             *)
PongFails(h) ==
  /\ reader[h].rest = 0
  /\ wire[h] # <<>>
  /\ Head(wire[h]).op = "ping"
  /\ Over(h)

(* A Read into a buffer of the given size returns what is there of the     *)
(* frame, or less.                                                         *)
AtMost(h, size) ==
  Least(size, Least(reader[h].rest, reader[h].here - reader[h].off))

ReadSizes(h, size) ==
  {n \in {AtMost(h, size)} \cup (IF quirks < Quirks THEN Cuts ELSE {}) :
     0 < n /\ n <= AtMost(h, size)}

Bytes(h, n) ==
  LET r == reader[h] IN
    [r.body EXCEPT
       !.from = @ + r.off, !.size = n,
       !.sound = @ /\ (r.masked => r.keyPos % 4 = r.off % 4)]

Read(h, size, n) ==
  /\ LET r == reader[h]
         pos == IF r.masked THEN r.keyPos + n ELSE r.keyPos
     IN  reader' = [reader EXCEPT ![h] =
           IF n = r.rest
             THEN [NewReader EXCEPT !.masked = r.masked, !.keyPos = pos]
             ELSE [r EXCEPT !.off = @ + n, !.rest = @ - n, !.keyPos = pos]]
  /\ quirks' = IF n = AtMost(h, size) THEN quirks ELSE quirks + 1

-----------------------------------------------------------------------------
(* The sender                                                              *)

(* faulty: the limit is not looked at                                      *)
SendHeaderAny(n) ==
  /\ spc = "idle"
  /\ Write("up", "binary", Piece(Len(sent) + 1, "head", 0, HeaderSize))
  /\ sent' = Append(sent, n)
  /\ spc' = "body"
  /\ UNCHANGED <<reader, cut, relaying, receiving, failed, quirks>>

(* comm.Send is two writes.                                                *)
SendHeader(n) ==
  /\ spc = "idle"
  /\ n <= MaxMessage
  /\ Write("up", "binary", Piece(Len(sent) + 1, "head", 0, HeaderSize))
  /\ sent' = Append(sent, n)
  /\ spc' = "body"
  /\ UNCHANGED <<reader, cut, relaying, receiving, failed, quirks>>

SendRefuses(n) ==
  /\ spc = "idle"
  /\ n > MaxMessage
  /\ spc' = "refused"
  /\ UNCHANGED <<sent, wire, reader, cut, relaying, receiving, failed, quirks>>

SendBody ==
  /\ spc = "body"
  /\ Write("up", "binary",
           Piece(Len(sent), "body", 0, sent[Len(sent)]))
  /\ spc' = "idle"
  /\ UNCHANGED <<sent, reader, cut, relaying, receiving, failed, quirks>>

(* Close, and a write that fails: both end in Close.  A killed sender      *)
(* writes no close frame.                                                  *)
SenderCloses ==
  /\ \/ spc \in {"idle", "refused"}
     \/ spc = "body" /\ Gone("up")
  /\ Write("up", "close", Nothing)
  /\ spc' = "gone"
  /\ UNCHANGED <<sent, reader, cut, relaying, receiving, failed, quirks>>

KillSender ==
  /\ spc # "gone"
  /\ spc' = "gone"
  /\ failed' = TRUE
  /\ UNCHANGED <<sent, wire, reader, cut, relaying, receiving, quirks>>

-----------------------------------------------------------------------------
(* The relay: io.Copy in copyOnce, and what follows it                     *)

RelayReads ==
  /\ Reading("up")
  /\ \E n \in ReadSizes("up", CopyBuffer) :
       /\ Read("up", CopyBuffer, n)
       /\ held' = Bytes("up", n)
  /\ UNCHANGED <<spc, sent, wire, cut, shut, receiving, failed>>

RelayWrites ==
  /\ held # Nothing
  /\ Write("down", "binary", held)
  /\ held' = Nothing
  /\ UNCHANGED <<spc, sent, reader, cut, shut, receiving, failed, quirks>>

(* The relay's connection to the receiver is closed: by this goroutine,    *)
(* whose destination it is, when a read or a write of its own fails, or by *)
(* that of the other direction, after its destination.                     *)
CloseDown ==
  /\ ~shut["down"]
  /\ \/ held = Nothing /\ (ReadFails("up") \/ PongFails("up"))
     \/ held # Nothing /\ Gone("down")
     \/ shut["up"]
  /\ Write("down", "close", Nothing)
  /\ shut' = [shut EXCEPT !["down"] = TRUE]
  /\ held' = Nothing
  /\ failed' = (failed \/ held # Nothing \/ ~ReadFails("up"))
  /\ UNCHANGED <<spc, sent, reader, cut, receiving, quirks>>

CloseUpAfterDown ==  \* faulty: a goroutine closes its source only
  /\ ~shut["up"]
  /\ shut["down"]
  /\ wire' = [wire EXCEPT !["up"] = <<>>]
  /\ reader' = [reader EXCEPT !["up"] = NewReader]
  /\ shut' = [shut EXCEPT !["up"] = TRUE]
  /\ UNCHANGED <<held, failed, spc, sent, cut, receiving, quirks>>

(* The one to the sender is: by this goroutine, whose source it is, after  *)
(* the other; or by that of the other direction, which reads the end of    *)
(* the receiver or writes to a sender that is gone.  What this direction   *)
(* has not read is lost; what it holds it may still write.                 *)
CloseUp ==
  /\ ~shut["up"]
  /\ shut["down"] \/ Gone("down") \/ spc = "gone"
  /\ wire' = [wire EXCEPT !["up"] = <<>>]
  /\ reader' = [reader EXCEPT !["up"] = NewReader]
  /\ shut' = [shut EXCEPT !["up"] = TRUE]
  /\ failed' = (failed \/ (~shut["down"] /\ ~ReadFails("up")))
  /\ UNCHANGED <<held, spc, sent, cut, receiving, quirks>>

-----------------------------------------------------------------------------
(* The receiver: io.ReadFull twice, in comm.Receive                        *)

Fits(p) ==
  /\ p.sound
  /\ p.kind = part.kind
  /\ p.from = part.have
  /\ (part.have > 0 \/ part.kind = "body") => p.of = part.of

NextPart(kind, need, of) ==
  [kind |-> kind, need |-> need, have |-> 0, of |-> of, sound |-> TRUE]

(* A message as it is returned: its size, or -1 if it is not what was sent *)
Message(of, sound) == IF sound THEN sent[of] ELSE -1

(* What follows the last byte of the header and of the body.  An empty     *)
(* body is not waited for.                                                 *)
HeaderRead(of, sound) ==
  LET n == IF sound THEN Number(Digits(sent[of], HeaderSize)) ELSE 0 IN
    IF n > MaxMessage
      THEN rpc' = "refused" /\ UNCHANGED <<part, got>>
    ELSE IF n = 0
      THEN /\ got' = Append(got, Message(of, sound))
           /\ part' = NextPart("head", HeaderSize, 0)
           /\ UNCHANGED rpc
    ELSE /\ part' = NextPart("body", n, of)
         /\ UNCHANGED <<rpc, got>>

BodyRead(of, sound) ==
  /\ got' = Append(got, Message(of, sound))
  /\ part' = NextPart("head", HeaderSize, 0)
  /\ UNCHANGED rpc

Receives ==
  /\ Reading("down")
  /\ LET wanted == part.need - part.have IN
     \E n \in ReadSizes("down", wanted) :
       LET p == Bytes("down", n)
           sound == part.sound /\ Fits(p)
       IN  /\ Read("down", wanted, n)
           /\ IF n < wanted
                THEN /\ part' = [part EXCEPT !.have = @ + n, !.of = p.of,
                                             !.sound = sound]
                     /\ UNCHANGED <<rpc, got>>
              ELSE IF part.kind = "head" THEN HeaderRead(p.of, sound)
              ELSE BodyRead(p.of, sound)
  /\ UNCHANGED <<spc, sent, wire, cut, relaying, failed>>

(* What was not read is gone with the connection.                          *)
Departs ==
  /\ rpc' = "ended"
  /\ wire' = [wire EXCEPT !["down"] = <<>>]
  /\ reader' = [reader EXCEPT !["down"] = NewReader]
  /\ part' = NextPart("head", HeaderSize, 0)
  /\ UNCHANGED <<spc, sent, cut, relaying, got, quirks>>

ReceiveFails ==
  /\ Reading("down")
  /\ ReadFails("down") \/ PongFails("down")
  /\ Departs
  /\ failed' = (failed \/ ~ReadFails("down"))

(* The receiver hangs up, for a reason of its own or killed.               *)
ReceiverLeaves ==
  /\ rpc = "reading"
  /\ Departs
  /\ failed' = TRUE

-----------------------------------------------------------------------------
(* Proxies and the network                                                 *)

Latest(h) == wire[h][Len(wire[h])]

Between(h) ==
  /\ quirks < Quirks
  /\ quirks' = quirks + 1
  /\ wire[h] # <<>>
  /\ Latest(h).op = "binary"
  /\ ~cut[h]
  /\ UNCHANGED <<spc, sent, reader, cut, relaying, receiving, failed>>

(* A frame is passed on in two fragments.                                  *)
Fragment(h) ==
  /\ Between(h)
  /\ \E n \in Cuts \cap 1 .. Latest(h).body.size - 1 :
       LET b == Latest(h).body IN
         wire' = [wire EXCEPT ![h] =
           Front(@) \o
             <<Frame(h, "binary", [b EXCEPT !.size = n]),
               Frame(h, "continuation", [b EXCEPT !.from = @ + n,
                                                  !.size = @ - n])>>]

(* A ping, or a pong nobody asked for, follows it.                         *)
Control(h) ==
  /\ Between(h)
  /\ \E op \in {"ping", "pong"}, n \in {0} \cup (Cuts \cap 1 .. MaxControl) :
       wire' = [wire EXCEPT ![h] =
                  Append(@, Frame(h, op, Piece(0, "control", 0, n)))]

(* The connection fails.  Of what is in flight a part still arrives.       *)
Cut(h) ==
  /\ ~cut[h]
  /\ cut' = [cut EXCEPT ![h] = TRUE]
  /\ failed' = TRUE
  /\ \E k \in 0 .. Len(wire[h]) :
       /\ \/ wire' = [wire EXCEPT ![h] = SubSeq(@, 1, k)]
          \/ /\ k > 0
             /\ \E n \in Cuts \cap 0 .. wire[h][k].here :
                  wire' = [wire EXCEPT ![h] =
                             [SubSeq(@, 1, k) EXCEPT ![k].here = n]]
       /\ \/ UNCHANGED reader
          \/ k = 0 /\ reader' = [reader EXCEPT ![h].here = reader[h].off]
  /\ UNCHANGED <<spc, sent, relaying, receiving, quirks>>

-----------------------------------------------------------------------------
Sender ==
  \/ Len(sent) < Messages /\ \E n \in Sizes : SendHeader(n) \/ SendRefuses(n)
  \/ SendBody
  \/ SenderCloses

Relay == NextFrame("up") \/ RelayReads \/ RelayWrites \/ CloseDown \/ CloseUp

Receiver == NextFrame("down") \/ Receives \/ ReceiveFails

Surroundings ==
  \/ KillSender \/ ReceiverLeaves
  \/ \E h \in Hops : Fragment(h) \/ Control(h) \/ Cut(h)

(* Everything has ended.                                                   *)
Quiet ==
  /\ spc = "gone" /\ rpc # "reading" /\ \A h \in Hops : shut[h]
  /\ UNCHANGED vars

Next == Sender \/ Relay \/ Receiver \/ Surroundings \/ Quiet

Spec == Init /\ [][Next]_vars

(* Writes and reads that can go on do; a sender need not close.            *)
FairSpec ==
  /\ Spec
  /\ WF_vars(SendBody \/ (spc # "idle" /\ SenderCloses))
  /\ WF_vars(Relay) /\ WF_vars(Receiver)

-----------------------------------------------------------------------------
(* Properties                                                              *)

TypeOK ==
  /\ spc \in {"idle", "body", "refused", "gone"}
  /\ shut \in [Hops -> BOOLEAN]
  /\ rpc \in {"reading", "ended", "refused"}
  /\ sent \in Seq(Nat)
  /\ got \in Seq(Nat)
  /\ cut \in [Hops -> BOOLEAN] /\ failed \in BOOLEAN
  /\ \A h \in Hops :
       /\ \A i \in DOMAIN wire[h] :
            wire[h][i].here \in 0 .. wire[h][i].body.size
       /\ reader[h].off \in 0 .. reader[h].here
       /\ reader[h].off + reader[h].rest = reader[h].body.size
  /\ part.have < part.need

Promise == INSTANCE Channel WITH Size <- Sizes, ended <- rpc # "reading"

(* Messages arrive whole, unaltered, in order and once, through any        *)
(* combination of short reads, fragments and control frames; and a         *)
(* connection on which nothing failed delivers everything before it ends:  *)
(* what comm.Receive returns on top of ws.Conn.Read and the relay's pipe.  *)
Implements == Promise!Spec

(* A reader gets the length the writer meant, on either side of every      *)
(* boundary of the encodings: writeFrame and nextFrame agree.              *)
Boundaries == {0, 1, 125, 126, 127, 128, 255, 256, 65535, 65536, MaxFrame}

LengthsAgree ==
  /\ \A n \in Boundaries : LengthOf(LengthCode(n)) = n
  /\ \A h \in Hops : \A i \in DOMAIN wire[h] :
       LengthOf(wire[h][i].code) = wire[h][i].body.size

(* What one side accepts to send no reader on the way refuses: the limits  *)
(* of comm.Send, comm.Receive and nextFrame agree.                         *)
LimitsAgree ==
  /\ rpc # "refused"
  /\ \A h \in Hops : \A i \in DOMAIN wire[h] :
       LengthOf(wire[h][i].code) <= MaxFrame

(* What was begun arrives, unless something fails: no write on the way     *)
(* waits for ever, and no reader waits for more than was written.          *)
Arrives == []<>(got = sent \/ failed)

(* The end of either side reaches the other, also when the relay or the    *)
(* sender is blocked in a write: pipe closes both connections.             *)
EndSpreads ==
  (spc = "gone" \/ rpc # "reading")
    ~> (spc # "body" /\ rpc # "reading" /\ \A h \in Hops : shut[h])
=============================================================================
