# Verification of fsi

`fsi` moves files between two machines that were given one spoken code. This
directory holds TLA+ models of its core, TLC configurations that check them on
small instances, and theorems about them that TLAPS checks for every instance.
Paths below are relative to the repository.

## 1. The system

| Component | State it keeps | Operations | Talks to |
|---|---|---|---|
| `internal/transfer` exchange | sender: manifest, position in the files; receiver: position, temporary file, output directory | `Send`, `BuildFileList`, `describe`, `sendFile`, `Receive`, `receiveFile` | its peer, by encrypted frames; the file system |
| `internal/transfer` handshake | secret, session key, salt | `connect`, `handshake`, `confirmKeys` | the relay, then its peer |
| `internal/pake`, `internal/crypt` | one SPAKE2 exchange; one AEAD key | `New`, `Update`; `Seal`, `Open` | called by the handshake |
| `internal/relay` | `waiting` (room to lone connection) under a mutex; a handler goroutine, a timer and two copying goroutines per pair | `handle`, `handshake`, `expireAfter`, `pipe` | clients, over `comm` |
| `internal/comm` | a header buffer | `Send`, `Receive`, `Dial` | TCP or `ws` |
| `internal/ws` | the frame being read, a write lock; a deadline while upgrading | `Dial`, `Accept`, `Read`, `Write`, `Close` | TCP |
| `internal/words` | none | `Generate`, `Room` | - |
| `internal/web` | the list of files; per request an open file, a position | `file`, `zipAll`, `index` | browsers, on the relay's port |
| `cmd/fsi` | flags, progress bar, a listener's goroutine, a child process and the goroutine that reads its log | `send`, `receive`, `relay`, `serve`, `tunnel` | all of the above |

A transfer goes through four phases: both clients `connect` to the relay and
are paired by room; they agree on a key and confirm it; the sender offers its
manifest and the receiver's user answers; the files are streamed, verified one
by one and confirmed at the end. After pairing, everything passes through the
relay's `pipe`, which the peers see as one path.

What is hard about it:

- *Files do not hold still.* The size, the hash and the content sent come from
  three separate reads, with a human in between.
- *The receiver's directory does not either.* Whether a file may be written is
  decided before the first byte, the rename comes after the last.
- *Frames do not say what they belong to.* Two loops over the same manifest
  have to stay in step, through empty files, shrunken files and refusals.
- *Either side can stop at any point*, by an error, a kill or the network, with
  frames unread on the way, while the other is blocked in a read without a
  deadline or in a write into full buffers.
- *The relay is concurrent.* Its lock covers the map only; timers are never
  stopped, handlers outlive their connection, and each of two goroutines closes
  what the other is copying.
- *The relay pairs whoever names a room*: also two senders, or a mistyped code.
- *Starting to host takes three parties*: the listener, cloudflared and the
  sender, against timeouts of ten, thirty and fifteen seconds, and what loses
  the race goes on running.
- *A download is several requests*, each of which finds the files as they are
  then; and an archive whose length nobody knows must not look finished when
  it is not.

What makes each component correct:

- exchange: a file arrives at once, whole and in its turn; success means delivered; consent before data; nothing half-written
  under a final name; nothing overwritten unasked; both sides end;
- handshake: whoever takes a key has a peer with the same key, code and salt
  and the other role; equal codes connect; unequal codes are reported;
- relay: pairing is mutual and within a room; nobody is in two pairs, forgotten
  or expired by mistake; nobody hears a stranger; ends of connections spread;
- comm and ws: the bytes read are the bytes written, and a close gets through;
- web: what a browser has completely is one version of a file, and an archive
  that opens has every file; a truncated download is told from a complete one;
- hosting: the start ends; whatever way the program returns it leaves no
  cloudflared behind; its log is read unless the scanner has given up on a line;
  the sender reaches the relay it hosts and stays connected for as long as it
  waits.

`PROJECT.json` lists the hazards one by one, at their lines.

## 2. Modules

    Link        the path between two paired peers          comm, relay.pipe, TCP
    Delivery    what a transfer promises                   -
    Transfer    the exchange, EXTENDS Link, shown to       transfer/{sender,receiver}.go
                implement Delivery
    Spake2      the key agreement, over an abstract group  pake.go
    Handshake   EXTENDS Link, Spake2                       protocol.go, crypt.go
    Rendezvous  what the relay promises                    -
    Relay       the relay, shown to implement Rendezvous   relay.go, protocol.go (connect)
    Channel     what a framed connection promises          -
    Stream      one direction of it, shown to implement    comm.go, ws.go, relay.pipe
                Channel
    Host        a sender that hosts: listener, tunnel,     cmd/fsi/{main,host}.go, ws.go,
                upgrades of those who connect              ws/dial.go, relay.go
    Page        the download page and one browser          web.go
    Served      the page in the process that hosts it:     relay.go (ServeHTTP), main.go
                EXTENDS Host, Page
    MC*         small instances for TLC
    *Proofs     theorems: TransferProofs and DeliveryProofs (EXTENDS it) about
                Transfer, HandshakeProofs about Spake2 and Handshake,
                RelayProofs and TalkProofs (EXTENDS it) about Relay,
                ServedProofs about Host, Page and Served, StreamProofs about
                Stream; FoldProofs about folds, for two of them

A definition marked `faulty` is not part of a specification. It says what a
plausible mistake in the definition after it would do; put in its place, it
breaks one of the properties, which shows that the property depends on that
line of code.

### Link

`chan[e]` are the frames on their way to end `e`, at most `Cap` of them: a
write beyond that blocks. `closed[e]` says that `e` hung up, `broken` that a
reset or a failure has hit the path. What a close does is the important part.
A clean close lets the frames in flight be read and then ends the stream. A
close with frames unread, or a frame that arrives after the close, draws a
reset; the relay then closes both sockets and any tail of what is in flight may
be lost (`Lose`). A write over a broken path may still succeed and be lost. The
relay of `--direct` and `--tunnel` lives in the sender's process (`Hosts`), so
the frames it holds die with it. A frame is never altered: the cipher would
refuse it, which is a failing read.

### Transfer and Delivery

`spc` and `rpc` are the places of the two programs, `si` and `ri` the files
they are at; `src` and `disk` are the two file systems, `tmp` is the temporary
file. There is one action per blocking call, with the code up to the next one:

| Action | Code |
|---|---|
| `DescribeStat`, `DescribeHash` | the two reads of `describe`, for each file of `BuildFileList` |
| `Offer`, `ReadAnswer` | `sendJSON(manifest)`, the answer |
| `OpenSource`, `SendBlock`, `SendEnd` | `sendFile`; `SendBlock` includes the call of `report`, which may panic |
| `ReadFinal`, `SenderFails` | the final answer; every error return of `Send` |
| `ReadOffer`, `Accept`, `Decline` | the first half of `Receive` |
| `Prepare` | `safeJoin`, `Stat`, `MkdirAll`, `CreateTemp` |
| `ReadBlock`, `ReadEnd`, `Publish` | the loop, the verification with `Rename` |
| `Finish` | the final `accept` |
| `FileFails`, `ReceiverFails` | the errors that are reported to the sender; those that are not |

`Edit`, `OutsiderWrites`, `KillSender`, `KillReceiver` and `Network` are the
surroundings. Deferred calls (`Close`, `Remove`) are part of every return; a
kill runs none of them.

Abstractions: a file is a sequence of blocks, a block being what one data frame
carries, and its SHA-256 is the content itself. An edit replaces a file's
content at once, also while it is being read, so a reader can see the start of
one version and the end of another. A rename happens at once and other file
operations, the sender's reads half way through a file included, only succeed
or fail (`DiskFaults`). A name is a
model value; `Unsafe` are those that `safeJoin` refuses. File modes, symbolic
links and the creation of directories are left out.

`Delivery` is the same transfer as its two users see it: a list is offered,
agreed to or declined, files come into the directory one at a time in the order
of the list, each at once and as listed, the receiver succeeds when all are
there and the sender after it, and either may fail before. The refinement reads
the two outcomes from `spc` and `rpc`, the files moved from `ri`, and the
directory from `disk`; frames, temporary files and half-read sources are
invisible. It supposes that nobody else writes into the directory.

### Spake2 and Handshake

`Spake2` has the equations of `New` and `Update` over any set of points with
an addition and a multiplication by scalars; `CurveAssumption` lists the three
algebraic facts they rely on. A session key is the transcript that the code
hashes. `Handshake` runs two clients through `handshake` and `confirmKeys`,
with any roles and any codes of one room, over `Link`. A sealed message carries
its key and salt and opens exactly under these.

### Relay and Rendezvous

Every connection has its handler `hpc[c]`, its timer `timer[c]`, the copying
goroutine that reads it `copier[c]`, and its client at the far end. The
critical sections of `handle` and of the timer are the single steps `Join` and
`Expire`; what the code does after it has unlocked (`Arm`, `CloseExpired`,
`TellPartner`, ...) are steps of their own. `Reject` may happen at any moment
before the room is read, which covers the 30 second deadline; timers may go off
at any moment, which covers the ten minutes. A write to a client that is gone
may succeed or fail. Clients say hello, name a room or send something else,
read what they are told, speak once, and leave whenever they like.

`Rendezvous` is the relay's promise in three actions: a connection waits alone,
meets the one that waits, or is dropped. The refinement reads `seen` from the
handlers, `lone` from the map and `pairs` from `mate`.

A copying goroutine closes its destination when `io.Copy` has returned
(`CopyEnds`) and its source after it (`CloseSource`); everything else may happen
in between.

Abstractions: buffers between relay and client are unbounded (their bounds are
in `Link`); a client uses one connection.

### Stream and Channel

`Stream` is what lies under a frame of `Link`: `comm.Send` as two writes, each
of which `ws` makes one frame; the relay's `io.Copy`, which reads what there is
of a frame and writes it as one of its own; `ws.Conn.Read` with its state
`rest`, `rmask` and `keyPos` on both hops (`reader[h]`); and `comm.Receive`,
which collects a header and a body from any number of reads (`part`). Bytes are
known by the write they come from and their offset in it, so lengths keep their
real size and the length codes of frame headers (`LengthCode`, `LengthOf`) are
those of the code. Proxies may split frames (`Fragment`) and add pings and
pongs (`Control`); a connection may fail with part of what is in flight still
arriving (`Cut`); each program may stop at any point. A frame is unmasked right
if the reader's position in the key is the byte's; keys are otherwise ideal. A
ping or a pong leaves its key and the position after it in the reader, as
`nextFrame` does (`KeyPos`, `BetweenFrames`), and a pong that cannot be written
ends the read that was to answer the ping (`PongFails`). The relay closes its
two connections in two steps, `CloseDown` and `CloseUp` (`shut[h]`): this
direction's goroutine the one to the receiver first, the other direction's the
one to the sender first, so that either may be closed while the other is still
open, blocked in a write or read from.

`Channel` has four actions: messages are sent, taken in order, something fails,
and the stream ends, before everything was taken only if something has failed.

Abstractions: the other direction appears only where it matters to this one:
the goroutine that copies it may close both connections, and a pong to a peer
that has closed may reset the connection. A control frame has at most 125 bytes
(`MaxControl`), as the RFC has it: the code takes more, and its clients send
none. A relay that dies is both hops cut.
Plain TCP, where a read may span two writes, is not in `Stream`.

### Host

The process is one place per goroutine, as in the code: `main` is where
`runSend` is, `server` where `relay.ListenAndServeHTTP` is, and `scanner` that
of the goroutine that reads cloudflared's log: it takes a line whenever the pipe
`log` has one, and stops for good at one of more than 64 KiB or at a read error
(`ScanGivesUp`), after which the pipe fills up.
`addrs` and `found` are the two channels of capacity one; `dial[c]` and
`deadline[c]` are the WebSocket connections of the sender itself and of the
receiver up to their upgrade. A setup is what the command line asks for: a
tunnel or not, a page or not, and whether `--listen` binds every address, the
loopback or one of the local network.

| Action | Code |
|---|---|
| `StartServer`, `AwaitServer` | `serve`: the goroutine, and the select of address, error and ten seconds |
| `WebFilesFail` | `webFiles`, before anything is started |
| `LaunchTunnel`, `AwaitTunnel` | `tunnel` up to `cmd.Start`; its select of hostname and thirty seconds |
| `StopKills`, `StopWaits` | `stop`: `Process.Kill`, then `Wait` |
| `SendReturns`, `Interrupt`, `Killed` | the return of `transfer.Send`; `serveUntilInterrupt`; a signal at any other time |
| `Bind`, `Serve`, `ServeFails` | the listener's goroutine |
| `ChildLogs`, `ChildDies`, `Scan`, `ScanGivesUp` | cloudflared, and the goroutine that reads its log, or does so no more |
| `Ask`, `Refused`, `Upgrade`, `NotUpgraded`, `TimesOut` | `ws.Dial` against `ws.Accept`, with the one deadline over both |
| `Expires`, `PeerGoes` | how an upgraded connection ends |

When `main` returns or is killed every goroutine stops with it; the child does
not. cloudflared names its hostname early, late, repeatedly or never, and dies
when it likes. What the relay does with an upgraded connection is in `Relay`,
and `transfer.Send` is in `Transfer`: here it returns at some time.

### Page and Served

`version` holds every version any file has had, `at[i]` the one the name of
file `i` leads to now, and `fd` the one the handler's open file has. A block
that is sent is known by the version it came from. Times are those a response
can show, whole seconds, so two versions may share one.

| Action | Code |
|---|---|
| `Request`, `Break` | the browser: any link of the page or a wrong one; again, with `Range` and `If-Range`, after the connection broke |
| `NotFound` | `ServeHTTP`, `strip`, the index of `file` |
| `OpenFile`, `FileIsGone`, `ServeContent` | `file`: `Open`, `Stat` of what was opened, `http.ServeContent` |
| `WriteBlock`, `ContentShort`, `ContentDone` | what `ServeContent` sends, and its end |
| `StartZip`, `AddEntry`, `CopyBlock`, `EntryDone`, `EntryFails`, `CloseZip` | `zipAll` and `addToZip`, which reopens every file; `EntryFails` is a file that is gone or cannot be read to its end |
| `Change` | a file is renamed over another, overwritten in place, or removed |

`Served` puts the page into the process of `Host`: a request arrives only at a
listener that accepts, through a tunnel only while cloudflared runs, and a
handler ends with the process. A request that was accepted is answered also if
the listener fails afterwards.

Abstractions: one browser with one request at a time, since handlers share the
fixed list of files and, through `OnDownload`, the progress display, which is
left out but for `reported`; `index` shows that list and changes nothing. The rules
of `http.ServeContent` are external: the part is continued if the time of the
file is still the one the browser was told, from where it stopped; otherwise
everything is sent. Compression and the bytes of the archive are left out: it
opens if and only if it has its directory.

## 3. What is checked

| Run | Instance | Shows |
|---|---|---|
| `transfer_faults` | two files, all failures on, one edit, no `--force` | safety of the exchange: `Consent`, `CompleteMeansDelivered`, `PrefixDelivered`, `InStep`, `NoPanicWithoutEdits`; `ExistingKept`, here with nobody else writing into the directory, so about a name that repeats (`transfer_race` has the others); `Implements` (`Delivery`); `Termination`: no failure leaves either side blocked |
| `transfer_clean` | `--force`, others writing, no kill, no network failure | `AcceptedIsDelivered`: without an obstacle an accepted offer is delivered; this keeps the safety properties from holding because nothing ever gets through |
| `relay_pairing` | three connections, two rooms, symmetry | the safety properties of the relay, and `Implements` |
| `relay_live` | two connections, two rooms | `Settled`, `Released`, `HangUpSpreads`, also between the two closes of a pair |
| `handshake_agrees` | the integers modulo 5 as a curve, two secrets, codes and salts, kills and network failures | `ReadyMeansAgreed`, `HandshakeEnds`, and what happens when nothing fails: `SameCodeConnects`, `MistypedCodeIsReported` |
| `stream` | two messages, sizes 0, the limit and one over it, buffers of one frame; one short read, fragment or control frame | `Implements` (`Channel`), `LengthsAgree`, `LimitsAgree`, `Arrives`, `EndSpreads`, whichever connection of the relay is closed first |
| `served` | the command lines of the repository's README and a `--listen` of the local network, a pipe of one line; two files of none or two blocks, one change, one resumption | hosting: `NoOrphan`, `StartsOrEnds`, `DialEnds`, `OwnConnectionHolds`, and `LogDrained`: cloudflared is stopped by a full pipe only after the scanner has given up, never by a hostname nobody waits for; the page: `ResumedIsCoherent`, `OpensMeansWhole` |

Five runs show that the program does not do what its text says:

| Run | Found |
|---|---|
| `transfer_names` | `fsi send a/x b/x` to a receiver with `--force`: the second file replaces the first and both sides report success. |
| `transfer_race` | without `--force`, a file created while its namesake is being received is overwritten by the rename. |
| `transfer_progress` | a file that grows after it was measured makes the sender's progress bar panic. |
| `handshake_blame` | a peer that dies before it confirms is reported as a mistyped code. |
| `page_truncated` | a file that is gone when the archive comes to it, or cannot be read to its end, ends the response as if it were complete: the browser has a finished download that does not open. |

**Bounds.** Two files are enough for one to be mistaken for the next, for two
to share a name and for a failure between them. Contents of zero to two blocks
over two block values can be empty, grow, shrink, change half way, and change
without changing size. One edit (`MaxEdits`) suffices to invalidate each of the
three reads. `Cap` of two frames makes the sender's writes block, since a file of
two blocks takes three.
Three connections are the fewest with which one can come too late for a pair
and be the next to wait. A relay with two connections is enough for liveness:
what a third adds, being alone again, either of two can be. In `stream` a body
of 65536 bytes takes the longest length code on the first hop, two buffers of
`io.Copy` and the two-byte code on the second; the codes at the other
boundaries are compared in `LengthsAgree`. The size of that body is also the
limit that stands for `comm.MaxMessage`, and twice as much stands for
`ws.maxFrame`, as in the code: a message as long as it may be passes, one byte
more is refused. Fragments and pings of 0 or 3 bytes leave a mask key at another
position than a frame begins with. A message
is several frames, so two messages see every kind of frame follow every other.
In `served` a second file is what an archive can fail at when it already has
one, and two blocks are the fewest that can come from two versions; one change
and one resumption are enough to replace a file between two requests, between
`Open` and the last byte, and between two entries. A pipe of one line
(`PipeCap`) and a channel of one hostname are full after two lines, so a reader
that blocks stops the child.

**Fairness.** `FairSpec` assumes weak fairness of each program's next step: a
system call that can complete does, goroutines are scheduled, armed timers go
off, the user answers the prompt, a client reads what it is sent. Nothing is
assumed of kills, edits, failures, or of clients dialling, speaking or leaving.
In `Host` (`HostFairness`) the goroutines of main, the listener and the scanner
run, the timeouts of `serve`, `tunnel` and the upgrade go off, and `Wait` returns
for a child that was killed. Nothing is assumed of cloudflared, of servers and proxies that
are asked for an upgrade, of `transfer.Send`, of signals or of browsers.
A read whose peer is silent is not enabled, so nothing is assumed of it either:
that the other end's silence ends is what `Termination`, `HandshakeEnds` and
`EndSpreads` show.

**Deadlock.** It is checked in every run of `Transfer`, `Relay`, `Stream` and
`Served`; states in which everything has stopped have an explicit stuttering
step (`Ended`, `Quiet`, the last disjunct of `Served`). It is off for `Handshake`: two receivers that meet in a room both
wait for the salt, with no deadline, and the system really stops.

## 4. What is proved

| Module | Theorems | Invariant |
|---|---|---|
| `TransferProofs` | `TypeCorrect` | `TypeInv` |
| `DeliveryProofs` | `ConsentHolds`, `CompleteMeansDeliveredHolds`, `PrefixDeliveredHolds`, `ExistingKeptHolds`, `TransferImplements` | `PhaseInv`, `FilesInv` |
| | `InStepHolds` | `LoopInv` |
| | `NoPanicHolds` | `SizeInv` |
| `HandshakeProofs` | `SameCodeSameKey` | - |
| | `ReadyMeansAgreedHolds` | `AgreementInv` |
| | `HandshakeTypes` | `TurnInv` |
| `RelayProofs` | `MatchedHolds`, `WaitingSoundHolds`, `TimerSparesPairsHolds`, `NoStrandedHolds`, `RelayImplements` | `PairInv` |
| `TalkProofs` | `RelayTypes`, `NoCrossTalkHolds`, `ToldFirstHolds` | `TalkInv` |
| `ServedProofs` | `NoOrphanHolds`, `OwnConnectionHoldsAlways` | `ChildInv`, `ConnectionInv` |
| | `ResumedIsCoherentHolds`, `OpensMeansWholeHolds` | `PageInv`, `ArchiveInv` |
| | `ServedTypes` | `LogTyped`, `Bounds` and the above |
| `StreamProofs` | `LengthsAgreeHolds`, `LimitsAgreeHolds` | `Shape` |
| | `StreamTypes`, `ChannelImplements` | `StreamInv` |
| `FoldProofs` | lemmas: `Induction`, `MaxIsGreatest`, `FoldIsDefined` | - |

They hold for every value of the constants, under the assumptions the modules
state: `LinkAssumption`, `TransferAssumption`, `CurveAssumption`,
`HandshakeAssumption`, `RelayAssumption`, `HostAssumption`, `PageAssumption`,
`StreamAssumption`. The last bounds a frame by 16 MiB, the value of `ws.maxFrame`:
the arithmetic of length codes is proved up to there. Every invariant that a
passing run checks, every action property and all three refinements are among
the theorems (`ExistingKept` and the refinement of `Delivery` for a directory
nobody else writes into).

*Exchange.* None of the delivery properties is inductive. That the sender may
report success rests on the one message `accept` that it reads last, so
`PhaseInv` says which messages can be under way in which phase of both
programs, and that a final `accept` exists only when the receiver has finished.
`FilesInv` says of every file the receiver has passed that it lies under its
name with the content that was hashed. That needs the temporary file to be
renamed only after it was verified, and no later file of the manifest to
replace it: without `--force` a second file of the same name is refused, and with
it the property assumes distinct names (`DistinctNames`). `ExistingKeptHolds` assumes that nobody else writes into the
directory: this is what the race of `transfer_race` breaks. `TransferImplements`
assumes the same and maps each step to one of `Delivery` or to a stutter:
`PhaseInv` gives that an acceptance that is read was sent by a receiver that
has agreed or, at the end, succeeded, and `FilesInv` that the name is still free
at the rename.

That the loops stay in step (`InStep`) is about the frame at the head only;
`LoopInv` says it of the whole queue: the files of the frames under way run
without a gap from the one the receiver is at (`Turn`) to the one the sender is
at (`NextFile`). A sender that leaves a file always leaves an end frame, also
for an empty or a shrunken one, and a broken connection only cuts a tail, so
what is left still begins where the receiver is.

`NoPanicWithoutEdits` needs that what was sent is never more than the total.
`TotalSize` is a fold over the manifest; `TotalIsSum` equates it with a sum that
`SizeInv` follows file by file: while nothing was edited, `sent` is the sum of
the files before `si` and the blocks of this one (`SumBounds`).

*Handshake.* A side is ready when it has opened a confirmation. `AgreementInv`
says that a sealed message under way was sealed by the other end with the key
and salt it still has, and that this end will not change them any more. The
type invariant is not inductive either: a side computes its key of whatever the
next frame holds. `TurnInv` numbers the frames each end has sent and read, so
that the one that is read as a share is a share, and likewise the salt, also
when two clients of one role are paired.

*Relay.* `NoStranded` speaks of a handler that has returned; `PairInv` says the
same from the moment it has let go of the lock (`CaredFor`), and ties timers,
copying goroutines and the map to the place of the handler. Pairing takes a
connection out of the map and only the one in the map can expire, so a timer
that is about to close never meets a pair. For the refinement, the two outcomes
of `Join` and the one of `Expire` that finds its connection are `Meet`, `Wait`
and `Drop`; every other step leaves the mapped variables alone.

What clients hear is a matter of queues, which `PairInv` does not mention.
`TalkInv` adds two parts to it: `Ahead`, how many of a client's frames its handler
has not read, so that its words cannot be taken for a greeting or a room; and
`Told`, that nothing is under way to a client whose handlers have not told it
that it is paired, and after that the announcement first, then words of its
partner only. That words cannot overtake the second announcement rests on
copying goroutines being started after both (`copier`).

*Stream.* `Shape` says that every frame, what a reader has of one and what the
relay holds is a piece of a message that was sent (`Pieces`), that its header
holds its length, and that a reader of a masked frame is at its offset in the
key. `LengthsAgree` and `LimitsAgree` follow from that and from `CodeOfLength`:
a length is what its bytes stand for, in one, two or eight of them. For the
order of bytes, `Ordered` lays all messages out in one stream (`Bases`): there
are positions `x` of the relay and `y` of the sender such that what is on the
second hop leads without a gap from the receiver to `x`, and what the relay
holds and what is on the first hop from `x` to `y`. A frame of the relay may
then end in the middle of a header: a byte has one place only, so the receiver
puts it where it belongs (`PlaceIsUnique`). `Progress` says what the receiver
has returned, and `Closing` that a close frame is the last one and stands for an
end that hung up, so that while nothing has failed a read fails only at a close
frame with nothing before it (`FailsCleanly`), which is when all has been read
(`AllRead`) or received (`EndIsClean`). If the relay's connection to the sender
is closed first, what the relay still holds is the end of the stream
(`UpOrder`), and that is what its other connection then ends with
(`DownOrder`). The refinement maps `SendHeader` to `Put`, the last byte of a
message (of its header if it is empty) to `Take`, `ReceiveFails` to `End`, or to
`Fail` if it was a pong that could not be written, kills, cuts and whatever else
sets `failed` to `Fail`, and leaves the rest invisible.

*Folds.* `FoldLeft` of the community modules is a function defined by recursion
on sets of positions. The library's induction theorems take an operator as a
parameter, which the provers cannot instantiate; `Induction` is derived for a
set instead, from the least element that well-foundedness gives, and
`FoldIsDefined` shows that such a function exists, so that its equation may be
used in `TotalIsSum` and `NumberIsFold`.

*Hosting.* `ChildInv` follows the child from its launch to the `Wait` that reaps
it: there is none before `launch`, and past `wait` none that runs.
`ConnectionInv` says that nobody gets past `serve` before the listener is bound,
which is why the sender's own dial can only be refused by a listener that has
failed since or was bound elsewhere, and that no connection that is up has a
deadline.

*Page.* That a resumed download belongs together is not inductive: it rests on
times. `ResumeInv` says that along a name they only grow, so the part the
browser has is no older than its stamp and no newer than the open file, which
is no newer than what the name leads to; if stamp and open file agree, so does
everything in between. `ArchiveInv` ties the archive to the place of the
handler: its entries are whole up to the one being copied, whose last block the
open file continues.

*Page types.* `ServedTypes` needs besides that a handler that serves nothing has
no file open and that log and archive keep within their bounds.

Only model-checked are the properties that rest on fairness, since the proof
system has no ENABLED: `Termination` and `AcceptedIsDelivered` of the exchange;
`SameCodeConnects`, `MistypedCodeIsReported` and `HandshakeEnds`; `Settled`,
`Released` and `HangUpSpreads` of the relay; `Arrives` and `EndSpreads` of `Stream`;
`LogDrained`, `StartsOrEnds` and `DialEnds` of `Host`. The theorems are about
`Spec`, without fairness, so they hold for the fair specifications too.

## 5. What is not modelled, and the plan

Not modelled:

- code generation (`words.Generate`: randomness; what follows from `Room` is in
  `Handshake`) and command-line parsing, prompts and the advertised address,
  which are input and output; `runReceive` and `runRelay`, which call
  `Receive` and the relay and nothing else;
- the headers of the WebSocket upgrade, and an answer cut off half way: `Host`
  has an upgrade succeed, fail or time out;
- the index page, the compression and the bytes of an archive;
- the nil `*web.Handler` that reaches `ServeHTTP` as a non-nil interface
  (`main.go:144`): a defect of one expression, no state depends on it;
- what the sender could do about a listener that fails after the start
  (`host.go:35`) or a log that is read no more: the code learns of neither;
- plain TCP clients in `Stream`; the scripts.

Left out on purpose: byte-level encodings, nonces, wording, file modes,
IPv4/IPv6 and TLS details.

Order of work:

1. *Exchange* (done): `Link`, `Transfer`, their runs and their safety theorems.
2. *Relay* (done): `Rendezvous`, `Relay`, the refinement and its proof.
3. *Handshake* (done): `Spake2`, `Handshake`, agreement proved.
4. *Stream* (done): `Channel`, `Stream`, the refinement checked and proved.
5. *Hosting and page* (done): `Host`, `Page`, `Served`, five theorems.
6. *Exchange as a whole* (done): `Delivery`, the refinement checked and proved.
7. *Proofs* (done): every safety property of a passing run. What is left to say
   would be new: what holds of a transfer, a handshake and a relay together, and
   the edges of the program listed above.
