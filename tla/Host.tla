-------------------------------- MODULE Host --------------------------------
(***************************************************************************)
(* A sender that hosts the rendezvous itself (send --direct, --tunnel,     *)
(* --web): cmd/fsi runSend with serve, tunnel and serveUntilInterrupt, the *)
(* goroutine of relay.ListenAndServeHTTP, the cloudflared child with the   *)
(* goroutine that reads its log, and the WebSocket upgrade (ws.Dial,       *)
(* ws.Accept) of those who connect: the sender itself and a receiver.      *)
(*                                                                         *)
(* The process is one place per goroutine.  When main returns, or a signal *)
(* kills it, every goroutine stops with it; the child does not.  What the  *)
(* relay does with an upgraded connection is in Relay, what travels over   *)
(* it in Stream and Transfer.                                              *)
(*                                                                         *)
(* Definitions marked "faulty" are no part of the specification.           *)
(***************************************************************************)
EXTENDS Integers, Sequences

CONSTANTS
  Setups,   \* command lines: what is hosted and where --listen binds
  PipeCap   \* lines its stderr pipe holds; a write beyond blocks it

ASSUME HostAssumption ==
  /\ Setups \subseteq [tunnel : BOOLEAN, web : BOOLEAN, bound : {"any", "loopback", "lan"}]
  /\ PipeCap \in Nat \ {0}

VARIABLES
  setup,     \* the command line
  main,      \* where runSend is
  server,    \* where ListenAndServeHTTP is
  addrs,     \* the channel of serve holds the listener's address
  child,     \* the cloudflared process
  log,       \* its stderr, as yet unread
  scanner,   \* the goroutine that reads it
  found,     \* the channel of tunnel holds a hostname
  dial,      \* dial[c]: how far client c has come with its connection
  deadline   \* deadline[c]: c's socket has an I/O deadline set

process == <<setup, main, server, addrs>>
tunnel == <<child, log, scanner, found>>
clients == <<dial, deadline>>
hostVars == <<process, tunnel, clients>>

Client == {"own", "peer"}

HostInit ==
  /\ setup \in Setups
  /\ main = "start"
  /\ server = "off"
  /\ addrs = FALSE
  /\ child = "off"
  /\ log = <<>>
  /\ scanner = "off"
  /\ found = FALSE
  /\ dial = [c \in Client |-> "off"]
  /\ deadline = [c \in Client |-> FALSE]

Ended == {"exited", "killed"}
Running == main \notin Ended

-----------------------------------------------------------------------------
(* runSend.  "sending" is transfer.Send, "serving" the wait for Ctrl-C.    *)

Hosting == IF setup.web THEN "serving" ELSE "sending"

(* The deferred stop of the tunnel, if there is one, comes before the exit *)
Returning == IF child = "off" THEN "exited" ELSE "stop"

StartServer ==
  /\ main = "start"
  /\ main' = "serve"
  /\ server' = "listen"
  /\ UNCHANGED <<setup, addrs, tunnel, clients>>

WebFilesFail ==
  /\ main = "start"
  /\ setup.web
  /\ main' = "exited"
  /\ UNCHANGED <<setup, server, addrs, tunnel, clients>>

(* The select of serve: the address, an error, or ten seconds              *)
AwaitServer ==
  /\ main = "serve"
  /\ \/ /\ addrs
        /\ addrs' = FALSE
        /\ main' = IF setup.tunnel THEN "launch" ELSE Hosting
     \/ main' = "exited" /\ UNCHANGED addrs
  /\ UNCHANGED <<setup, server, tunnel, clients>>

(* tunnel up to cmd.Start; cloudflared may not be installed, or not start  *)
LaunchTunnel ==
  /\ main = "launch"
  /\ \/ child' = "running" /\ scanner' = "reading" /\ main' = "tunnel"
     \/ UNCHANGED <<child, scanner>> /\ main' = "exited"
  /\ UNCHANGED <<setup, server, addrs, log, found, clients>>

AwaitTunnelLeaving ==  \* faulty: gives up without stopping what it started
  /\ main = "tunnel"
  /\ \/ found /\ found' = FALSE /\ main' = Hosting
     \/ UNCHANGED found /\ main' = "exited"
  /\ UNCHANGED <<setup, server, addrs, child, log, scanner, clients>>

(* The select of tunnel: a hostname, or thirty seconds.  When both are     *)
(* there either may be taken.                                              *)
AwaitTunnel ==
  /\ main = "tunnel"
  /\ \/ found /\ found' = FALSE /\ main' = Hosting
     \/ UNCHANGED found /\ main' = "stop"
  /\ UNCHANGED <<setup, server, addrs, child, log, scanner, clients>>

StopWaitsOnly ==  \* faulty: waits for a child that nobody has told to go
  /\ main = "stop"
  /\ main' = "wait"
  /\ UNCHANGED <<setup, server, addrs, tunnel, clients>>

(* stop: Process.Kill, then Wait, which reaps the child and closes the     *)
(* pipe under the goroutine that reads it                                  *)
StopKills ==
  /\ main = "stop"
  /\ main' = "wait"
  /\ child' = "dead"
  /\ UNCHANGED <<setup, server, addrs, log, scanner, found, clients>>

StopWaits ==
  /\ main = "wait"
  /\ child = "dead"
  /\ child' = "reaped"
  /\ log' = <<>>
  /\ scanner' = "stopped"
  /\ found' = FALSE
  /\ main' = "exited"
  /\ UNCHANGED <<setup, server, addrs, clients>>

(* Send returns, with or without an error, for whatever reason; its        *)
(* deferred Close ends the sender's own connection.                        *)
SendReturns ==
  /\ main = "sending"
  /\ dial["own"] # "asked"
  /\ dial' = [dial EXCEPT !["own"] = IF @ = "up" THEN "gone" ELSE @]
  /\ main' = Returning
  /\ UNCHANGED <<setup, server, addrs, tunnel, deadline>>

(* SIGINT or SIGTERM while serveUntilInterrupt listens for them            *)
Interrupt ==
  /\ main = "serving"
  /\ main' = Returning
  /\ UNCHANGED <<setup, server, addrs, tunnel, clients>>

(* The same signals at any other time, and SIGKILL: no deferred call runs. *)
Killed ==
  /\ Running
  /\ main' = "killed"
  /\ log' = <<>>
  /\ scanner' = "stopped"
  /\ addrs' = FALSE
  /\ found' = FALSE
  /\ UNCHANGED <<setup, server, child, clients>>

MainStep ==
  \/ StartServer \/ AwaitServer \/ LaunchTunnel \/ AwaitTunnel
  \/ StopKills \/ StopWaits

-----------------------------------------------------------------------------
(* relay.ListenAndServeHTTP, in a goroutine of its own.  An error after    *)
(* the start is put into a channel that nobody reads any more.             *)
Bind ==
  /\ Running
  /\ server = "listen"
  /\ \/ server' = "bound" /\ addrs' = TRUE
     \/ server' = "failed" /\ UNCHANGED addrs
  /\ UNCHANGED <<setup, main, tunnel, clients>>

Serve ==
  /\ Running
  /\ server = "bound"
  /\ server' = "accept"
  /\ UNCHANGED <<setup, main, addrs, tunnel, clients>>

ServeFails ==
  /\ Running
  /\ server = "accept"
  /\ server' = "failed"
  /\ UNCHANGED <<setup, main, addrs, tunnel, clients>>

-----------------------------------------------------------------------------
(* cloudflared and the goroutine that scans its log.  It may name its      *)
(* hostname late, more than once or never, and die at any time.            *)

Line == {"hostname", "other"}

ChildLogs ==
  /\ Running
  /\ child = "running"
  /\ Len(log) < PipeCap
  /\ \E line \in Line : log' = Append(log, line)
  /\ UNCHANGED <<process, child, scanner, found, clients>>

ChildDies ==
  /\ child = "running"
  /\ child' = "dead"
  /\ UNCHANGED <<process, log, scanner, found, clients>>

ScanBlocking ==  \* faulty: a send without default
  /\ Running
  /\ scanner = "reading"
  /\ log # <<>>
  /\ Head(log) = "hostname" => ~found
  /\ log' = Tail(log)
  /\ found' = (found \/ Head(log) = "hostname")
  /\ UNCHANGED <<process, child, scanner, clients>>

(* A hostname that does not fit into the channel is dropped.               *)
Scan ==
  /\ Running
  /\ scanner = "reading"
  /\ log # <<>>
  /\ log' = Tail(log)
  /\ found' = (found \/ Head(log) = "hostname")
  /\ UNCHANGED <<process, child, scanner, clients>>

(* scanner.Scan returns false for good at a line of more than 64 KiB       *)
(* (bufio.MaxScanTokenSize), whatever is in it, or when the read fails.    *)
(* The rest of the line stays in the pipe, and nobody reads on.            *)
ScanGivesUp ==
  /\ Running
  /\ scanner = "reading"
  /\ log # <<>>
  /\ scanner' = "stopped"
  /\ log' = [log EXCEPT ![1] = "other"]
  /\ UNCHANGED <<process, child, found, clients>>

-----------------------------------------------------------------------------
(* ws.Dial against ws.Accept.  The sender dials 127.0.0.1, whatever        *)
(* --listen says; the receiver dials what the sender printed, once it was  *)
(* printed: an address of its network or, with a tunnel, Cloudflare, which *)
(* always accepts and goes on to 127.0.0.1 if cloudflared runs.  With a    *)
(* page neither dials: no receive command is printed, no transfer run.     *)

Tunnelled(c) == c = "peer" /\ setup.tunnel

Alive(c) == c = "own" => Running

Reachable(c) ==
  /\ Running
  /\ server \in {"bound", "accept"}
  /\ setup.bound \in {"any", IF c = "own" \/ setup.tunnel THEN "loopback" ELSE "lan"}

Knows(c) ==
  /\ ~setup.web
  /\ IF c = "own" THEN main = "sending"
                  ELSE main \notin {"start", "serve", "launch", "tunnel"}

AskWithoutDeadline(c) ==  \* faulty: sets no deadline
  /\ dial[c] = "off"
  /\ Knows(c)
  /\ Tunnelled(c) \/ Reachable(c)
  /\ dial' = [dial EXCEPT ![c] = "asked"]
  /\ UNCHANGED <<process, tunnel, deadline>>

(* dialTCP, SetDeadline and the request                                    *)
Ask(c) ==
  /\ dial[c] = "off"
  /\ Knows(c)
  /\ Tunnelled(c) \/ Reachable(c)
  /\ dial' = [dial EXCEPT ![c] = "asked"]
  /\ deadline' = [deadline EXCEPT ![c] = TRUE]
  /\ UNCHANGED <<process, tunnel>>

(* Nobody listens there or, between two machines, nothing comes back.      *)
Refused(c) ==
  /\ dial[c] = "off"
  /\ Knows(c)
  /\ ~Reachable(c) \/ c = "peer"
  /\ dial' = [dial EXCEPT ![c] = "refused"]
  /\ UNCHANGED <<process, tunnel, deadline>>

UpgradeKeepingDeadline(c) ==  \* faulty: forgets that a deadline is set
  /\ dial[c] = "asked"
  /\ Alive(c)
  /\ Reachable(c) /\ server = "accept"
  /\ Tunnelled(c) => child = "running"
  /\ dial' = [dial EXCEPT ![c] = "up"]
  /\ UNCHANGED <<process, tunnel, deadline>>

(* Accept answers 101, Dial reads it and lifts its deadline.               *)
Upgrade(c) ==
  /\ dial[c] = "asked"
  /\ Alive(c)
  /\ Reachable(c) /\ server = "accept"
  /\ Tunnelled(c) => child = "running"
  /\ dial' = [dial EXCEPT ![c] = "up"]
  /\ deadline' = [deadline EXCEPT ![c] = FALSE]
  /\ UNCHANGED <<process, tunnel>>

(* Another answer than 101, from a proxy on the way, or the end of the     *)
(* connection.  The sender's own goes through no proxy.                    *)
NotUpgraded(c) ==
  /\ dial[c] = "asked"
  /\ Alive(c)
  /\ c = "peer" \/ server = "failed"
  /\ dial' = [dial EXCEPT ![c] = "failed"]
  /\ UNCHANGED <<process, tunnel, deadline>>

(* Every read and write fails once a deadline has passed.                  *)
TimesOut(c) ==
  /\ deadline[c]
  /\ Alive(c)
  /\ dial[c] \in {"asked", "up"}
  /\ dial' = [dial EXCEPT ![c] = "failed"]
  /\ deadline' = [deadline EXCEPT ![c] = FALSE]
  /\ UNCHANGED <<process, tunnel>>

(* The relay ends the connection: it has been alone for ten minutes, or    *)
(* its partner has left.                                                   *)
Expires(c) ==
  /\ Running
  /\ dial[c] = "up"
  /\ \E d \in Client \ {c} : dial[d] # "up"
  /\ dial' = [dial EXCEPT ![c] = "expired"]
  /\ UNCHANGED <<process, tunnel, deadline>>

(* The receiver stops, or loses its connection.                            *)
PeerGoes ==
  /\ dial["peer"] = "up"
  /\ dial' = [dial EXCEPT !["peer"] = "gone"]
  /\ UNCHANGED <<process, tunnel, deadline>>

ClientStep(c) ==
  \/ Ask(c) \/ Refused(c) \/ Upgrade(c) \/ NotUpgraded(c) \/ TimesOut(c)
  \/ Expires(c)

HostStep ==
  \/ MainStep \/ WebFilesFail \/ SendReturns \/ Interrupt \/ Killed
  \/ Bind \/ Serve \/ ServeFails
  \/ ChildLogs \/ ChildDies \/ Scan \/ ScanGivesUp
  \/ \E c \in Client : ClientStep(c)
  \/ PeerGoes

(* Every goroutine runs as long as it can, timers go off, and the child    *)
(* dies when it is killed.  Nothing is assumed of cloudflared otherwise,   *)
(* of signals, of users, or of a server that is asked for an upgrade.      *)
HostFairness ==
  /\ WF_hostVars(MainStep)
  /\ WF_hostVars(Bind \/ Serve)
  /\ WF_hostVars(Scan)
  /\ \A c \in Client : WF_hostVars(TimesOut(c))

-----------------------------------------------------------------------------
(* Properties                                                              *)

HostTypeOK ==
  /\ setup \in Setups
  /\ main \in {"start", "serve", "launch", "tunnel", "sending", "serving",
               "stop", "wait"} \cup Ended
  /\ server \in {"off", "listen", "bound", "accept", "failed"}
  /\ {addrs, found} \subseteq BOOLEAN
  /\ child \in {"off", "running", "dead", "reaped"}
  /\ log \in Seq(Line) /\ Len(log) <= PipeCap
  /\ scanner \in {"off", "reading", "stopped"}
  /\ dial \in [Client -> {"off", "asked", "up", "refused", "failed", "expired", "gone"}]
  /\ deadline \in [Client -> BOOLEAN]

(* However runSend returns, after a tunnel that came too late, a transfer  *)
(* that failed or Ctrl-C, it leaves no cloudflared behind.                 *)
NoOrphan == main = "exited" => child \in {"off", "reaped"}

(* A full pipe stops cloudflared for good only if the scanner of its log   *)
(* has given up at a line it does not take, never because of a hostname    *)
(* that nobody waits for any more ("default" in tunnel's goroutine).       *)
LogDrained ==
  LET blocked == child = "running" /\ Running /\ Len(log) = PipeCap
  IN  blocked ~> ~blocked \/ scanner = "stopped"

(* The start and the end of the program both come to an end, whatever      *)
(* cloudflared and the listener do: afterwards it hosts, or has exited.    *)
StartsOrEnds ==
  main \notin {"sending", "serving"} ~> main \in {"sending", "serving"} \cup Ended

(* A dial ends, with a connection or without one, although neither the     *)
(* server nor a proxy on the way need ever answer.                         *)
DialEnds ==
  \A c \in Client : dial[c] = "asked" ~> dial[c] # "asked" \/ ~Alive(c)

(* The sender reaches the relay it hosts and keeps the connection for as   *)
(* long as it waits: it fails only if the listener fails, or if --listen   *)
(* names another address than the one the sender dials.                    *)
OwnConnectionHolds ==
  [][LET before == dial["own"]
         after == dial'["own"] IN
       /\ before = "off" /\ after = "refused" => server = "failed" \/ setup.bound = "lan"
       /\ before = "up" => after \in {"up", "expired", "gone"}]_hostVars
=============================================================================
