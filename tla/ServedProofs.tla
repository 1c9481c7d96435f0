---------------------------- MODULE ServedProofs ----------------------------
(***************************************************************************)
(* Theorems about a sender that hosts, for any command lines and any size  *)
(* of the pipe: it leaves no cloudflared behind, and its own connection to *)
(* the relay it hosts does not fail by itself; and about its download      *)
(* page, for any files, sizes, changes and resumptions: what a browser has *)
(* completely belongs together.                                            *)
(***************************************************************************)
EXTENDS Served, SequenceTheorems, TLAPS

-----------------------------------------------------------------------------
(* The host.  The page only adds steps that leave it alone.                *)

Hosted == {"launch", "tunnel", "sending", "serving", "stop", "wait"}

(* The child is there from its launch to its end, which runSend waits for. *)
ChildInv ==
  /\ child \in {"off", "running", "dead", "reaped"}
  /\ main \in {"start", "serve", "launch"} => child = "off"
  /\ main = "wait" => child = "dead"
  /\ main = "exited" => child \in {"off", "reaped"}

(* Nobody gets past serve before the listener is bound.  A connection that *)
(* is up has no deadline.                                                  *)
ConnectionInv ==
  /\ setup \in Setups
  /\ dial \in [Client -> {"off", "asked", "up", "refused", "failed", "expired", "gone"}]
  /\ deadline \in [Client -> BOOLEAN]
  /\ main = "start" => server = "off"
  /\ addrs \/ main \in Hosted => server \in {"bound", "accept", "failed"}
  /\ \A c \in Client : dial[c] = "up" => ~deadline[c]

HostInv == ChildInv /\ ConnectionInv

-----------------------------------------------------------------------------
LEMMA HostInvInit == HostInit => HostInv
BY DEF HostInit, HostInv, ChildInv, ConnectionInv, Client, Hosted

LEMMA HostSteps == [Next]_vars => [HostStep]_hostVars
BY DEF Next, vars

LEMMA ChildInvNext == ChildInv /\ [HostStep]_hostVars => ChildInv'
<1> SUFFICES ASSUME ChildInv, [HostStep]_hostVars PROVE ChildInv'
  OBVIOUS
<1> USE DEF ChildInv
<1>1. CASE MainStep
  BY <1>1 DEF MainStep, StartServer, AwaitServer, LaunchTunnel, AwaitTunnel, StopKills,
    StopWaits, Hosting, tunnel
<1>2. CASE WebFilesFail \/ SendReturns \/ Interrupt \/ Killed
  BY <1>2 DEF WebFilesFail, SendReturns, Interrupt, Killed, Returning, tunnel
<1>3. CASE Bind \/ Serve \/ ServeFails
  BY <1>3 DEF Bind, Serve, ServeFails, tunnel
<1>4. CASE ChildLogs \/ ChildDies \/ Scan \/ ScanGivesUp
  BY <1>4 DEF ChildLogs, ChildDies, Scan, ScanGivesUp, process
<1>5. CASE \/ \E c \in Client : ClientStep(c)
           \/ PeerGoes
  BY <1>5 DEF ClientStep, Ask, Refused, Upgrade, NotUpgraded, TimesOut, Expires, PeerGoes,
    process, tunnel
<1>6. CASE UNCHANGED hostVars
  BY <1>6 DEF hostVars, process, tunnel
<1> QED
  BY <1>1, <1>2, <1>3, <1>4, <1>5, <1>6 DEF HostStep

LEMMA ConnectionInvNext == ConnectionInv /\ [HostStep]_hostVars => ConnectionInv'
<1> SUFFICES ASSUME ConnectionInv, [HostStep]_hostVars PROVE ConnectionInv'
  OBVIOUS
<1> USE DEF ConnectionInv
<1>1. CASE MainStep
  BY <1>1 DEF MainStep, StartServer, AwaitServer, LaunchTunnel, AwaitTunnel, StopKills,
    StopWaits, Hosting, Hosted, clients, tunnel
<1>2. CASE WebFilesFail \/ Interrupt \/ Killed
  BY <1>2 DEF WebFilesFail, Interrupt, Killed, Returning, Hosted, clients
<1>3. CASE SendReturns
  BY <1>3 DEF SendReturns, Returning, Hosted, Client
<1>4. CASE Bind \/ Serve \/ ServeFails
  BY <1>4 DEF Bind, Serve, ServeFails, clients
<1>5. CASE ChildLogs \/ ChildDies \/ Scan \/ ScanGivesUp
  BY <1>5 DEF ChildLogs, ChildDies, Scan, ScanGivesUp, process, clients
<1>6. ASSUME NEW c \in Client, ClientStep(c) PROVE ConnectionInv'
  <2>1. CASE Ask(c)
    BY <2>1 DEF Ask, process
  <2>2. CASE Upgrade(c)
    BY <2>2 DEF Upgrade, process
  <2>3. CASE TimesOut(c)
    BY <2>3 DEF TimesOut, process
  <2>4. CASE Refused(c) \/ NotUpgraded(c) \/ Expires(c)
    BY <2>4 DEF Refused, NotUpgraded, Expires, process
  <2> QED
    BY <1>6, <2>1, <2>2, <2>3, <2>4 DEF ClientStep
<1>7. CASE PeerGoes
  BY <1>7 DEF PeerGoes, process, Client
<1>8. CASE UNCHANGED hostVars
  BY <1>8 DEF hostVars, process, clients
<1> QED
  BY <1>1, <1>2, <1>3, <1>4, <1>5, <1>6, <1>7, <1>8 DEF HostStep

(* However runSend returns, it leaves no cloudflared behind.               *)
THEOREM NoOrphanHolds == Spec => []NoOrphan
<1>1. Init => ChildInv
  BY HostInvInit DEF Init, HostInv
<1>2. ChildInv /\ [Next]_vars => ChildInv'
  BY HostSteps, ChildInvNext
<1>3. ChildInv => NoOrphan
  BY DEF ChildInv, NoOrphan
<1> QED
  BY <1>1, <1>2, <1>3, PTL DEF Spec

(* What one step may do to the sender's own connection.                    *)
LEMMA OwnConnectionStep ==
  ASSUME ConnectionInv, HostStep
  PROVE  LET before == dial["own"]
             after == dial'["own"] IN
         /\ before = "off" /\ after = "refused" => server = "failed" \/ setup.bound = "lan"
         /\ before = "up" => after \in {"up", "expired", "gone"}
<1> USE DEF ConnectionInv
<1>1. ASSUME NEW c \in Client, ClientStep(c)
      PROVE  /\ dial["own"] = "off" /\ dial'["own"] = "refused" =>
                  server = "failed" \/ setup.bound = "lan"
             /\ dial["own"] = "up" => dial'["own"] \in {"up", "expired", "gone"}
  <2>1. CASE Refused(c)
    <3>1. CASE c = "own"
      <4>1. main = "sending" /\ ~Reachable("own")
        BY <2>1, <3>1 DEF Refused, Knows
      <4>2. server \in {"bound", "accept", "failed"}
        BY <4>1 DEF Hosted
      <4>3. setup.bound \in {"any", "loopback", "lan"}
        BY HostAssumption
      <4>4. server = "failed" \/ setup.bound = "lan"
        BY <4>1, <4>2, <4>3 DEF Reachable, Running, Ended
      <4> QED
        BY <2>1, <3>1, <4>4 DEF Refused
    <3>2. CASE c = "peer"
      BY <2>1, <3>2 DEF Refused
    <3> QED
      BY <3>1, <3>2 DEF Client
  <2>2. CASE Ask(c) \/ Upgrade(c) \/ NotUpgraded(c) \/ TimesOut(c) \/ Expires(c)
    BY <2>2 DEF Ask, Upgrade, NotUpgraded, TimesOut, Expires, Client
  <2> QED
    BY <1>1, <2>1, <2>2 DEF ClientStep
<1>2. CASE SendReturns \/ PeerGoes
  BY <1>2 DEF SendReturns, PeerGoes, Client
<1>3. CASE MainStep
  BY <1>3 DEF MainStep, StartServer, AwaitServer, LaunchTunnel, AwaitTunnel, StopKills,
    StopWaits, clients
<1>4. CASE WebFilesFail \/ Interrupt \/ Killed \/ Bind \/ Serve \/ ServeFails \/ ChildLogs
             \/ ChildDies \/ Scan \/ ScanGivesUp
  BY <1>4 DEF WebFilesFail, Interrupt, Killed, Bind, Serve, ServeFails, ChildLogs, ChildDies,
    Scan, ScanGivesUp, clients
<1> QED
  BY <1>1, <1>2, <1>3, <1>4 DEF HostStep

(* The sender's connection to the relay it hosts is refused only if the    *)
(* listener has failed or --listen names another address, and once it is   *)
(* up it fails only at the other end.                                      *)
THEOREM OwnConnectionHoldsAlways == Spec => OwnConnectionHolds
<1>1. Init => ConnectionInv
  BY HostInvInit DEF Init, HostInv
<1>2. ConnectionInv /\ [Next]_vars => ConnectionInv'
  BY HostSteps, ConnectionInvNext
<1>3. ConnectionInv /\ [Next]_vars =>
        [LET before == dial["own"]
             after == dial'["own"] IN
         /\ before = "off" /\ after = "refused" => server = "failed" \/ setup.bound = "lan"
         /\ before = "up" => after \in {"up", "expired", "gone"}]_hostVars
  BY HostSteps, OwnConnectionStep
<1> QED
  BY <1>1, <1>2, <1>3, PTL DEF Spec, OwnConnectionHolds

-----------------------------------------------------------------------------
(* The page.                                                               *)

VersionRecord == [size : FileSizes, time : Nat, over : BOOLEAN]

Versions == 1 .. Len(version)

Follows(u, v) == u = v \/ version[v].over \/ version[u].time = version[v].time

FilesTyped ==
  /\ version \in Seq(VersionRecord)
  /\ at \in [OnOffer -> Versions \cup {None}]

HandlerTyped ==
  /\ handler \in {"off", "route", "stat", "content", "zip", "copy"}
  /\ fd \in Versions \cup {None}
  /\ handler \in {"stat", "content", "copy"} => fd \in Versions
  /\ handler \in {"stat", "content"} => what \in OnOffer
  /\ handler \in {"zip", "copy"} => what = AllZip
  /\ handler # "off" => browser \in {"waiting", "reading"}
  /\ {size, offset} \subseteq Nat
  /\ entry \in Nat \ {0}

BrowserTyped ==
  /\ what \in Link
  /\ stamp \in Nat
  /\ have \in Seq(Nat)
  /\ \A k \in 1 .. Len(have) : have[k] \in Versions
  /\ have # <<>> => what \in OnOffer /\ browser # "off"

PageTyped == FilesTyped /\ HandlerTyped /\ BrowserTyped

(* Times only grow along a name.  The part a browser has is no older than  *)
(* its stamp and no newer than the open file, which is no newer than what  *)
(* the name leads to: if stamp and open file agree, so does all between.   *)
ResumeInv ==
  /\ Coherent(have)
  /\ handler = "content" => Len(have) = offset /\ offset <= size /\ stamp <= version[fd].time
  /\ browser = "complete" /\ what \in OnOffer => Len(have) = size
  /\ have # <<>> => stamp <= version[Last(have)].time
  /\ have # <<>> /\ at[what] # None => version[Last(have)].time <= version[at[what]].time
  /\ handler \in {"stat", "content"} =>
       /\ at[what] # None => version[fd].time <= version[at[what]].time
       /\ have # <<>> => version[Last(have)].time <= version[fd].time
  /\ handler = "content" /\ have # <<>> => Follows(Last(have), fd)

PageInv == PageTyped /\ ResumeInv

-----------------------------------------------------------------------------
LEMMA SequenceOf ==
  ASSUME NEW S, NEW n \in Nat, NEW f \in [1 .. n -> S]
  PROVE  f \in Seq(S) /\ Len(f) = n
OBVIOUS

LEMMA RecordsGrow ==
  ASSUME NEW S, NEW T, NEW U, NEW V, NEW W, NEW X, S \subseteq T, U \subseteq V, W \subseteq X
  PROVE  [size : S, time : U, over : W] \subseteq [size : T, time : V, over : X]
OBVIOUS

LEMMA VersionTyped ==
  ASSUME FilesTyped, NEW v \in Versions
  PROVE  version[v].time \in Nat /\ version[v].size \in Nat
<1>1. version[v] \in VersionRecord
  BY ElementOfSeq DEF FilesTyped, Versions
<1> QED
  BY <1>1, PageAssumption DEF VersionRecord

LEMMA PageInvInit == PageInit => PageInv
<1> SUFFICES ASSUME PageInit PROVE PageInv
  OBVIOUS
<1> USE PageAssumption
<1>1. version \in Seq(VersionRecord) /\ Len(version) = NFiles
  <2>1. version \in [1 .. NFiles -> VersionRecord]
    <3>1. [size : FileSizes, time : {0}, over : {FALSE}] \subseteq VersionRecord
      <4>1. {0} \subseteq Nat
        OBVIOUS
      <4>2. {FALSE} \subseteq BOOLEAN
        BY Zenon
      <4> QED
        BY <4>1, <4>2, RecordsGrow, Zenon DEF VersionRecord
    <3> QED
      BY <3>1 DEF PageInit, OnOffer
  <2> QED
    BY <2>1, SequenceOf
<1>2. PageTyped
  BY <1>1 DEF PageInit, PageTyped, FilesTyped, HandlerTyped, BrowserTyped, Versions, OnOffer,
    Link, Nowhere, AllZip
<1>3. ResumeInv
  BY <1>1 DEF PageInit, ResumeInv, Coherent
<1> QED
  BY <1>2, <1>3 DEF PageInv

(* The steps of Served, as the page sees them.                             *)
LEMMA PageSteps ==
  [Next]_vars => \/ Request \/ Break \/ HandlerStep
                 \/ \E i \in OnOffer : Change(i)
                 \/ UNCHANGED pageVars
BY DEF Next, vars

-----------------------------------------------------------------------------
(* A new version leaves the others as they were.                           *)
LEMMA NewVersionKeeps ==
  ASSUME PageTyped, NEW i \in OnOffer, NEW over \in BOOLEAN, NewVersion(i, over)
  PROVE  /\ FilesTyped'
         /\ Versions \subseteq Versions'
         /\ \A v \in Versions : version'[v] = version[v]
         /\ at[i] \in Versions
         /\ at'[i] \in Versions'
         /\ at'[i] \notin Versions
         /\ version'[at'[i]].over = over
         /\ version'[at'[i]].time >= version[at[i]].time
         /\ \A j \in OnOffer : j # i => at'[j] = at[j]
<1> USE PageAssumption DEF PageTyped, FilesTyped
<1>1. PICK s \in FileSizes, t \in {version[at[i]].time, version[at[i]].time + 1} :
        version' = Append(version, [size |-> s, time |-> t, over |-> over])
  BY DEF NewVersion
<1>2. at[i] \in Versions
  BY DEF NewVersion
<1>3. version[at[i]].time \in Nat
  BY <1>2, VersionTyped
<1>4. t \in Nat /\ t >= version[at[i]].time
  BY <1>1, <1>3
<1>5. /\ version' \in Seq(VersionRecord)
      /\ Len(version') = Len(version) + 1
      /\ \A v \in Versions : version'[v] = version[v]
      /\ version'[Len(version) + 1] = [size |-> s, time |-> t, over |-> over]
  <2> DEFINE r == [size |-> s, time |-> t, over |-> over]
  <2>1. r \in VersionRecord
    BY <1>4 DEF VersionRecord
  <2> HIDE DEF r
  <2>2. version' = Append(version, r)
    BY <1>1 DEF r
  <2>3. /\ version' \in Seq(VersionRecord)
        /\ Len(version') = Len(version) + 1
        /\ \A v \in Versions : version'[v] = version[v]
        /\ version'[Len(version) + 1] = r
    BY <2>1, <2>2 DEF Versions
  <2> QED
    BY <2>3 DEF r
<1>6. Len(version) \in Nat
  OBVIOUS
<1>7. at' = [at EXCEPT ![i] = Len(version) + 1]
  BY DEF NewVersion
<1>8. Versions \subseteq Versions' /\ at'[i] \in Versions' /\ at'[i] \notin Versions
  BY <1>5, <1>6, <1>7 DEF Versions
<1>9. at' \in [OnOffer -> Versions' \cup {None}]
  BY <1>7, <1>8
<1> QED
  BY <1>2, <1>4, <1>5, <1>6, <1>7, <1>8, <1>9

LEMMA ChangePreserves ==
  ASSUME PageInv, NEW i \in OnOffer, Change(i)
  PROVE  PageInv'
<1> USE DEF PageInv
<1> USE PageAssumption
<1>1. UNCHANGED <<handler, size, offset, entry, browser, what, asks, have, stamp>>
  BY DEF Change, download
<1>2. have # <<>> => Last(have) \in Versions
  BY DEF PageTyped, BrowserTyped, Last
<1>3. \A v \in Versions : version[v].time \in Nat
  BY VersionTyped DEF PageTyped
<1>4. CASE at' = [at EXCEPT ![i] = None] /\ UNCHANGED <<version, fd>>
  <2>1. PageTyped'
    BY <1>1, <1>4 DEF PageTyped, FilesTyped, HandlerTyped, BrowserTyped, Versions
  <2>2. \A j \in OnOffer : at'[j] # None => at'[j] = at[j]
    BY <1>4 DEF PageTyped, FilesTyped
  <2>3. ResumeInv'
    BY <1>1, <1>4, <2>2 DEF ResumeInv, PageTyped, HandlerTyped, BrowserTyped, Coherent, Follows, Last
  <2> QED
    BY <2>1, <2>3
<1>5. ASSUME NEW over \in BOOLEAN, NewVersion(i, over),
             \/ UNCHANGED fd
             \/ over /\ fd = at[i] /\ fd' = at'[i]
      PROVE  PageInv'
  <2> DEFINE Older == \A v \in Versions : version'[v] = version[v]
  <2>1. /\ FilesTyped'
        /\ Versions \subseteq Versions'
        /\ Older
        /\ at[i] \in Versions
        /\ at'[i] \in Versions'
        /\ version'[at'[i]].over = over
        /\ version'[at'[i]].time >= version[at[i]].time
        /\ \A j \in OnOffer : j # i => at'[j] = at[j]
    BY <1>5, NewVersionKeeps
  <2>2. \A v \in Versions' : version'[v].time \in Nat
    <3>1. ASSUME NEW v \in Versions' PROVE version'[v] \in VersionRecord
      BY <2>1, ElementOfSeq DEF FilesTyped, Versions
    <3> QED
      BY <3>1 DEF VersionRecord
  <2>3. PageTyped'
    BY <1>1, <1>5, <2>1 DEF PageTyped, HandlerTyped, BrowserTyped
  <2>4. Coherent(have)'
    <3> SUFFICES ASSUME NEW k \in 1 .. Len(have) - 1
                 PROVE  Follows(have[k], have[k + 1])'
      BY <1>1 DEF Coherent, Follows
    <3>1. have[k] \in Versions /\ have[k + 1] \in Versions
      BY DEF PageTyped, BrowserTyped
    <3>2. Follows(have[k], have[k + 1])
      BY DEF ResumeInv, Coherent, Follows
    <3> QED
      BY <1>1, <2>1, <3>1, <3>2 DEF Follows
  <2>5. \A j \in OnOffer : at'[j] # None =>
          at[j] # None /\ version[at[j]].time <= version'[at'[j]].time
    <3>1. None \notin Versions
      BY DEF Versions
    <3> SUFFICES ASSUME NEW j \in OnOffer, at'[j] # None
                 PROVE  at[j] # None /\ version[at[j]].time <= version'[at'[j]].time
      OBVIOUS
    <3>2. CASE j = i
      BY <1>3, <2>1, <2>2, <3>1, <3>2
    <3>3. CASE j # i
      <4>1. at'[j] = at[j] /\ at[j] \in Versions
        BY <2>1, <3>3 DEF PageTyped, FilesTyped
      <4> QED
        BY <1>3, <2>1, <4>1
    <3> QED
      BY <3>2, <3>3
  <2>6. fd \in Versions => /\ fd' \in Versions'
                           /\ version[fd].time <= version'[fd'].time
    BY <1>5, <1>3, <2>1
  <2>7. have # <<>> => version'[Last(have)].time = version[Last(have)].time
    BY <1>2, <2>1
  <2>8. \A j \in OnOffer : at'[j] # None => at'[j] \in Versions' /\ at[j] \in Versions
    BY <2>1, <2>5 DEF PageTyped, FilesTyped
  <2>9. handler \in {"stat", "content"} /\ at'[what] # None =>
          version'[fd'].time <= version'[at'[what]].time
    <3> SUFFICES ASSUME handler \in {"stat", "content"}, at'[what] # None
                 PROVE  version'[fd'].time <= version'[at'[what]].time
      OBVIOUS
    <3>1. what \in OnOffer /\ fd \in Versions
      BY DEF PageTyped, HandlerTyped
    <3>2. version[fd].time <= version[at[what]].time
      BY <2>5, <3>1 DEF ResumeInv
    <3>3. CASE UNCHANGED fd
      BY <1>3, <2>1, <2>2, <2>5, <2>8, <3>1, <3>2, <3>3
    <3>4. CASE over /\ fd = at[i] /\ fd' = at'[i]
      <4>1. what = i
        BY <3>1 DEF Change, OnOffer, AllZip
      <4> QED
        BY <2>2, <2>1, <3>4, <4>1
    <3> QED
      BY <1>5, <3>3, <3>4
  <2>10. handler = "content" /\ have # <<>> => Follows(Last(have), fd)'
    BY <1>1, <1>5, <1>2, <2>1 DEF ResumeInv, Follows, PageTyped, HandlerTyped, Last
  <2>11. handler = "content" => stamp <= version'[fd'].time
    BY <1>3, <2>2, <2>6 DEF ResumeInv, PageTyped, HandlerTyped, BrowserTyped
  <2>12. have # <<>> /\ at'[what] # None =>
           version'[Last(have)].time <= version'[at'[what]].time
    <3> SUFFICES ASSUME have # <<>>, at'[what] # None
                 PROVE  version'[Last(have)].time <= version'[at'[what]].time
      OBVIOUS
    <3>1. what \in OnOffer
      BY DEF PageTyped, BrowserTyped
    <3>2. version[Last(have)].time <= version[at[what]].time
      BY <2>5, <3>1 DEF ResumeInv
    <3> QED
      BY <1>2, <1>3, <2>2, <2>5, <2>7, <2>8, <3>1, <3>2
  <2>13. handler \in {"stat", "content"} /\ have # <<>> =>
           version'[Last(have)].time <= version'[fd'].time
    BY <1>2, <1>3, <2>2, <2>6, <2>7 DEF ResumeInv, PageTyped, HandlerTyped
  <2>14. have # <<>> => stamp <= version'[Last(have)].time
    BY <2>7 DEF ResumeInv
  <2>15. ResumeInv'
    <3>1. Last(have)' = Last(have)
      BY <1>1 DEF Last
    <3>2. handler = "content" => Len(have) = offset /\ offset <= size
      BY DEF ResumeInv
    <3>3. browser = "complete" /\ what \in OnOffer => Len(have) = size
      BY DEF ResumeInv
    <3> QED
      BY <1>1, <2>4, <2>9, <2>10, <2>11, <2>12, <2>13, <2>14, <3>1, <3>2, <3>3 DEF ResumeInv
  <2> QED
    BY <2>3, <2>15
<1> QED
  BY <1>4, <1>5 DEF Change

-----------------------------------------------------------------------------
LEMMA BrowserPreserves ==
  ASSUME PageInv, Request \/ Break
  PROVE  PageInv'
<1> USE DEF PageInv, PageTyped
<1>1. CASE Request
  <2>1. UNCHANGED <<version, at, fd, size, offset, entry, have, stamp>>
    BY <1>1 DEF Request, files
  <2>2. have # <<>> => what' = what
    BY <1>1 DEF Request, BrowserTyped
  <2>3. FilesTyped' /\ HandlerTyped'
    BY <1>1, <2>1 DEF Request, FilesTyped, HandlerTyped, Versions
  <2>4. BrowserTyped'
    BY <1>1, <2>1, <2>2 DEF Request, BrowserTyped, Versions
  <2>5. ResumeInv'
    BY <1>1, <2>1, <2>2 DEF Request, ResumeInv, Coherent, Last
  <2> QED
    BY <2>3, <2>4, <2>5
<1>2. CASE Break
  <2>1. UNCHANGED <<version, at, size, what, have, stamp>>
    BY <1>2 DEF Break, files
  <2>2. FilesTyped' /\ BrowserTyped'
    BY <1>2, <2>1 DEF Break, FilesTyped, BrowserTyped, Versions
  <2>3. HandlerTyped'
    BY <1>2, <2>1 DEF Break, Returned, HandlerTyped, Versions
  <2>4. ResumeInv'
    BY <1>2, <2>1 DEF Break, Returned, ResumeInv, Coherent, Last
  <2> QED
    BY <2>2, <2>3, <2>4
<1> QED
  BY <1>1, <1>2

(* Steps of the handler that leave what the browser has.                   *)
LEMMA QuietStepPreserves ==
  ASSUME PageInv,
         \/ NotFound \/ OpenFile \/ FileIsGone \/ ContentShort \/ ContentDone
         \/ StartZip \/ AddEntry \/ EntryFails \/ CopyBlock \/ EntryDone \/ CloseZip
  PROVE  PageInv'
<1> USE DEF PageInv, PageTyped
<1>1. UNCHANGED <<version, at, size, what, have, stamp>>
  BY DEF NotFound, OpenFile, FileIsGone, ContentShort, ContentDone, StartZip, AddEntry,
    EntryFails, CopyBlock, EntryDone, CloseZip, files, download
<1>2. FilesTyped'
  BY <1>1 DEF FilesTyped, Versions
<1>3. at' = at /\ \A j \in OnOffer : at[j] # None => at[j] \in Versions
  BY <1>1 DEF FilesTyped
<1>4. AllZip \notin OnOffer
  BY DEF AllZip, OnOffer
<1>5. CASE NotFound \/ FileIsGone \/ ContentShort
  <2>1. HandlerTyped' /\ BrowserTyped'
    BY <1>1, <1>5 DEF NotFound, FileIsGone, ContentShort, Returned, HandlerTyped,
      BrowserTyped, Versions
  <2>2. ResumeInv'
    BY <1>1, <1>5 DEF NotFound, FileIsGone, ContentShort, Returned, ResumeInv, Coherent, Last
  <2> QED
    BY <1>2, <2>1, <2>2
<1>6. CASE OpenFile
  <2>1. HandlerTyped' /\ BrowserTyped'
    BY <1>1, <1>3, <1>6 DEF OpenFile, HandlerTyped, BrowserTyped, Versions, download
  <2>2. version[at[what]].time \in Nat
    BY <1>3, <1>6, VersionTyped DEF OpenFile
  <2>3. ResumeInv'
    BY <1>1, <1>6, <2>2 DEF OpenFile, ResumeInv, Coherent, Last, download
  <2> QED
    BY <1>2, <2>1, <2>3
<1>7. CASE ContentDone
  <2>1. HandlerTyped' /\ BrowserTyped'
    BY <1>1, <1>7 DEF ContentDone, Returned, HandlerTyped, BrowserTyped, Versions
  <2>2. ResumeInv'
    BY <1>1, <1>7 DEF ContentDone, Returned, ResumeInv, Coherent, Last
  <2> QED
    BY <1>2, <2>1, <2>2
<1>8. CASE StartZip \/ AddEntry \/ EntryFails \/ CopyBlock \/ EntryDone \/ CloseZip
  <2>1. what = AllZip /\ have = <<>>
    BY <1>4, <1>8 DEF StartZip, AddEntry, EntryFails, CopyBlock, EntryDone, CloseZip,
      HandlerTyped, BrowserTyped
  <2>2. handler' \notin {"stat", "content"}
    BY <1>8 DEF StartZip, AddEntry, EntryFails, CopyBlock, EntryDone, CloseZip, Returned
  <2>3. HandlerTyped' /\ BrowserTyped'
    <3>1. CASE StartZip
      BY <1>1, <2>1, <3>1 DEF StartZip, HandlerTyped, BrowserTyped, Versions
    <3>2. CASE AddEntry
      <4>1. fd' \in Versions
        BY <1>3, <3>2, PageAssumption DEF AddEntry, OnOffer, HandlerTyped
      <4> QED
        BY <1>1, <2>1, <3>2, <4>1 DEF AddEntry, HandlerTyped, BrowserTyped, Versions, download
    <3>3. CASE EntryFails \/ CloseZip
      BY <1>1, <2>1, <3>3 DEF EntryFails, CloseZip, Returned, HandlerTyped, BrowserTyped, Versions
    <3>4. CASE CopyBlock \/ EntryDone
      BY <1>1, <2>1, <3>4 DEF CopyBlock, EntryDone, HandlerTyped, BrowserTyped, Versions, download
    <3> QED
      BY <1>8, <3>1, <3>2, <3>3, <3>4
  <2>4. ResumeInv'
    BY <1>1, <1>4, <2>1, <2>2 DEF ResumeInv, Coherent, Last
  <2> QED
    BY <1>2, <2>3, <2>4
<1> QED
  BY <1>5, <1>6, <1>7, <1>8

LEMMA ServeContentPreserves ==
  ASSUME PageInv, ServeContent
  PROVE  PageInv'
<1> USE DEF PageInv, PageTyped
<1> DEFINE resumes == have # <<>> /\ stamp = version[fd].time
           from == IF resumes THEN Len(have) ELSE 0
<1>1. /\ UNCHANGED <<version, at, what>>
      /\ handler = "stat"
      /\ size' = version[fd].size
      /\ stamp' = version[fd].time
  BY DEF ServeContent, Serves, files
<1>2. /\ fd \in Versions
      /\ version[fd].size \in Nat
      /\ version[fd].time \in Nat
      /\ what \in OnOffer
      /\ Len(have) \in Nat
  BY <1>1, VersionTyped DEF HandlerTyped, BrowserTyped
<1>3. FilesTyped'
  BY <1>1 DEF FilesTyped, Versions
<1>4. have # <<>> => /\ Last(have) \in Versions
                     /\ version[Last(have)].time \in Nat
                     /\ Len(have) > 0
  <2> SUFFICES ASSUME have # <<>>
               PROVE  Last(have) \in Versions /\ Len(have) > 0
    BY VersionTyped
  <2>1. have \in Seq(Nat)
    BY DEF BrowserTyped
  <2>2. Len(have) \in Nat \ {0}
    BY <2>1, EmptySeq
  <2> QED
    BY <2>2 DEF BrowserTyped, Last
<1>5. CASE resumes /\ from >= version[fd].size
  <2>1. browser' = "refused" /\ Returned /\ UNCHANGED have
    BY <1>5 DEF ServeContent, Serves
  <2>2. HandlerTyped' /\ BrowserTyped'
    BY <1>1, <1>2, <2>1 DEF Returned, HandlerTyped, BrowserTyped, Versions
  <2>3. have # <<>> => version[fd].time <= version[Last(have)].time
    BY <1>5 DEF ResumeInv
  <2>4. ResumeInv'
    BY <1>1, <2>1, <2>3 DEF Returned, ResumeInv, Coherent, Last
  <2> QED
    BY <1>3, <2>2, <2>4
<1>6. CASE ~(resumes /\ from >= version[fd].size)
  <2>1. /\ browser' = "reading"
        /\ handler' = "content"
        /\ offset' = from
        /\ have' = SubSeq(have, 1, from)
        /\ UNCHANGED <<fd, entry>>
    BY <1>6 DEF ServeContent, Serves
  <2>2. CASE resumes
    <3>1. have' = have
      BY <2>1, <2>2 DEF BrowserTyped
    <3>2. version[Last(have)].time = version[fd].time
      BY <1>1, <1>2, <1>4, <2>2 DEF ResumeInv
    <3>3. HandlerTyped' /\ BrowserTyped'
      BY <1>1, <1>2, <2>1, <2>2, <3>1 DEF HandlerTyped, BrowserTyped, Versions
    <3>4. Len(have) <= version[fd].size
      BY <1>2, <1>6, <2>2
    <3>5. ResumeInv'
      BY <1>1, <1>2, <2>1, <2>2, <3>1, <3>2, <3>4 DEF ResumeInv, Coherent, Follows, Last
    <3> QED
      BY <1>3, <3>3, <3>5
  <2>3. CASE ~resumes
    <3>1. have' = <<>>
      BY <2>1, <2>3, SubSeqEmpty
    <3>2. HandlerTyped' /\ BrowserTyped'
      BY <1>1, <1>2, <2>1, <2>3, <3>1 DEF HandlerTyped, BrowserTyped, Versions
    <3>3. ResumeInv'
      BY <1>1, <1>2, <2>1, <2>3, <3>1 DEF ResumeInv, Coherent, Follows, Last
    <3> QED
      BY <1>3, <3>2, <3>3
  <2> QED
    BY <2>2, <2>3
<1> QED
  BY <1>5, <1>6

LEMMA WriteBlockPreserves ==
  ASSUME PageInv, WriteBlock
  PROVE  PageInv'
<1> USE DEF PageInv, PageTyped
<1>1. /\ UNCHANGED <<version, at, handler, fd, size, entry, browser, what, stamp>>
      /\ handler = "content"
      /\ offset < size
      /\ have' = Append(have, fd)
      /\ offset' = offset + 1
  BY DEF WriteBlock, files
<1>2. /\ fd \in Versions /\ fd \in Nat
      /\ version[fd].time \in Nat
      /\ what \in OnOffer
      /\ have \in Seq(Nat)
      /\ {size, offset} \subseteq Nat
  BY <1>1, VersionTyped DEF HandlerTyped, BrowserTyped, Versions
<1>3. /\ Len(have') = Len(have) + 1
      /\ \A k \in 1 .. Len(have) : have'[k] = have[k]
      /\ have'[Len(have) + 1] = fd
      /\ have' \in Seq(Nat)
      /\ have' # <<>>
      /\ Len(have) \in Nat
  BY <1>1, <1>2
<1>4. Last(have') = fd
  BY <1>3 DEF Last
<1>5. FilesTyped'
  BY <1>1 DEF FilesTyped, Versions
<1>6. HandlerTyped'
  BY <1>1, <1>2 DEF HandlerTyped, Versions
<1>7. BrowserTyped'
  BY <1>1, <1>2, <1>3 DEF HandlerTyped, BrowserTyped, Versions
<1>8. Coherent(have)'
  <2> SUFFICES ASSUME NEW k \in 1 .. Len(have') - 1
               PROVE  Follows(have'[k], have'[k + 1])
    BY <1>1 DEF Coherent, Follows
  <2>1. CASE k < Len(have)
    BY <1>3, <2>1, SMTT(30) DEF ResumeInv, Coherent, Follows
  <2>2. CASE k = Len(have)
    <3>1. have # <<>> /\ have[k] = Last(have)
      BY <1>3, <2>2 DEF Last
    <3> QED
      BY <1>1, <1>3, <2>2, <3>1 DEF ResumeInv
  <2> QED
    BY <1>3, <2>1, <2>2
<1>9. ResumeInv'
  <2>1. Last(have)' = fd
    BY <1>4 DEF Last
  <2> QED
    BY <1>1, <1>2, <1>3, <1>8, <2>1 DEF ResumeInv, HandlerTyped, Follows
<1> QED
  BY <1>5, <1>6, <1>7, <1>9

LEMMA PageInvNext == PageInv /\ [Next]_vars => PageInv'
<1> SUFFICES ASSUME PageInv, [Next]_vars PROVE PageInv'
  OBVIOUS
<1>1. CASE HandlerStep
  BY <1>1, QuietStepPreserves, ServeContentPreserves, WriteBlockPreserves DEF HandlerStep
<1>2. CASE UNCHANGED pageVars
  BY <1>2 DEF PageInv, PageTyped, FilesTyped, HandlerTyped, BrowserTyped, ResumeInv, Coherent,
    Follows, Last, Versions, pageVars, files, response, download
<1> QED
  BY <1>1, <1>2, PageSteps, BrowserPreserves, ChangePreserves

(* What a browser has completely is one version of the file, all of it,    *)
(* however often the download broke off and whatever replaced the file.    *)
THEOREM ResumedIsCoherentHolds == Spec => []ResumedIsCoherent
<1>1. Init => PageInv
  BY PageInvInit DEF Init
<1>2. PageInv => ResumedIsCoherent
  BY DEF PageInv, ResumeInv, ResumedIsCoherent
<1> QED
  BY <1>1, <1>2, PageInvNext, PTL DEF Spec

-----------------------------------------------------------------------------
Entry == [file : Nat, blocks : Seq(Nat)]

EntryWhole(k) ==
  /\ archive[k].file = k
  /\ Coherent(archive[k].blocks)
  /\ \A j \in 1 .. Len(archive[k].blocks) : archive[k].blocks[j] \in Versions

(* The archive grows with entry, and is empty unless it is being written   *)
(* or was taken for complete.  The open file goes on from the last block,  *)
(* unless it was written over.                                             *)
ArchiveInv ==
  /\ archive \in Seq(Entry)
  /\ \A k \in 1 .. Len(archive) : EntryWhole(k)
  /\ handler \notin {"zip", "copy"} /\ browser # "complete" => archive = <<>>
  /\ handler = "zip" => Len(archive) = entry - 1
  /\ handler = "copy" =>
       /\ Len(archive) = entry
       /\ entry <= NFiles
       /\ archive[entry].blocks # <<>> => Follows(Last(archive[entry].blocks), fd)
  /\ directory => Len(archive) = NFiles /\ browser = "complete"
  /\ reported = directory
  /\ directory \in BOOLEAN

LEMMA ArchiveInvInit == PageInit => ArchiveInv
<1> SUFFICES ASSUME PageInit PROVE ArchiveInv
  OBVIOUS
<1>1. archive = <<>> /\ handler = "off"
  BY DEF PageInit
<1>2. archive \in Seq(Entry) /\ Len(archive) = 0
  BY <1>1, EmptySeq
<1>3. ~directory /\ reported = directory /\ directory \in BOOLEAN
  BY Zenon DEF PageInit
<1> QED
  BY <1>1, <1>2, <1>3 DEF ArchiveInv

(* What is in the archive stays whole when a file changes.                 *)
LEMMA WholeStays ==
  ASSUME PageInv, ArchiveInv, NEW k \in 1 .. Len(archive), UNCHANGED archive,
         \A v \in Versions : v \in Versions' /\ version'[v] = version[v]
  PROVE  EntryWhole(k)'
<1>1. EntryWhole(k)
  BY DEF ArchiveInv
<1>2. Len(archive[k].blocks) \in Nat
  <2>1. archive[k] \in Entry
    BY ElementOfSeq DEF ArchiveInv
  <2>2. archive[k].blocks \in Seq(Nat)
    BY <2>1 DEF Entry
  <2> QED
    BY <2>2, LenProperties
<1>3. Coherent(archive[k].blocks)'
  <2> SUFFICES ASSUME NEW j \in 1 .. Len(archive[k].blocks) - 1
               PROVE  Follows(archive[k].blocks[j], archive[k].blocks[j + 1])'
    BY DEF Coherent, Follows
  <2>1. archive[k].blocks[j] \in Versions /\ archive[k].blocks[j + 1] \in Versions
    BY <1>1, <1>2, SMTT(30) DEF EntryWhole
  <2>2. Follows(archive[k].blocks[j], archive[k].blocks[j + 1])
    BY <1>1 DEF EntryWhole, Coherent, Follows
  <2> QED
    BY <2>1, <2>2 DEF Follows
<1> QED
  BY <1>1, <1>3 DEF EntryWhole

LEMMA ArchiveChange ==
  ASSUME PageInv, ArchiveInv, NEW i \in OnOffer, Change(i)
  PROVE  ArchiveInv'
<1> USE DEF PageInv, PageTyped
<1>1. UNCHANGED <<handler, entry, browser, archive, directory, reported>>
  BY DEF Change, download, zip
<1>2. CASE UNCHANGED <<version, fd>>
  <2>1. \A k \in 1 .. Len(archive) : EntryWhole(k)'
    BY <1>1, <1>2, WholeStays DEF Versions
  <2> QED
    BY <1>1, <1>2, <2>1 DEF ArchiveInv, Follows, Last
<1>3. ASSUME NEW over \in BOOLEAN, NewVersion(i, over),
             \/ UNCHANGED fd
             \/ over /\ fd = at[i] /\ fd' = at'[i]
      PROVE  ArchiveInv'
  <2>1. /\ Versions \subseteq Versions'
        /\ \A v \in Versions : version'[v] = version[v]
        /\ version'[at'[i]].over = over
    BY <1>3, NewVersionKeeps
  <2>2. \A k \in 1 .. Len(archive) : EntryWhole(k)'
    BY <1>1, <2>1, WholeStays
  <2>3. handler = "copy" /\ archive[entry].blocks # <<>> =>
          Follows(Last(archive[entry].blocks), fd)'
    <3> SUFFICES ASSUME handler = "copy", archive[entry].blocks # <<>>
                 PROVE  Follows(Last(archive[entry].blocks), fd)'
      OBVIOUS
    <3> DEFINE u == Last(archive[entry].blocks)
    <3>1. u' = u
      BY <1>1 DEF Last
    <3>2. Follows(u, fd) /\ fd \in Versions
      BY DEF ArchiveInv, HandlerTyped
    <3>3. u \in Versions
      <4>1. entry \in 1 .. Len(archive)
        BY DEF ArchiveInv, HandlerTyped
      <4>2. archive[entry] \in Entry
        BY <4>1, ElementOfSeq DEF ArchiveInv
      <4>3. archive[entry].blocks \in Seq(Nat)
        BY <4>2 DEF Entry
      <4>4. Len(archive[entry].blocks) \in Nat \ {0}
        BY <4>3, EmptySeq
      <4> QED
        BY <4>1, <4>4 DEF ArchiveInv, EntryWhole, Last
    <3>4. CASE UNCHANGED fd
      BY <2>1, <3>1, <3>2, <3>3, <3>4 DEF Follows
    <3>5. CASE over /\ fd = at[i] /\ fd' = at'[i]
      BY <2>1, <3>1, <3>5 DEF Follows
    <3> QED
      BY <1>3, <3>4, <3>5
  <2> QED
    BY <1>1, <2>2, <2>3 DEF ArchiveInv
<1> QED
  BY <1>2, <1>3 DEF Change

LEMMA ArchiveRequest ==
  ASSUME PageInv, ArchiveInv, Request \/ Break
  PROVE  ArchiveInv'
<1> USE DEF PageInv, PageTyped
<1>1. UNCHANGED <<version, directory, reported>> /\ browser # "complete" /\ ~directory
  BY DEF Request, Break, files, zip, ArchiveInv, HandlerTyped
<1>2. archive' = <<>>
  BY DEF Request, Break, zip, ArchiveInv, HandlerTyped
<1>3. handler' \in {"route", "off"} /\ browser' # "complete"
  BY DEF Request, Break, Returned
<1> QED
  BY <1>1, <1>2, <1>3 DEF ArchiveInv

LEMMA ArchiveAddEntry ==
  ASSUME PageInv, ArchiveInv, AddEntry
  PROVE  ArchiveInv'
<1> USE DEF PageInv, PageTyped
<1> DEFINE e == [file |-> entry, blocks |-> <<>>]
<1>1. /\ UNCHANGED <<version, entry, browser, directory, reported>>
      /\ handler = "zip" /\ handler' = "copy"
      /\ entry <= NFiles
      /\ archive' = Append(archive, e)
  BY DEF AddEntry, files, download
<1>2. /\ archive \in Seq(Entry)
      /\ Len(archive) = entry - 1
      /\ entry \in Nat \ {0}
  BY <1>1 DEF ArchiveInv, HandlerTyped
<1>3. e \in Entry /\ e.file = entry /\ e.blocks = <<>>
  BY <1>2 DEF Entry
<1> HIDE DEF e
<1>4. /\ archive' \in Seq(Entry)
      /\ Len(archive') = entry
      /\ \A k \in 1 .. Len(archive) : archive'[k] = archive[k]
      /\ archive'[entry] = e
  BY <1>1, <1>2, <1>3
<1>5. ASSUME NEW k \in 1 .. Len(archive')
      PROVE  EntryWhole(k)'
  <2>1. CASE k < entry
    BY <1>1, <1>2, <1>4, <2>1 DEF ArchiveInv, EntryWhole, Coherent, Versions
  <2>2. CASE k = entry
    BY <1>3, <1>4, <2>2 DEF EntryWhole, Coherent
  <2> QED
    BY <1>2, <1>4, <2>1, <2>2
<1>6. ~directory
  BY <1>1 DEF ArchiveInv, HandlerTyped
<1> QED
  BY <1>1, <1>3, <1>4, <1>5, <1>6 DEF ArchiveInv

LEMMA ArchiveCopyBlock ==
  ASSUME PageInv, ArchiveInv, CopyBlock
  PROVE  ArchiveInv'
<1> USE DEF PageInv, PageTyped
<1> DEFINE old == archive[entry].blocks
           new == Append(old, fd)
           e == [archive[entry] EXCEPT !.blocks = new]
<1>1. /\ UNCHANGED <<version, handler, fd, entry, browser, directory, reported>>
      /\ handler = "copy"
      /\ archive' = [archive EXCEPT ![Len(archive)].blocks = Append(@, fd)]
  BY DEF CopyBlock, files, download
<1>2. /\ archive \in Seq(Entry)
      /\ Len(archive) = entry
      /\ entry \in 1 .. Len(archive)
      /\ entry <= NFiles
      /\ fd \in Versions /\ fd \in Nat
  BY <1>1 DEF ArchiveInv, HandlerTyped, Versions
<1>3. archive[entry] \in Entry
  BY <1>2, ElementOfSeq
<1>4. old \in Seq(Nat) /\ Len(old) \in Nat
  BY <1>3 DEF Entry
<1>5. EntryWhole(entry)
  BY <1>2 DEF ArchiveInv
<1>6. /\ Coherent(old)
      /\ \A j \in 1 .. Len(old) : old[j] \in Versions
      /\ old # <<>> => Follows(Last(old), fd)
      /\ archive[entry].file = entry
  BY <1>1, <1>5 DEF EntryWhole, ArchiveInv
<1>7. /\ new \in Seq(Nat)
      /\ Len(new) = Len(old) + 1
      /\ new[Len(new)] = fd
      /\ \A j \in 1 .. Len(old) : new[j] = old[j]
      /\ new # <<>>
  BY <1>2, <1>4
<1>8. e \in Entry /\ e.file = archive[entry].file /\ e.blocks = new
  BY <1>3, <1>7 DEF Entry
<1>9. archive' = [archive EXCEPT ![entry] = e]
  BY <1>1, <1>2
<1> HIDE DEF e, new, old
<1>10. /\ archive' \in Seq(Entry)
       /\ Len(archive') = entry
       /\ \A k \in 1 .. Len(archive) : k # entry => archive'[k] = archive[k]
       /\ archive'[entry] = e
  BY <1>2, <1>8, <1>9, ExceptSeq
<1>11. Coherent(new)
  <2> SUFFICES ASSUME NEW j \in 1 .. Len(new) - 1
               PROVE  Follows(new[j], new[j + 1])
    BY DEF Coherent, Follows
  <2>1. CASE j < Len(old)
    <3>1. j \in 1 .. Len(old) - 1 /\ j \in 1 .. Len(old) /\ j + 1 \in 1 .. Len(old)
      BY <1>4, <1>7, <2>1
    <3>2. Follows(old[j], old[j + 1])
      BY <1>6, <3>1 DEF Coherent, Follows
    <3> QED
      BY <1>7, <3>1, <3>2
  <2>2. CASE j = Len(old)
    <3>1. old # <<>> /\ new[j] = Last(old)
      BY <1>4, <1>7, <2>2 DEF Last
    <3> QED
      BY <1>7, <1>6, <2>2, <3>1
  <2> QED
    BY <1>4, <1>7, <2>1, <2>2
<1>12. ASSUME NEW k \in 1 .. Len(archive')
       PROVE  EntryWhole(k)'
  <2>1. CASE k # entry
    BY <1>1, <1>2, <1>10, <2>1 DEF ArchiveInv, EntryWhole, Coherent, Versions
  <2>2. CASE k = entry
    <3>1. \A j \in 1 .. Len(new) : new[j] \in Versions
      <4> SUFFICES ASSUME NEW j \in 1 .. Len(new)
                   PROVE  new[j] \in Versions
        OBVIOUS
      <4>1. CASE j = Len(new)
        BY <1>2, <1>7, <4>1
      <4>2. CASE j # Len(new)
        <5>1. j \in 1 .. Len(old)
          BY <1>4, <1>7, <4>2
        <5> QED
          BY <1>7, <1>6, <5>1
      <4> QED
        BY <4>1, <4>2
    <3>2. archive'[k].blocks = new /\ archive'[k].file = k
      BY <1>8, <1>10, <1>6, <2>2
    <3>3. Coherent(archive[k].blocks)'
      BY <1>1, <1>11, <3>2 DEF Coherent, Follows
    <3>4. \A j \in 1 .. Len(archive'[k].blocks) : archive'[k].blocks[j] \in Versions'
      BY <1>1, <3>1, <3>2 DEF Versions
    <3> QED
      BY <3>2, <3>3, <3>4 DEF EntryWhole
  <2> QED
    BY <2>1, <2>2
<1>13. Follows(Last(archive'[entry].blocks), fd)
  BY <1>7, <1>8, <1>10 DEF Last, Follows
<1> QED
  BY <1>1, <1>2, <1>10, <1>12, <1>13 DEF ArchiveInv, Follows

(* The other steps of the handler add nothing to the archive.              *)
LEMMA ArchiveOther ==
  ASSUME PageInv, ArchiveInv,
         \/ NotFound \/ OpenFile \/ FileIsGone \/ ServeContent \/ WriteBlock
         \/ ContentShort \/ ContentDone
         \/ StartZip \/ EntryFails \/ EntryDone \/ CloseZip
  PROVE  ArchiveInv'
<1> USE DEF PageInv, PageTyped
<1>1. UNCHANGED <<version, archive>>
  BY DEF NotFound, OpenFile, FileIsGone, ServeContent, WriteBlock, ContentShort, ContentDone,
    StartZip, EntryFails, EntryDone, CloseZip, files, zip
<1>2. \A k \in 1 .. Len(archive) : EntryWhole(k)'
  BY <1>1, WholeStays DEF Versions
<1>3. handler # "off" /\ ~directory
  BY DEF NotFound, OpenFile, FileIsGone, ServeContent, WriteBlock, ContentShort, ContentDone,
    StartZip, EntryFails, EntryDone, CloseZip, ArchiveInv, HandlerTyped
<1>4. CASE NotFound \/ OpenFile \/ FileIsGone \/ ServeContent \/ WriteBlock
             \/ ContentShort \/ ContentDone
  <2>1. /\ UNCHANGED <<directory, reported>>
        /\ handler \notin {"zip", "copy"} /\ handler' \notin {"zip", "copy"}
    BY <1>4 DEF NotFound, OpenFile, FileIsGone, ServeContent, Serves, WriteBlock, ContentShort,
      ContentDone, Returned, zip
  <2>2. archive = <<>>
    BY <1>3, <2>1 DEF ArchiveInv, HandlerTyped
  <2> QED
    BY <1>1, <1>2, <1>3, <2>1, <2>2 DEF ArchiveInv
<1>5. CASE StartZip
  <2>1. archive = <<>>
    BY <1>5 DEF StartZip, ArchiveInv, HandlerTyped
  <2> QED
    BY <1>1, <1>2, <1>3, <1>5, <2>1 DEF StartZip, ArchiveInv, zip
<1>6. CASE EntryFails
  BY <1>1, <1>2, <1>3, <1>6 DEF EntryFails, Returned, ArchiveInv, zip
<1>7. CASE EntryDone
  BY <1>1, <1>2, <1>3, <1>7 DEF EntryDone, ArchiveInv, HandlerTyped, zip, download
<1>8. CASE CloseZip
  <2>1. Len(archive) = NFiles
    BY <1>8, PageAssumption DEF CloseZip, ArchiveInv, HandlerTyped
  <2> QED
    BY <1>1, <1>2, <1>8, <2>1 DEF CloseZip, Returned, ArchiveInv
<1> QED
  BY <1>4, <1>5, <1>6, <1>7, <1>8

LEMMA ArchiveInvNext == PageInv /\ ArchiveInv /\ [Next]_vars => ArchiveInv'
<1> SUFFICES ASSUME PageInv, ArchiveInv, [Next]_vars PROVE ArchiveInv'
  OBVIOUS
<1>1. CASE HandlerStep
  BY <1>1, ArchiveAddEntry, ArchiveCopyBlock, ArchiveOther DEF HandlerStep
<1>2. CASE UNCHANGED pageVars
  BY <1>2 DEF ArchiveInv, EntryWhole, Coherent, Follows, Last, Versions, pageVars, files,
    response, download, zip
<1> QED
  BY <1>1, <1>2, PageSteps, ArchiveRequest, ArchiveChange

(* An archive with a directory has every file once and in order, in blocks *)
(* that belong together, and the sender is told of it and of no other.     *)
THEOREM OpensMeansWholeHolds == Spec => []OpensMeansWhole
<1>1. Init => PageInv /\ ArchiveInv
  BY PageInvInit, ArchiveInvInit DEF Init
<1>2. ArchiveInv => OpensMeansWhole
  <2> SUFFICES ASSUME ArchiveInv PROVE OpensMeansWhole
    OBVIOUS
  <2>1. DOMAIN archive = 1 .. Len(archive)
    BY LenProperties DEF ArchiveInv
  <2>2. \A k \in DOMAIN archive : archive[k].file = k /\ Coherent(archive[k].blocks)
    BY <2>1 DEF ArchiveInv, EntryWhole
  <2>3. directory => DOMAIN archive = OnOffer
    BY <2>1 DEF ArchiveInv, OnOffer
  <2>4. reported <=> directory
    BY Zenon DEF ArchiveInv
  <2> QED
    BY <2>2, <2>3, <2>4 DEF OpensMeansWhole
<1>3. PageInv /\ ArchiveInv /\ [Next]_vars => (PageInv /\ ArchiveInv)'
  BY PageInvNext, ArchiveInvNext
<1> QED
  BY <1>1, <1>2, <1>3, PTL DEF Spec

-----------------------------------------------------------------------------
(* The types of both.                                                      *)

LogTyped ==
  /\ main \in {"start", "serve", "launch", "tunnel", "sending", "serving",
               "stop", "wait"} \cup Ended
  /\ server \in {"off", "listen", "bound", "accept", "failed"}
  /\ addrs \in BOOLEAN
  /\ found \in BOOLEAN
  /\ scanner \in {"off", "reading", "stopped"}
  /\ log \in Seq(Line)
  /\ Len(log) <= PipeCap

(* What the page's types need beside PageInv and ArchiveInv: its bounds,   *)
(* and that a handler that has no file to serve has none open.             *)
Bounds ==
  /\ Len(version) <= NFiles + MaxChanges
  /\ handler \in {"off", "route", "zip"} => fd = None
  /\ entry <= NFiles + 1
  /\ browser \in {"off", "waiting", "reading", "broken", "refused", "complete"}
  /\ asks \in 0 .. MaxAsks
  /\ Len(archive) <= NFiles
  /\ reported \in BOOLEAN

-----------------------------------------------------------------------------
LEMMA EmptyLog == <<>> \in Seq(Line) /\ Len(<<>>) <= PipeCap
<1>1. <<>> \in Seq(Line)
  OBVIOUS
<1>2. Len(<<>>) = 0
  OBVIOUS
<1> QED
  BY <1>1, <1>2, HostAssumption

LEMMA LogInit == HostInit => LogTyped
<1> SUFFICES ASSUME HostInit PROVE LogTyped
  OBVIOUS
<1>1. log = <<>> /\ main = "start" /\ server = "off" /\ scanner = "off"
  BY DEF HostInit
<1>2. addrs \in BOOLEAN /\ found \in BOOLEAN
  BY Zenon DEF HostInit
<1> QED
  BY <1>1, <1>2, EmptyLog DEF LogTyped

LEMMA LogNext == LogTyped /\ [HostStep]_hostVars => LogTyped'
<1> SUFFICES ASSUME LogTyped, [HostStep]_hostVars PROVE LogTyped'
  OBVIOUS
<1> USE DEF LogTyped
<1>1. CASE StartServer \/ AwaitServer \/ LaunchTunnel \/ AwaitTunnel \/ StopKills
  <2>1. log' = log /\ (found' = found \/ found' = FALSE) /\ (addrs' = addrs \/ addrs' = FALSE)
    BY <1>1 DEF StartServer, AwaitServer, LaunchTunnel, AwaitTunnel, StopKills, tunnel
  <2>2. /\ main' \in {"serve", "launch", "tunnel", "sending", "serving", "stop", "wait", "exited"}
        /\ server' \in {server, "listen"}
        /\ scanner' \in {scanner, "reading"}
    BY <1>1 DEF StartServer, AwaitServer, LaunchTunnel, AwaitTunnel, StopKills, Hosting, tunnel
  <2> QED
    BY <2>1, <2>2 DEF Ended
<1>2. CASE StopWaits \/ Killed
  <2>1. log' = <<>> /\ found' = FALSE /\ (addrs' = addrs \/ addrs' = FALSE)
    BY <1>2 DEF StopWaits, Killed
  <2>2. main' \in Ended /\ server' = server /\ scanner' = "stopped"
    BY <1>2 DEF StopWaits, Killed, Ended
  <2> QED
    BY <2>1, <2>2, EmptyLog
<1>3. CASE WebFilesFail \/ SendReturns \/ Interrupt
  BY <1>3 DEF WebFilesFail, SendReturns, Interrupt, Returning, Ended, tunnel
<1>4. CASE Bind \/ Serve \/ ServeFails
  BY <1>4 DEF Bind, Serve, ServeFails, tunnel
<1>5. CASE ChildLogs
  <2>1. PICK line \in Line : log' = Append(log, line)
    BY <1>5 DEF ChildLogs, Line
  <2>2. /\ Append(log, line) \in Seq(Line)
        /\ Len(Append(log, line)) = Len(log) + 1
        /\ Len(log) \in Nat
    BY <2>1
  <2>3. Len(log) + 1 <= PipeCap
    BY <1>5, <2>2, HostAssumption DEF ChildLogs
  <2> QED
    BY <1>5, <2>1, <2>2, <2>3 DEF ChildLogs, process
<1>6. CASE ChildDies
  BY <1>6 DEF ChildDies, process
<1>7. CASE Scan
  <2>1. /\ Tail(log) \in Seq(Line)
        /\ Len(Tail(log)) = Len(log) - 1
        /\ Len(log) \in Nat
    BY <1>7 DEF Scan
  <2>2. Len(log) - 1 <= PipeCap
    BY <2>1, HostAssumption
  <2>3. found' \in BOOLEAN
    BY <1>7 DEF Scan
  <2> QED
    BY <1>7, <2>1, <2>2, <2>3 DEF Scan, process
<1>8. CASE ScanGivesUp
  <2>1. log \in Seq(Line) /\ "other" \in Line
    BY DEF Line
  <2>2. [log EXCEPT ![1] = "other"] \in Seq(Line)
        /\ Len([log EXCEPT ![1] = "other"]) = Len(log)
    <3>1. Len(log) \in Nat /\ log \in [1 .. Len(log) -> Line]
      BY <2>1
    <3>2. [log EXCEPT ![1] = "other"] \in [1 .. Len(log) -> Line]
      BY <2>1, <3>1
    <3> QED
      BY <3>1, <3>2, SequenceOf
  <2>3. log' \in Seq(Line) /\ Len(log') = Len(log)
    BY <1>8, <2>2 DEF ScanGivesUp
  <2>4. scanner' = "stopped" /\ UNCHANGED <<main, server, addrs, found>>
    BY <1>8 DEF ScanGivesUp, process
  <2> QED
    BY <2>3, <2>4
<1>9. CASE (\E c \in Client : ClientStep(c)) \/ PeerGoes
  BY <1>9 DEF ClientStep, Ask, Refused, Upgrade, NotUpgraded, TimesOut, Expires, PeerGoes,
    process, tunnel
<1>10. CASE UNCHANGED hostVars
  BY <1>10 DEF hostVars, process, tunnel
<1> QED
  BY <1>1, <1>2, <1>3, <1>4, <1>5, <1>6, <1>7, <1>8, <1>9, <1>10 DEF HostStep, MainStep

-----------------------------------------------------------------------------
LEMMA BoundsInit == PageInit => Bounds
<1> SUFFICES ASSUME PageInit PROVE Bounds
  OBVIOUS
<1>1. Len(version) = NFiles
  BY PageAssumption, SequenceOf DEF PageInit, OnOffer
<1>2. Len(archive) = 0
  BY DEF PageInit
<1>3. reported \in BOOLEAN
  BY Zenon DEF PageInit
<1> QED
  BY <1>1, <1>2, <1>3, PageAssumption DEF PageInit, Bounds

LEMMA BoundsChange ==
  ASSUME PageInv, Bounds, NEW i \in OnOffer, Change(i)
  PROVE  Bounds'
<1> USE PageAssumption DEF Bounds
<1>1. UNCHANGED <<handler, entry, browser, asks, archive, reported>>
  BY DEF Change, download, zip
<1>2. CASE UNCHANGED <<version, fd>>
  BY <1>1, <1>2
<1>3. ASSUME NEW over \in BOOLEAN, NewVersion(i, over),
             \/ UNCHANGED fd
             \/ over /\ fd = at[i] /\ fd' = at'[i]
      PROVE  Bounds'
  <2>1. Len(version) \in Nat /\ Len(version') = Len(version) + 1
    BY <1>3 DEF NewVersion, PageInv, PageTyped, FilesTyped
  <2>2. Len(version) < NFiles + MaxChanges
    BY DEF Change
  <2>3. Len(version') <= NFiles + MaxChanges
    BY <2>1, <2>2
  <2>4. fd = at[i] => fd \in Versions
    BY <1>3, NewVersionKeeps DEF PageInv
  <2>5. None \notin Versions
    BY DEF Versions
  <2>6. handler \in {"off", "route", "zip"} => fd' = None
    BY <1>3, <2>4, <2>5
  <2> QED
    BY <1>1, <2>3, <2>6
<1> QED
  BY <1>2, <1>3 DEF Change

LEMMA BoundsRequest ==
  ASSUME PageInv, Bounds, Request \/ Break
  PROVE  Bounds'
<1> USE PageAssumption DEF Bounds
<1>1. CASE Request
  BY <1>1 DEF Request, files, zip, PageInv, PageTyped, HandlerTyped
<1>2. CASE Break
  <2>1. Len(archive') = 0
    BY <1>2 DEF Break
  <2> QED
    BY <1>2, <2>1 DEF Break, Returned, files
<1> QED
  BY <1>1, <1>2

LEMMA BoundsHandler ==
  ASSUME PageInv, ArchiveInv, Bounds, HandlerStep
  PROVE  Bounds'
<1> USE PageAssumption DEF Bounds
<1>1. entry \in Nat \ {0}
  BY DEF PageInv, PageTyped, HandlerTyped
<1>2. CASE NotFound \/ FileIsGone \/ ContentShort \/ ContentDone \/ EntryFails
  BY <1>2 DEF NotFound, FileIsGone, ContentShort, ContentDone, EntryFails, Returned, files, zip
<1>3. CASE OpenFile \/ WriteBlock \/ StartZip
  BY <1>3 DEF OpenFile, WriteBlock, StartZip, files, download, zip
<1>4. CASE ServeContent
  BY <1>4 DEF ServeContent, Serves, Returned, files, zip
<1>5. CASE AddEntry
  <2>1. Len(archive') = Len(archive) + 1 /\ Len(archive) = entry - 1 /\ entry <= NFiles
    BY <1>5 DEF AddEntry, ArchiveInv
  <2>2. Len(archive') <= NFiles
    BY <1>1, <2>1
  <2> QED
    BY <1>5, <2>2 DEF AddEntry, files, download
<1>6. CASE CopyBlock
  <2>1. archive \in Seq(Entry)
    BY DEF ArchiveInv
  <2>2. Len(archive') = Len(archive)
    BY <1>6, <2>1 DEF CopyBlock
  <2> QED
    BY <1>6, <2>2 DEF CopyBlock, files, download
<1>7. CASE EntryDone
  <2>1. entry <= NFiles
    BY <1>7 DEF EntryDone, ArchiveInv
  <2>2. entry + 1 <= NFiles + 1
    BY <1>1, <2>1
  <2> QED
    BY <1>7, <2>2 DEF EntryDone, files, download, zip
<1>8. CASE CloseZip
  BY <1>8 DEF CloseZip, Returned, files
<1> QED
  BY <1>2, <1>3, <1>4, <1>5, <1>6, <1>7, <1>8 DEF HandlerStep

LEMMA BoundsNext == PageInv /\ ArchiveInv /\ Bounds /\ [Next]_vars => Bounds'
<1> SUFFICES ASSUME PageInv, ArchiveInv, Bounds, [Next]_vars PROVE Bounds'
  OBVIOUS
<1>1. CASE UNCHANGED pageVars
  BY <1>1 DEF Bounds, pageVars, files, response, download, zip
<1> QED
  BY <1>1, PageSteps, BoundsRequest, BoundsChange, BoundsHandler

-----------------------------------------------------------------------------
LEMMA PageTypesFollow == PageInv /\ ArchiveInv /\ Bounds => PageTypeOK
<1> SUFFICES ASSUME PageInv, ArchiveInv, Bounds PROVE PageTypeOK
  OBVIOUS
<1> USE PageAssumption
<1>1. FilesTyped /\ HandlerTyped /\ BrowserTyped
  BY DEF PageInv, PageTyped
<1>2. Versions \subseteq Version /\ None \notin Versions
  <2>1. Len(version) \in Nat /\ Len(version) <= NFiles + MaxChanges
    BY <1>1 DEF FilesTyped, Bounds
  <2> QED
    BY <2>1 DEF Versions, Version
<1>3. version \in Seq([size : FileSizes, time : Nat, over : BOOLEAN])
  BY <1>1 DEF FilesTyped, VersionRecord
<1>4. at \in [OnOffer -> Version \cup {None}]
  BY <1>1, <1>2 DEF FilesTyped
<1>5. fd \in Version \cup {None}
  BY <1>1, <1>2 DEF HandlerTyped
<1>6. fd = None <=> handler \in {"off", "route", "zip"}
  BY <1>1, <1>2 DEF HandlerTyped, Bounds
<1>7. entry \in 1 .. NFiles + 1
  BY <1>1 DEF HandlerTyped, Bounds
<1>8. have \in Seq(Version)
  <2>1. have \in Seq(Nat) /\ \A k \in 1 .. Len(have) : have[k] \in Version
    BY <1>1, <1>2 DEF BrowserTyped
  <2>2. have \in [1 .. Len(have) -> Version] /\ Len(have) \in Nat
    BY <2>1
  <2> QED
    BY <2>2, SequenceOf
<1>9. archive \in Seq([file : OnOffer, blocks : Seq(Version)])
  <2> DEFINE R == [file : OnOffer, blocks : Seq(Version)]
  <2>1. archive \in Seq(Entry) /\ Len(archive) \in Nat /\ Len(archive) <= NFiles
    BY DEF ArchiveInv, Bounds
  <2>2. ASSUME NEW k \in 1 .. Len(archive) PROVE archive[k] \in R
    <3>1. archive[k] \in Entry /\ EntryWhole(k)
      BY <2>1, ElementOfSeq DEF ArchiveInv
    <3>2. archive[k].blocks \in Seq(Nat)
      BY <3>1 DEF Entry
    <3>3. \A j \in 1 .. Len(archive[k].blocks) : archive[k].blocks[j] \in Version
      BY <1>2, <3>1 DEF EntryWhole
    <3>4. archive[k].blocks \in [1 .. Len(archive[k].blocks) -> Version]
          /\ Len(archive[k].blocks) \in Nat
      BY <3>2, <3>3
    <3>5. archive[k].blocks \in Seq(Version)
      BY <3>4, SequenceOf
    <3>6. archive[k].file \in OnOffer
      BY <2>1, <3>1 DEF EntryWhole, OnOffer
    <3> QED
      BY <3>1, <3>5, <3>6 DEF Entry
  <2> HIDE DEF R
  <2>3. archive \in [1 .. Len(archive) -> R]
    BY <2>1, <2>2
  <2>4. archive \in Seq(R)
    BY <2>1, <2>3, SequenceOf
  <2> QED
    BY <2>4 DEF R
<1>10. {directory, reported} \subseteq BOOLEAN
  <2>1. directory \in BOOLEAN /\ reported \in BOOLEAN
    BY Zenon DEF ArchiveInv, Bounds
  <2> QED
    BY <2>1, Zenon
<1> QED
  <2>1. /\ handler \in {"off", "route", "stat", "content", "zip", "copy"}
        /\ {size, offset, stamp} \subseteq Nat
        /\ what \in Link
    BY <1>1 DEF HandlerTyped, BrowserTyped
  <2>2. /\ browser \in {"off", "waiting", "reading", "broken", "refused", "complete"}
        /\ asks \in 0 .. MaxAsks
    BY DEF Bounds
  <2> QED
    BY <1>3, <1>4, <1>5, <1>6, <1>7, <1>8, <1>9, <1>10, <2>1, <2>2 DEF PageTypeOK

LEMMA HostTypesFollow == HostInv /\ LogTyped => HostTypeOK
<1> SUFFICES ASSUME HostInv, LogTyped PROVE HostTypeOK
  OBVIOUS
<1>1. {addrs, found} \subseteq BOOLEAN
  BY Zenon DEF LogTyped
<1> QED
  BY <1>1 DEF HostInv, ChildInv, ConnectionInv, LogTyped, HostTypeOK, Line

(* The types of the host and of its page: a version that the page serves   *)
(* is one that there has been, the handler has a file open exactly while   *)
(* it serves or copies one, and the log of cloudflared keeps within its    *)
(* pipe.                                                                   *)
THEOREM ServedTypes == Spec => []TypeOK
<1>1. Init => HostInv /\ LogTyped /\ PageInv /\ ArchiveInv /\ Bounds
  BY HostInvInit, LogInit, PageInvInit, ArchiveInvInit, BoundsInit DEF Init
<1>2. HostInv /\ LogTyped /\ [Next]_vars => (HostInv /\ LogTyped)'
  BY HostSteps, ChildInvNext, ConnectionInvNext, LogNext DEF HostInv
<1>3. PageInv /\ ArchiveInv /\ Bounds /\ [Next]_vars => (PageInv /\ ArchiveInv /\ Bounds)'
  BY PageInvNext, ArchiveInvNext, BoundsNext
<1>4. HostInv /\ LogTyped /\ PageInv /\ ArchiveInv /\ Bounds => TypeOK
  BY HostTypesFollow, PageTypesFollow DEF TypeOK
<1> QED
  BY <1>1, <1>2, <1>3, <1>4, PTL DEF Spec
=============================================================================
