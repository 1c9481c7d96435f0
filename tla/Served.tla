------------------------------- MODULE Served -------------------------------
(***************************************************************************)
(* The download page in the process that hosts it: Page over Host, as      *)
(* relay.ServeHTTP routes requests.  A request that arrives is handled     *)
(* while the process runs, also when the listener has failed since; with a *)
(* tunnel it gets through only while cloudflared runs.                     *)
(***************************************************************************)
EXTENDS Host, Page

vars == <<hostVars, pageVars>>

Init == HostInit /\ PageInit

(* The link is printed before serveUntilInterrupt starts to wait, and      *)
(* stays with whoever has it.                                              *)
LinkKnown == setup.web /\ main \notin {"start", "serve", "launch", "tunnel"}

PathOpen ==
  /\ Running
  /\ setup.tunnel => child = "running"
  /\ setup.bound \in {"any", IF setup.tunnel THEN "loopback" ELSE "lan"}

Next ==
  \/ HostStep /\ UNCHANGED pageVars
  \/ /\ UNCHANGED hostVars
     /\ \/ Request /\ LinkKnown /\ PathOpen /\ server = "accept"
        \/ Break
        \/ HandlerStep /\ PathOpen
        \/ Running /\ \E i \in OnOffer : Change(i)
  \/ ~Running /\ UNCHANGED vars

Spec == Init /\ [][Next]_vars

FairSpec == Spec /\ HostFairness

TypeOK == HostTypeOK /\ PageTypeOK
=============================================================================
