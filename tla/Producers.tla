----------------------------- MODULE Producers -----------------------------
(***************************************************************************)
(* The producers that pass the torrent itself on, side by side: those that *)
(* keep it (TorrentProducers) and the one that publishes it to a server    *)
(* (StanProducer). Nothing is shared between two of them, and a behaviour  *)
(* follows one.                                                            *)
(***************************************************************************)
EXTENDS TorrentProducers

CONSTANTS Send, DefaultPingMaxOut, MaxLosses, MaxTimeouts    \* of StanProducer

ASSUME StanAssumption ==
    DefaultPingMaxOut \in Nat \ {0} /\ MaxLosses \in Nat /\ MaxTimeouts \in Nat

VARIABLES
    stanProducer,        \* the producer is the one of STAN
    client, made, live, reconnect, failures, reconnectWaiter, call, tries, crashed, copies, timeouts

stan == <<client, made, live, reconnect, failures, reconnectWaiter, call, tries, crashed, copies, timeouts>>

Stan == INSTANCE StanProducer WITH pc <- call

\* The other producers stay as they begin.
ProducersInit ==
    /\ stanProducer \in BOOLEAN
    /\ Init /\ (stanProducer => producer = "redis")
    /\ Stan!Init

TorrentStep == ~stanProducer /\ Next /\ UNCHANGED <<stanProducer, stan>>
StanStep == stanProducer /\ Stan!Next /\ UNCHANGED <<stanProducer, vars>>

ProducersNext == TorrentStep \/ StanStep

\* Goroutines are scheduled, and an attempt to connect ends.
ProducersFairness ==
    /\ \A k \in Stan!Conn : WF_stan(stanProducer /\ Stan!Reconnect(k) /\ UNCHANGED <<stanProducer, vars>>)
    /\ \A g \in Send : WF_stan(stanProducer /\ Stan!SendStep(g) /\ UNCHANGED <<stanProducer, vars>>)

ProducersSpec ==
    ProducersInit /\ [][ProducersNext]_<<stanProducer, stan, vars>> /\ ProducersFairness

-----------------------------------------------------------------------------
(* Properties, beside LatestHeld and StaleBounded *)

\* Every variable has its type.
ProducersTypeOK == TypeOK /\ stanProducer \in BOOLEAN /\ Stan!TypeOK

\* The wait group of STAN keeps Sends from the nil client, and a Send that waits for it
\* has a handler at work that will leave it.
GroupWorks == Stan!GroupWorks

\* An announcement reaches the STAN server once, and once more at most for each
\* publish whose acknowledgement did not come.
OncePerTimeout == Stan!OncePerTimeout

\* A Send of STAN ends, however often the connection is lost while it tries, unless
\* a panic ends the process.
SendEnds == Stan!SendEnds
=============================================================================
