----------------------------- MODULE Lifecycle -----------------------------
(***************************************************************************)
(* How an observer process comes up and goes down: Observer.Init and Close *)
(* (src/observer.go), Announcer.New with its process-wide registry of      *)
(* producers (src/producer/announcer.go) and the factories it calls, and   *)
(* the retries of StartFn and SuspendFn that a cluster node makes          *)
(* (src/cmd/ttobserver.go, src/cluster.go). Calls of Init are numbered; a  *)
(* producer and a database handle are known by the call that opened them.  *)
(***************************************************************************)
EXTENDS Naturals, Sequences, FiniteSets

CONSTANTS
    Id,             \* producer ids
    Producers,      \* the ids of the configured producers, in order
    Nats, Lmdb,     \* the producers of these types
    Checked,        \* redis, telegram: connected first, then tried with a ping or a login
    Replicas,       \* values of replicascount, a setting of the NATS producer
    MaxPeers,       \* bound: servers of the NATS cluster
    MaxAttempts,    \* bound: calls of Init, over all processes
    MaxProposals    \* bound: proposals that fail before StartFn, over all processes

ASSUME LifecycleAssumption ==
    /\ Producers \in Seq(Id) /\ Replicas \subseteq Nat
    /\ Nats \subseteq Id /\ Lmdb \subseteq Id /\ Checked \subseteq Id
    /\ MaxPeers \in Nat /\ MaxAttempts \in Nat /\ MaxProposals \in Nat

Call == 1 .. MaxAttempts

VARIABLES
    clustered,   \* a cluster is configured: startClustered runs the observer, else start
    replicascount, peers,
    pc,          \* "idle", "producers", "stream", "failed", "engaged", "exited"
    attempt,     \* calls of Init so far
    next,        \* the configured producer that New looks at
    registry,    \* id -> call that created the registered producer, 0 without one
    announcer,   \* the producers announcements go to: pairs <<id, call>>
    openProducers, openDbs,
    stopped,     \* the stop channel: "nil", "open", "closed"
    stream,      \* the stream is there, made by this node or another one
    replicas,    \* the replicas that the NATS producer asks for next
    refused,     \* the numbers it was refused for want of servers
    halfMade, unopened,  \* history: producers whose factory failed after it had connected;
                         \* LMDB producers returned although their database did not open
    proposals,           \* history: proposals that failed before StartFn
    excuses,             \* history: calls that ended before New, proposals that failed and
                         \* stops, each with the call before it
    closes               \* history: call -> times that its producers were closed

fixed   == <<clustered, replicascount, peers>>
nats    == <<stream, replicas, refused>>
history == <<halfMade, unopened, proposals, excuses, closes>>
vars == <<fixed, pc, attempt, next, registry, announcer, openProducers, openDbs, stopped, nats, history>>

Init ==
    /\ clustered \in BOOLEAN /\ replicascount \in Replicas /\ peers \in 1 .. MaxPeers
    /\ pc = "idle" /\ attempt = 0 /\ next = 1
    /\ registry = [p \in Id |-> 0]
    /\ announcer = {} /\ openProducers = {} /\ openDbs = {}
    /\ stopped = "nil"
    /\ stream = FALSE /\ replicas = 0 /\ refused = {}
    /\ halfMade = {} /\ unopened = {} /\ proposals = 0 /\ excuses = {}
    /\ closes = [c \in Call |-> 0]

-----------------------------------------------------------------------------
(* Observer.Init *)

\* Mutant: the list of an earlier call is kept.
ConnectKeeps ==
    /\ pc = "idle" /\ attempt < MaxAttempts
    /\ attempt' = attempt + 1
    /\ openDbs' = openDbs \union {attempt'}
    /\ next' = 1
    /\ pc' = "producers"
    /\ UNCHANGED <<announcer, registry, openProducers, stopped, nats, history>>

\* The database is connected, New begins with an empty list.
Connect ==
    /\ pc = "idle" /\ attempt < MaxAttempts
    /\ attempt' = attempt + 1
    /\ openDbs' = openDbs \union {attempt'}
    /\ announcer' = {} /\ next' = 1
    /\ pc' = "producers"
    /\ UNCHANGED <<registry, openProducers, stopped, nats, history>>

\* Init returns before New, with no handle, or with one whose ping has failed: the
\* announcer of an earlier call stays in place.
ConnectFails ==
    /\ pc = "idle" /\ attempt < MaxAttempts
    /\ attempt' = attempt + 1
    /\ openDbs' \in {openDbs, openDbs \union {attempt'}}
    /\ excuses' = excuses \union {<<"unconnected", attempt'>>}
    /\ pc' = "failed"
    /\ UNCHANGED <<next, registry, announcer, openProducers, stopped, nats,
                   halfMade, unopened, proposals, closes>>

Building(p) == next <= Len(Producers) /\ Producers[next] = p

New(p) == pc = "producers" /\ Building(p) /\ registry[p] = 0

\* Mutant: the registered producer is used again.
KnownReused(p) ==
    /\ pc = "producers" /\ Building(p) /\ registry[p] # 0
    /\ announcer' = announcer \union {<<p, registry[p]>>}
    /\ next' = next + 1
    /\ UNCHANGED <<pc, attempt, registry, openProducers, openDbs, stopped, nats, history>>

\* The registry has a producer under this id, from an earlier call or an earlier
\* entry of the list: it is noted in the log, and not added to the announcer.
Known(p) ==
    /\ pc = "producers" /\ Building(p) /\ registry[p] # 0
    /\ next' = next + 1
    /\ UNCHANGED <<pc, attempt, registry, announcer, openProducers, openDbs, stopped, nats, history>>

\* The factory's producer is kept.
Appended(p) ==
    /\ registry' = [registry EXCEPT ![p] = attempt]
    /\ announcer' = announcer \union {<<p, attempt>>}
    /\ next' = next + 1
    /\ pc' = "producers"
    /\ UNCHANGED <<attempt, openDbs, stopped>>

Open(p) == openProducers' = openProducers \union {<<p, attempt>>}

Build(p) ==
    /\ New(p)
    /\ Open(p) /\ Appended(p)
    /\ UNCHANGED <<nats, history>>

\* Mutant: the loop goes on after an error.
BuildFailureIgnored(p) ==
    /\ New(p)
    /\ next' = next + 1
    /\ UNCHANGED <<pc, attempt, registry, announcer, openProducers, openDbs, stopped, nats, history>>

\* The factory fails: New returns what it has so far, with the error.
BuildFails(p) ==
    /\ New(p)
    /\ pc' = "failed"
    /\ UNCHANGED <<attempt, next, registry, announcer, openProducers, openDbs, stopped, nats, history>>

\* The error comes with a producer that has connected, and that nobody closes.
FailsConnected(p) ==
    /\ halfMade' = halfMade \union {<<p, attempt>>}
    /\ pc' = "failed"
    /\ UNCHANGED <<attempt, next, registry, announcer, openDbs, stopped, unopened, proposals, excuses, closes>>

CheckFails(p) ==
    /\ New(p) /\ p \in Checked
    /\ Open(p) /\ FailsConnected(p)
    /\ UNCHANGED nats

\* newDB of LMDB: the database does not open, and the environment is closed, whose
\* success takes the place of the error.
OpenFails(p) ==
    /\ New(p) /\ p \in Lmdb
    /\ unopened' = unopened \union {<<p, attempt>>}
    /\ Appended(p)
    /\ UNCHANGED <<openProducers, nats, halfMade, proposals, excuses, closes>>

-----------------------------------------------------------------------------
(* init of the NATS producer; Build is the case of a stream that is there, or not wanted *)

\* The stream is not in the list, which is empty after an error.
NoStream(p) ==
    /\ New(p) /\ p \in Nats
    /\ Open(p)
    /\ replicas' = IF replicascount = 0 THEN 1 ELSE replicascount
    /\ refused' = {}
    /\ pc' = "stream"
    /\ UNCHANGED <<attempt, next, registry, announcer, openDbs, stopped, stream, history>>

\* Made, or in use already.
AddStream(p) ==
    /\ pc = "stream" /\ Building(p) /\ (stream \/ replicas <= peers)
    /\ stream' = TRUE /\ refused' = {}
    /\ Appended(p)
    /\ UNCHANGED <<openProducers, replicas, history>>

\* Too many replicas: the next try asks for two less, if that is any.
TooManyReplicas(p) ==
    /\ pc = "stream" /\ Building(p) /\ ~stream /\ replicas > peers
    /\ refused' = refused \union {replicas}
    /\ IF replicas > 2
         THEN /\ replicas' = replicas - 2
              /\ UNCHANGED <<pc, attempt, next, registry, announcer, openDbs, stopped, history>>
         ELSE FailsConnected(p) /\ UNCHANGED replicas
    /\ UNCHANGED <<openProducers, stream>>

AddStreamFails(p) ==
    /\ pc = "stream" /\ Building(p)
    /\ refused' = {}
    /\ FailsConnected(p)
    /\ UNCHANGED <<openProducers, stream, replicas>>

\* Another node has made the stream.
StreamElsewhere ==
    /\ ~stream /\ stream' = TRUE
    /\ UNCHANGED <<pc, attempt, next, registry, announcer, openProducers, openDbs, stopped,
                   replicas, refused, history>>

-----------------------------------------------------------------------------
Engage ==
    /\ pc = "producers" /\ next > Len(Producers)
    /\ stopped' = "open"
    /\ pc' = "engaged"
    /\ UNCHANGED <<attempt, next, registry, announcer, openProducers, openDbs, nats, history>>

-----------------------------------------------------------------------------
(* Observer.Close *)

\* Announcer.Close, on the announcer in place.
CloseProducers ==
    /\ openProducers' = openProducers \ announcer
    /\ closes' = [c \in Call |-> closes[c] + IF \E p \in Id : <<p, c>> \in announcer THEN 1 ELSE 0]
    /\ UNCHANGED <<halfMade, unopened>>

\* Mutant: the database is not closed.
ShutKeepsDb ==
    /\ stopped # "closed"
    /\ stopped' = IF stopped = "open" THEN "closed" ELSE stopped
    /\ CloseProducers
    /\ UNCHANGED openDbs

\* Close panics on a stop channel that is closed already.
Shut ==
    /\ stopped # "closed"
    /\ stopped' = IF stopped = "open" THEN "closed" ELSE stopped
    /\ CloseProducers
    /\ openDbs' = openDbs \ {attempt}

Still == UNCHANGED <<stopped, openProducers, openDbs, history>>

\* A failed start: SuspendFn closes the observer and the node pings again; outside
\* a cluster the process ends.
Suspend ==
    /\ pc = "failed" /\ clustered
    /\ Shut
    /\ pc' = "idle"
    /\ UNCHANGED <<attempt, next, registry, announcer, nats, proposals, excuses>>

\* A proposal that fails before StartFn (Subscribe, or Request with an error other
\* than no answer) suspends the node too: it closes what an earlier call left in place.
ProposalFails ==
    /\ pc = "idle" /\ clustered /\ proposals < MaxProposals
    /\ Shut
    /\ proposals' = proposals + 1
    /\ excuses' = excuses \union {<<"proposal", attempt, proposals>>}
    /\ UNCHANGED <<pc, attempt, next, registry, announcer, nats>>

GiveUp ==
    /\ pc = "failed" /\ ~clustered
    /\ pc' = "exited"
    /\ Still /\ UNCHANGED <<attempt, next, registry, announcer, nats>>

\* A signal: start closes the observer before the process ends, a node leaves the
\* cluster; when it waits for its next try, it may still come to SuspendFn.
Signal ==
    /\ \/ pc = "engaged" /\ ~clustered /\ Shut /\ UNCHANGED excuses
       \/ pc \in {"engaged", "idle"} /\ clustered /\ Still
       \/ pc = "idle" /\ clustered /\ Shut /\ excuses' = excuses \union {<<"stop", attempt>>}
    /\ pc' = "exited"
    /\ UNCHANGED <<attempt, next, registry, announcer, nats, proposals>>

\* A new process knows nothing of the old one.
Restart ==
    /\ pc = "exited" /\ attempt < MaxAttempts
    /\ pc' = "idle" /\ next' = 1
    /\ registry' = [p \in Id |-> 0]
    /\ announcer' = {} /\ openProducers' = {} /\ openDbs' = {}
    /\ stopped' = "nil"
    /\ UNCHANGED <<attempt, nats, history>>

-----------------------------------------------------------------------------
Factory(p) ==
    \/ Known(p) \/ Build(p) \/ BuildFails(p) \/ CheckFails(p) \/ OpenFails(p)
    \/ NoStream(p) \/ AddStream(p) \/ TooManyReplicas(p) \/ AddStreamFails(p)

Next ==
    /\ \/ Connect \/ ConnectFails \/ \E p \in Id : Factory(p)
       \/ Engage \/ Suspend \/ ProposalFails \/ GiveUp \/ Signal \/ Restart \/ StreamElsewhere
    /\ UNCHANGED fixed

Spec == Init /\ [][Next]_vars

-----------------------------------------------------------------------------
(* Properties *)

Configured == {Producers[j] : j \in DOMAIN Producers}

\* An engaged observer announces to producers that were opened by the same call and
\* not closed since, on the database it has open; but for an LMDB producer whose
\* database did not open.
EngagedUsesOwn ==
    pc = "engaged" =>
        /\ attempt \in openDbs /\ stopped = "open" /\ closes[attempt] = 0
        /\ \A q \in announcer :
               q[2] = attempt /\ (q \in openProducers \/ (q \in unopened /\ q[1] \in Lmdb))

\* A node that waits for its next try holds nothing open, wherever Init failed, but
\* for a connection of each producer whose factory failed behind it.
NothingLeftOpen == pc = "idle" => openProducers \subseteq halfMade /\ openDbs = {}

\* The producers of a start are closed once, whatever fails, and once more at most
\* for each later start that fails before it has an announcer, for each later
\* proposal that fails before a start, and for a stop that finds the node waiting.
ClosedOnce == \A c \in Call : closes[c] <= 1 + Cardinality({e \in excuses : e[2] >= c})

\* A configured producer is left out only by a cluster node, and only when an
\* earlier call of Init in the same process created it.
LeftOutOnlyAfterRetry ==
    pc = "engaged" =>
        \A p \in Configured :
            <<p, attempt>> \in announcer \/ (clustered /\ registry[p] \in 1 .. attempt - 1)

\* README.md:57-59: a notifier whose type is declared in the producers list
\* announces, however often the start had to be tried.
EngagedHasAllProducers ==
    pc = "engaged" => \A p \in Configured : \E c \in Call : <<p, c>> \in announcer

\* src/producer/nats/nats.go:92 and 108: the replicas, between 1 and 5, are decreased
\* after a refusal, so that the last try is the one for a single replica.
RetriedWithFewer == pc = "failed" /\ refused # {} => 1 \in refused
=============================================================================
