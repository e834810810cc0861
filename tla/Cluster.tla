------------------------------ MODULE Cluster ------------------------------
(***************************************************************************)
(* The election of src/cluster.go over one NATS server. Every node pings   *)
(* the master subject; after MasterRetryCount pings without a responder it *)
(* subscribes to the propose subject and asks there, and becomes master if *)
(* nobody but itself listens. A request is answered by every other node    *)
(* subscribed when the server receives it.                                 *)
(***************************************************************************)
EXTENDS Naturals, FiniteSets

CONSTANTS
    Node,               \* cluster nodes, each with its own NodeId
    MasterRetryCount,   \* masterretrycount
    MaxFaults,          \* bound: answers later than msgmaxwait, lost connections
    MaxExits            \* bound: processes that crash, end in Fatal, or are stopped

ASSUME ClusterAssumption ==
    MasterRetryCount \in Nat /\ MaxFaults \in Nat /\ MaxExits \in Nat

VARIABLES
    pc,           \* where Start and asMaster are
    errorCount,   \* pings without a responder, saturating at Enough
    proposeSub, masterSub,   \* the subscriptions the client holds
    connected,    \* the client has its connection to the server
    buffered,     \* a request waits in the client for the connection
    asked,        \* the nodes that received the outstanding request and have not answered
    answered,     \* an answer to the outstanding request is on its way
    stopping,     \* Stop has run
    faults, exits \* history

subs == <<proposeSub, masterSub>>
request == <<buffered, asked, answered>>
vars == <<pc, errorCount, subs, connected, request, stopping, faults, exits>>

\* errorCount is only compared with 0 and MasterRetryCount.
Enough == IF MasterRetryCount = 0 THEN 1 ELSE MasterRetryCount

Goto(n, l) == pc' = [pc EXCEPT ![n] = l]

\* The nodes the server delivers a message to.
Listening(sub) == {m \in Node : sub[m] /\ connected[m]}

\* The subject of the request that n is waiting for.
SubjectOf(n) == IF pc[n] = "pinging" THEN masterSub ELSE proposeSub

-----------------------------------------------------------------------------
Init ==
    /\ pc = [n \in Node |-> "down"]
    /\ errorCount = [n \in Node |-> 0]
    /\ proposeSub = [n \in Node |-> FALSE] /\ masterSub = [n \in Node |-> FALSE]
    /\ connected = [n \in Node |-> FALSE]
    /\ buffered = [n \in Node |-> FALSE]
    /\ asked = [n \in Node |-> {}] /\ answered = [n \in Node |-> FALSE]
    /\ stopping = [n \in Node |-> FALSE]
    /\ faults = 0 /\ exits = 0

\* The process starts and nats.Connect succeeds (otherwise it exits at once).
Start(n) ==
    /\ pc[n] = "down"
    /\ Goto(n, "ping")
    /\ connected' = [connected EXCEPT ![n] = TRUE]
    /\ UNCHANGED <<errorCount, subs, request, stopping, faults, exits>>

\* client.Request publishes; without a connection the client keeps the message.
\* The answer to n's own message is suppressed by respondId.
Publish(n, sub) ==
    /\ asked' = [asked EXCEPT ![n] = IF connected[n] THEN Listening(sub) \ {n} ELSE {}]
    /\ buffered' = [buffered EXCEPT ![n] = ~connected[n]]
    /\ answered' = [answered EXCEPT ![n] = FALSE]

Settled(n) ==
    /\ asked' = [asked EXCEPT ![n] = {}]
    /\ buffered' = [buffered EXCEPT ![n] = FALSE]
    /\ answered' = [answered EXCEPT ![n] = FALSE]

-----------------------------------------------------------------------------
(* Start: the ping loop *)

Ping(n) ==
    /\ pc[n] = "ping" /\ ~stopping[n]
    /\ Publish(n, masterSub)
    /\ Goto(n, "pinging")
    /\ UNCHANGED <<errorCount, subs, connected, stopping, faults, exits>>

\* respondId of node m answers the request of n.
Answer(m, n) ==
    /\ m \in asked[n]
    /\ asked' = [asked EXCEPT ![n] = @ \ {m}]
    /\ answered' = [answered EXCEPT ![n] = TRUE]
    /\ UNCHANGED <<pc, errorCount, subs, connected, buffered, stopping, faults, exits>>

MasterAlive(n) ==
    /\ pc[n] = "pinging" /\ answered[n]
    /\ errorCount' = [errorCount EXCEPT ![n] = 0]
    /\ Settled(n)
    /\ Goto(n, "ping")
    /\ UNCHANGED <<subs, connected, stopping, faults, exits>>

\* ErrNoResponders, or ErrTimeout on a connection that is up. When somebody was
\* asked, it means that the answer came later than msgmaxwait: a fault.
NoResponders(n) ==
    /\ connected[n]
    /\ IF asked[n] = {} /\ ~answered[n]
         THEN UNCHANGED faults
         ELSE faults < MaxFaults /\ faults' = faults + 1
    /\ Settled(n)

\* Mutants: the counter runs the wrong way, or stands still.
CountedDown(c) == c - 1

NotCounted(c) == c

Counted(c) == IF c < Enough THEN c + 1 ELSE c

\* Mutant: a silent master is replaced without a proposal.
ElectedBySilence(c) == IF Counted(c) >= MasterRetryCount THEN "elected" ELSE "ping"

AfterSilence(c) == IF Counted(c) >= MasterRetryCount THEN "propose" ELSE "ping"

MasterSilent(n) ==
    /\ pc[n] = "pinging" /\ NoResponders(n)
    /\ errorCount' = [errorCount EXCEPT ![n] = Counted(@)]
    /\ Goto(n, AfterSilence(errorCount[n]))
    /\ UNCHANGED <<subs, connected, stopping, exits>>

\* Any other error of the ping is only logged.
PingFails(n) ==
    /\ pc[n] = "pinging" /\ ~connected[n]
    /\ Settled(n)
    /\ Goto(n, "ping")
    /\ UNCHANGED <<errorCount, subs, connected, stopping, faults, exits>>

-----------------------------------------------------------------------------
(* asMaster *)

\* Mutant: the request goes out without the subscription.
ProposeDeaf(n) ==
    /\ pc[n] = "propose"
    /\ Publish(n, proposeSub)
    /\ Goto(n, "proposing")
    /\ UNCHANGED <<errorCount, subs, connected, stopping, faults, exits>>

\* The subscription precedes the request on the same connection.
Propose(n) ==
    /\ pc[n] = "propose"
    /\ proposeSub' = [proposeSub EXCEPT ![n] = TRUE]
    /\ Publish(n, proposeSub)
    /\ Goto(n, "proposing")
    /\ UNCHANGED <<errorCount, masterSub, connected, stopping, faults, exits>>

\* Another candidate or master answered, or the request failed: asMaster returns,
\* with an error in the second case, upon which SuspendFn closes the observer.
BackOff(n) ==
    /\ pc[n] = "proposing" /\ (answered[n] \/ ~connected[n])
    /\ Settled(n)
    /\ Goto(n, "unwind")
    /\ UNCHANGED <<errorCount, subs, connected, stopping, faults, exits>>

Elected(n) ==
    /\ pc[n] = "proposing" /\ NoResponders(n)
    /\ Goto(n, "elected")
    /\ UNCHANGED <<errorCount, subs, connected, stopping, exits>>

\* StartFn begins once the master subject is subscribed.
TakeOver(n) ==
    /\ pc[n] = "elected"
    /\ masterSub' = [masterSub EXCEPT ![n] = TRUE]
    /\ Goto(n, "init")
    /\ UNCHANGED <<errorCount, proposeSub, connected, request, stopping, faults, exits>>

\* Observer.Init succeeds, Engage runs until the process ends.
InitOk(n) ==
    /\ pc[n] = "init"
    /\ Goto(n, "master")
    /\ UNCHANGED <<errorCount, subs, connected, request, stopping, faults, exits>>

\* Without m among the listeners, nobody waits for an answer of m any more.
Unheard(m) == [n \in Node |-> asked[n] \ {m}]

Unsubscribed(n, sub) == sub' = [sub EXCEPT ![n] = FALSE] /\ asked' = Unheard(n)

\* Init fails: the deferred calls of asMaster drop the two subscriptions in turn.
InitFails(n) ==
    /\ pc[n] = "init"
    /\ Unsubscribed(n, masterSub)
    /\ Goto(n, "unwind")
    /\ UNCHANGED <<errorCount, proposeSub, connected, buffered, answered, stopping, faults, exits>>

Unwind(n) ==
    /\ pc[n] = "unwind"
    /\ Unsubscribed(n, proposeSub)
    /\ Goto(n, "ping")
    /\ UNCHANGED <<errorCount, masterSub, connected, buffered, answered, stopping, faults, exits>>

-----------------------------------------------------------------------------
(* The connection *)

\* The server forgets the subscriptions of n, messages on their way are lost.
Disconnect(n) ==
    /\ connected[n] /\ faults < MaxFaults
    /\ faults' = faults + 1
    /\ connected' = [connected EXCEPT ![n] = FALSE]
    /\ asked' = [Unheard(n) EXCEPT ![n] = {}]
    /\ answered' = [answered EXCEPT ![n] = FALSE]
    /\ UNCHANGED <<pc, errorCount, subs, buffered, stopping, exits>>

\* The client restores its subscriptions, then sends what it has buffered.
Reconnect(n) ==
    /\ pc[n] # "down" /\ ~connected[n]
    /\ connected' = [connected EXCEPT ![n] = TRUE]
    /\ buffered' = [buffered EXCEPT ![n] = FALSE]
    /\ asked' = [asked EXCEPT ![n] = IF buffered[n] THEN Listening(SubjectOf(n)) \ {n} ELSE {}]
    /\ UNCHANGED <<pc, errorCount, subs, answered, stopping, faults, exits>>

-----------------------------------------------------------------------------
(* The end of a process *)

\* main runs Stop, which drops both subscriptions whatever Start is doing.
Stop(n) ==
    /\ pc[n] # "down" /\ ~stopping[n] /\ exits < MaxExits
    /\ exits' = exits + 1
    /\ stopping' = [stopping EXCEPT ![n] = TRUE]
    /\ proposeSub' = [proposeSub EXCEPT ![n] = FALSE]
    /\ masterSub' = [masterSub EXCEPT ![n] = FALSE]
    /\ asked' = Unheard(n)
    /\ UNCHANGED <<pc, errorCount, connected, buffered, answered, faults>>

\* Start sees the stop channel between two pings, suspends and returns.
StopSeen(n) ==
    /\ pc[n] = "ping" /\ stopping[n]
    /\ Goto(n, "returned")
    /\ UNCHANGED <<errorCount, subs, connected, request, stopping, faults, exits>>

\* The process is gone, and with it its connection.
Gone(n) ==
    /\ Goto(n, "down")
    /\ errorCount' = [errorCount EXCEPT ![n] = 0]
    /\ proposeSub' = [proposeSub EXCEPT ![n] = FALSE]
    /\ masterSub' = [masterSub EXCEPT ![n] = FALSE]
    /\ connected' = [connected EXCEPT ![n] = FALSE]
    /\ buffered' = [buffered EXCEPT ![n] = FALSE]
    /\ asked' = [Unheard(n) EXCEPT ![n] = {}]
    /\ answered' = [answered EXCEPT ![n] = FALSE]
    /\ stopping' = [stopping EXCEPT ![n] = FALSE]

\* Stop has closed the client and main returns, while Engage may still run.
Exit(n) == stopping[n] /\ Gone(n) /\ UNCHANGED <<faults, exits>>

\* The process is killed, or Engage ends it with logger.Fatal.
Crash(n) ==
    /\ pc[n] # "down" /\ exits < MaxExits
    /\ exits' = exits + 1
    /\ Gone(n)
    /\ UNCHANGED faults

-----------------------------------------------------------------------------
Loop(n) == Ping(n) \/ MasterAlive(n) \/ MasterSilent(n) \/ PingFails(n) \/ StopSeen(n)

AsMaster(n) ==
    \/ Propose(n) \/ BackOff(n) \/ Elected(n) \/ TakeOver(n)
    \/ InitOk(n) \/ InitFails(n) \/ Unwind(n)

Network(n) == Disconnect(n) \/ Reconnect(n) \/ \E m \in Node : Answer(m, n)

Next == \E n \in Node :
    Start(n) \/ Loop(n) \/ AsMaster(n) \/ Network(n) \/ Stop(n) \/ Exit(n) \/ Crash(n)

Spec == Init /\ [][Next]_vars

\* The steps of the code and the reconnects happen; an Init that is tried again
\* and again succeeds in the end. Nothing is assumed of answers, which may all be
\* late, nor of starts and ends of processes.
Fairness ==
    \A n \in Node :
        /\ WF_vars(Loop(n)) /\ WF_vars(AsMaster(n)) /\ SF_vars(InitOk(n))
        /\ WF_vars(Reconnect(n))

FairSpec == Spec /\ Fairness

-----------------------------------------------------------------------------
(* Properties *)

PCs == {"down", "ping", "pinging", "propose", "proposing", "elected", "init", "master",
        "unwind", "returned"}

\* Every variable has its type.
TypeOK ==
    /\ pc \in [Node -> PCs]
    /\ errorCount \in [Node -> 0 .. Enough]
    /\ proposeSub \in [Node -> BOOLEAN] /\ masterSub \in [Node -> BOOLEAN]
    /\ connected \in [Node -> BOOLEAN] /\ buffered \in [Node -> BOOLEAN]
    /\ asked \in [Node -> SUBSET Node] /\ answered \in [Node -> BOOLEAN]
    /\ stopping \in [Node -> BOOLEAN]
    /\ faults \in Nat /\ exits \in Nat

\* A node that has won the election and is not on its way out. (A stopped node
\* drops its subscriptions first and works on until its process ends.)
Master(n) == pc[n] \in {"elected", "init", "master"} /\ ~stopping[n]

Masters == {n \in Node : Master(n)}

\* While answers are in time and no connection is lost, two nodes are never master
\* together, whoever proposes when, crashes, stops or restarts; and every late
\* answer and every lost connection costs at most one master too many.
SplitBounded == Cardinality(Masters) <= 1 + faults

\* The cluster implements Mastership: whatever happens, the role changes hands one
\* node at a time, and a second master needs a fault that is not used up yet.
Role == INSTANCE Mastership WITH holder <- Masters, slack <- faults

RoleSpec == Role!Spec

\* A node left alone becomes master, whatever happened before, and stays it.
Alone(n) == \A m \in Node : (pc[m] = "down") <=> (m # n)

SoleSurvivorLeads == \A n \in Node : <>[](Alone(n) /\ ~stopping[n]) => <>[](pc[n] = "master")
=============================================================================
