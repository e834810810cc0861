---------------------------- MODULE StanProducer ----------------------------
(***************************************************************************)
(* The STAN producer (src/producer/stan/stan.go): Sends, each a goroutine, *)
(* publish over one client, which the handler of a lost connection         *)
(* replaces, one attempt after the other. The handler holds a wait group   *)
(* meanwhile, and a Send waits for the group before each try. The client   *)
(* itself is not protected: stan.Connect returns nil with an error, and    *)
(* reconnect stores it.                                                    *)
(***************************************************************************)
EXTENDS Naturals, FiniteSets

CONSTANTS
    Send,                  \* announcements
    DefaultPingMaxOut,     \* tries of a Send, and of the handler
    MaxLosses,             \* bound: lost connections
    MaxTimeouts            \* bound: publishes without an acknowledgement in time

Nil  == 0
Conn == 1 .. MaxLosses + 1     \* connections, numbered as they are made

VARIABLES
    client,          \* the client that Sends use, Nil after a failed attempt
    made,            \* connections made so far
    live,            \* those that the server still serves
    reconnect,       \* connection -> where its handler is
    failures,        \* connection -> failed attempts of its handler
    reconnectWaiter, \* the count of the wait group
    pc, tries,       \* Send -> where it is, tries so far
    crashed,         \* a panic has ended the process
    copies, timeouts \* history: messages at the server, unacknowledged publishes

handler == <<made, reconnect, failures, reconnectWaiter>>
sends   == <<pc, tries, copies, timeouts>>
vars    == <<client, live, handler, sends, crashed>>

Init ==
    /\ client = 1 /\ made = 1 /\ live = {1}
    /\ reconnect = [k \in Conn |-> "none"] /\ failures = [k \in Conn |-> 0]
    /\ reconnectWaiter = 0
    /\ pc = [g \in Send |-> "idle"] /\ tries = [g \in Send |-> 0]
    /\ crashed = FALSE
    /\ copies = [g \in Send |-> 0] /\ timeouts = 0

-----------------------------------------------------------------------------
(* reconnect *)

At(k, l)   == reconnect[k] = l /\ ~crashed
Move(k, l) == reconnect' = [reconnect EXCEPT ![k] = l]

\* The pings of a connection stay without an answer: the client closes it and
\* calls the handler.
Lose(k) ==
    /\ k \in live /\ k <= MaxLosses /\ ~crashed
    /\ live' = live \ {k}
    /\ Move(k, "called")
    /\ UNCHANGED <<client, made, failures, reconnectWaiter, sends, crashed>>

Add(k) ==
    /\ At(k, "called")
    /\ reconnectWaiter' = reconnectWaiter + 1
    /\ Move(k, "trying")
    /\ UNCHANGED <<client, live, made, failures, sends, crashed>>

Connect(k) ==
    /\ At(k, "trying")
    /\ made' = made + 1 /\ client' = made' /\ live' = live \union {made'}
    /\ Move(k, "connected")
    /\ UNCHANGED <<failures, reconnectWaiter, sends, crashed>>

\* The client is nil now; after the last attempt the handler panics.
ConnectFails(k) ==
    /\ At(k, "trying")
    /\ client' = Nil
    /\ failures' = [failures EXCEPT ![k] = @ + 1]
    /\ crashed' = (failures'[k] = DefaultPingMaxOut)
    /\ UNCHANGED <<live, made, reconnect, reconnectWaiter, sends>>

\* Mutants: the group is left with a client yet to come; it is never left.
DoneEarly(k) ==
    /\ At(k, "trying") \/ At(k, "connected")
    /\ reconnectWaiter' = reconnectWaiter - 1
    /\ Move(k, "done")
    /\ UNCHANGED <<client, live, made, failures, sends, crashed>>

DoneForgotten(k) ==
    /\ At(k, "connected")
    /\ Move(k, "done")
    /\ UNCHANGED <<client, live, made, failures, reconnectWaiter, sends, crashed>>

\* The last Done wakes the Sends that wait.
Done(k) ==
    /\ At(k, "connected")
    /\ reconnectWaiter' = reconnectWaiter - 1
    /\ pc' = IF reconnectWaiter' = 0
               THEN [g \in Send |-> IF pc[g] = "waiting" THEN "woken" ELSE pc[g]]
               ELSE pc
    /\ Move(k, "done")
    /\ UNCHANGED <<client, live, made, failures, tries, copies, timeouts, crashed>>

-----------------------------------------------------------------------------
(* Send *)

In(g, l)   == pc[g] = l /\ ~crashed
Goto(g, l) == pc' = [pc EXCEPT ![g] = l]

Call(g) ==
    /\ In(g, "idle")
    /\ Goto(g, "try")
    /\ UNCHANGED <<client, live, handler, tries, copies, timeouts, crashed>>

Wait(g) ==
    /\ In(g, "try")
    /\ Goto(g, IF reconnectWaiter = 0 THEN "publish" ELSE "waiting")
    /\ UNCHANGED <<client, live, handler, tries, copies, timeouts, crashed>>

\* A wait group that is in use again before a waiter has left it panics.
Wake(g) ==
    /\ In(g, "woken")
    /\ IF reconnectWaiter = 0
         THEN Goto(g, "publish") /\ UNCHANGED crashed
         ELSE crashed' = TRUE /\ UNCHANGED pc
    /\ UNCHANGED <<client, live, handler, tries, copies, timeouts>>

\* After a failed publish: sleep and try again, or give up.
Retry(g) ==
    /\ tries' = [tries EXCEPT ![g] = @ + 1]
    /\ Goto(g, IF tries'[g] < DefaultPingMaxOut THEN "try" ELSE "done")

Received(g) == copies' = [copies EXCEPT ![g] = @ + 1]

\* Mutant: the publish is repeated after a success.
PublishAgain(g) ==
    /\ In(g, "publish") /\ client \in live
    /\ Received(g) /\ Retry(g)
    /\ UNCHANGED <<client, live, handler, timeouts, crashed>>

Publish(g) ==
    /\ In(g, "publish") /\ client \in live
    /\ Received(g)
    /\ Goto(g, "done")
    /\ UNCHANGED <<client, live, handler, tries, timeouts, crashed>>

\* No acknowledgement in time; the message may have been stored.
PublishTimesOut(g) ==
    /\ In(g, "publish") /\ client # Nil /\ timeouts < MaxTimeouts
    /\ timeouts' = timeouts + 1
    /\ Received(g) \/ UNCHANGED copies
    /\ Retry(g)
    /\ UNCHANGED <<client, live, handler, crashed>>

\* The connection is closed.
PublishFails(g) ==
    /\ In(g, "publish") /\ client \notin live \union {Nil}
    /\ Retry(g)
    /\ UNCHANGED <<client, live, handler, copies, timeouts, crashed>>

\* The call on the nil client panics.
PublishNil(g) ==
    /\ In(g, "publish") /\ client = Nil
    /\ crashed' = TRUE
    /\ UNCHANGED <<client, live, handler, sends>>

-----------------------------------------------------------------------------
Reconnect(k) == Add(k) \/ Connect(k) \/ ConnectFails(k) \/ Done(k)

SendStep(g) ==
    \/ Wait(g) \/ Wake(g) \/ Publish(g) \/ PublishTimesOut(g) \/ PublishFails(g) \/ PublishNil(g)

Next ==
    \/ \E k \in Conn : Lose(k) \/ Reconnect(k)
    \/ \E g \in Send : Call(g) \/ SendStep(g)

Spec == Init /\ [][Next]_vars

-----------------------------------------------------------------------------
(* Properties *)

\* Every variable has its type.
TypeOK ==
    /\ client \in Conn \union {Nil} /\ made \in Conn /\ live \subseteq Conn
    /\ reconnect \in [Conn -> {"none", "called", "trying", "connected", "done"}]
    /\ failures \in [Conn -> 0 .. DefaultPingMaxOut]
    /\ reconnectWaiter \in Nat
    /\ pc \in [Send -> {"idle", "try", "waiting", "woken", "publish", "done"}]
    /\ tries \in [Send -> 0 .. DefaultPingMaxOut]
    /\ crashed \in BOOLEAN
    /\ copies \in [Send -> Nat] /\ timeouts \in Nat

\* While the client is nil the wait group is held, so that no Send begins a try
\* then: only one that has passed the group before can run into the nil client.
\* (And a client that Sends may use is live, or its handler is on its way.)
NilGuarded ==
    ~crashed =>
        /\ client = Nil => reconnectWaiter > 0
        /\ client # Nil => client \in live \/ reconnect[client] \in {"called", "trying"}

\* An announcement reaches the server once, and once more at most for each
\* publish whose acknowledgement did not come, whatever connections are lost.
OncePerTimeout == \A g \in Send : copies[g] <= 1 + timeouts

\* A Send that waits for the group has a handler at work that will leave it: no
\* wakeup is lost between the check of the group and the last Done, whatever
\* handlers overlap.
NobodyStranded ==
    ~crashed => \A g \in Send : pc[g] = "waiting" =>
                    \E k \in Conn : reconnect[k] \in {"trying", "connected"}

\* The wait group does its work: it keeps Sends from the client that is being
\* replaced, and lets all of them go again.
GroupWorks == NilGuarded /\ NobodyStranded

\* A Send ends, however often the connection is lost while it tries, unless a
\* panic ends the process.
SendEnds == \A g \in Send : pc[g] = "try" ~> pc[g] = "done" \/ crashed
=============================================================================
