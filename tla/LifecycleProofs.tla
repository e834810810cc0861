-------------------------- MODULE LifecycleProofs --------------------------
(***************************************************************************)
(* Theorems about Lifecycle, for every list of producers, every choice of  *)
(* their kinds, and any number of starts.                                  *)
(***************************************************************************)
EXTENDS Lifecycle, FiniteSetTheorems, TLAPS

\* A start is under way from Connect to the failure or the end.
Under == pc \in {"producers", "stream", "engaged"}

Typing ==
    /\ pc \in {"idle", "producers", "stream", "failed", "engaged", "exited"}
    /\ attempt \in 0 .. MaxAttempts /\ next \in Nat \ {0}
    /\ registry \in [Id -> 0 .. attempt]
    /\ announcer \subseteq Id \X Call /\ \A q \in announcer : q[2] <= attempt
    /\ closes \in [Call -> Nat]
    /\ Under => attempt \in Call
    /\ clustered \in BOOLEAN

\* Only the last call of Init has a database open, and none while a node waits.
Handles ==
    /\ openDbs \subseteq {attempt}
    /\ pc = "idle" => openDbs = {}
    /\ Under => attempt \in openDbs

\* What is open is announced to, or was left behind by a factory, or is the NATS
\* producer that asks for its stream.
Accounted ==
    /\ \A q \in openProducers :
           q \in announcer \/ q \in halfMade \/ (pc = "stream" /\ q = <<Producers[next], attempt>>)
    /\ pc = "idle" => openProducers \subseteq halfMade
    /\ pc = "stream" => next <= Len(Producers) /\ <<Producers[next], attempt>> \in openProducers

\* The producers of the present call are its own, and nobody has closed them.
Own ==
    /\ \A c \in Call : c > attempt => closes[c] = 0
    /\ Under =>
        /\ closes[attempt] = 0
        /\ \A q \in announcer :
               q[2] = attempt /\ (q \in openProducers \/ (q \in unopened /\ q[1] \in Lmdb))
    /\ pc = "engaged" => stopped = "open"

\* New has appended each producer that it has passed, or found it in the registry of
\* an earlier call; outside a cluster nothing is registered before a start.
Passed ==
    /\ pc = "engaged" => next > Len(Producers)
    /\ Under =>
        /\ \A j \in DOMAIN Producers :
               j < next => \/ <<Producers[j], attempt>> \in announcer
                           \/ registry[Producers[j]] \in 1 .. attempt - 1
        /\ \A p \in Id : registry[p] = attempt => <<p, attempt>> \in announcer
        /\ ~clustered => \A p \in Id : registry[p] \in {0, attempt}
    /\ pc = "idle" /\ ~clustered => \A p \in Id : registry[p] = 0

StartInv == Typing /\ Handles /\ Accounted /\ Own /\ Passed

-----------------------------------------------------------------------------
LEMMA StartInit == Init => StartInv
  BY LifecycleAssumption
  DEF Init, StartInv, Typing, Handles, Accounted, Own, Passed, Under, Building, Call

\* A factory leaves the invariant in place, whichever way it ends.
LEMMA FactoryStep ==
    ASSUME StartInv, NEW p \in Id, Factory(p), UNCHANGED fixed
    PROVE  StartInv'
  <1> USE LifecycleAssumption DEF StartInv, Under, Call, New, Building, fixed, nats, history
  <1>1. Producers \in Seq(Id) /\ Len(Producers) \in Nat /\ DOMAIN Producers = 1 .. Len(Producers)
    OBVIOUS
  <1>2. CASE Known(p)
    <2> USE <1>1, <1>2 DEF Typing, Known
    <2>1. Typing'
      OBVIOUS
    <2>2. Handles'
      BY DEF Handles
    <2>3. Accounted'
      BY DEF Accounted
    <2>4. Own'
      BY DEF Own, Accounted
    <2>5. Passed'
      BY DEF Passed
    <2> QED
      BY <2>1, <2>2, <2>3, <2>4, <2>5
  <1>3. CASE Build(p)
    <2> USE <1>1, <1>3 DEF Typing, Build, Open, Appended
    <2>1. Typing'
      OBVIOUS
    <2>2. Handles'
      BY DEF Handles
    <2>3. Accounted'
      BY DEF Accounted
    <2>4. Own'
      BY DEF Own, Accounted
    <2>5. Passed'
      BY DEF Passed
    <2> QED
      BY <2>1, <2>2, <2>3, <2>4, <2>5
  <1>4. CASE BuildFails(p)
    <2> USE <1>1, <1>4 DEF Typing, BuildFails
    <2>1. Typing'
      OBVIOUS
    <2>2. Handles'
      BY DEF Handles
    <2>3. Accounted'
      BY DEF Accounted
    <2>4. Own'
      BY DEF Own, Accounted
    <2>5. Passed'
      BY DEF Passed
    <2> QED
      BY <2>1, <2>2, <2>3, <2>4, <2>5
  <1>5. CASE CheckFails(p)
    <2> USE <1>1, <1>5 DEF Typing, CheckFails, Open, FailsConnected
    <2>1. Typing'
      OBVIOUS
    <2>2. Handles'
      BY DEF Handles
    <2>3. Accounted'
      BY DEF Accounted
    <2>4. Own'
      BY DEF Own, Accounted
    <2>5. Passed'
      BY DEF Passed
    <2> QED
      BY <2>1, <2>2, <2>3, <2>4, <2>5
  <1>6. CASE OpenFails(p)
    <2> USE <1>1, <1>6 DEF Typing, OpenFails, Appended
    <2>1. Typing'
      OBVIOUS
    <2>2. Handles'
      BY DEF Handles
    <2>3. Accounted'
      BY DEF Accounted
    <2>4. Own'
      BY DEF Own, Accounted
    <2>5. Passed'
      BY DEF Passed
    <2> QED
      BY <2>1, <2>2, <2>3, <2>4, <2>5
  <1>7. CASE NoStream(p)
    <2> USE <1>1, <1>7 DEF Typing, NoStream, Open
    <2>1. Typing'
      OBVIOUS
    <2>2. Handles'
      BY DEF Handles
    <2>3. Accounted'
      BY DEF Accounted
    <2>4. Own'
      BY DEF Own, Accounted
    <2>5. Passed'
      BY DEF Passed
    <2> QED
      BY <2>1, <2>2, <2>3, <2>4, <2>5
  <1>8. CASE AddStream(p)
    <2> USE <1>1, <1>8 DEF Typing, AddStream, Appended
    <2>1. Typing'
      OBVIOUS
    <2>2. Handles'
      BY DEF Handles
    <2>3. Accounted'
      BY DEF Accounted
    <2>4. Own'
      <3>1. <<p, attempt>> \in openProducers
        BY DEF Accounted
      <3>2. \A c \in 1 .. MaxAttempts : c > attempt' => closes'[c] = 0
        BY DEF Own
      <3>3. closes'[attempt'] = 0 /\ pc' = "producers"
        BY DEF Own
      <3>4. \A q \in announcer' :
                q[2] = attempt' /\ (q \in openProducers' \/ (q \in unopened' /\ q[1] \in Lmdb))
        <4>1. \A q \in announcer :
                  q[2] = attempt /\ (q \in openProducers \/ (q \in unopened /\ q[1] \in Lmdb))
          BY DEF Own
        <4>2. announcer' = announcer \union {<<p, attempt>>} /\ <<p, attempt>>[2] = attempt
          OBVIOUS
        <4> QED
          BY <3>1, <4>1, <4>2
      <3> QED
        BY <3>2, <3>3, <3>4 DEF Own
    <2>5. Passed'
      BY DEF Passed
    <2> QED
      BY <2>1, <2>2, <2>3, <2>4, <2>5
  <1>9. CASE TooManyReplicas(p)
    <2>1. /\ UNCHANGED <<clustered, attempt, next, registry, announcer, openProducers, openDbs,
                         stopped, unopened, closes>>
          /\ \/ pc = "stream" /\ pc' = "stream" /\ halfMade' = halfMade
             \/ pc = "stream" /\ pc' = "failed" /\ halfMade' = halfMade \union {<<p, attempt>>}
          /\ Producers[next] = p
      BY <1>9 DEF TooManyReplicas, FailsConnected
    <2>2. Typing'
      BY <2>1 DEF Typing
    <2>3. Handles'
      BY <2>1 DEF Handles
    <2>4. Accounted'
      BY <2>1 DEF Accounted
    <2>5. Own'
      BY <2>1 DEF Own, Typing
    <2>6. Passed'
      BY <2>1, <1>1 DEF Passed, Typing
    <2> QED
      BY <2>2, <2>3, <2>4, <2>5, <2>6
  <1>10. CASE AddStreamFails(p)
    <2> USE <1>1, <1>10 DEF Typing, AddStreamFails, FailsConnected
    <2>1. Typing'
      OBVIOUS
    <2>2. Handles'
      BY DEF Handles
    <2>3. Accounted'
      BY DEF Accounted
    <2>4. Own'
      BY DEF Own, Accounted
    <2>5. Passed'
      BY DEF Passed
    <2> QED
      BY <2>1, <2>2, <2>3, <2>4, <2>5
  <1> QED
    BY <1>2, <1>3, <1>4, <1>5, <1>6, <1>7, <1>8, <1>9, <1>10 DEF Factory

\* Announcer.Close closes producers of calls up to the present one only.
LEMMA ClosedSafely ==
    ASSUME Typing, Own, CloseProducers
    PROVE  closes' \in [Call -> Nat] /\ \A c \in Call : c > attempt => closes'[c] = 0
  <1>1. closes' \in [Call -> Nat]
    BY DEF CloseProducers, Typing
  <1>2. ASSUME NEW c \in Call, c > attempt PROVE closes'[c] = 0
    <2>1. ASSUME NEW p \in Id, <<p, c>> \in announcer PROVE FALSE
      <3>1. <<p, c>>[2] <= attempt
        BY <2>1 DEF Typing
      <3>2. <<p, c>>[2] = c
        OBVIOUS
      <3>3. c \in Nat /\ attempt \in Nat
        BY LifecycleAssumption DEF Typing, Call
      <3> QED
        BY <1>2, <3>1, <3>2, <3>3
    <2>2. closes[c] = 0
      BY <1>2 DEF Own
    <2>3. closes'[c] = closes[c] + IF \E p \in Id : <<p, c>> \in announcer THEN 1 ELSE 0
      BY DEF CloseProducers
    <2>4. ~\E p \in Id : <<p, c>> \in announcer
      BY <2>1
    <2>5. closes'[c] = 0 + 0
      BY <2>2, <2>3, <2>4
    <2> QED
      BY <2>5
  <1> QED
    BY <1>1, <1>2

\* So do the other steps.
LEMMA OtherStep ==
    ASSUME StartInv, UNCHANGED fixed,
           \/ Connect \/ ConnectFails \/ Engage \/ Suspend \/ ProposalFails
           \/ GiveUp \/ Signal \/ Restart \/ StreamElsewhere
    PROVE  StartInv'
  <1> USE LifecycleAssumption DEF StartInv, Under, Call, fixed, nats, history
  <1>1. Producers \in Seq(Id) /\ Len(Producers) \in Nat /\ DOMAIN Producers = 1 .. Len(Producers)
    OBVIOUS
  <1>2. CASE Connect
    <2> USE <1>1, <1>2 DEF Typing, Connect
    <2>1. Typing'
      OBVIOUS
    <2>2. Handles'
      BY DEF Handles
    <2>3. Accounted'
      BY DEF Accounted
    <2>4. Own'
      BY DEF Own
    <2>5. Passed'
      BY DEF Passed
    <2> QED
      BY <2>1, <2>2, <2>3, <2>4, <2>5
  <1>3. CASE ConnectFails
    <2> attempt \in Nat /\ attempt + 1 \in 0 .. MaxAttempts
      <3>1. attempt < MaxAttempts
        BY <1>3 DEF ConnectFails
      <3>2. attempt \in 0 .. MaxAttempts /\ MaxAttempts \in Nat
        BY DEF Typing
      <3> QED
        BY <3>1, <3>2
    <2>1. /\ attempt' = attempt + 1
          /\ pc = "idle" /\ pc' = "failed" /\ openDbs' \in {openDbs, openDbs \union {attempt'}}
          /\ UNCHANGED <<clustered, next, registry, announcer, openProducers, halfMade, closes>>
      BY <1>3 DEF ConnectFails
    <2>2. Typing'
      <3>1. registry \in [Id -> 0 .. attempt + 1]
        BY <2>1 DEF Typing
      <3>2. \A q \in announcer : q[2] <= attempt + 1
        BY <2>1 DEF Typing
      <3> QED
        BY <2>1, <3>1, <3>2 DEF Typing
    <2>3. Handles'
      BY <2>1 DEF Handles
    <2>4. Accounted'
      BY <2>1 DEF Accounted
    <2>5. Own'
      <3>1. \A c \in 1 .. MaxAttempts : c > attempt + 1 => closes[c] = 0
        BY <2>1 DEF Own
      <3> QED
        BY <2>1, <3>1 DEF Own
    <2>6. Passed'
      BY <2>1 DEF Passed
    <2> QED
      BY <2>2, <2>3, <2>4, <2>5, <2>6
  <1>4. CASE Engage
    <2> USE <1>1, <1>4 DEF Typing, Engage
    <2>1. Typing'
      OBVIOUS
    <2>2. Handles'
      BY DEF Handles
    <2>3. Accounted'
      BY DEF Accounted
    <2>4. Own'
      BY DEF Own
    <2>5. Passed'
      BY DEF Passed
    <2> QED
      BY <2>1, <2>2, <2>3, <2>4, <2>5
  <1>5. CASE Suspend
    <2>1. /\ pc = "failed" /\ pc' = "idle" /\ clustered
          /\ UNCHANGED <<clustered, attempt, next, registry, announcer, halfMade>>
          /\ CloseProducers /\ openDbs' = openDbs \ {attempt}
      BY <1>5 DEF Suspend, Shut, CloseProducers
    <2>2. Typing'
      BY <2>1, ClosedSafely DEF Typing
    <2>3. Handles'
      BY <2>1 DEF Handles
    <2>4. Accounted'
      BY <2>1 DEF Accounted, CloseProducers
    <2>5. Own'
      BY <2>1, ClosedSafely DEF Own
    <2>6. Passed'
      BY <2>1 DEF Passed
    <2> QED
      BY <2>2, <2>3, <2>4, <2>5, <2>6
  <1>10. CASE ProposalFails
    <2>1. /\ pc = "idle" /\ pc' = "idle"
          /\ UNCHANGED <<clustered, attempt, next, registry, announcer, halfMade>>
          /\ CloseProducers /\ openDbs' = openDbs \ {attempt}
      BY <1>10 DEF ProposalFails, Shut, CloseProducers
    <2>2. Typing'
      BY <2>1, ClosedSafely DEF Typing
    <2>3. Handles'
      BY <2>1 DEF Handles
    <2>4. Accounted'
      BY <2>1 DEF Accounted, CloseProducers
    <2>5. Own'
      BY <2>1, ClosedSafely DEF Own
    <2>6. Passed'
      BY <2>1 DEF Passed
    <2> QED
      BY <2>2, <2>3, <2>4, <2>5, <2>6
  <1>6. CASE GiveUp
    <2> USE <1>1, <1>6 DEF Typing, GiveUp, Still
    <2>1. Typing'
      OBVIOUS
    <2>2. Handles'
      BY DEF Handles
    <2>3. Accounted'
      BY DEF Accounted
    <2>4. Own'
      BY DEF Own
    <2>5. Passed'
      BY DEF Passed
    <2> QED
      BY <2>1, <2>2, <2>3, <2>4, <2>5
  <1>7. CASE Signal
    <2>1. /\ pc \in {"engaged", "idle"} /\ pc' = "exited"
          /\ UNCHANGED <<clustered, attempt, next, registry, announcer, halfMade>>
          /\ \/ CloseProducers /\ openDbs' = openDbs \ {attempt}
             \/ UNCHANGED <<openProducers, openDbs, closes>>
      BY <1>7 DEF Signal, Shut, Still, CloseProducers
    <2>2. Typing'
      BY <2>1, ClosedSafely DEF Typing
    <2>3. Handles'
      BY <2>1 DEF Handles
    <2>4. Accounted'
      BY <2>1 DEF Accounted, CloseProducers
    <2>5. Own'
      BY <2>1, ClosedSafely DEF Own
    <2>6. Passed'
      BY <2>1 DEF Passed
    <2> QED
      BY <2>2, <2>3, <2>4, <2>5, <2>6
  <1>8. CASE Restart
    <2> USE <1>1, <1>8 DEF Typing, Restart
    <2>1. Typing'
      OBVIOUS
    <2>2. Handles'
      BY DEF Handles
    <2>3. Accounted'
      BY DEF Accounted
    <2>4. Own'
      BY DEF Own
    <2>5. Passed'
      BY DEF Passed
    <2> QED
      BY <2>1, <2>2, <2>3, <2>4, <2>5
  <1>9. CASE StreamElsewhere
    <2> USE <1>1, <1>9 DEF Typing, StreamElsewhere
    <2>1. Typing'
      OBVIOUS
    <2>2. Handles'
      BY DEF Handles
    <2>3. Accounted'
      BY DEF Accounted
    <2>4. Own'
      BY DEF Own
    <2>5. Passed'
      BY DEF Passed
    <2> QED
      BY <2>1, <2>2, <2>3, <2>4, <2>5
  <1> QED
    BY <1>2, <1>3, <1>4, <1>5, <1>6, <1>7, <1>8, <1>9, <1>10

LEMMA StartInvariant == Spec => []StartInv
  <1>1. StartInv /\ [Next]_vars => StartInv'
    <2> SUFFICES ASSUME StartInv, [Next]_vars PROVE StartInv'
      OBVIOUS
    <2>1. CASE UNCHANGED vars
      BY <2>1 DEF vars, fixed, nats, history, StartInv, Typing, Handles, Accounted, Own, Passed, Under, Building
    <2>2. ASSUME NEW p \in Id, Factory(p), UNCHANGED fixed PROVE StartInv'
      BY <2>2, FactoryStep
    <2>3. CASE Next
      BY <2>2, <2>3, OtherStep DEF Next
    <2> QED
      BY <2>1, <2>3
  <1> QED
    BY <1>1, StartInit, PTL DEF Spec

-----------------------------------------------------------------------------
\* An engaged observer announces to open producers of its own start, on its own open
\* database, but for an LMDB producer whose database did not open: whatever failed,
\* was closed and was registered in earlier starts.
THEOREM EngagedOnOwn == Spec => []EngagedUsesOwn
  <1>1. StartInv => EngagedUsesOwn
    BY DEF StartInv, Handles, Own, Under, EngagedUsesOwn
  <1> QED
    BY <1>1, StartInvariant, PTL

\* A node that waits for its next try has nothing open but the connections of
\* factories that failed behind them.
THEOREM NothingOpenBetween == Spec => []NothingLeftOpen
  <1>1. StartInv => NothingLeftOpen
    BY DEF StartInv, Handles, Accounted, NothingLeftOpen
  <1> QED
    BY <1>1, StartInvariant, PTL

\* A configured producer is left out only by a cluster node, and only when an
\* earlier start of the same process registered it.
THEOREM LeftOutAfterRetry == Spec => []LeftOutOnlyAfterRetry
  <1>1. StartInv => LeftOutOnlyAfterRetry
    <2> SUFFICES ASSUME StartInv, pc = "engaged", NEW j \in DOMAIN Producers
                 PROVE  \/ <<Producers[j], attempt>> \in announcer
                        \/ clustered /\ registry[Producers[j]] \in 1 .. attempt - 1
      BY DEF LeftOutOnlyAfterRetry, Configured
    <2>1. Producers[j] \in Id /\ j < next
      BY LifecycleAssumption DEF StartInv, Passed, Typing
    <2>2. CASE registry[Producers[j]] \in 1 .. attempt - 1
      BY <2>1, <2>2 DEF StartInv, Passed, Typing, Under
    <2> QED
      BY <2>1, <2>2 DEF StartInv, Passed, Under
  <1> QED
    BY <1>1, StartInvariant, PTL

-----------------------------------------------------------------------------
(***************************************************************************)
(* ClosedOnce. Outside a failed start the producers of a call were closed  *)
(* at most once more than there are excuses for; a failed start is about   *)
(* to close the announcer in place once more, and either these producers   *)
(* are its own and not closed yet, or its own failure is one more excuse.  *)
(* A failed proposal and a stop close it with an excuse that is new.       *)
(***************************************************************************)
Excuses(c) == {e \in excuses : e[2] >= c}

Closable(c) == \E p \in Id : <<p, c>> \in announcer

ExcusesOK ==
    /\ IsFiniteSet(excuses) /\ \A e \in excuses : e[2] \in Nat /\ e[2] <= attempt
    /\ <<"stop", attempt>> \in excuses => pc = "exited" \/ (pc = "idle" /\ announcer = {})
    /\ proposals \in Nat
    /\ \A c \in Nat, k \in Nat : <<"proposal", c, k>> \in excuses => k < proposals

ClosesOK(c) ==
    /\ closes[c] <= 1 + Cardinality(Excuses(c))
    /\ pc = "failed" /\ Closable(c) => closes[c] <= Cardinality(Excuses(c))

CloseInv == ExcusesOK /\ \A c \in Call : ClosesOK(c)

\* A new excuse counts for every earlier call.
LEMMA OneMoreExcuse ==
    ASSUME ExcusesOK, NEW c \in Nat
    PROVE  /\ Cardinality(Excuses(c)) \in Nat
           /\ \A e : /\ excuses' = excuses \union {e} /\ e \notin excuses /\ e[2] >= c =>
                           Cardinality(Excuses(c)') = Cardinality(Excuses(c)) + 1
                     /\ excuses' = excuses \union {e} /\ ~(e[2] >= c) => Excuses(c)' = Excuses(c)
  <1>1. IsFiniteSet(Excuses(c))
    BY FS_Subset DEF ExcusesOK, Excuses
  <1>2. Cardinality(Excuses(c)) \in Nat
    BY <1>1, FS_CardinalityType
  <1>3. ASSUME NEW e, excuses' = excuses \union {e}, e \notin excuses, e[2] >= c
        PROVE  Cardinality(Excuses(c)') = Cardinality(Excuses(c)) + 1
    <2>1. Excuses(c)' = Excuses(c) \union {e} /\ e \notin Excuses(c)
      BY <1>3 DEF Excuses
    <2> QED
      BY <1>1, <2>1, FS_AddElement
  <1>4. ASSUME NEW e, excuses' = excuses \union {e}, ~(e[2] >= c)
        PROVE  Excuses(c)' = Excuses(c)
    BY <1>4 DEF Excuses
  <1> QED
    BY <1>2, <1>3, <1>4

\* Closing the announcer in place closes each call's producers at most once.
LEMMA CloseOne ==
    ASSUME Typing, CloseProducers, NEW c \in Call
    PROVE  /\ closes[c] \in Nat /\ closes'[c] \in Nat
           /\ closes'[c] = IF Closable(c) THEN closes[c] + 1 ELSE closes[c]
  <1>1. closes[c] \in Nat
    BY DEF Typing
  <1>2. closes'[c] = closes[c] + IF Closable(c) THEN 1 ELSE 0
    BY DEF CloseProducers, Closable
  <1> QED
    BY <1>1, <1>2

\* Closing the announcer in place of a node that does not start, with a new excuse
\* of the latest call.
LEMMA ClosedExcused ==
    ASSUME Typing, CloseInv, CloseProducers, UNCHANGED <<attempt, announcer>>, pc' # "failed",
           NEW e, e[2] = attempt, excuses' = excuses \union {e}, announcer # {} => e \notin excuses
    PROVE  \A c \in Call : ClosesOK(c)'
  <1> SUFFICES ASSUME NEW c \in Call PROVE ClosesOK(c)'
    OBVIOUS
  <1>1. /\ c \in Nat /\ attempt \in Nat /\ Cardinality(Excuses(c)) \in Nat
    <2>1. c \in Nat /\ attempt \in Nat
      BY LifecycleAssumption DEF Typing, Call
    <2> QED
      BY <2>1, OneMoreExcuse DEF CloseInv
  <1>2. closes[c] \in Nat /\ closes'[c] = IF Closable(c) THEN closes[c] + 1 ELSE closes[c]
    BY CloseOne
  <1>3. closes[c] <= 1 + Cardinality(Excuses(c))
    BY DEF CloseInv, ClosesOK
  <1>4. CASE Closable(c)
    <2>1. PICK p \in Id : <<p, c>> \in announcer
      BY <1>4 DEF Closable
    <2>2. <<p, c>>[2] <= attempt
      BY <2>1 DEF Typing
    <2>3. e[2] >= c /\ e \notin excuses
      BY <1>1, <2>1, <2>2
    <2>4. Cardinality(Excuses(c)') = Cardinality(Excuses(c)) + 1
      BY <1>1, <2>3, OneMoreExcuse DEF CloseInv
    <2>5. closes'[c] <= 1 + Cardinality(Excuses(c)')
      BY <1>1, <1>2, <1>3, <1>4, <2>4
    <2> QED
      BY <2>5 DEF ClosesOK
  <1>5. CASE ~Closable(c)
    <2>1. IsFiniteSet(excuses')
      BY FS_AddElement DEF CloseInv, ExcusesOK
    <2>2. IsFiniteSet(Excuses(c)') /\ Excuses(c) \subseteq Excuses(c)'
      BY <2>1, FS_Subset DEF Excuses
    <2>3. Cardinality(Excuses(c)) <= Cardinality(Excuses(c)') /\ Cardinality(Excuses(c)') \in Nat
      BY <2>2, FS_Subset, FS_CardinalityType
    <2>4. closes'[c] <= 1 + Cardinality(Excuses(c)')
      BY <1>1, <1>2, <1>3, <1>5, <2>3
    <2> QED
      BY <2>4 DEF ClosesOK
  <1> QED
    BY <1>4, <1>5

LEMMA CloseNext == StartInv /\ CloseInv /\ [Next]_vars => CloseInv'
  <1> SUFFICES ASSUME StartInv, CloseInv, [Next]_vars PROVE CloseInv'
    OBVIOUS
  <1>t. /\ attempt \in Nat /\ MaxAttempts \in Nat /\ Call \subseteq Nat /\ Typing
        /\ closes \in [Call -> Nat] /\ announcer \subseteq Id \X Call
    BY LifecycleAssumption DEF StartInv, Typing, Call
  <1>c. ASSUME NEW c \in Call PROVE Cardinality(Excuses(c)) \in Nat /\ closes[c] \in Nat
    BY <1>t, OneMoreExcuse DEF CloseInv
  \* A step that closes nothing and does not fail.
  <1>q. ASSUME UNCHANGED <<closes, excuses>>, pc' # "failed" \/ UNCHANGED <<pc, announcer>>
        PROVE  \A c \in Call : ClosesOK(c)'
    BY <1>q DEF CloseInv, ClosesOK, Excuses, Closable
  <1>1. CASE UNCHANGED vars
    BY <1>1, <1>q DEF vars, history, CloseInv, ExcusesOK
  <1>2. ASSUME NEW p \in Id, Factory(p) PROVE CloseInv'
    <2>1. /\ UNCHANGED <<attempt, proposals, closes, excuses>> /\ pc \in {"producers", "stream"}
          /\ pc' \in {"producers", "stream"} \/ (pc' = "failed" /\ announcer' = announcer)
      <3> USE DEF New, Building, history, Appended, Open, FailsConnected
      <3>1. CASE Known(p) \/ Build(p) \/ BuildFails(p)
        BY <3>1 DEF Known, Build, BuildFails
      <3>2. CASE CheckFails(p) \/ OpenFails(p)
        BY <3>2 DEF CheckFails, OpenFails
      <3>3. CASE NoStream(p) \/ AddStream(p)
        BY <3>3 DEF NoStream, AddStream
      <3>4. CASE TooManyReplicas(p)
        BY <3>4 DEF TooManyReplicas
      <3>5. CASE AddStreamFails(p)
        BY <3>5 DEF AddStreamFails
      <3> QED
        BY <1>2, <3>1, <3>2, <3>3, <3>4, <3>5 DEF Factory
    <2>2. ExcusesOK'
      BY <2>1 DEF CloseInv, ExcusesOK
    <2>3. ASSUME pc' = "failed", NEW c \in Call PROVE ClosesOK(c)'
      <3>1. Excuses(c)' = Excuses(c) /\ closes'[c] = closes[c] /\ (Closable(c)' <=> Closable(c))
        BY <2>1, <2>3 DEF Excuses, Closable
      <3>2. Closable(c) => closes[c] = 0
        <4>1. ASSUME NEW r \in Id, <<r, c>> \in announcer PROVE closes[c] = 0
          <5>1. <<r, c>>[2] = attempt /\ closes[attempt] = 0
            BY <2>1, <4>1 DEF StartInv, Own, Under
          <5> QED
            BY <5>1
        <4> QED
          BY <4>1 DEF Closable
      <3>3. closes[c] <= 1 + Cardinality(Excuses(c))
        BY DEF CloseInv, ClosesOK
      <3>4. Closable(c) => closes[c] <= Cardinality(Excuses(c))
        BY <1>c, <3>2
      <3> QED
        BY <3>1, <3>3, <3>4 DEF ClosesOK
    <2> QED
      BY <2>1, <2>2, <2>3, <1>q DEF CloseInv
  <1>3. CASE Connect
    <2>1. /\ attempt' = attempt + 1 /\ UNCHANGED <<proposals, closes, excuses>> /\ pc' = "producers"
      BY <1>3 DEF Connect, history
    <2>2. ExcusesOK'
      <3>1. <<"stop", attempt + 1>> \notin excuses
        <4>1. <<"stop", attempt + 1>>[2] = attempt + 1 /\ ~(attempt + 1 <= attempt)
          BY <1>t
        <4> QED
          BY <4>1 DEF CloseInv, ExcusesOK
      <3> QED
        BY <1>t, <2>1, <3>1 DEF CloseInv, ExcusesOK
    <2> QED
      BY <2>1, <2>2, <1>q DEF CloseInv
  <1>4. CASE ConnectFails
    <2> DEFINE e == <<"unconnected", attempt + 1>>
    <2>1. /\ attempt' = attempt + 1 /\ pc = "idle" /\ pc' = "failed"
          /\ excuses' = excuses \union {e} /\ UNCHANGED <<proposals, closes, announcer>>
      BY <1>4 DEF ConnectFails
    <2>2. e \notin excuses /\ e[2] = attempt + 1 /\ <<"stop", attempt + 1>> \notin excuses
      <3>1. <<"stop", attempt + 1>>[2] = attempt + 1 /\ e[2] = attempt + 1 /\ ~(attempt + 1 <= attempt)
        BY <1>t
      <3> QED
        BY <3>1 DEF CloseInv, ExcusesOK
    <2>3. ExcusesOK'
      <3>1. IsFiniteSet(excuses')
        BY <2>1, FS_AddElement DEF CloseInv, ExcusesOK
      <3>2. <<"stop", attempt + 1>> \notin excuses'
        BY <2>1, <2>2
      <3>3. \A x \in excuses' : x[2] \in Nat /\ x[2] <= attempt + 1
        BY <1>t, <2>1, <2>2 DEF CloseInv, ExcusesOK
      <3>4. \A c \in Nat, k \in Nat : <<"proposal", c, k>> # e
        OBVIOUS
      <3>5. \A c \in Nat, k \in Nat : <<"proposal", c, k>> \in excuses' => k < proposals'
        BY <2>1, <3>4 DEF CloseInv, ExcusesOK
      <3> QED
        BY <2>1, <3>1, <3>2, <3>3, <3>5 DEF CloseInv, ExcusesOK
    <2> HIDE DEF e
    <2>4. ASSUME NEW c \in Call PROVE ClosesOK(c)'
      <3>1. closes'[c] = closes[c] /\ (Closable(c)' <=> Closable(c))
        BY <2>1 DEF Closable
      <3>2. closes[c] <= 1 + Cardinality(Excuses(c))
        BY DEF CloseInv, ClosesOK
      <3>3. c \in Nat
        BY <1>t
      <3>4. CASE c <= attempt + 1
        <4>1. Cardinality(Excuses(c)') = Cardinality(Excuses(c)) + 1
          BY <1>t, <2>1, <2>2, <3>3, <3>4, OneMoreExcuse DEF CloseInv
        <4>2. closes[c] <= Cardinality(Excuses(c)') /\ closes[c] <= 1 + Cardinality(Excuses(c)')
          BY <1>c, <3>2, <4>1
        <4> QED
          BY <3>1, <4>2 DEF ClosesOK
      <3>5. CASE ~(c <= attempt + 1)
        <4>1. Excuses(c)' = Excuses(c)
          BY <1>t, <2>1, <2>2, <3>3, <3>5, OneMoreExcuse DEF CloseInv
        <4>2. ~Closable(c)
          <5>1. ASSUME NEW p \in Id, <<p, c>> \in announcer PROVE FALSE
            <6>1. <<p, c>>[2] <= attempt
              BY <1>t, <5>1 DEF Typing
            <6> QED
              BY <1>t, <3>3, <3>5, <6>1
          <5> QED
            BY <5>1 DEF Closable
        <4> QED
          BY <3>1, <3>2, <4>1, <4>2 DEF ClosesOK
      <3> QED
        BY <3>4, <3>5
    <2> QED
      BY <2>3, <2>4 DEF CloseInv
  <1>5. CASE Engage \/ GiveUp \/ StreamElsewhere
    <2>1. /\ UNCHANGED <<attempt, announcer, proposals, closes, excuses>>
          /\ \/ pc = "producers" /\ pc' = "engaged"
             \/ pc = "failed" /\ pc' = "exited"
             \/ pc' = pc
      BY <1>5 DEF Engage, GiveUp, Still, StreamElsewhere, history
    <2>2. ExcusesOK'
      BY <2>1 DEF CloseInv, ExcusesOK
    <2> QED
      BY <2>1, <2>2, <1>q DEF CloseInv
  <1>6. CASE Suspend
    <2>1. /\ UNCHANGED <<attempt, announcer, proposals, excuses>> /\ CloseProducers
          /\ pc = "failed" /\ pc' = "idle"
      BY <1>6 DEF Suspend, Shut
    <2>2. ExcusesOK'
      BY <2>1 DEF CloseInv, ExcusesOK
    <2>3. ASSUME NEW c \in Call PROVE ClosesOK(c)'
      <3>1. closes'[c] = IF Closable(c) THEN closes[c] + 1 ELSE closes[c]
        BY <1>t, <2>1, CloseOne
      <3>2. /\ closes[c] <= 1 + Cardinality(Excuses(c))
            /\ Closable(c) => closes[c] <= Cardinality(Excuses(c))
        BY <2>1 DEF CloseInv, ClosesOK
      <3>3. closes'[c] <= 1 + Cardinality(Excuses(c))
        BY <1>c, <3>1, <3>2
      <3> QED
        BY <2>1, <3>3 DEF ClosesOK, Excuses
    <2> QED
      BY <2>2, <2>3 DEF CloseInv
  <1>7. CASE Signal
    <2>1. UNCHANGED <<attempt, announcer, proposals>> /\ pc \in {"engaged", "idle"} /\ pc' = "exited"
      BY <1>7 DEF Signal
    <2>2. CASE UNCHANGED <<closes, excuses>>
      BY <2>1, <2>2, <1>q DEF CloseInv, ExcusesOK
    <2>3. CASE pc = "engaged" /\ CloseProducers /\ UNCHANGED excuses
      <3>1. ASSUME NEW c \in Call PROVE closes'[c] <= 1 + Cardinality(Excuses(c))
        <4>1. closes'[c] = IF Closable(c) THEN closes[c] + 1 ELSE closes[c]
          BY <1>t, <2>3, CloseOne
        <4>2. Closable(c) => closes[c] = 0
          <5>1. ASSUME NEW r \in Id, <<r, c>> \in announcer PROVE closes[c] = 0
            <6>1. <<r, c>>[2] = attempt /\ closes[attempt] = 0
              BY <2>3, <5>1 DEF StartInv, Own, Under
            <6> QED
              BY <6>1
          <5> QED
            BY <5>1 DEF Closable
        <4>3. closes[c] <= 1 + Cardinality(Excuses(c))
          BY DEF CloseInv, ClosesOK
        <4> QED
          BY <1>c, <4>1, <4>2, <4>3
      <3>2. \A c \in Call : ClosesOK(c)'
        BY <2>1, <2>3, <3>1 DEF ClosesOK, Excuses
      <3> QED
        BY <2>1, <2>3, <3>2 DEF CloseInv, ExcusesOK
    <2>4. CASE pc = "idle" /\ CloseProducers /\ excuses' = excuses \union {<<"stop", attempt>>}
      <3> DEFINE e == <<"stop", attempt>>
      <3>1. e[2] = attempt /\ excuses' = excuses \union {e}
        BY <2>4
      <3>2. ExcusesOK'
        <4>1. IsFiniteSet(excuses')
          BY <2>4, FS_AddElement DEF CloseInv, ExcusesOK
        <4>2. \A x \in excuses' : x[2] \in Nat /\ x[2] <= attempt
          BY <1>t, <3>1 DEF CloseInv, ExcusesOK
        <4>3. UNCHANGED proposals /\ \A c \in Nat, k \in Nat : <<"proposal", c, k>> # e
          BY <1>7 DEF Signal
        <4>4. \A c \in Nat, k \in Nat : <<"proposal", c, k>> \in excuses' => k < proposals'
          BY <3>1, <4>3 DEF CloseInv, ExcusesOK
        <4> QED
          BY <2>1, <4>1, <4>2, <4>3, <4>4 DEF CloseInv, ExcusesOK
      <3>3. announcer # {} => e \notin excuses
        BY <2>4 DEF CloseInv, ExcusesOK
      <3>4. \A c \in Call : ClosesOK(c)'
        <4> HIDE DEF e
        <4> QED
          BY <1>t, <2>1, <2>4, <3>1, <3>3, ClosedExcused
      <3> QED
        BY <3>2, <3>4 DEF CloseInv
    <2> QED
      BY <1>7, <2>2, <2>3, <2>4 DEF Signal, Shut, Still, history
  <1>9. CASE ProposalFails
    <2> DEFINE e == <<"proposal", attempt, proposals>>
    <2>1. /\ UNCHANGED <<attempt, announcer>> /\ pc = "idle" /\ pc' = "idle" /\ CloseProducers
          /\ proposals' = proposals + 1 /\ excuses' = excuses \union {e} /\ e[2] = attempt
      BY <1>9 DEF ProposalFails, Shut
    <2>2. proposals \in Nat /\ e \notin excuses
      <3>1. ~(proposals < proposals)
        BY DEF CloseInv, ExcusesOK
      <3> QED
        BY <1>t, <3>1 DEF CloseInv, ExcusesOK
    <2>3. ExcusesOK'
      <3>1. IsFiniteSet(excuses')
        BY <2>1, FS_AddElement DEF CloseInv, ExcusesOK
      <3>2. \A x \in excuses' : x[2] \in Nat /\ x[2] <= attempt
        BY <1>t, <2>1 DEF CloseInv, ExcusesOK
      <3>3. <<"stop", attempt>> # e
        BY <2>1
      <3>4. <<"stop", attempt>> \in excuses' => announcer = {}
        BY <2>1, <3>3 DEF CloseInv, ExcusesOK
      <3>5. \A c \in Nat, k \in Nat : <<"proposal", c, k>> \in excuses' => k < proposals + 1
        <4> SUFFICES ASSUME NEW c \in Nat, NEW k \in Nat, <<"proposal", c, k>> \in excuses'
                     PROVE  k < proposals + 1
          OBVIOUS
        <4>1. CASE <<"proposal", c, k>> \in excuses
          BY <2>2, <4>1 DEF CloseInv, ExcusesOK
        <4>2. CASE <<"proposal", c, k>> = e
          BY <2>2, <4>2
        <4> QED
          BY <2>1, <4>1, <4>2
      <3> HIDE DEF e
      <3> QED
        BY <2>1, <2>2, <3>1, <3>2, <3>4, <3>5 DEF ExcusesOK
    <2>4. \A c \in Call : ClosesOK(c)'
      <3> HIDE DEF e
      <3> QED
        BY <1>t, <2>1, <2>2, ClosedExcused
    <2> QED
      BY <2>3, <2>4 DEF CloseInv
  <1>8. CASE Restart
    <2>1. UNCHANGED <<attempt, proposals, closes, excuses>> /\ pc' = "idle" /\ announcer' = {}
      BY <1>8 DEF Restart, history
    <2> QED
      BY <2>1, <1>q DEF CloseInv, ExcusesOK
  <1> QED
    BY <1>1, <1>2, <1>3, <1>4, <1>5, <1>6, <1>7, <1>8, <1>9 DEF Next

\* The producers of a start are closed once, whatever fails and in whatever order
\* starts, failures, signals and restarts come; again only for a later start that
\* failed before it had an announcer, a later proposal that failed before a start, or
\* a stop of the waiting node: once for each.
THEOREM ProducersClosedOnce == Spec => []ClosedOnce
  <1>1. Init => CloseInv
    <2> SUFFICES ASSUME Init PROVE CloseInv
      OBVIOUS
    <2>1. ExcusesOK
      BY FS_EmptySet DEF Init, ExcusesOK
    <2>2. ASSUME NEW c \in Call PROVE ClosesOK(c)
      <3>1. Cardinality(Excuses(c)) = 0 /\ closes[c] = 0 /\ pc = "idle"
        BY FS_EmptySet DEF Init, Excuses
      <3> QED
        BY <3>1 DEF ClosesOK
    <2> QED
      BY <2>1, <2>2 DEF CloseInv
  <1>2. CloseInv => ClosedOnce
    BY DEF CloseInv, ClosesOK, Excuses, ClosedOnce
  <1>3. StartInv /\ CloseInv /\ [Next]_vars => CloseInv'
    BY CloseNext
  <1> QED
    BY <1>1, <1>2, <1>3, StartInvariant, PTL DEF Spec
=============================================================================
