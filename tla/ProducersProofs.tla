-------------------------- MODULE ProducersProofs --------------------------
(***************************************************************************)
(* Theorems about Producers: about STAN, for any number of Sends, lost     *)
(* connections, failed attempts and publishes without an acknowledgement;  *)
(* and about the producers that keep the torrents, for any number of       *)
(* announcements, failed calls and crashes.                                *)
(***************************************************************************)
EXTENDS Producers, FiniteSetTheorems, TLAPS

Places == {"none", "called", "trying", "connected", "done"}

\* The handlers that hold the wait group.
Holding(where) == {k \in Stan!Conn : where[k] \in {"trying", "connected"}}

Types ==
    /\ client \in Stan!Conn \union {Stan!Nil} /\ made \in Stan!Conn
    /\ reconnect \in [Stan!Conn -> Places]
    /\ reconnectWaiter = Cardinality(Holding(reconnect))

\* Only the newest connection is live or being replaced; it is the client, but for the
\* time after an attempt that failed.
NewestOnly ==
    /\ live \subseteq {made}
    /\ made \in live => reconnect[made] = "none"
    /\ made \notin live => reconnect[made] \in {"called", "trying"} /\ made <= MaxLosses
    /\ \A k \in Stan!Conn :
           /\ k < made => reconnect[k] \in {"connected", "done"}
           /\ k > made => reconnect[k] = "none"
    /\ client = made \/ (client = Stan!Nil /\ reconnect[made] = "trying")

HandlerInv == Types /\ NewestOnly

-----------------------------------------------------------------------------
\* The wait group counts the handlers that hold it.
LEMMA Held ==
    ASSUME NEW where \in [Stan!Conn -> Places], NEW k \in Stan!Conn, NEW l \in Places
    PROVE  LET moved == [where EXCEPT ![k] = l]
           IN  /\ IsFiniteSet(Holding(where)) /\ Cardinality(Holding(where)) \in Nat
               /\ where[k] \in {"trying", "connected"} => Cardinality(Holding(where)) > 0
               /\ (where[k] \in {"trying", "connected"} <=> l \in {"trying", "connected"}) =>
                      Cardinality(Holding(moved)) = Cardinality(Holding(where))
               /\ where[k] \notin {"trying", "connected"} /\ l \in {"trying", "connected"} =>
                      Cardinality(Holding(moved)) = Cardinality(Holding(where)) + 1
               /\ where[k] \in {"trying", "connected"} /\ l \notin {"trying", "connected"} =>
                      Cardinality(Holding(moved)) = Cardinality(Holding(where)) - 1
  <1> DEFINE moved == [where EXCEPT ![k] = l]
             H == Holding(where)
  <1>1. IsFiniteSet(Stan!Conn)
    BY StanAssumption, FS_Interval DEF Stan!Conn
  <1>2. IsFiniteSet(H) /\ Cardinality(H) \in Nat
    BY <1>1, FS_Subset, FS_CardinalityType DEF Holding
  <1>3. where[k] \in {"trying", "connected"} => Cardinality(H) > 0
    <2> SUFFICES ASSUME where[k] \in {"trying", "connected"} PROVE Cardinality(H) > 0
      OBVIOUS
    <2>1. k \in H
      BY DEF Holding
    <2>2. H # {}
      BY <2>1
    <2>3. Cardinality(H) # 0
      BY <1>2, <2>2, FS_EmptySet
    <2> QED
      BY <1>2, <2>3
  <1>4. (where[k] \in {"trying", "connected"} <=> l \in {"trying", "connected"}) => Holding(moved) = H
    BY DEF Holding
  <1>5. where[k] \notin {"trying", "connected"} /\ l \in {"trying", "connected"} =>
            Cardinality(Holding(moved)) = Cardinality(H) + 1
    <2> SUFFICES ASSUME where[k] \notin {"trying", "connected"}, l \in {"trying", "connected"}
                 PROVE  Cardinality(Holding(moved)) = Cardinality(H) + 1
      OBVIOUS
    <2>1. Holding(moved) = H \union {k} /\ k \notin H
      BY DEF Holding
    <2> QED
      BY <1>2, <2>1, FS_AddElement
  <1>6. where[k] \in {"trying", "connected"} /\ l \notin {"trying", "connected"} =>
            Cardinality(Holding(moved)) = Cardinality(H) - 1
    <2> SUFFICES ASSUME where[k] \in {"trying", "connected"}, l \notin {"trying", "connected"}
                 PROVE  Cardinality(Holding(moved)) = Cardinality(H) - 1
      OBVIOUS
    <2>1. Holding(moved) = H \ {k} /\ k \in H
      BY DEF Holding
    <2> QED
      BY <1>2, <2>1, FS_RemoveElement
  <1> QED
    BY <1>2, <1>3, <1>4, <1>5, <1>6

LEMMA HandlerInit == Stan!Init => HandlerInv
  <1> SUFFICES ASSUME Stan!Init PROVE HandlerInv
    OBVIOUS
  <1>1. Holding(reconnect) = {}
    BY DEF Stan!Init, Holding
  <1>2. reconnectWaiter = Cardinality(Holding(reconnect))
    BY <1>1, FS_EmptySet DEF Stan!Init
  <1> QED
    BY <1>2, StanAssumption DEF Stan!Init, HandlerInv, Types, NewestOnly, Stan!Conn, Places, Stan!Nil

\* A step of a Send leaves the connections and their handlers alone.
LEMMA SendKeeps ==
    ASSUME NEW g \in Send, Stan!Call(g) \/ Stan!SendStep(g)
    PROVE  UNCHANGED <<client, live, Stan!handler>>
  BY DEF Stan!SendStep, Stan!Call, Stan!Wait, Stan!Wake, Stan!Publish, Stan!PublishTimesOut, Stan!PublishFails, Stan!PublishNil

LEMMA HandlerStep ==
    ASSUME HandlerInv, NEW k \in Stan!Conn, Stan!Lose(k) \/ Stan!Reconnect(k)
    PROVE  HandlerInv'
  <1> USE DEF HandlerInv, Stan!Conn, Places, Stan!Nil
  <1> DEFINE to(l) == [reconnect EXCEPT ![k] = l]
  <1>0. reconnect \in [Stan!Conn -> Places] /\ k \in Nat /\ made \in Nat /\ MaxLosses \in Nat
    BY StanAssumption DEF Types
  <1>1. CASE Stan!Lose(k)
    <2>1. /\ k = made /\ k <= MaxLosses /\ live' = {} /\ reconnect' = to("called")
          /\ reconnect[k] = "none"
          /\ UNCHANGED <<client, made, reconnectWaiter>>
      BY <1>1 DEF Stan!Lose, Stan!Move, NewestOnly
    <2>2. Cardinality(Holding(to("called"))) = Cardinality(Holding(reconnect))
      BY <1>0, <2>1, Held
    <2>3. Types'
      BY <2>1, <2>2 DEF Types
    <2>4. NewestOnly'
      BY <1>0, <2>1 DEF NewestOnly
    <2> QED
      BY <2>3, <2>4
  <1>2. CASE Stan!Add(k)
    <2>1. /\ reconnect[k] = "called" /\ reconnect' = to("trying")
          /\ reconnectWaiter' = reconnectWaiter + 1
          /\ UNCHANGED <<client, live, made>>
      BY <1>2 DEF Stan!Add, Stan!At, Stan!Move
    <2>2. Cardinality(Holding(to("trying"))) = Cardinality(Holding(reconnect)) + 1
      BY <1>0, <2>1, Held
    <2>3. Types'
      BY <2>1, <2>2 DEF Types
    <2>4. NewestOnly'
      BY <1>0, <2>1 DEF NewestOnly
    <2> QED
      BY <2>3, <2>4
  <1>3. CASE Stan!Connect(k)
    <2>1. /\ reconnect[k] = "trying" /\ reconnect' = to("connected")
          /\ made' = made + 1 /\ client' = made + 1 /\ live' = live \union {made + 1}
          /\ reconnectWaiter' = reconnectWaiter
      BY <1>3 DEF Stan!Connect, Stan!At, Stan!Move
    <2>2. Cardinality(Holding(to("connected"))) = Cardinality(Holding(reconnect))
      BY <1>0, <2>1, Held
    <2>3. k = made /\ made \notin live /\ live = {} /\ made <= MaxLosses
      BY <1>0, <2>1 DEF NewestOnly
    <2>4. made + 1 \in Stan!Conn
      BY <1>0, <2>3
    <2>5. Types'
      BY <2>1, <2>2, <2>4 DEF Types
    <2>6. NewestOnly'
      BY <1>0, <2>1, <2>3, <2>4 DEF NewestOnly
    <2> QED
      BY <2>5, <2>6
  <1>4. CASE Stan!ConnectFails(k)
    <2>1. /\ reconnect[k] = "trying" /\ client' = Stan!Nil
          /\ UNCHANGED <<live, made, reconnect, reconnectWaiter>>
      BY <1>4 DEF Stan!ConnectFails, Stan!At
    <2>2. k = made
      BY <1>0, <2>1 DEF NewestOnly
    <2>3. Types'
      BY <2>1 DEF Types
    <2>4. NewestOnly'
      BY <2>1, <2>2 DEF NewestOnly
    <2> QED
      BY <2>3, <2>4
  <1>5. CASE Stan!Done(k)
    <2>1. /\ reconnect[k] = "connected" /\ reconnect' = to("done")
          /\ reconnectWaiter' = reconnectWaiter - 1
          /\ UNCHANGED <<client, live, made>>
      BY <1>5 DEF Stan!Done, Stan!At, Stan!Move
    <2>2. Cardinality(Holding(to("done"))) = Cardinality(Holding(reconnect)) - 1
      BY <1>0, <2>1, Held
    <2>3. Types'
      BY <2>1, <2>2 DEF Types
    <2>4. NewestOnly'
      BY <1>0, <2>1 DEF NewestOnly
    <2> QED
      BY <2>3, <2>4
  <1> QED
    BY <1>1, <1>2, <1>3, <1>4, <1>5 DEF Stan!Reconnect

LEMMA HandlerInvariant == ProducersSpec => []HandlerInv
  <1>1. HandlerInv /\ [ProducersNext]_<<stanProducer, stan, vars>> => HandlerInv'
    <2> SUFFICES ASSUME HandlerInv, [ProducersNext]_<<stanProducer, stan, vars>> PROVE HandlerInv'
      OBVIOUS
    <2>1. CASE UNCHANGED <<client, live, Stan!handler>>
      BY <2>1 DEF HandlerInv, Types, NewestOnly, Stan!handler
    <2>2. CASE StanStep
      BY <2>1, <2>2, HandlerStep, SendKeeps DEF StanStep, Stan!Next
    <2>3. CASE UNCHANGED stan
      BY <2>1, <2>3 DEF stan, Stan!handler
    <2> QED
      BY <2>2, <2>3 DEF ProducersNext, TorrentStep
  <1>2. ProducersInit => HandlerInv
    BY HandlerInit DEF ProducersInit
  <1> QED
    BY <1>1, <1>2, PTL DEF ProducersSpec

\* The wait group is held for as long as the client is nil, however many connections
\* are lost and however many handlers overlap.
LEMMA NilIsGuarded == ProducersSpec => []Stan!NilGuarded
  <1>1. HandlerInv => Stan!NilGuarded
    <2> SUFFICES ASSUME HandlerInv PROVE Stan!NilGuarded
      OBVIOUS
    <2>1. reconnect \in [Stan!Conn -> Places] /\ made \in Stan!Conn /\ made # Stan!Nil
      BY DEF HandlerInv, Types, Stan!Conn, Stan!Nil
    <2>2. reconnect[made] = "trying" => reconnectWaiter > 0
      BY <2>1, Held DEF HandlerInv, Types, Places
    <2> QED
      BY <2>1, <2>2 DEF HandlerInv, NewestOnly, Stan!NilGuarded
  <1> QED
    BY <1>1, HandlerInvariant, PTL

-----------------------------------------------------------------------------
\* Who waits has found the group held, and it has been held since: the Done that
\* frees it leaves nobody waiting.
WaitersHeld == DOMAIN call = Send /\ \A g \in Send : call[g] = "waiting" => reconnectWaiter > 0

LEMMA WaitersStep == WaitersHeld /\ HandlerInv /\ Stan!Next => WaitersHeld'
  <1> SUFFICES ASSUME WaitersHeld, HandlerInv, Stan!Next PROVE WaitersHeld'
    OBVIOUS
  <1> USE DEF WaitersHeld, Stan!sends, Stan!handler, Stan!Goto
  <1>0. /\ reconnectWaiter \in Nat
        /\ \A k \in Stan!Conn : reconnect[k] = "connected" => reconnectWaiter > 0
    <2>1. reconnectWaiter = Cardinality(Holding(reconnect)) /\ reconnect \in [Stan!Conn -> Places]
      BY DEF HandlerInv, Types
    <2>2. made \in Stan!Conn /\ "done" \in Places
      BY DEF HandlerInv, Types, Places
    <2> QED
      BY <2>1, <2>2, Held
  <1>1. ASSUME NEW k \in Stan!Conn,
               Stan!Lose(k) \/ Stan!Add(k) \/ Stan!Connect(k) \/ Stan!ConnectFails(k)
        PROVE  WaitersHeld'
    BY <1>0, <1>1 DEF Stan!Lose, Stan!Add, Stan!Connect, Stan!ConnectFails
  <1>2. ASSUME NEW k \in Stan!Conn, Stan!Done(k) PROVE WaitersHeld'
    <2>1. reconnectWaiter' \in Nat
      BY <1>0, <1>2 DEF Stan!Done, Stan!At
    <2>2. CASE reconnectWaiter' = 0
      <3>1. call' = [g \in Send |-> IF call[g] = "waiting" THEN "woken" ELSE call[g]]
        BY <1>2, <2>2, Zenon DEF Stan!Done
      <3> QED
        BY <3>1
    <2>3. CASE reconnectWaiter' # 0
      <3>1. call' = call
        BY <1>2, <2>3, Zenon DEF Stan!Done
      <3>2. reconnectWaiter' > 0
        BY <2>1, <2>3
      <3> QED
        BY <3>1, <3>2
    <2> QED
      BY <2>2, <2>3
  <1>3. ASSUME NEW g \in Send, Stan!Wait(g) PROVE WaitersHeld'
    BY <1>0, <1>3 DEF Stan!Wait
  <1>4. ASSUME NEW g \in Send,
               Stan!Call(g) \/ Stan!Wake(g) \/ Stan!Publish(g) \/ Stan!PublishTimesOut(g)
                   \/ Stan!PublishFails(g) \/ Stan!PublishNil(g)
        PROVE  WaitersHeld'
    BY <1>4 DEF Stan!Call, Stan!Wake, Stan!Publish, Stan!PublishTimesOut, Stan!PublishFails,
        Stan!PublishNil, Stan!Retry
  <1> QED
    BY <1>1, <1>2, <1>3, <1>4 DEF Stan!Next, Stan!Reconnect, Stan!SendStep

\* No Send of STAN waits for a group that nobody will leave, for any number of Sends
\* and lost connections: the safety that SendEnds rests on.
LEMMA NobodyIsStranded == ProducersSpec => []Stan!NobodyStranded
  <1>1. ProducersInit => WaitersHeld
    BY DEF ProducersInit, Stan!Init, WaitersHeld
  <1>2. WaitersHeld /\ HandlerInv /\ [ProducersNext]_<<stanProducer, stan, vars>> => WaitersHeld'
    <2> SUFFICES ASSUME WaitersHeld, HandlerInv, [ProducersNext]_<<stanProducer, stan, vars>>
                 PROVE  WaitersHeld'
      OBVIOUS
    <2>1. CASE StanStep
      BY <2>1, WaitersStep DEF StanStep
    <2>2. CASE UNCHANGED stan
      BY <2>2 DEF stan, WaitersHeld
    <2> QED
      BY <2>1, <2>2 DEF ProducersNext, TorrentStep
  <1>3. WaitersHeld /\ HandlerInv => Stan!NobodyStranded
    <2> SUFFICES ASSUME WaitersHeld, HandlerInv, NEW g \in Send, call[g] = "waiting"
                 PROVE  \E k \in Stan!Conn : reconnect[k] \in {"trying", "connected"}
      BY DEF Stan!NobodyStranded
    <2>1. Cardinality(Holding(reconnect)) # 0
      BY DEF WaitersHeld, HandlerInv, Types
    <2>2. Holding(reconnect) # {}
      BY <2>1, FS_EmptySet
    <2> QED
      BY <2>2 DEF Holding
  <1> QED
    BY <1>1, <1>2, <1>3, HandlerInvariant, PTL DEF ProducersSpec

\* The wait group of STAN is held for as long as the client is nil, and who waits for it
\* has a handler at work that will leave it, for any number of Sends and lost connections.
THEOREM WaitGroupWorks == ProducersSpec => []GroupWorks
  <1>1. Stan!NilGuarded /\ Stan!NobodyStranded => GroupWorks
    BY DEF GroupWorks, Stan!GroupWorks
  <1> QED
    BY <1>1, NilIsGuarded, NobodyIsStranded, PTL

-----------------------------------------------------------------------------
\* A Send that is not done has reached the server through publishes that timed out only.
PaidFor ==
    /\ copies \in [Send -> Nat] /\ timeouts \in Nat /\ DOMAIN call = Send
    /\ \A g \in Send : copies[g] <= timeouts + IF call[g] = "done" THEN 1 ELSE 0

LEMMA SendStepPaid == PaidFor /\ Stan!Next => PaidFor'
  <1> SUFFICES ASSUME PaidFor, Stan!Next PROVE PaidFor'
    OBVIOUS
  <1> USE DEF PaidFor, Stan!sends, Stan!handler, Stan!Goto, Stan!In
  <1>1. ASSUME UNCHANGED Stan!sends PROVE PaidFor'
    BY <1>1
  <1>2. ASSUME NEW k \in Stan!Conn, Stan!Done(k) PROVE PaidFor'
    BY <1>2 DEF Stan!Done
  <1>3. ASSUME NEW k \in Stan!Conn,
               Stan!Lose(k) \/ Stan!Add(k) \/ Stan!Connect(k) \/ Stan!ConnectFails(k)
        PROVE  PaidFor'
    BY <1>1, <1>3 DEF Stan!Lose, Stan!Add, Stan!Connect, Stan!ConnectFails
  <1>4. ASSUME NEW g \in Send, Stan!Call(g) \/ Stan!Wait(g) \/ Stan!Wake(g) \/ Stan!PublishNil(g)
        PROVE  PaidFor'
    BY <1>4 DEF Stan!Call, Stan!Wait, Stan!Wake, Stan!PublishNil
  <1>5. ASSUME NEW g \in Send, Stan!Publish(g) PROVE PaidFor'
    BY <1>5 DEF Stan!Publish, Stan!Received
  <1>6. ASSUME NEW g \in Send, Stan!PublishTimesOut(g) PROVE PaidFor'
    BY <1>6 DEF Stan!PublishTimesOut, Stan!Received, Stan!Retry
  <1>7. ASSUME NEW g \in Send, Stan!PublishFails(g) PROVE PaidFor'
    BY <1>7 DEF Stan!PublishFails, Stan!Retry
  <1> QED
    BY <1>2, <1>3, <1>4, <1>5, <1>6, <1>7 DEF Stan!Next, Stan!Reconnect, Stan!SendStep

LEMMA PaidInvariant == ProducersSpec => []PaidFor
  <1>1. ProducersInit => PaidFor
    BY DEF ProducersInit, Stan!Init, PaidFor
  <1>2. PaidFor /\ [ProducersNext]_<<stanProducer, stan, vars>> => PaidFor'
    <2> SUFFICES ASSUME PaidFor, [ProducersNext]_<<stanProducer, stan, vars>> PROVE PaidFor'
      OBVIOUS
    <2>1. CASE StanStep
      BY <2>1, SendStepPaid DEF StanStep
    <2>2. CASE UNCHANGED stan
      BY <2>2 DEF stan, PaidFor
    <2> QED
      BY <2>1, <2>2 DEF ProducersNext, TorrentStep
  <1> QED
    BY <1>1, <1>2, PTL DEF ProducersSpec

\* An announcement reaches the STAN server once, and once more at most for each
\* publish without an acknowledgement: a lost connection alone never repeats it.
THEOREM OnceButForTimeouts == ProducersSpec => []OncePerTimeout
  <1>1. PaidFor => OncePerTimeout
    BY DEF PaidFor, OncePerTimeout, Stan!OncePerTimeout
  <1> QED
    BY <1>1, PaidInvariant, PTL

-----------------------------------------------------------------------------
\* The tries of a Send and the attempts of a handler are counted up to the last one,
\* after which the Send is done and the handler has panicked.
Counted ==
    /\ failures \in [Stan!Conn -> 0 .. DefaultPingMaxOut]
    /\ ~crashed => \A k \in Stan!Conn : failures[k] < DefaultPingMaxOut
    /\ call \in [Send -> {"idle", "try", "waiting", "woken", "publish", "done"}]
    /\ tries \in [Send -> 0 .. DefaultPingMaxOut]
    /\ \A g \in Send : call[g] # "done" => tries[g] < DefaultPingMaxOut
    /\ crashed \in BOOLEAN

LEMMA CountedStep == Counted /\ Stan!Next => Counted'
  <1> SUFFICES ASSUME Counted, Stan!Next PROVE Counted'
    OBVIOUS
  <1> USE StanAssumption DEF Counted, Stan!sends, Stan!handler, Stan!Goto, Stan!In, Stan!At
  <1>1. ASSUME NEW k \in Stan!Conn, Stan!Lose(k) \/ Stan!Add(k) \/ Stan!Connect(k) PROVE Counted'
    BY <1>1 DEF Stan!Lose, Stan!Add, Stan!Connect
  <1>2. ASSUME NEW k \in Stan!Conn, Stan!ConnectFails(k) PROVE Counted'
    <2>1. ~crashed /\ failures[k] < DefaultPingMaxOut /\ failures' = [failures EXCEPT ![k] = @ + 1]
          /\ crashed' = (failures'[k] = DefaultPingMaxOut) /\ call' = call /\ tries' = tries
      BY <1>2 DEF Stan!ConnectFails
    <2>2. failures[k] + 1 \in 0 .. DefaultPingMaxOut
      BY <2>1
    <2>3. failures' \in [Stan!Conn -> 0 .. DefaultPingMaxOut] /\ failures'[k] = failures[k] + 1
          /\ \A j \in Stan!Conn \ {k} : failures'[j] = failures[j]
      BY <2>1, <2>2
    <2>4. crashed' \in BOOLEAN
      BY <2>1
    <2>5. ~crashed' => \A j \in Stan!Conn : failures'[j] < DefaultPingMaxOut
      <3>1. ~crashed' => failures'[k] # DefaultPingMaxOut
        BY <2>1, Zenon
      <3>2. ~crashed
        BY <2>1, Zenon
      <3>3. failures'[k] # DefaultPingMaxOut => failures'[k] < DefaultPingMaxOut
        BY <2>2, <2>3
      <3>4. \A j \in Stan!Conn \ {k} : failures'[j] < DefaultPingMaxOut
        BY <2>3, <3>2
      <3> QED
        BY <3>1, <3>3, <3>4, Zenon
    <2> QED
      BY <2>1, <2>3, <2>4, <2>5
  <1>3. ASSUME NEW k \in Stan!Conn, Stan!Done(k) PROVE Counted'
    BY <1>3 DEF Stan!Done
  <1>4. ASSUME NEW g \in Send, Stan!Call(g) \/ Stan!Wait(g) \/ Stan!Wake(g) \/ Stan!PublishNil(g) \/ Stan!Publish(g)
        PROVE  Counted'
    BY <1>4 DEF Stan!Call, Stan!Wait, Stan!Wake, Stan!PublishNil, Stan!Publish
  <1>5. ASSUME NEW g \in Send, Stan!PublishTimesOut(g) \/ Stan!PublishFails(g) PROVE Counted'
    BY <1>5 DEF Stan!PublishTimesOut, Stan!PublishFails, Stan!Retry
  <1> QED
    BY <1>1, <1>2, <1>3, <1>4, <1>5 DEF Stan!Next, Stan!Reconnect, Stan!SendStep

LEMMA CountedInvariant == ProducersSpec => []Counted
  <1>1. ProducersInit => Counted
    <2> SUFFICES ASSUME Stan!Init PROVE Counted
      BY DEF ProducersInit
    <2>1. crashed \in BOOLEAN
      BY DEF Stan!Init
    <2>2. failures \in [Stan!Conn -> 0 .. DefaultPingMaxOut] /\ tries \in [Send -> 0 .. DefaultPingMaxOut]
      BY StanAssumption DEF Stan!Init
    <2>3. \A k \in Stan!Conn : failures[k] < DefaultPingMaxOut
      BY StanAssumption DEF Stan!Init
    <2>4. \A g \in Send : tries[g] < DefaultPingMaxOut
      BY StanAssumption DEF Stan!Init
    <2>5. call \in [Send -> {"idle", "try", "waiting", "woken", "publish", "done"}]
      BY DEF Stan!Init
    <2> QED
      BY <2>1, <2>2, <2>3, <2>4, <2>5 DEF Counted
  <1>2. Counted /\ [ProducersNext]_<<stanProducer, stan, vars>> => Counted'
    <2> SUFFICES ASSUME Counted, [ProducersNext]_<<stanProducer, stan, vars>> PROVE Counted'
      OBVIOUS
    <2>1. CASE StanStep
      BY <2>1, CountedStep DEF StanStep
    <2>2. CASE UNCHANGED stan
      BY <2>2 DEF stan, Counted
    <2> QED
      BY <2>1, <2>2 DEF ProducersNext, TorrentStep
  <1> QED
    BY <1>1, <1>2, PTL DEF ProducersSpec

-----------------------------------------------------------------------------
(* The producers that keep the torrents *)

\* The calls of a Send, by producer.
Calls ==
    CASE producer = "redis" -> {"HMGet", "HDel", "HSetHash", "HSetName"}
      [] producer = "sqldb" -> {"delete", "commit"}
      [] producer = "lmdb"  -> {"put"}
      [] producer = "file"  -> {"open", "write"}

KeepTypes ==
    /\ producer \in {"redis", "sqldb", "lmdb", "file"} /\ long \subseteq Version
    /\ hashes \subseteq 1 .. latest /\ current \in 0 .. latest /\ latest \in Version \union {None}
    /\ head \in Version \union {None} /\ tail \in Version \union {None}
    /\ pc \in [Id -> Calls \union {"unsent", "done"}]
    /\ version \in [Id -> Version \union {None}]
    /\ previous \in [Id -> SUBSET Version]
    /\ overlapped \subseteq Id /\ disturbed \subseteq Id
    /\ races \in Nat /\ faults \in 0 .. MaxFaults

\* Announcements are numbered as they come, and only they race.
InOrder ==
    /\ \E n \in 0 .. MaxSends : Announced = 1 .. n /\ races <= n
    /\ Announced = {} => latest = None
    /\ \A g \in Announced : version[g] \in 1 .. latest

\* What the Send of the latest version has done so far, beside nobody.
InHand(g) ==
    /\ pc[g] = "HSetName" => version[g] \in hashes
    /\ pc[g] = "write" => head = None /\ tail = None
    /\ pc[g] = "done" => Holds(version[g])

HeldInv ==
    \A g \in Id :
        Announced = 1 .. g /\ g \notin overlapped =>
            Running \subseteq {g} /\ (g \notin disturbed => InHand(g))

KeepInv == KeepTypes /\ InOrder /\ HeldInv

\* What the step of a Send does to the Sends.
LEMMA OwnStep ==
    ASSUME KeepTypes, NEW g \in Id, Redis(g) \/ Sqldb(g) \/ Lmdb(g) \/ File(g)
    PROVE  /\ g \in Running /\ UNCHANGED <<fixed, args, overlapped, races>>
           /\ \E l \in Calls \union {"done"} : pc' = [pc EXCEPT ![g] = l]
           /\ \/ faults' = faults /\ disturbed' = disturbed
              \/ faults' = faults + 1 /\ faults < MaxFaults /\ disturbed' = disturbed \union {g}
  <1> USE DEF Calls, Works, Fault, Goto, Running
  <1>1. CASE Redis(g)
    <2>1. producer = "redis"
      BY <1>1 DEF KeepTypes, Redis, HMGet, HMGetFails, HDel, HDelFails, HSetHash, HSetHashFails, HSetName, HSetNameFails
    <2> QED
      BY <1>1, <2>1 DEF Redis, HMGet, AfterHMGet, HMGetFails, HDel, HDelFails, HSetHash, HSetHashFails, HSetName, HSetNameFails
  <1>2. CASE Sqldb(g)
    <2>1. producer = "sqldb"
      BY <1>2 DEF KeepTypes, Sqldb, Delete, InsertAndCommit, SqlFails
    <2> QED
      BY <1>2, <2>1 DEF Sqldb, Delete, InsertAndCommit, SqlFails
  <1>3. CASE Lmdb(g)
    BY <1>3 DEF Lmdb, Put, PutFails
  <1>4. CASE File(g)
    <2>1. producer = "file"
      BY <1>4 DEF KeepTypes, File, Open, Write, FileFails
    <2> QED
      BY <1>4, <2>1 DEF File, Open, Write, FileFails
  <1> QED
    BY <1>1, <1>2, <1>3, <1>4

LEMMA OwnSends ==
    ASSUME KeepTypes, NEW g \in Id, g \in Running, UNCHANGED fixed,
           NEW l \in Calls \union {"done"}, pc' = [pc EXCEPT ![g] = l]
    PROVE  /\ Announced' = Announced
           /\ Running' = IF l = "done" THEN Running \ {g} ELSE Running
           /\ pc' \in [Id -> Calls' \union {"unsent", "done"}] /\ Calls' = Calls
  <1>1. l # "unsent"
    BY DEF Calls, KeepTypes
  <1>2. Calls' = Calls
    BY DEF Calls, fixed
  <1> QED
    BY <1>1, <1>2 DEF KeepTypes, Announced, Running

\* What it does to the torrent.
LEMMA OwnData ==
    ASSUME KeepTypes, NEW g \in Id, version[g] \in 1 .. latest,
           Redis(g) \/ Sqldb(g) \/ Lmdb(g) \/ File(g)
    PROVE  /\ hashes' \subseteq hashes \union {version[g]}
           /\ current' \in {current, version[g]}
           /\ head' \in {head, version[g], None} /\ tail' \in {tail, version[g], None}
           /\ previous' \in [Id -> SUBSET Version]
  <1>1. previous \in [Id -> SUBSET Version] /\ hashes \subseteq Version /\ current \in Version \union {None}
    BY TorrentProducersAssumption DEF KeepTypes, Version, None
  <1>2. CASE Redis(g)
    BY <1>1, <1>2 DEF Redis, HMGet, HMGetFails, HDel, HDelFails, HSetHash, HSetHashFails,
       HSetName, HSetNameFails, disk
  <1>3. CASE Sqldb(g)
    BY <1>1, <1>3 DEF Sqldb, Delete, InsertAndCommit, SqlFails, Commit, disk
  <1>4. CASE Lmdb(g)
    BY <1>1, <1>4 DEF Lmdb, Put, PutFails, disk
  <1>5. CASE File(g)
    BY <1>1, <1>5 DEF File, Open, Write, FileFails
  <1> QED
    BY <1>2, <1>3, <1>4, <1>5

LEMMA KeepInit == Init => KeepInv
  <1> SUFFICES ASSUME Init PROVE KeepInv
    OBVIOUS
  <1>1. Announced = {} /\ Running = {}
    BY DEF Init, Announced, Running
  <1>2. KeepTypes
    BY TorrentProducersAssumption DEF Init, KeepTypes, None, Version
  <1>3. InOrder
    <2>1. Announced = 1 .. 0 /\ 0 \in 0 .. MaxSends /\ races <= 0
      BY <1>1, TorrentProducersAssumption DEF Init
    <2> QED
      BY <1>1, <2>1 DEF Init, InOrder
  <1>4. HeldInv
    BY <1>1 DEF Init, HeldInv, Id, InHand
  <1> QED
    BY <1>2, <1>3, <1>4 DEF KeepInv

LEMMA OwnKeeps ==
    ASSUME KeepInv, NEW g \in Id, Redis(g) \/ Sqldb(g) \/ Lmdb(g) \/ File(g)
    PROVE  KeepTypes' /\ InOrder'
  <1> USE DEF KeepInv
  <1>1. /\ g \in Running /\ UNCHANGED <<fixed, args, overlapped, races>>
        /\ \/ faults' = faults /\ disturbed' = disturbed
           \/ faults' = faults + 1 /\ faults < MaxFaults /\ disturbed' = disturbed \union {g}
    BY OwnStep
  <1>2. Announced' = Announced /\ pc' \in [Id -> Calls' \union {"unsent", "done"}]
    BY <1>1, OwnStep, OwnSends
  <1>3. version[g] \in 1 .. latest
    BY <1>1 DEF InOrder, Announced, Running
  <1>4. KeepTypes'
    <2>1. version[g] \in Version /\ latest \in Nat
      BY <1>3, TorrentProducersAssumption DEF KeepTypes, None, Version
    <2>2. hashes' \subseteq 1 .. latest' /\ current' \in 0 .. latest'
      <3>1. hashes' \subseteq hashes \union {version[g]} /\ current' \in {current, version[g]}
        BY <1>3, OwnData
      <3> QED
        BY <1>1, <1>3, <2>1, <3>1 DEF KeepTypes, args
    <2>3. head' \in Version \union {None} /\ tail' \in Version \union {None}
          /\ previous' \in [Id -> SUBSET Version]
      BY <1>3, <2>1, OwnData DEF KeepTypes
    <2>4. faults' \in 0 .. MaxFaults /\ disturbed' \subseteq Id
      BY <1>1, TorrentProducersAssumption DEF KeepTypes
    <2> QED
      BY <1>1, <1>2, <2>2, <2>3, <2>4 DEF KeepTypes, fixed, args
  <1>5. InOrder'
    BY <1>1, <1>2 DEF InOrder, args
  <1> QED
    BY <1>4, <1>5

LEMMA OwnHeld ==
    ASSUME KeepInv, NEW g \in Id, Redis(g) \/ Sqldb(g) \/ Lmdb(g) \/ File(g)
    PROVE  HeldInv'
  <1> USE DEF KeepInv
  <1>1. g \in Running /\ UNCHANGED <<fixed, args, overlapped>>
        /\ (disturbed' = disturbed \/ g \in disturbed') /\ disturbed \subseteq disturbed'
    BY OwnStep
  <1>2. Announced' = Announced /\ Running' \subseteq Running
    BY <1>1, OwnStep, OwnSends
  <1>3. SUFFICES ASSUME NEW h \in Id, Announced = 1 .. h, h \notin overlapped, h \notin disturbed' PROVE InHand(h)'
    BY <1>1, <1>2 DEF HeldInv
  <1>4. h = g /\ g \notin disturbed /\ InHand(g)
    BY <1>1, <1>3 DEF HeldInv
  <1>5. CASE Redis(g)
    BY <1>1, <1>3, <1>4, <1>5
    DEF KeepTypes, Calls, Redis, HMGet, AfterHMGet, HMGetFails, HDel, HDelFails, HSetHash, HSetHashFails, HSetName, HSetNameFails,
        Fault, Goto, InHand, Holds, fixed, args, disk
  <1>6. CASE Sqldb(g)
    BY <1>1, <1>3, <1>4, <1>6
    DEF KeepTypes, Calls, Sqldb, Delete, InsertAndCommit, SqlFails, Commit, Fault, Goto, InHand, Holds, fixed, args, disk
  <1>7. CASE Lmdb(g)
    BY <1>1, <1>3, <1>4, <1>7
    DEF KeepTypes, Calls, Lmdb, Put, PutFails, Fault, Goto, InHand, Holds, fixed, args, disk
  <1>8. CASE File(g)
    BY <1>1, <1>3, <1>4, <1>8
    DEF KeepTypes, Calls, File, Open, Write, FileFails, Fault, Goto, InHand, Holds, fixed, args, disk
  <1> QED
    BY <1>5, <1>6, <1>7, <1>8

\* The numbers of two initial segments.
LEMMA SameLast ==
    ASSUME NEW g \in Nat \ {0}, NEW h \in Nat, 1 .. g - 1 = 1 .. h
    PROVE  h = g - 1
  <1>1. CASE h > g - 1
    <2>1. h \in 1 .. h /\ h \notin 1 .. g - 1
      BY <1>1
    <2> QED
      BY <2>1
  <1>2. CASE h < g - 1
    <2>1. g - 1 \in 1 .. g - 1 /\ g - 1 \notin 1 .. h
      BY <1>2
    <2> QED
      BY <2>1
  <1> QED
    BY <1>1, <1>2

LEMMA AnnounceSends ==
    ASSUME KeepTypes, NEW g \in Id, NEW v \in Version, NEW new \in BOOLEAN, Announce(g, v, new)
    PROVE  /\ g \in Nat \ {0} /\ Announced = 1 .. g - 1 /\ Announced' = 1 .. g
           /\ pc[g] = "unsent" /\ pc'[g] = FirstCall(new) /\ FirstCall(new) \in Calls
           /\ pc' \in [Id -> Calls' \union {"unsent", "done"}] /\ Calls' = Calls
           /\ \A h \in Id \ {g} : pc'[h] = pc[h] /\ version'[h] = version[h]
           /\ version'[g] = v /\ version' \in [Id -> Version \union {None}]
           /\ Running' = Running \union {g}
  <1>1. g \in Nat \ {0}
    BY DEF Id
  <1>2. Announced = 1 .. g - 1 /\ g \notin Announced
    BY <1>1 DEF Announce
  <1>3. FirstCall(new) \in Calls /\ FirstCall(new) \notin {"unsent", "done"}
    BY DEF KeepTypes, FirstCall, Calls
  <1>4. pc[g] = "unsent" /\ pc' = [pc EXCEPT ![g] = FirstCall(new)]
        /\ version' = [version EXCEPT ![g] = v]
    BY <1>2 DEF Announce, Goto, Announced
  <1>5. Calls' = Calls
    BY DEF Calls, Announce, fixed
  <1>6. Announced' = Announced \union {g} /\ Running' = Running \union {g}
    BY <1>3, <1>4 DEF KeepTypes, Announced, Running
  <1>7. 1 .. g = (1 .. g - 1) \union {g}
    BY <1>1
  <1> QED
    BY <1>1, <1>2, <1>3, <1>4, <1>5, <1>6, <1>7 DEF KeepTypes

LEMMA AnnounceKeeps ==
    ASSUME KeepInv, NEW g \in Id, NEW v \in Version, NEW new \in BOOLEAN, Announce(g, v, new)
    PROVE  KeepInv'
  <1> USE TorrentProducersAssumption DEF KeepInv
  <1>1. /\ g \in Nat \ {0} /\ Announced = 1 .. g - 1 /\ Announced' = 1 .. g
        /\ pc' \in [Id -> Calls' \union {"unsent", "done"}]
        /\ \A h \in Id \ {g} : version'[h] = version[h]
        /\ version'[g] = v /\ version' \in [Id -> Version \union {None}]
        /\ pc[g] = "unsent" /\ pc'[g] = FirstCall(new) /\ FirstCall(new) \in Calls
        /\ Running' = Running \union {g}
    BY AnnounceSends
  <1>2. /\ latest' = v /\ v \in {latest, latest + 1} /\ v \in 1 .. MaxSends
        /\ UNCHANGED <<fixed, disk, previous, disturbed>>
        /\ (faults' = faults \/ (faults < MaxFaults /\ faults' = faults + 1))
        /\ \/ Running = {} /\ overlapped' = overlapped /\ races' = races
           \/ overlapped' = overlapped \union Running \union {g} /\ races' = races + 1
    BY DEF Announce, Version
  <1>3. KeepTypes'
    <2>1. overlapped' \subseteq Id
      BY <1>2 DEF KeepTypes, Running
    <2>2. latest \in Nat
      BY DEF KeepTypes, None, Version
    <2>3. hashes' \subseteq 1 .. latest' /\ current' \in 0 .. latest'
      BY <1>2, <2>2 DEF KeepTypes, disk
    <2> QED
      BY <1>1, <1>2, <2>1, <2>3 DEF KeepTypes, fixed, disk
  <1>4. InOrder'
    <2>1. PICK n \in 0 .. MaxSends : Announced = 1 .. n /\ races <= n
      BY DEF InOrder
    <2>2. n = g - 1
      BY <1>1, <2>1, SameLast
    <2>3. g \in 0 .. MaxSends /\ races' <= g
      BY <1>1, <1>2, <2>1, <2>2 DEF Id, KeepTypes
    <2>4. \A h \in Announced' : version'[h] \in 1 .. latest'
      <3>1. latest \in Nat
        BY DEF KeepTypes, None, Version
      <3> SUFFICES ASSUME NEW h \in 1 .. g PROVE version'[h] \in 1 .. latest'
        BY <1>1
      <3>2. CASE h = g
        BY <1>1, <1>2, <3>2
      <3>3. CASE h # g
        <4>1. h \in Announced /\ h \in Id
          BY <1>1, <3>3 DEF Announced
        <4> QED
          BY <1>1, <1>2, <3>1, <3>3, <4>1 DEF InOrder
      <3> QED
        BY <3>2, <3>3
    <2>5. g \in Announced'
      BY <1>1
    <2> QED
      BY <1>1, <2>3, <2>4, <2>5 DEF InOrder
  <1>5. HeldInv'
    <2> SUFFICES ASSUME NEW h \in Id, Announced' = 1 .. h, h \notin overlapped'
                 PROVE  Running' \subseteq {h} /\ InHand(h)'
      BY DEF HeldInv
    <2>1. h = g
      <3>1. h \in Nat /\ g + 1 \in Nat \ {0} /\ 1 .. (g + 1) - 1 = 1 .. h
        BY <1>1 DEF Id
      <3>2. h = (g + 1) - 1
        BY <3>1, SameLast
      <3> QED
        BY <1>1, <3>2
    <2>2. Running = {} /\ Running' = {g}
      BY <1>1, <1>2, <2>1
    <2>3. pc'[h] \notin {"HSetName", "write", "done"}
      BY <1>1, <2>1 DEF KeepTypes, FirstCall, Calls
    <2> QED
      BY <2>1, <2>2, <2>3 DEF InHand
  <1> QED
    BY <1>3, <1>4, <1>5

LEMMA CrashKeeps ==
    ASSUME KeepInv, Crash
    PROVE  KeepInv'
  <1> USE DEF KeepInv, Crash, fixed, args, disk
  <1>1. /\ Announced' = Announced /\ Running' = {} /\ Calls' = Calls
        /\ \A h \in Id : h \in Running \/ pc'[h] = pc[h]
    BY DEF Announced, Running, Calls
  <1>2. KeepTypes'
    BY <1>1, TorrentProducersAssumption DEF KeepTypes, Running
  <1>3. InOrder'
    BY <1>1 DEF InOrder
  <1>4. HeldInv'
    BY <1>1 DEF HeldInv, InHand, Holds
  <1> QED
    BY <1>2, <1>3, <1>4

LEMMA KeepStep == KeepInv /\ [Next]_vars => KeepInv'
  <1> SUFFICES ASSUME KeepInv, [Next]_vars PROVE KeepInv'
    OBVIOUS
  <1>1. ASSUME NEW g \in Id, \E v \in Version, new \in BOOLEAN : Announce(g, v, new) PROVE KeepInv'
    BY <1>1, AnnounceKeeps
  <1>2. ASSUME NEW g \in Id, Redis(g) \/ Sqldb(g) \/ Lmdb(g) \/ File(g) PROVE KeepInv'
    BY <1>2, OwnKeeps, OwnHeld DEF KeepInv
  <1>3. CASE Crash
    BY <1>3, CrashKeeps
  <1>4. CASE UNCHANGED vars
    <2> USE <1>4 DEF KeepInv, vars, fixed, args, disk
    <2>1. Announced' = Announced /\ Running' = Running /\ Calls' = Calls
      BY DEF Announced, Running, Calls
    <2>2. KeepTypes' /\ InOrder'
      BY <2>1 DEF KeepTypes, InOrder
    <2>3. HeldInv'
      BY <2>1 DEF HeldInv, InHand, Holds
    <2> QED
      BY <2>2, <2>3
  <1> QED
    BY <1>1, <1>2, <1>3, <1>4 DEF Next

LEMMA KeepInvariant == ProducersSpec => []KeepInv
  <1>1. ProducersInit => KeepInv
    BY KeepInit DEF ProducersInit
  <1>2. KeepInv /\ [ProducersNext]_<<stanProducer, stan, vars>> => KeepInv'
    BY KeepStep DEF ProducersNext, TorrentStep, StanStep
  <1> QED
    BY <1>1, <1>2, PTL DEF ProducersSpec

\* The version announced last is there when its Send ends, whatever earlier Sends,
\* failures and crashes have left, if this one was alone and met no fault.
THEOREM LatestIsHeld == ProducersSpec => []LatestHeld
  <1>1. KeepInv => LatestHeld
    BY DEF KeepInv, HeldInv, InHand, LatestHeld
  <1> QED
    BY <1>1, KeepInvariant, PTL

-----------------------------------------------------------------------------
\* The table: what is there, what is coming, and the versions that a Send starts from.
Coming  == {version[g] : g \in Running}
Pointer == IF producer = "redis" THEN {current} ELSE {}
Present == hashes \union Coming \union Pointer \union {latest}

\* The version that the Sends at work are going to remove: one of them has read it, or
\* the first to read will; or it is gone but for the key of the name.
Leaving(x) ==
    /\ x < latest /\ x \notin Coming /\ x \in hashes \union Pointer
    /\ \/ \E g \in Running : pc[g] \in {"HDel", "commit"} /\ x \in previous[g]
       \/ /\ Running # {} /\ \A g \in Running : pc[g] \in {"HMGet", "delete"}
          /\ producer = "redis" => x = current
       \/ x \notin hashes /\ Running # {}

Allowed == races + faults + 1

\* A Send adds a version and removes one, but for races and faults.
StaleInv ==
    producer \in {"redis", "sqldb"} =>
        /\ IsFiniteSet(Present)
        /\ \/ Cardinality(Present) <= Allowed
           \/ Cardinality(Present) <= Allowed + 1 /\ \E x \in Present : Leaving(x)

TableInv == KeepInv /\ StaleInv

LEMMA OneFewer ==
    ASSUME NEW D, NEW E, NEW x \in D \ E, IsFiniteSet(D), E \subseteq D
    PROVE  IsFiniteSet(E) /\ Cardinality(E) + 1 <= Cardinality(D) /\ Cardinality(E) \in Nat
  <1>1. IsFiniteSet(D \ {x}) /\ Cardinality(D \ {x}) = Cardinality(D) - 1
    BY FS_RemoveElement
  <1>2. IsFiniteSet(E) /\ Cardinality(E) <= Cardinality(D \ {x})
    BY <1>1, FS_Subset
  <1> QED
    BY <1>1, <1>2, FS_CardinalityType

LEMMA OneMore ==
    ASSUME NEW D, NEW E, NEW v, IsFiniteSet(D), E \subseteq D \union {v}
    PROVE  /\ IsFiniteSet(E) /\ Cardinality(E) <= Cardinality(D) + 1
           /\ Cardinality(E) \in Nat /\ Cardinality(D) \in Nat
  <1>1. IsFiniteSet(D \union {v}) /\ Cardinality(D \union {v}) \in {Cardinality(D), Cardinality(D) + 1}
    BY FS_AddElement
  <1>2. IsFiniteSet(E) /\ Cardinality(E) <= Cardinality(D \union {v})
    BY <1>1, FS_Subset
  <1> QED
    BY <1>1, <1>2, FS_CardinalityType

LEMMA NoMore ==
    ASSUME NEW D, NEW E, IsFiniteSet(D), E \subseteq D
    PROVE  /\ IsFiniteSet(E) /\ Cardinality(E) <= Cardinality(D)
           /\ Cardinality(E) \in Nat /\ Cardinality(D) \in Nat
  BY FS_Subset, FS_CardinalityType

\* What leaves has left, or is going to.
Handed == \A x \in Present : Leaving(x) => x \notin Present' \/ Leaving(x)'

LEMMA LessOrHanded ==
    ASSUME StaleInv, producer' = producer, Allowed \in Nat, Allowed' \in Nat, Allowed' >= Allowed,
           Present' \subseteq Present, Handed
    PROVE  StaleInv'
  <1> SUFFICES ASSUME producer \in {"redis", "sqldb"} PROVE StaleInv'
    BY DEF StaleInv
  <1>1. /\ IsFiniteSet(Present') /\ Cardinality(Present') <= Cardinality(Present)
        /\ Cardinality(Present') \in Nat /\ Cardinality(Present) \in Nat
    BY NoMore DEF StaleInv
  <1>2. CASE Cardinality(Present) <= Allowed
    BY <1>1, <1>2 DEF StaleInv
  <1>3. CASE Cardinality(Present) <= Allowed + 1 /\ \E x \in Present : Leaving(x)
    <2>1. PICK x \in Present : Leaving(x)
      BY <1>3
    <2>2. CASE x \notin Present'
      <3>1. Cardinality(Present') + 1 <= Cardinality(Present)
        BY <2>2, OneFewer DEF StaleInv
      <3> QED
        BY <1>1, <1>3, <3>1 DEF StaleInv
    <2>3. CASE x \in Present' /\ Leaving(x)'
      BY <1>1, <1>3, <2>3 DEF StaleInv
    <2> QED
      BY <2>1, <2>2, <2>3 DEF Handed
  <1> QED
    BY <1>2, <1>3 DEF StaleInv

\* A fault or a race pays for what leaves, or for a version.
LEMMA PaidByFault ==
    ASSUME StaleInv, producer' = producer, Allowed \in Nat, Allowed' \in Nat, NEW v,
           \/ Present' \subseteq Present /\ Allowed' >= Allowed + 1
           \/ Present' \subseteq Present \union {v} /\ Allowed' >= Allowed + 1 /\ Handed
           \/ Present' \subseteq Present \union {v} /\ Allowed' >= Allowed + 2
    PROVE  StaleInv'
  <1> SUFFICES ASSUME producer \in {"redis", "sqldb"} PROVE StaleInv'
    BY DEF StaleInv
  <1>1. /\ IsFiniteSet(Present') /\ Cardinality(Present') <= Cardinality(Present) + 1
        /\ Cardinality(Present') \in Nat /\ Cardinality(Present) \in Nat
    BY OneMore DEF StaleInv
  <1>2. Cardinality(Present) <= Allowed + 1
    BY <1>1 DEF StaleInv
  <1>3. CASE Present' \subseteq Present /\ Allowed' >= Allowed + 1
    <2>1. Cardinality(Present') <= Cardinality(Present)
      BY <1>3, NoMore DEF StaleInv
    <2> QED
      BY <1>1, <1>2, <1>3, <2>1 DEF StaleInv
  <1>4. CASE Present' \subseteq Present \union {v} /\ Allowed' >= Allowed + 2
    BY <1>1, <1>2, <1>4 DEF StaleInv
  <1>5. CASE Present' \subseteq Present \union {v} /\ Allowed' >= Allowed + 1 /\ Handed
    <2>1. CASE Cardinality(Present) <= Allowed
      BY <1>1, <1>5, <2>1 DEF StaleInv
    <2>2. CASE \E x \in Present : Leaving(x)
      <3>1. PICK x \in Present : Leaving(x)
        BY <2>2
      <3>2. CASE x \notin Present'
        <4>1. IsFiniteSet(Present \ {x}) /\ Cardinality(Present \ {x}) + 1 <= Cardinality(Present)
              /\ Cardinality(Present \ {x}) \in Nat
          BY OneFewer DEF StaleInv
        <4>2. Present' \subseteq (Present \ {x}) \union {v}
          BY <1>5, <3>2
        <4>3. Cardinality(Present') <= Cardinality(Present \ {x}) + 1
          BY <4>1, <4>2, OneMore
        <4> QED
          BY <1>1, <1>2, <1>5, <4>1, <4>3 DEF StaleInv
      <3>3. CASE x \in Present' /\ Leaving(x)'
        BY <1>1, <1>2, <1>5, <3>3 DEF StaleInv
      <3> QED
        BY <1>5, <3>1, <3>2, <3>3 DEF Handed
    <2> QED
      BY <2>1, <2>2 DEF StaleInv
  <1> QED
    BY <1>3, <1>4, <1>5

\* When nothing ran, a version that comes makes another one leave, or replaces it.
LEMMA PaidByLeaving ==
    ASSUME StaleInv, producer' = producer, Allowed \in Nat, Allowed' = Allowed, Running = {}, NEW v,
           Present' \subseteq Present \union {v},
           \/ \E x \in Present' : Leaving(x)'
           \/ \E x \in Present : x \notin Present'
           \/ v \in Present
    PROVE  StaleInv'
  <1> SUFFICES ASSUME producer \in {"redis", "sqldb"} PROVE StaleInv'
    BY DEF StaleInv
  <1>1. /\ IsFiniteSet(Present') /\ Cardinality(Present') <= Cardinality(Present) + 1
        /\ Cardinality(Present') \in Nat /\ Cardinality(Present) \in Nat
    BY OneMore DEF StaleInv
  <1>2. Cardinality(Present) <= Allowed
    BY DEF StaleInv, Leaving
  <1>3. CASE \E x \in Present' : Leaving(x)'
    BY <1>1, <1>2, <1>3 DEF StaleInv
  <1>4. ASSUME NEW x \in Present, x \notin Present' PROVE StaleInv'
    <2>1. IsFiniteSet(Present \ {x}) /\ Cardinality(Present \ {x}) + 1 <= Cardinality(Present)
          /\ Cardinality(Present \ {x}) \in Nat
      BY OneFewer DEF StaleInv
    <2>2. Present' \subseteq (Present \ {x}) \union {v}
      BY <1>4
    <2>3. Cardinality(Present') <= Cardinality(Present \ {x}) + 1
      BY <2>1, <2>2, OneMore
    <2> QED
      BY <1>1, <1>2, <2>1, <2>3 DEF StaleInv
  <1>5. CASE v \in Present
    <2>1. Present' \subseteq Present
      BY <1>5
    <2>2. Cardinality(Present') <= Cardinality(Present)
      BY <2>1, NoMore DEF StaleInv
    <2> QED
      BY <1>1, <1>2, <2>2 DEF StaleInv
  <1> QED
    BY <1>3, <1>4, <1>5

LEMMA OwnPresent ==
    ASSUME KeepInv, NEW g \in Id, Redis(g) \/ Sqldb(g) \/ Lmdb(g) \/ File(g)
    PROVE  /\ Present' \subseteq Present /\ Coming' \subseteq Coming /\ version[g] \in Coming
           /\ latest' = latest /\ version' = version /\ producer' = producer /\ races' = races
           /\ Allowed \in Nat /\ Allowed' \in Nat /\ Allowed' \in {Allowed, Allowed + 1}
  <1> USE DEF KeepInv
  <1>1. /\ g \in Running /\ UNCHANGED <<fixed, args, overlapped, races>>
        /\ faults' = faults \/ faults' = faults + 1
    BY OwnStep
  <1>2. Running' \subseteq Running
    BY <1>1, OwnStep, OwnSends
  <1>3. version[g] \in 1 .. latest
    BY <1>1 DEF InOrder, Announced, Running
  <1>4. hashes' \subseteq hashes \union {version[g]} /\ current' \in {current, version[g]}
    BY <1>3, OwnData
  <1>5. Coming' \subseteq Coming /\ version[g] \in Coming
    BY <1>1, <1>2 DEF Coming, args
  <1>6. Present' \subseteq Present
    BY <1>1, <1>4, <1>5 DEF Present, Pointer, fixed, args
  <1>7. Allowed \in Nat /\ Allowed' \in Nat /\ Allowed' \in {Allowed, Allowed + 1}
    BY <1>1, TorrentProducersAssumption DEF Allowed, KeepTypes
  <1> QED
    BY <1>1, <1>5, <1>6, <1>7 DEF fixed, args

LEMMA OwnHanded ==
    ASSUME KeepInv, producer \in {"redis", "sqldb"}, faults' = faults,
           NEW g \in Id, Redis(g) \/ Sqldb(g) \/ Lmdb(g) \/ File(g)
    PROVE  Handed
  <1> USE DEF KeepInv
  <1>1. /\ Coming' \subseteq Coming /\ version[g] \in Coming
        /\ latest' = latest /\ version' = version /\ producer' = producer
    BY OwnPresent
  <1>2. SUFFICES ASSUME NEW x \in Present, Leaving(x), x \in Present' PROVE Leaving(x)'
    BY DEF Handed
  <1>3. x < latest' /\ x \notin Coming' /\ x \in hashes' \union Pointer' /\ x # version[g]
    BY <1>1, <1>2, TorrentProducersAssumption DEF Leaving, Present, KeepTypes, None, Version
  <1>4. g \in Running /\ pc[g] \notin {"unsent", "done"} /\ faults \in Nat /\ faults # faults + 1
    BY OwnStep, TorrentProducersAssumption DEF Running, KeepTypes
  <1>5. \/ \E h \in Running : pc[h] \in {"HDel", "commit"} /\ x \in previous[h]
        \/ (\A h \in Running : pc[h] \in {"HMGet", "delete"}) /\ (producer = "redis" => x = current)
        \/ x \notin hashes
    BY <1>2 DEF Leaving
  <1>6. SUFFICES \/ \E h \in Running' : pc'[h] \in {"HDel", "commit"} /\ x \in previous'[h]
                 \/ x \notin hashes' /\ Running' # {}
    BY <1>3 DEF Leaving
  <1>7. pc \in [Id -> Calls \union {"unsent", "done"}] /\ previous \in [Id -> SUBSET Version]
    BY DEF KeepTypes
  <1>8. CASE Redis(g)
    <2>1. producer = "redis"
      BY <1>7, <1>8 DEF Calls, KeepTypes, Redis, HMGet, HMGetFails, HDel, HDelFails, HSetHash, HSetHashFails, HSetName, HSetNameFails
    <2>2. CASE HMGet(g)
      <3>1. /\ hashes' = hashes /\ previous' = [previous EXCEPT ![g] = {current} \ {None}]
            /\ pc' = [pc EXCEPT ![g] = AfterHMGet({current} \ {None})] /\ pc[g] = "HMGet"
        BY <1>7, <2>2 DEF HMGet, Goto, disk
      <3>2. Running' = Running
        BY <1>4, <1>7, <3>1 DEF Running, AfterHMGet
      <3>3. CASE \A h \in Running : pc[h] \in {"HMGet", "delete"}
        <4>1. x = current \/ x \notin hashes
          BY <1>5, <2>1, <3>3
        <4>2. CASE x = None
          <5>1. x \notin hashes
            BY <4>2, TorrentProducersAssumption DEF KeepTypes, None, Version
          <5> QED
            BY <1>4, <3>1, <3>2, <5>1
        <4>3. CASE x # None /\ x = current
          BY <1>4, <1>7, <3>1, <3>2, <4>3 DEF AfterHMGet
        <4> QED
          BY <1>4, <3>1, <3>2, <4>1, <4>2, <4>3
      <3>4. CASE \E h \in Running : pc[h] \in {"HDel", "commit"} /\ x \in previous[h]
        <4>1. PICK h \in Running : pc[h] \in {"HDel", "commit"} /\ x \in previous[h]
          BY <3>4
        <4>2. h # g /\ h \in Id
          BY <3>1, <4>1 DEF Running
        <4> QED
          BY <1>7, <3>1, <3>2, <4>1, <4>2
      <3> QED
        BY <1>4, <1>5, <3>1, <3>2, <3>3, <3>4
    <2>3. CASE HDel(g)
      <3>1. /\ hashes' = hashes \ previous[g] /\ previous' = [previous EXCEPT ![g] = {}]
            /\ pc' = [pc EXCEPT ![g] = "HSetHash"] /\ pc[g] = "HDel"
        BY <2>3 DEF HDel, Goto
      <3>2. Running' = Running
        BY <1>4, <1>7, <3>1 DEF Running
      <3> QED
        BY <1>4, <1>5, <1>7, <3>1, <3>2 DEF Running
    <2>4. CASE HSetHash(g)
      <3>1. /\ hashes' = hashes \union {version[g]} /\ previous' = previous
            /\ pc' = [pc EXCEPT ![g] = "HSetName"] /\ pc[g] = "HSetHash"
        BY <2>4 DEF HSetHash, Goto
      <3>2. Running' = Running
        BY <1>4, <1>7, <3>1 DEF Running
      <3> QED
        BY <1>3, <1>4, <1>5, <1>7, <3>1, <3>2 DEF Running
    <2>5. CASE HSetName(g)
      <3>1. /\ hashes' = hashes /\ previous' = previous /\ current' = version[g]
            /\ pc' = [pc EXCEPT ![g] = "done"] /\ pc[g] = "HSetName"
        BY <2>5 DEF HSetName, Goto
      <3>2. Running' = Running \ {g}
        BY <1>4, <1>7, <3>1 DEF Running
      <3>3. x \in hashes
        BY <1>1, <1>3, <2>1, <3>1 DEF Pointer
      <3> QED
        BY <1>4, <1>5, <1>7, <3>1, <3>2, <3>3 DEF Running
    <2> QED
      BY <1>4, <1>8, <2>2, <2>3, <2>4, <2>5 DEF Redis, HMGetFails, HDelFails, HSetHashFails, HSetNameFails, Fault
  <1>9. CASE Sqldb(g)
    <2>1. producer = "sqldb"
      BY <1>7, <1>9 DEF Calls, KeepTypes, Sqldb, Delete, InsertAndCommit, SqlFails
    <2>2. x \in hashes
      BY <1>2, <2>1 DEF Leaving, Pointer
    <2>3. CASE Delete(g)
      <3>1. /\ previous' = [previous EXCEPT ![g] = hashes]
            /\ pc' = [pc EXCEPT ![g] = "commit"] /\ pc[g] = "delete"
        BY <2>3 DEF Delete, Goto
      <3>2. Running' = Running
        BY <1>4, <1>7, <3>1 DEF Running
      <3> QED
        BY <1>4, <1>7, <2>2, <3>1, <3>2 DEF Running
    <2>4. CASE InsertAndCommit(g)
      <3>1. /\ hashes' = (hashes \ previous[g]) \union {version[g]} /\ previous' = [previous EXCEPT ![g] = {}]
            /\ pc' = [pc EXCEPT ![g] = "done"] /\ pc[g] = "commit"
        BY <2>4 DEF InsertAndCommit, Commit, Goto
      <3>2. Running' = Running \ {g}
        BY <1>4, <1>7, <3>1 DEF Running
      <3>3. x \notin previous[g]
        BY <1>1, <1>3, <2>1, <3>1 DEF Pointer
      <3> QED
        BY <1>4, <1>5, <1>7, <2>2, <3>1, <3>2, <3>3 DEF Running
    <2> QED
      BY <1>4, <1>9, <2>3, <2>4 DEF Sqldb, SqlFails, Fault
  <1>10. CASE Lmdb(g) \/ File(g)
    BY <1>7, <1>10 DEF Calls, KeepTypes, Lmdb, Put, PutFails, File, Open, Write, FileFails
  <1> QED
    BY <1>8, <1>9, <1>10

LEMMA OwnStale ==
    ASSUME TableInv, NEW g \in Id, Redis(g) \/ Sqldb(g) \/ Lmdb(g) \/ File(g)
    PROVE  StaleInv'
  <1> USE DEF TableInv
  <1>1. /\ Present' \subseteq Present /\ producer' = producer /\ races' = races
        /\ Allowed \in Nat /\ Allowed' \in Nat /\ Allowed' \in {Allowed, Allowed + 1}
    BY OwnPresent
  <1>2. CASE producer \notin {"redis", "sqldb"}
    BY <1>1, <1>2 DEF StaleInv
  <1>3. CASE producer \in {"redis", "sqldb"} /\ faults' = faults
    <2>1. Handed
      BY <1>3, OwnHanded
    <2>2. Allowed' >= Allowed
      BY <1>1
    <2> QED
      BY <1>1, <2>1, <2>2, LessOrHanded
  <1>4. CASE faults' = faults + 1
    <2>1. Allowed' >= Allowed + 1
      BY <1>1, <1>4 DEF Allowed, KeepInv, KeepTypes
    <2> QED
      BY <1>1, <2>1, PaidByFault
  <1> QED
    BY <1>2, <1>3, <1>4, OwnStep DEF KeepInv

LEMMA AnnounceStale ==
    ASSUME TableInv, NEW g \in Id, NEW v \in Version, NEW new \in BOOLEAN, Announce(g, v, new)
    PROVE  StaleInv'
  <1> USE TorrentProducersAssumption DEF TableInv, KeepInv
  <1>1. /\ g \in Nat \ {0} /\ Announced = 1 .. g - 1 /\ Announced' = 1 .. g
        /\ pc[g] = "unsent" /\ pc'[g] = FirstCall(new)
        /\ \A h \in Id \ {g} : pc'[h] = pc[h] /\ version'[h] = version[h]
        /\ version'[g] = v /\ Running' = Running \union {g}
    BY AnnounceSends
  <1>2. /\ latest' = v /\ v \in {latest, latest + 1} /\ v # None
        /\ hashes' = hashes /\ current' = current /\ producer' = producer /\ previous' = previous
        /\ IF new /\ g > 1 THEN faults' = faults + 1 ELSE faults' = faults
        /\ IF Running = {} THEN races' = races ELSE races' = races + 1
    BY DEF Announce, disk, fixed
  <1>3. Coming' = Coming \union {v} /\ g \notin Running /\ Running \subseteq Id
    BY <1>1 DEF Coming, Running
  <1>4. Pointer' = Pointer /\ Present' \subseteq Present \union {v}
    BY <1>2, <1>3 DEF Present, Pointer
  <1>5. latest \in Nat /\ v \in Nat /\ hashes \subseteq 1 .. latest /\ current \in 0 .. latest
    BY DEF KeepTypes, Version, None
  <1>6. races \in Nat /\ faults \in Nat /\ Allowed \in Nat /\ Allowed' \in Nat
    BY <1>2 DEF KeepTypes, Allowed
  <1>7. CASE producer \notin {"redis", "sqldb"}
    BY <1>2, <1>7 DEF StaleInv
  <1>8. CASE producer \in {"redis", "sqldb"} /\ Running = {} /\ new /\ g > 1
    <2>1. Allowed' >= Allowed + 1
      BY <1>2, <1>6, <1>8 DEF Allowed
    <2>2. Handed
      BY <1>8 DEF Handed, Leaving
    <2> QED
      BY <1>2, <1>4, <1>6, <2>1, <2>2, PaidByFault
  <1>9. CASE producer \in {"redis", "sqldb"} /\ Running = {} /\ ~(new /\ g > 1)
    <2>1. Allowed' = Allowed
      BY <1>2, <1>9 DEF Allowed
    <2>2. CASE v \in Present
      BY <1>2, <1>4, <1>6, <1>9, <2>1, <2>2, PaidByLeaving
    <2>3. CASE v \notin Present
      <3>1. v = latest + 1 /\ Running' = {g} /\ Coming' = {v}
        BY <1>1, <1>2, <1>3, <1>9, <2>3 DEF Present, Coming
      <3>2. CASE producer = "redis"
        <4>1. current < latest' /\ current \notin Coming' /\ current \in hashes' \union Pointer'
          BY <1>2, <1>5, <3>1, <3>2 DEF Pointer
        <4>2. CASE ~new
          <5>1. pc'[g] = "HMGet"
            BY <1>1, <3>2, <4>2 DEF FirstCall
          <5>2. Leaving(current)'
            BY <1>2, <3>1, <4>1, <5>1 DEF Leaving
          <5> QED
            BY <1>2, <1>4, <1>6, <1>9, <2>1, <4>1, <5>2, PaidByLeaving DEF Present
        <4>3. CASE new
          <5>1. g = 1
            BY <1>1, <1>9, <4>3
          <5>2. Announced = {}
            BY <1>1, <5>1
          <5>3. latest = 0 /\ hashes = {}
            BY <1>5, <5>2 DEF InOrder, None
          <5>4. Leaving(current)'
            BY <1>2, <3>1, <4>1, <5>3 DEF Leaving
          <5> QED
            BY <1>2, <1>4, <1>6, <1>9, <2>1, <4>1, <5>4, PaidByLeaving DEF Present
        <4> QED
          BY <4>2, <4>3
      <3>3. CASE producer = "sqldb" /\ hashes = {}
        <4>1. latest \in Present /\ latest \notin Present'
          BY <1>2, <1>5, <3>1, <3>3 DEF Present, Pointer
        <4> QED
          BY <1>2, <1>4, <1>6, <1>9, <2>1, <4>1, PaidByLeaving
      <3>4. ASSUME producer = "sqldb", NEW x \in hashes PROVE StaleInv'
        <4>1. x < latest' /\ x \notin Coming' /\ x \in hashes'
          BY <1>2, <1>5, <3>1, <3>4
        <4>2. pc'[g] = "delete"
          BY <1>1, <3>4 DEF FirstCall
        <4>3. Leaving(x)'
          BY <1>2, <3>1, <3>4, <4>1, <4>2 DEF Leaving
        <4> QED
          BY <1>2, <1>4, <1>6, <1>9, <2>1, <4>1, <4>3, PaidByLeaving DEF Present
      <3> QED
        BY <1>9, <3>2, <3>3, <3>4
    <2> QED
      BY <2>2, <2>3
  <1>10. CASE producer \in {"redis", "sqldb"} /\ Running # {}
    <2>1. g > 1
      <3>1. PICK h \in Running : TRUE
        BY <1>10
      <3>2. h \in 1 .. g - 1
        BY <1>1 DEF Announced, Running
      <3> QED
        BY <1>1, <3>2
    <2>2. CASE new
      <3>1. Allowed' >= Allowed + 2
        BY <1>2, <1>6, <1>10, <2>1, <2>2 DEF Allowed
      <3> QED
        BY <1>2, <1>4, <1>6, <3>1, PaidByFault
    <2>3. CASE ~new
      <3>1. Allowed' >= Allowed + 1
        BY <1>2, <1>6, <1>10, <2>3 DEF Allowed
      <3>2. pc'[g] \in {"HMGet", "delete"}
        BY <1>1, <1>10, <2>3 DEF FirstCall
      <3>3. Handed
        <4> SUFFICES ASSUME NEW x \in Present, Leaving(x) PROVE Leaving(x)'
          BY DEF Handed
        <4>1. x \in Nat /\ x < latest' /\ x \notin Coming' /\ x \in hashes' \union Pointer'
          <5>1. x < latest /\ x \notin Coming /\ x \in hashes \union Pointer
            BY DEF Leaving
          <5>2. x \in Nat
            BY <1>5, <5>1 DEF Pointer
          <5> QED
            BY <1>2, <1>3, <1>4, <1>5, <5>1, <5>2
        <4>2. \A h \in Running : pc'[h] = pc[h]
          BY <1>1, <1>3
        <4> QED
          BY <1>1, <1>2, <3>2, <4>1, <4>2 DEF Leaving
      <3> QED
        BY <1>2, <1>4, <1>6, <3>1, <3>3, PaidByFault
    <2> QED
      BY <2>2, <2>3
  <1> QED
    BY <1>7, <1>8, <1>9, <1>10

LEMMA CrashStale ==
    ASSUME TableInv, Crash
    PROVE  StaleInv'
  <1> USE DEF TableInv, KeepInv
  <1>1. Running' = {} /\ Coming' = {}
    BY DEF Crash, Running, Coming
  <1>2. Present' \subseteq Present /\ producer' = producer
    BY <1>1 DEF Crash, Present, Pointer, disk, args, fixed
  <1>3. Allowed \in Nat /\ Allowed' \in Nat /\ Allowed' >= Allowed + 1
    BY TorrentProducersAssumption DEF Crash, Allowed, KeepTypes
  <1> QED
    BY <1>2, <1>3, PaidByFault

LEMMA TableInit == Init => TableInv
  <1> SUFFICES ASSUME Init PROVE TableInv
    OBVIOUS
  <1>1. Running = {} /\ Coming = {}
    BY DEF Init, Running, Coming
  <1>2. Present = {None}
    BY <1>1 DEF Init, Present, Pointer
  <1>3. IsFiniteSet(Present) /\ Cardinality(Present) = 1
    BY <1>2, FS_Singleton
  <1>4. StaleInv
    BY <1>3 DEF Init, StaleInv, Allowed
  <1> QED
    BY <1>4, KeepInit DEF TableInv

LEMMA TableStep == TableInv /\ [Next]_vars => TableInv'
  <1> SUFFICES ASSUME TableInv, [Next]_vars PROVE StaleInv'
    BY KeepStep DEF TableInv
  <1>1. ASSUME NEW g \in Id, \E v \in Version, new \in BOOLEAN : Announce(g, v, new) PROVE StaleInv'
    BY <1>1, AnnounceStale
  <1>2. ASSUME NEW g \in Id, Redis(g) \/ Sqldb(g) \/ Lmdb(g) \/ File(g) PROVE StaleInv'
    BY <1>2, OwnStale
  <1>3. CASE Crash
    BY <1>3, CrashStale
  <1>4. CASE UNCHANGED vars
    <2> USE <1>4 DEF vars, fixed, args, disk
    <2>1. Running' = Running /\ Coming' = Coming /\ Pointer' = Pointer
      BY DEF Running, Coming, Pointer
    <2>2. Present' = Present /\ Allowed' = Allowed
      BY <2>1 DEF Present, Allowed
    <2>3. \A x : Leaving(x)' <=> Leaving(x)
      BY <2>1 DEF Leaving
    <2> QED
      BY <2>2, <2>3 DEF TableInv, StaleInv
  <1> QED
    BY <1>1, <1>2, <1>3, <1>4 DEF Next

\* A replaced version stays in the table for each race of two Sends and for each fault
\* at most, in any order of announcements, calls, failures and crashes.
THEOREM StalePerRaceOrFault == ProducersSpec => []StaleBounded
  <1>1. TableInv => StaleBounded
    <2> SUFFICES ASSUME TableInv, Running = {}, producer \in {"redis", "sqldb"}
                 PROVE  Cardinality(hashes \ {latest}) <= races + faults
      BY DEF StaleBounded
    <2>1. IsFiniteSet(Present) /\ Cardinality(Present) <= Allowed
      BY DEF TableInv, StaleInv, Leaving
    <2>2. latest \in Present \ (hashes \ {latest}) /\ hashes \ {latest} \subseteq Present
      BY DEF Present
    <2>3. Cardinality(hashes \ {latest}) + 1 <= Cardinality(Present) /\ Cardinality(hashes \ {latest}) \in Nat
      BY <2>1, <2>2, OneFewer
    <2>4. races \in Nat /\ faults \in Nat /\ Cardinality(Present) \in Nat
      BY <2>1, FS_CardinalityType, TorrentProducersAssumption DEF TableInv, KeepInv, KeepTypes
    <2> QED
      BY <2>1, <2>3, <2>4 DEF Allowed
  <1>2. ProducersInit => TableInv
    BY TableInit DEF ProducersInit
  <1>3. TableInv /\ [ProducersNext]_<<stanProducer, stan, vars>> => TableInv'
    BY TableStep DEF ProducersNext, TorrentStep, StanStep
  <1> QED
    BY <1>1, <1>2, <1>3, PTL DEF ProducersSpec

-----------------------------------------------------------------------------
\* Every variable of every producer has its type: the counters stay in their bounds,
\* the wait group never goes below zero, and the client is a connection or nil.
THEOREM Typing == ProducersSpec => []ProducersTypeOK
  <1>1. ProducersInit => stanProducer \in BOOLEAN
    BY DEF ProducersInit
  <1>2. stanProducer \in BOOLEAN /\ [ProducersNext]_<<stanProducer, stan, vars>> => (stanProducer \in BOOLEAN)'
    BY DEF ProducersNext, TorrentStep, StanStep
  <1>3. KeepInv => TypeOK
    <2> SUFFICES ASSUME KeepInv PROVE TypeOK
      OBVIOUS
    <2>1. hashes \subseteq Version /\ {current, head, tail, latest} \subseteq Version \union {None}
      BY TorrentProducersAssumption DEF KeepInv, KeepTypes, Version, None
    <2>2. pc \in [Id -> PCs]
      BY DEF KeepInv, KeepTypes, Calls, PCs
    <2>3. races \in 0 .. MaxSends
      BY TorrentProducersAssumption DEF KeepInv, KeepTypes, InOrder
    <2> QED
      BY <2>1, <2>2, <2>3 DEF KeepInv, KeepTypes, TypeOK
  <1>4. HandlerInv /\ PaidFor /\ Counted => Stan!TypeOK
    <2> SUFFICES ASSUME HandlerInv, PaidFor, Counted PROVE Stan!TypeOK
      OBVIOUS
    <2>1. reconnectWaiter \in Nat /\ live \subseteq Stan!Conn
      <3>1. reconnectWaiter = Cardinality(Holding(reconnect)) /\ reconnect \in [Stan!Conn -> Places]
        BY DEF HandlerInv, Types
      <3>2. IsFiniteSet(Stan!Conn)
        BY StanAssumption, FS_Interval DEF Stan!Conn
      <3>3. IsFiniteSet(Holding(reconnect))
        BY <3>2, FS_Subset DEF Holding
      <3> QED
        BY <3>1, <3>3, FS_CardinalityType DEF HandlerInv, Types, NewestOnly
    <2> QED
      BY <2>1 DEF HandlerInv, Types, Places, PaidFor, Counted, Stan!TypeOK
  <1>5. KeepInv /\ HandlerInv /\ PaidFor /\ Counted /\ stanProducer \in BOOLEAN => ProducersTypeOK
    BY <1>3, <1>4 DEF ProducersTypeOK
  <1> QED
    BY <1>1, <1>2, <1>5, KeepInvariant, HandlerInvariant, PaidInvariant, CountedInvariant, PTL
    DEF ProducersSpec
=============================================================================
