--------------------------- MODULE DatabaseProofs ---------------------------
(***************************************************************************)
(* Theorems about Database, for any number of clients, names, files, calls *)
(* and faults: what holds of ids and acknowledged files, and that either   *)
(* store implements TorrentStore.                                          *)
(***************************************************************************)
EXTENDS Database, FiniteSetTheorems, TLAPS

(* The invariant of redis *)

Steps == {"idle", "HSet row", "HGet idx", "Incr", "HSet idx", "HSet tt_ti", "SAdd"}

Idle(c)     == pc[c] = "idle"
OnItsWay(c) == pc[c] = "HSet idx"              \* an id that INCR has returned
Placed(c)   == pc[c] \in {"HSet tt_ti", "SAdd"}

\* Calls that may come to INCR.
Before == {c \in Client : pc[c] \in {"HSet row", "HGet idx", "Incr"}}

RedisTypes ==
    /\ tt_idx \in Nat /\ calls \in Nat /\ calls <= MaxCalls
    /\ pc \in [Client -> Steps]
    /\ DOMAIN name = Client /\ \A c \in Client : ~Idle(c) => name[c] \in Name
    /\ new \in [Client -> SUBSET File]
    /\ idx \in [Name -> 0 .. tt_idx] /\ sid \in [Client -> 0 .. tt_idx]
    /\ files \in [Redis!Id -> SUBSET File]
    /\ acked \subseteq Name \X File

\* There is an id for each call.
EnoughIds == IsFiniteSet(Before) /\ tt_idx + Cardinality(Before) <= calls

\* The counter is ahead of every id in use, and an id on its way is nobody else's.
IdsBehindCounter ==
    /\ \A t, u \in Name : t # u /\ idx[t] = idx[u] => idx[t] = 0
    /\ \A c \in Client : OnItsWay(c) =>
           /\ sid[c] # 0
           /\ \A t \in Name : idx[t] # sid[c]
           /\ \A d \in Client : d # c /\ (OnItsWay(d) \/ Placed(d)) => sid[d] # sid[c]

\* No files wait under an id before it is in the index.
NoFilesAhead ==
    /\ \A i \in Redis!Id : i > tt_idx => files[i] = {}
    /\ \A c \in Client : OnItsWay(c) => files[sid[c]] = {}

\* The call for a name, if no two have overlapped, finds the index as it left it.
Alone ==
    /\ \A c, d \in Client : ~Idle(c) /\ ~Idle(d) /\ name[c] = name[d] /\ c # d => name[c] \in raced
    /\ \A c \in Client : name[c] \notin raced =>
           /\ pc[c] \in {"Incr", "HSet idx"} => idx[name[c]] = 0
           /\ Placed(c) => idx[name[c]] = sid[c] /\ sid[c] # 0
    /\ \A t \in Name \ raced, f \in File :
           <<t, f>> \in acked => idx[t] # 0 /\ f \in files[idx[t]]

RedisInv == RedisTypes /\ EnoughIds /\ IdsBehindCounter /\ NoFilesAhead /\ Alone

-----------------------------------------------------------------------------
\* INCR returns an id that is larger than all before it.
LEMMA Successor ==
    ASSUME NEW n \in Nat
    PROVE  /\ n + 1 \in Nat /\ 0 .. n \subseteq 0 .. n + 1
           /\ n + 1 # 0 /\ n + 1 \in 0 .. n + 1 /\ \A i \in 0 .. n : i # n + 1
OBVIOUS

\* The calls that may come to INCR are counted.
LEMMA Counted ==
    ASSUME NEW S, IsFiniteSet(S), NEW c
    PROVE  /\ Cardinality(S) \in Nat
           /\ IsFiniteSet(S \union {c}) /\ IsFiniteSet(S \ {c})
           /\ Cardinality(S \union {c}) <= Cardinality(S) + 1
           /\ Cardinality(S \ {c}) <= Cardinality(S)
           /\ c \in S => Cardinality(S \ {c}) = Cardinality(S) - 1
  <1>1. Cardinality(S) \in Nat
    BY FS_CardinalityType
  <1>2. IsFiniteSet(S \union {c}) /\ Cardinality(S \union {c}) <= Cardinality(S) + 1
    <2>1. Cardinality(S \union {c}) = IF c \in S THEN Cardinality(S) ELSE Cardinality(S) + 1
      BY FS_AddElement
    <2>2. IsFiniteSet(S \union {c})
      BY FS_AddElement
    <2> QED
      BY <1>1, <2>1, <2>2
  <1>3. IsFiniteSet(S \ {c}) /\ Cardinality(S \ {c}) <= Cardinality(S)
        /\ (c \in S => Cardinality(S \ {c}) = Cardinality(S) - 1)
    <2>1. Cardinality(S \ {c}) = IF c \in S THEN Cardinality(S) - 1 ELSE Cardinality(S)
      BY FS_RemoveElement
    <2>2. IsFiniteSet(S \ {c})
      BY FS_RemoveElement
    <2> QED
      BY <1>1, <2>1, <2>2
  <1> QED
    BY <1>1, <1>2, <1>3

\* A set that gains one element at most stays within a bound that grows by one.
LEMMA OneMore ==
    ASSUME NEW S, NEW T, NEW k \in Nat, NEW p, IsFiniteSet(S), Cardinality(S) <= k
    PROVE  /\ T \subseteq S => IsFiniteSet(T) /\ Cardinality(T) <= k
           /\ T \subseteq S \union {p} => IsFiniteSet(T) /\ Cardinality(T) <= k + 1
  <1>1. /\ Cardinality(S) \in Nat /\ Cardinality(S \union {p}) <= Cardinality(S) + 1
        /\ IsFiniteSet(S \union {p})
    BY Counted
  <1>2. Cardinality(S \union {p}) \in Nat
    BY <1>1, FS_CardinalityType
  <1>3. ASSUME T \subseteq S PROVE IsFiniteSet(T) /\ Cardinality(T) <= k
    <2>1. IsFiniteSet(T) /\ Cardinality(T) <= Cardinality(S)
      BY <1>3, FS_Subset
    <2>2. Cardinality(T) \in Nat
      BY <2>1, FS_CardinalityType
    <2> QED
      BY <1>1, <2>1, <2>2
  <1>4. ASSUME T \subseteq S \union {p} PROVE IsFiniteSet(T) /\ Cardinality(T) <= k + 1
    <2>1. IsFiniteSet(T) /\ Cardinality(T) <= Cardinality(S \union {p})
      BY <1>1, <1>4, FS_Subset
    <2>2. Cardinality(T) \in Nat
      BY <2>1, FS_CardinalityType
    <2> QED
      BY <1>1, <1>2, <2>1, <2>2
  <1> QED
    BY <1>3, <1>4

LEMMA RedisInit == Redis!Init => RedisInv
  <1> SUFFICES ASSUME Redis!Init PROVE RedisInv
    OBVIOUS
  <1>1. Before = {}
    BY DEF Redis!Init, Before
  <1>2. IsFiniteSet(Before) /\ Cardinality(Before) = 0
    BY <1>1, FS_EmptySet
  <1> QED
    BY <1>2, DatabaseAssumption
    DEF Redis!Init, RedisInv, RedisTypes, EnoughIds, IdsBehindCounter, NoFilesAhead, Alone,
        Steps, Idle, OnItsWay, Placed, Redis!Id

\* An id that is on its way, or in the index, is one of Id.
LEMMA IdInRange ==
    ASSUME RedisTypes, EnoughIds
    PROVE  tt_idx <= MaxCalls /\ (1 .. tt_idx) \subseteq Redis!Id
  <1>1. Cardinality(Before) \in Nat
    BY FS_CardinalityType DEF EnoughIds
  <1>2. tt_idx \in Nat /\ calls \in Nat /\ calls <= MaxCalls /\ MaxCalls \in Nat
    BY DatabaseAssumption DEF RedisTypes
  <1>3. tt_idx + Cardinality(Before) <= calls
    BY DEF EnoughIds
  <1>4. tt_idx <= MaxCalls
    BY <1>1, <1>2, <1>3
  <1> QED
    BY <1>2, <1>4 DEF Redis!Id
\* What a step has to do to leave each part of the invariant in place.
LEMMA IdsKept ==
    ASSUME RedisTypes, EnoughIds, NEW c
    PROVE  /\ Before' = Before \union {c} /\ calls' = calls + 1 /\ tt_idx' = tt_idx => EnoughIds'
           /\ Before' \in {Before, Before \ {c}} /\ calls' = calls /\ tt_idx' = tt_idx => EnoughIds'
           /\ c \in Before /\ Before' = Before \ {c} /\ calls' = calls /\ tt_idx' = tt_idx + 1 => EnoughIds'
  <1> DEFINE n == Cardinality(Before)
             more == Cardinality(Before \union {c})
             less == Cardinality(Before \ {c})
  <1>1. IsFiniteSet(Before) /\ tt_idx + n <= calls /\ tt_idx \in Nat /\ calls \in Nat
    BY DEF EnoughIds, RedisTypes
  <1>2. /\ n \in Nat /\ more <= n + 1 /\ less <= n /\ (c \in Before => less = n - 1)
        /\ IsFiniteSet(Before \union {c}) /\ IsFiniteSet(Before \ {c})
    BY <1>1, Counted
  <1>3. more \in Nat /\ less \in Nat
    BY <1>2, FS_CardinalityType
  <1>4. ASSUME Before' = Before \union {c}, calls' = calls + 1, tt_idx' = tt_idx PROVE EnoughIds'
    <2>1. Cardinality(Before') = more /\ IsFiniteSet(Before')
      BY <1>2, <1>4
    <2> HIDE DEF n, more
    <2>2. tt_idx + more <= calls + 1
      BY <1>1, <1>2, <1>3
    <2> QED
      BY <1>4, <2>1, <2>2 DEF EnoughIds
  <1>5. ASSUME Before' = Before \ {c}, calls' = calls, tt_idx' = tt_idx PROVE EnoughIds'
    <2>1. Cardinality(Before') = less /\ IsFiniteSet(Before')
      BY <1>2, <1>5
    <2> HIDE DEF n, less
    <2>2. tt_idx + less <= calls
      BY <1>1, <1>2, <1>3
    <2> QED
      BY <1>5, <2>1, <2>2 DEF EnoughIds
  <1>6. ASSUME Before' = Before, calls' = calls, tt_idx' = tt_idx PROVE EnoughIds'
    BY <1>6 DEF EnoughIds
  <1>7. ASSUME c \in Before, Before' = Before \ {c}, calls' = calls, tt_idx' = tt_idx + 1
        PROVE  EnoughIds'
    <2>1. Cardinality(Before') = less /\ IsFiniteSet(Before')
      BY <1>2, <1>7
    <2>2. less = n - 1
      BY <1>2, <1>7
    <2> HIDE DEF n, less
    <2>3. (tt_idx + 1) + less <= calls
      BY <1>1, <1>2, <2>2
    <2> QED
      BY <1>7, <2>1, <2>3 DEF EnoughIds
  <1> QED
    BY <1>4, <1>5, <1>6, <1>7

LEMMA CounterKept ==
    ASSUME IdsBehindCounter, UNCHANGED idx,
           \A d \in Client : OnItsWay(d)' => OnItsWay(d) /\ sid'[d] = sid[d],
           \A d \in Client : Placed(d)' => \/ Placed(d) /\ sid'[d] = sid[d]
                                           \/ \E t \in Name : sid'[d] = idx[t]
    PROVE  IdsBehindCounter'
  <1>1. ASSUME NEW c \in Client, OnItsWay(c)'
        PROVE  /\ sid'[c] # 0
               /\ \A t \in Name : idx'[t] # sid'[c]
               /\ \A d \in Client : d # c /\ (OnItsWay(d)' \/ Placed(d)') => sid'[d] # sid'[c]
    <2>1. OnItsWay(c) /\ sid'[c] = sid[c] /\ sid[c] # 0 /\ \A t \in Name : idx[t] # sid[c]
      BY <1>1 DEF IdsBehindCounter
    <2>2. \A d \in Client : d # c /\ (OnItsWay(d) \/ Placed(d)) => sid[d] # sid[c]
      BY <2>1 DEF IdsBehindCounter
    <2> QED
      BY <2>1, <2>2
  <1> QED
    BY <1>1 DEF IdsBehindCounter

\* Each command leaves the invariant in place.
LEMMA RedisCall ==
    ASSUME RedisInv, NEW c \in Client, NEW t \in Name, NEW fs \in SUBSET File, Redis!Call(c, t, fs)
    PROVE  RedisInv'
  <1>1. /\ pc[c] = "idle" /\ pc' = [pc EXCEPT ![c] = "HSet row"]
        /\ calls < MaxCalls /\ calls' = calls + 1
        /\ name' = [name EXCEPT ![c] = t] /\ new' = [new EXCEPT ![c] = fs]
        /\ raced' = IF Redis!Busy(t) THEN raced \union {t} ELSE raced
        /\ UNCHANGED <<idx, tt_idx, tt_ti, files, sid, acked>>
    BY DEF Redis!Call, Redis!Goto, Redis!db
  <1>2. RedisTypes'
    <2>0. calls \in Nat /\ calls < MaxCalls
      BY <1>1 DEF RedisInv, RedisTypes
    <2>1. calls + 1 \in Nat /\ calls + 1 <= MaxCalls
      BY <2>0, DatabaseAssumption
    <2>2. pc' \in [Client -> Steps] /\ new' \in [Client -> SUBSET File]
      BY <1>1 DEF RedisInv, RedisTypes, Steps
    <2>3. DOMAIN name' = Client /\ \A d \in Client : pc'[d] # "idle" => name'[d] \in Name
      BY <1>1 DEF RedisInv, RedisTypes, Idle
    <2> QED
      BY <1>1, <2>1, <2>2, <2>3 DEF RedisInv, RedisTypes, Idle
  <1>3. EnoughIds'
    <2>1. Before' = Before \union {c}
      BY <1>1 DEF Before, RedisInv, RedisTypes
    <2> QED
      BY <1>1, <2>1, IdsKept DEF RedisInv
  <1>4. IdsBehindCounter'
    <2>1. \A d \in Client : OnItsWay(d)' => OnItsWay(d) /\ sid'[d] = sid[d]
      BY <1>1 DEF RedisInv, RedisTypes, OnItsWay
    <2>2. \A d \in Client : Placed(d)' => \/ Placed(d) /\ sid'[d] = sid[d]
                                          \/ \E u \in Name : sid'[d] = idx[u]
      BY <1>1 DEF RedisInv, RedisTypes, Placed
    <2> QED
      BY <1>1, <2>1, <2>2, CounterKept DEF RedisInv
  <1>5. NoFilesAhead'
    BY <1>1 DEF RedisInv, RedisTypes, NoFilesAhead, OnItsWay
  <1>6. Alone'
    <2>1. raced \subseteq raced' /\ (Redis!Busy(t) => t \in raced')
      BY <1>1
    <2>2. ASSUME NEW a \in Client, NEW d \in Client,
                 pc'[a] # "idle", pc'[d] # "idle", name'[a] = name'[d], a # d
          PROVE  name'[a] \in raced'
      <3>1. /\ a # c => pc[a] # "idle" /\ name'[a] = name[a]
            /\ d # c => pc[d] # "idle" /\ name'[d] = name[d]
            /\ name'[c] = t
        BY <1>1, <2>2 DEF RedisInv, RedisTypes
      <3>2. CASE a # c /\ d # c
        BY <2>1, <2>2, <3>1, <3>2 DEF RedisInv, Alone, Idle
      <3>3. CASE a = c \/ d = c
        <4>1. Redis!Busy(t)
          BY <2>2, <3>1, <3>3 DEF Redis!Busy
        <4> QED
          BY <2>1, <2>2, <3>1, <3>3, <4>1
      <3> QED
        BY <3>2, <3>3
    <2>3. ASSUME NEW a \in Client, name'[a] \notin raced'
          PROVE  /\ pc'[a] \in {"Incr", "HSet idx"} => idx[name'[a]] = 0
                 /\ pc'[a] \in {"HSet tt_ti", "SAdd"} => idx[name'[a]] = sid[a] /\ sid[a] # 0
      BY <1>1, <2>1, <2>3 DEF RedisInv, RedisTypes, Alone, Placed
    <2> QED
      BY <1>1, <2>1, <2>2, <2>3 DEF RedisInv, Alone, Idle, Placed
  <1> QED
    BY <1>2, <1>3, <1>4, <1>5, <1>6 DEF RedisInv

LEMMA RedisSetRow ==
    ASSUME RedisInv, NEW c \in Client, Redis!SetRow(c)
    PROVE  RedisInv'
  <1>1. /\ pc[c] = "HSet row" /\ pc' = [pc EXCEPT ![c] = "HGet idx"]
        /\ UNCHANGED <<idx, tt_idx, tt_ti, files, name, new, sid, acked, raced, calls>>
    BY DEF Redis!SetRow, Redis!Goto, Redis!call
  <1>2. RedisTypes'
    BY <1>1 DEF RedisInv, RedisTypes, Steps, Idle
  <1>3. EnoughIds'
    BY <1>1 DEF RedisInv, RedisTypes, EnoughIds, Before
  <1>4. IdsBehindCounter'
    <2>1. \A d \in Client : OnItsWay(d)' => OnItsWay(d) /\ sid'[d] = sid[d]
      BY <1>1 DEF RedisInv, RedisTypes, OnItsWay
    <2>2. \A d \in Client : Placed(d)' => \/ Placed(d) /\ sid'[d] = sid[d]
                                          \/ \E u \in Name : sid'[d] = idx[u]
      BY <1>1 DEF RedisInv, RedisTypes, Placed
    <2> QED
      BY <1>1, <2>1, <2>2, CounterKept DEF RedisInv
  <1>5. NoFilesAhead'
    BY <1>1 DEF RedisInv, RedisTypes, NoFilesAhead, OnItsWay
  <1>6. Alone'
    BY <1>1 DEF RedisInv, RedisTypes, Alone, Idle, Placed
  <1> QED
    BY <1>2, <1>3, <1>4, <1>5, <1>6 DEF RedisInv

LEMMA RedisGetIndex ==
    ASSUME RedisInv, NEW c \in Client, Redis!GetIndex(c)
    PROVE  RedisInv'
  <1>1. /\ pc[c] = "HGet idx"
        /\ sid' = [sid EXCEPT ![c] = idx[name[c]]]
        /\ pc' = [pc EXCEPT ![c] = IF idx[name[c]] = 0 THEN "Incr" ELSE "SAdd"]
        /\ UNCHANGED <<idx, tt_idx, tt_ti, files, name, new, acked, raced, calls>>
    BY DEF Redis!GetIndex, Redis!Goto, Redis!db, Redis!AfterIndex
  <1>2. name[c] \in Name
    BY <1>1 DEF RedisInv, RedisTypes, Idle
  <1>3. RedisTypes'
    BY <1>1, <1>2 DEF RedisInv, RedisTypes, Steps, Idle
  <1>4. EnoughIds'
    <2>1. Before' \in {Before, Before \ {c}}
      BY <1>1 DEF Before, RedisInv, RedisTypes
    <2> QED
      BY <1>1, <2>1, IdsKept DEF RedisInv
  <1>5. IdsBehindCounter'
    <2>1. \A d \in Client : OnItsWay(d)' => OnItsWay(d) /\ sid'[d] = sid[d]
      BY <1>1 DEF RedisInv, RedisTypes, OnItsWay
    <2>2. \A d \in Client : Placed(d)' => \/ Placed(d) /\ sid'[d] = sid[d]
                                          \/ \E u \in Name : sid'[d] = idx[u]
      BY <1>1, <1>2 DEF RedisInv, RedisTypes, Placed
    <2> QED
      BY <1>1, <2>1, <2>2, CounterKept DEF RedisInv
  <1>6. NoFilesAhead'
    BY <1>1 DEF RedisInv, RedisTypes, NoFilesAhead, OnItsWay
  <1>7. Alone'
    BY <1>1, <1>2 DEF RedisInv, RedisTypes, Alone, Idle, Placed
  <1> QED
    BY <1>3, <1>4, <1>5, <1>6, <1>7 DEF RedisInv

LEMMA RedisSetIndex ==
    ASSUME RedisInv, NEW c \in Client, Redis!SetIndex(c)
    PROVE  RedisInv'
  <1>1. /\ pc[c] = "HSet idx" /\ pc' = [pc EXCEPT ![c] = "HSet tt_ti"]
        /\ idx' = [idx EXCEPT ![name[c]] = sid[c]]
        /\ UNCHANGED <<tt_idx, tt_ti, files, name, new, sid, acked, raced, calls>>
    BY DEF Redis!SetIndex, Redis!Goto, Redis!call
  <1>2. name[c] \in Name /\ sid[c] # 0
    BY <1>1 DEF RedisInv, RedisTypes, IdsBehindCounter, Idle, OnItsWay
  <1>3. RedisTypes'
    BY <1>1, <1>2 DEF RedisInv, RedisTypes, Steps, Idle
  <1>4. EnoughIds'
    BY <1>1 DEF RedisInv, RedisTypes, EnoughIds, Before
  <1>5. IdsBehindCounter'
    <2>1. /\ \A d \in Client : OnItsWay(d)' <=> OnItsWay(d) /\ d # c
          /\ \A d \in Client : Placed(d)' <=> Placed(d) \/ d = c
      BY <1>1 DEF RedisInv, RedisTypes, OnItsWay, Placed
    <2>2. \A t \in Name : idx'[t] = IF t = name[c] THEN sid[c] ELSE idx[t]
      BY <1>1, <1>2 DEF RedisInv, RedisTypes
    <2>3. OnItsWay(c)
      BY <1>1 DEF OnItsWay
    <2>4. \A t, u \in Name : t # u /\ idx'[t] = idx'[u] => idx'[t] = 0
      BY <2>2, <2>3 DEF RedisInv, IdsBehindCounter
    <2>5. ASSUME NEW e \in Client, OnItsWay(e)'
          PROVE  /\ sid'[e] # 0
                 /\ \A t \in Name : idx'[t] # sid'[e]
                 /\ \A d \in Client : d # e /\ (OnItsWay(d)' \/ Placed(d)') => sid'[d] # sid'[e]
      <3>1. OnItsWay(e) /\ e # c /\ sid' = sid
        BY <1>1, <2>1, <2>5
      <3>2. sid[e] # 0 /\ sid[c] # sid[e] /\ \A t \in Name : idx[t] # sid[e]
        BY <2>3, <3>1 DEF RedisInv, IdsBehindCounter
      <3>3. \A d \in Client : d # e /\ (OnItsWay(d) \/ Placed(d)) => sid[d] # sid[e]
        BY <3>1 DEF RedisInv, IdsBehindCounter
      <3> QED
        BY <2>1, <2>2, <3>1, <3>2, <3>3
    <2> QED
      BY <2>4, <2>5 DEF IdsBehindCounter
  <1>6. NoFilesAhead'
    BY <1>1 DEF RedisInv, RedisTypes, NoFilesAhead, OnItsWay
  <1>7. Alone'
    <2>1. ASSUME NEW a \in Client, name[a] \notin raced
          PROVE  /\ pc'[a] \in {"Incr", "HSet idx"} => idx'[name[a]] = 0
                 /\ pc'[a] \in {"HSet tt_ti", "SAdd"} => idx'[name[a]] = sid[a] /\ sid[a] # 0
      <3>1. CASE a = c
        BY <1>1, <1>2, <3>1 DEF RedisInv, RedisTypes
      <3>2. CASE a # c /\ pc[a] # "idle"
        <4>1. name[a] # name[c]
          BY <1>1, <2>1, <3>2 DEF RedisInv, Alone, Idle
        <4>2. name[a] \in Name /\ pc'[a] = pc[a] /\ idx'[name[a]] = idx[name[a]]
          BY <1>1, <3>2, <4>1 DEF RedisInv, RedisTypes, Idle
        <4> QED
          BY <2>1, <4>2 DEF RedisInv, Alone, Placed
      <3>3. CASE a # c /\ pc[a] = "idle"
        BY <1>1, <3>3 DEF RedisInv, RedisTypes
      <3> QED
        BY <3>1, <3>2, <3>3
    <2>2. ASSUME NEW t \in Name \ raced, NEW f \in File, <<t, f>> \in acked
          PROVE  idx'[t] # 0 /\ f \in files[idx'[t]]
      <3>1. idx[t] # 0 /\ f \in files[idx[t]]
        BY <2>2 DEF RedisInv, Alone
      <3>2. t # name[c]
        BY <1>1, <3>1 DEF RedisInv, Alone
      <3> QED
        BY <1>1, <3>1, <3>2 DEF RedisInv, RedisTypes
    <2>3. \A a, d \in Client : pc'[a] # "idle" /\ pc'[d] # "idle" /\ name[a] = name[d] /\ a # d
                                   => name[a] \in raced
      BY <1>1 DEF RedisInv, RedisTypes, Alone, Idle
    <2> QED
      BY <1>1, <2>1, <2>2, <2>3 DEF Alone, Idle, Placed
  <1> QED
    BY <1>3, <1>4, <1>5, <1>6, <1>7 DEF RedisInv

LEMMA RedisSetReverse ==
    ASSUME RedisInv, NEW c \in Client, Redis!SetReverse(c)
    PROVE  RedisInv'
  <1>1. /\ pc[c] = "HSet tt_ti" /\ pc' = [pc EXCEPT ![c] = "SAdd"]
        /\ UNCHANGED <<idx, tt_idx, files, name, new, sid, acked, raced, calls>>
    BY DEF Redis!SetReverse, Redis!Goto, Redis!call
  <1>2. RedisTypes'
    BY <1>1 DEF RedisInv, RedisTypes, Steps, Idle
  <1>3. EnoughIds'
    BY <1>1 DEF RedisInv, RedisTypes, EnoughIds, Before
  <1>4. IdsBehindCounter'
    <2>1. \A d \in Client : OnItsWay(d)' => OnItsWay(d) /\ sid'[d] = sid[d]
      BY <1>1 DEF RedisInv, RedisTypes, OnItsWay
    <2>2. \A d \in Client : Placed(d)' => \/ Placed(d) /\ sid'[d] = sid[d]
                                          \/ \E u \in Name : sid'[d] = idx[u]
      BY <1>1 DEF RedisInv, RedisTypes, Placed
    <2> QED
      BY <1>1, <2>1, <2>2, CounterKept DEF RedisInv
  <1>5. NoFilesAhead'
    BY <1>1 DEF RedisInv, RedisTypes, NoFilesAhead, OnItsWay
  <1>6. Alone'
    BY <1>1 DEF RedisInv, RedisTypes, Alone, Idle, Placed
  <1> QED
    BY <1>2, <1>3, <1>4, <1>5, <1>6 DEF RedisInv

LEMMA RedisIncr ==
    ASSUME RedisInv, NEW c \in Client, Redis!Incr(c)
    PROVE  RedisInv'
  <1> DEFINE id == tt_idx + 1
  <1>1. /\ pc[c] = "Incr" /\ pc' = [pc EXCEPT ![c] = "HSet idx"]
        /\ tt_idx' = id /\ sid' = [sid EXCEPT ![c] = id]
        /\ UNCHANGED <<idx, tt_ti, files, name, new, acked, raced, calls>>
    BY DEF Redis!Incr, Redis!Goto
  <1>2. tt_idx \in Nat
    BY DEF RedisInv, RedisTypes
  <1>3. /\ id \in Nat /\ 0 .. tt_idx \subseteq 0 .. id
        /\ id # 0 /\ id \in 0 .. id /\ \A i \in 0 .. tt_idx : i # id
    BY <1>2, Successor
  <1>4. EnoughIds'
    <2>1. c \in Before /\ Before' = Before \ {c}
      BY <1>1 DEF Before, RedisInv, RedisTypes
    <2> QED
      BY <1>1, <2>1, IdsKept DEF RedisInv
  <1>5. \A i \in Redis!Id : i > id => i > tt_idx
    BY <1>2 DEF Redis!Id
  <1>6. id \in Redis!Id => id > tt_idx
    BY <1>2
  <1> HIDE DEF id
  <1>7. RedisTypes'
    <2>1. idx \in [Name -> 0 .. id] /\ sid' \in [Client -> 0 .. id]
      BY <1>1, <1>3 DEF RedisInv, RedisTypes
    <2>2. pc' \in [Client -> Steps] /\ \A d \in Client : pc'[d] # "idle" => name[d] \in Name
      BY <1>1 DEF RedisInv, RedisTypes, Steps, Idle
    <2> QED
      BY <1>1, <1>3, <2>1, <2>2 DEF RedisInv, RedisTypes, Idle
  <1>8. id \in Redis!Id
    <2>1. RedisTypes' /\ EnoughIds'
      BY <1>4, <1>7
    <2>2. tt_idx' <= MaxCalls
      <3>1. Cardinality(Before') \in Nat
        BY <1>4, FS_CardinalityType DEF EnoughIds
      <3>2. tt_idx' \in Nat /\ calls' \in Nat /\ calls' <= MaxCalls /\ MaxCalls \in Nat
        BY <2>1, DatabaseAssumption DEF RedisTypes
      <3>3. tt_idx' + Cardinality(Before') <= calls'
        BY <1>4 DEF EnoughIds
      <3> QED
        BY <3>1, <3>2, <3>3
    <2>3. id <= MaxCalls
      BY <1>1, <2>2
    <2>4. id \in Nat /\ id # 0
      BY <1>3
    <2> QED
      BY <2>3, <2>4, DatabaseAssumption DEF Redis!Id
  <1>9. (\A t \in Name : idx[t] # id) /\ (\A d \in Client : sid[d] # id)
    BY <1>3 DEF RedisInv, RedisTypes
  <1>10. /\ sid'[c] = id /\ \A d \in Client : d # c => sid'[d] = sid[d]
         /\ \A d \in Client : OnItsWay(d)' <=> OnItsWay(d) \/ d = c
         /\ \A d \in Client : Placed(d)' <=> Placed(d)
    BY <1>1 DEF RedisInv, RedisTypes, OnItsWay, Placed
  <1>11. IdsBehindCounter'
    <2>1. ASSUME NEW e \in Client, OnItsWay(e)'
          PROVE  /\ sid'[e] # 0
                 /\ \A t \in Name : idx[t] # sid'[e]
                 /\ \A d \in Client : d # e /\ (OnItsWay(d)' \/ Placed(d)') => sid'[d] # sid'[e]
      <3>1. CASE e = c
        BY <1>3, <1>9, <1>10, <3>1
      <3>2. CASE e # c
        <4>1. OnItsWay(e) /\ sid'[e] = sid[e]
          BY <1>10, <2>1, <3>2
        <4>2. sid[e] # 0 /\ \A t \in Name : idx[t] # sid[e]
          BY <4>1 DEF RedisInv, IdsBehindCounter
        <4>3. \A d \in Client : d # e /\ (OnItsWay(d) \/ Placed(d)) => sid[d] # sid[e]
          BY <4>1 DEF RedisInv, IdsBehindCounter
        <4>4. sid[e] # id
          BY <1>9
        <4> QED
          BY <1>10, <4>1, <4>2, <4>3, <4>4
      <3> QED
        BY <3>1, <3>2
    <2>2. \A t, u \in Name : t # u /\ idx[t] = idx[u] => idx[t] = 0
      BY DEF RedisInv, IdsBehindCounter
    <2> QED
      BY <1>1, <2>1, <2>2 DEF IdsBehindCounter
  <1>12. NoFilesAhead'
    <2>1. \A i \in Redis!Id : i > id => files[i] = {}
      BY <1>5 DEF RedisInv, NoFilesAhead
    <2>2. files[id] = {}
      BY <1>6, <1>8 DEF RedisInv, NoFilesAhead
    <2>3. \A d \in Client : OnItsWay(d)' => files[sid'[d]] = {}
      BY <1>10, <2>2 DEF RedisInv, NoFilesAhead
    <2> QED
      BY <1>1, <2>1, <2>3 DEF NoFilesAhead
  <1>13. Alone'
    BY <1>1 DEF RedisInv, RedisTypes, Alone, Idle, Placed
  <1> QED
    BY <1>4, <1>7, <1>11, <1>12, <1>13 DEF RedisInv

\* What SADD does, whether the client hears of it or not.
LEMMA FilesGrow ==
    ASSUME RedisInv, NEW c \in Client, pc[c] = "SAdd", Redis!Record(c)
    PROVE  /\ files' \in [Redis!Id -> SUBSET File]
           /\ \A i \in Redis!Id : files'[i] = IF i = sid[c] THEN files[i] \union new[c] ELSE files[i]
           /\ \A i \in Redis!Id : i > tt_idx => files'[i] = {}
           /\ \A d \in Client : OnItsWay(d) => files'[sid[d]] = {}
  <1>1. files \in [Redis!Id -> SUBSET File] /\ new[c] \subseteq File
    BY DEF RedisInv, RedisTypes
  <1>2. files' = [files EXCEPT ![sid[c]] = @ \union new[c]]
    BY DEF Redis!Record
  <1>3. \A i \in Redis!Id : files'[i] = IF i = sid[c] THEN files[i] \union new[c] ELSE files[i]
    BY <1>1, <1>2
  <1>4. files' \in [Redis!Id -> SUBSET File]
    BY <1>1, <1>2
  <1>5. sid[c] \in 0 .. tt_idx /\ tt_idx \in Nat
    BY DEF RedisInv, RedisTypes
  <1>6. \A i \in Redis!Id : i > tt_idx => i # sid[c]
    BY <1>5 DEF Redis!Id
  <1>7. \A i \in Redis!Id : i > tt_idx => files'[i] = {}
    BY <1>3, <1>6 DEF RedisInv, NoFilesAhead
  <1>8. ASSUME NEW d \in Client, OnItsWay(d) PROVE files'[sid[d]] = {}
    <2>1. d # c /\ Placed(c)
      BY <1>8 DEF OnItsWay, Placed
    <2>2. sid[d] # sid[c] /\ sid[d] # 0
      BY <1>8, <2>1 DEF RedisInv, IdsBehindCounter
    <2>3. sid[d] \in 1 .. tt_idx
      BY <2>2 DEF RedisInv, RedisTypes
    <2>4. sid[d] \in Redis!Id
      BY <2>3, IdInRange DEF RedisInv
    <2>5. files[sid[d]] = {}
      BY <1>8 DEF RedisInv, NoFilesAhead
    <2> QED
      BY <1>3, <2>2, <2>4, <2>5
  <1> QED
    BY <1>3, <1>4, <1>7, <1>8

\* An acknowledged file stays where the index points to.
LEMMA AckedStays ==
    ASSUME RedisInv, NEW c \in Client, pc[c] = "SAdd", Redis!Record(c),
           NEW t \in Name \ raced, NEW f \in File,
           <<t, f>> \in acked \/ (t = name[c] /\ f \in new[c])
    PROVE  idx[t] # 0 /\ f \in files'[idx[t]]
  <1>1. idx[t] # 0 => idx[t] \in Redis!Id
    <2>1. idx[t] # 0 => idx[t] \in 1 .. tt_idx
      BY DEF RedisInv, RedisTypes
    <2> QED
      BY <2>1, IdInRange DEF RedisInv
  <1>2. CASE <<t, f>> \in acked
    <2>1. idx[t] # 0 /\ f \in files[idx[t]]
      BY <1>2 DEF RedisInv, Alone
    <2>2. \A i \in Redis!Id : files[i] \subseteq files'[i]
      BY FilesGrow
    <2> QED
      BY <1>1, <2>1, <2>2
  <1>3. CASE t = name[c] /\ f \in new[c]
    <2>1. idx[t] = sid[c] /\ sid[c] # 0
      BY <1>3 DEF RedisInv, Alone, Placed
    <2> QED
      BY <1>1, <1>3, <2>1, FilesGrow
  <1> QED
    BY <1>2, <1>3

LEMMA RedisAddFiles ==
    ASSUME RedisInv, NEW c \in Client, Redis!AddFiles(c)
    PROVE  RedisInv'
  <1>1. /\ pc[c] = "SAdd" /\ Redis!Record(c) /\ pc' = [pc EXCEPT ![c] = "idle"]
        /\ acked' = acked \union {<<name[c], f>> : f \in new[c]}
        /\ UNCHANGED <<idx, tt_idx, tt_ti, name, new, sid, raced, calls>>
    BY DEF Redis!AddFiles, Redis!Goto, Redis!call
  <1>2. name[c] \in Name /\ new[c] \subseteq File
    BY <1>1 DEF RedisInv, RedisTypes, Idle
  <1>3. RedisTypes'
    <2>1. acked' \subseteq Name \X File
      BY <1>1, <1>2 DEF RedisInv, RedisTypes
    <2>2. files' \in [Redis!Id -> SUBSET File]
      BY <1>1, FilesGrow
    <2> QED
      BY <1>1, <2>1, <2>2 DEF RedisInv, RedisTypes, Steps, Idle
  <1>4. EnoughIds'
    BY <1>1 DEF RedisInv, RedisTypes, EnoughIds, Before
  <1>5. IdsBehindCounter'
    <2>1. \A d \in Client : OnItsWay(d)' => OnItsWay(d) /\ sid'[d] = sid[d]
      BY <1>1 DEF RedisInv, RedisTypes, OnItsWay
    <2>2. \A d \in Client : Placed(d)' => Placed(d) /\ sid'[d] = sid[d]
      BY <1>1 DEF RedisInv, RedisTypes, Placed
    <2> QED
      BY <1>1, <2>1, <2>2, CounterKept DEF RedisInv
  <1>6. NoFilesAhead'
    <2>1. \A d \in Client : OnItsWay(d)' => OnItsWay(d)
      BY <1>1 DEF RedisInv, RedisTypes, OnItsWay
    <2> QED
      BY <1>1, <2>1, FilesGrow DEF NoFilesAhead
  <1>7. Alone'
    <2>1. ASSUME NEW t \in Name \ raced, NEW f \in File, <<t, f>> \in acked'
          PROVE  idx[t] # 0 /\ f \in files'[idx[t]]
      <3>1. <<t, f>> \in acked \/ (t = name[c] /\ f \in new[c])
        BY <1>1, <2>1
      <3> QED
        BY <1>1, <3>1, AckedStays
    <2>2. \A a \in Client : pc'[a] # "idle" => pc'[a] = pc[a]
      BY <1>1 DEF RedisInv, RedisTypes
    <2>3. \A a, d \in Client : pc'[a] # "idle" /\ pc'[d] # "idle" /\ name[a] = name[d] /\ a # d
                                   => name[a] \in raced
      BY <2>2 DEF RedisInv, Alone, Idle
    <2>4. \A a \in Client : name[a] \notin raced =>
              /\ pc'[a] \in {"Incr", "HSet idx"} => idx[name[a]] = 0
              /\ pc'[a] \in {"HSet tt_ti", "SAdd"} => idx[name[a]] = sid[a] /\ sid[a] # 0
      BY <2>2 DEF RedisInv, Alone, Placed
    <2> QED
      BY <1>1, <2>1, <2>3, <2>4 DEF Alone, Idle, Placed
  <1> QED
    BY <1>3, <1>4, <1>5, <1>6, <1>7 DEF RedisInv

LEMMA RedisAbandon ==
    ASSUME RedisInv, NEW c \in Client, Redis!Abandon(c)
    PROVE  RedisInv'
  <1>1. /\ pc[c] # "idle" /\ pc' = [pc EXCEPT ![c] = "idle"]
        /\ UNCHANGED files \/ (pc[c] = "SAdd" /\ Redis!Record(c))
        /\ UNCHANGED <<idx, tt_idx, tt_ti, name, new, sid, acked, raced, calls>>
    BY DEF Redis!Abandon, Redis!Goto, Redis!call
  <1>2. RedisTypes'
    <2>1. files' \in [Redis!Id -> SUBSET File]
      BY <1>1, FilesGrow DEF RedisInv, RedisTypes
    <2> QED
      BY <1>1, <2>1 DEF RedisInv, RedisTypes, Steps, Idle
  <1>3. EnoughIds'
    <2>1. Before' \in {Before, Before \ {c}}
      BY <1>1 DEF Before, RedisInv, RedisTypes
    <2> QED
      BY <1>1, <2>1, IdsKept DEF RedisInv
  <1>4. IdsBehindCounter'
    <2>1. \A d \in Client : OnItsWay(d)' => OnItsWay(d) /\ sid'[d] = sid[d]
      BY <1>1 DEF RedisInv, RedisTypes, OnItsWay
    <2>2. \A d \in Client : Placed(d)' => Placed(d) /\ sid'[d] = sid[d]
      BY <1>1 DEF RedisInv, RedisTypes, Placed
    <2> QED
      BY <1>1, <2>1, <2>2, CounterKept DEF RedisInv
  <1>5. NoFilesAhead'
    <2>1. \A d \in Client : OnItsWay(d)' => OnItsWay(d)
      BY <1>1 DEF RedisInv, RedisTypes, OnItsWay
    <2> QED
      BY <1>1, <2>1, FilesGrow DEF RedisInv, NoFilesAhead
  <1>6. Alone'
    <2>1. ASSUME NEW t \in Name \ raced, NEW f \in File, <<t, f>> \in acked
          PROVE  idx[t] # 0 /\ f \in files'[idx[t]]
      <3>1. CASE UNCHANGED files
        BY <2>1, <3>1 DEF RedisInv, Alone
      <3>2. CASE pc[c] = "SAdd" /\ Redis!Record(c)
        BY <2>1, <3>2, AckedStays
      <3> QED
        BY <1>1, <3>1, <3>2
    <2>2. \A a \in Client : pc'[a] # "idle" => pc'[a] = pc[a]
      BY <1>1 DEF RedisInv, RedisTypes
    <2>3. \A a, d \in Client : pc'[a] # "idle" /\ pc'[d] # "idle" /\ name[a] = name[d] /\ a # d
                                   => name[a] \in raced
      BY <2>2 DEF RedisInv, Alone, Idle
    <2>4. \A a \in Client : name[a] \notin raced =>
              /\ pc'[a] \in {"Incr", "HSet idx"} => idx[name[a]] = 0
              /\ pc'[a] \in {"HSet tt_ti", "SAdd"} => idx[name[a]] = sid[a] /\ sid[a] # 0
      BY <2>2 DEF RedisInv, Alone, Placed
    <2> QED
      BY <1>1, <2>1, <2>3, <2>4 DEF Alone, Idle, Placed
  <1> QED
    BY <1>2, <1>3, <1>4, <1>5, <1>6 DEF RedisInv

LEMMA RedisNext == RedisInv /\ Redis!Next => RedisInv'
  BY RedisCall, RedisSetRow, RedisGetIndex, RedisIncr, RedisSetIndex, RedisSetReverse,
     RedisAddFiles, RedisAbandon DEF Redis!Next, Redis!AddTorrent

-----------------------------------------------------------------------------
(* redis implements TorrentStore *)

\* A step of redis stores one name or files of one name, or nothing that is read.
LEMMA RedisStores ==
    ASSUME RedisInv, Redis!Next, raced' = {}, driver = "redis", driver' = "redis"
    PROVE  Store!Next \/ UNCHANGED <<Known, KnownFiles>>
  <1> DEFINE read(t) == IF idx[t] = 0 THEN {} ELSE files[idx[t]]
  <1>1. /\ Known = {t \in Name : idx[t] # 0}
        /\ Known' = {t \in Name : idx'[t] # 0}
        /\ KnownFiles = [t \in Name |-> read(t)]
        /\ KnownFiles' = [t \in Name |-> IF idx'[t] = 0 THEN {} ELSE files'[idx'[t]]]
    BY DEF Known, KnownFiles, Redis!Known, Redis!KnownFiles
  <1>2. ASSUME UNCHANGED <<idx, files>> PROVE UNCHANGED <<Known, KnownFiles>>
    BY <1>1, <1>2
  <1>3. ASSUME NEW c \in Client, Redis!SetIndex(c) PROVE Store!Next
    <2>1. /\ pc[c] = "HSet idx" /\ idx' = [idx EXCEPT ![name[c]] = sid[c]]
          /\ files' = files /\ raced = {}
      BY <1>3 DEF Redis!SetIndex
    <2>2. name[c] \in Name /\ sid[c] # 0 /\ idx[name[c]] = 0 /\ files[sid[c]] = {}
      BY <2>1 DEF RedisInv, RedisTypes, IdsBehindCounter, NoFilesAhead, Alone, Idle, OnItsWay
    <2>3. \A t \in Name : idx'[t] = IF t = name[c] THEN sid[c] ELSE idx[t]
      BY <2>1, <2>2 DEF RedisInv, RedisTypes
    <2>4. Known' = Known \union {name[c]}
      BY <1>1, <2>2, <2>3
    <2>5. ASSUME NEW t \in Name PROVE KnownFiles'[t] = read(t)
      <3>0. KnownFiles'[t] = IF idx'[t] = 0 THEN {} ELSE files'[idx'[t]]
        BY <1>1
      <3>1. KnownFiles'[t] = IF idx'[t] = 0 THEN {} ELSE files[idx'[t]]
        BY <2>1, <3>0
      <3>2. CASE t = name[c]
        BY <2>2, <2>3, <3>1, <3>2
      <3>3. CASE t # name[c]
        BY <2>3, <3>1, <3>3
      <3> QED
        BY <3>2, <3>3
    <2> HIDE DEF read
    <2>6. KnownFiles' = [KnownFiles EXCEPT ![name[c]] = @ \union {}]
      <3>1. KnownFiles' = [t \in Name |-> read(t)]
        BY <1>1, <2>5
      <3>2. KnownFiles = [t \in Name |-> read(t)]
        BY <1>1
      <3>3. [KnownFiles EXCEPT ![name[c]] = @ \union {}] = KnownFiles
        BY <2>2, <3>2
      <3> QED
        BY <3>1, <3>2, <3>3
    <2>7. Store!Put(name[c], {})
      BY <2>4, <2>6 DEF Store!Put
    <2> QED
      BY <2>2, <2>7 DEF Store!Next
  <1>4. ASSUME NEW c \in Client, pc[c] = "SAdd", Redis!Record(c), UNCHANGED <<idx, raced>>
        PROVE  Store!Next
    <2>1. name[c] \in Name /\ new[c] \subseteq File /\ idx[name[c]] = sid[c] /\ sid[c] # 0
      BY <1>4 DEF RedisInv, RedisTypes, Alone, Idle, Placed
    <2>2. Known' = Known \union {name[c]}
      BY <1>1, <1>4, <2>1
    <2>3. \A t \in Name : idx[t] # 0 => idx[t] \in Redis!Id
      <3>1. \A t \in Name : idx[t] # 0 => idx[t] \in 1 .. tt_idx
        BY DEF RedisInv, RedisTypes
      <3> QED
        BY <3>1, IdInRange DEF RedisInv
    <2>4. \A t \in Name : t # name[c] => idx[t] # sid[c]
      BY <2>1 DEF RedisInv, IdsBehindCounter
    <2>5. ASSUME NEW t \in Name
          PROVE  KnownFiles'[t] = IF t = name[c] THEN read(t) \union new[c] ELSE read(t)
      <3>1. idx'[t] = idx[t]
        BY <1>4
      <3>2. CASE idx[t] = 0
        BY <1>1, <2>1, <3>1, <3>2
      <3>3. CASE idx[t] # 0
        <4>1. files'[idx[t]] = IF idx[t] = sid[c] THEN files[idx[t]] \union new[c] ELSE files[idx[t]]
          BY <1>4, <2>3, <3>3, FilesGrow
        <4>2. idx[t] = sid[c] <=> t = name[c]
          BY <2>1, <2>4
        <4> QED
          BY <1>1, <3>1, <3>3, <4>1, <4>2
      <3> QED
        BY <3>2, <3>3
    <2> HIDE DEF read
    <2>6. KnownFiles' = [KnownFiles EXCEPT ![name[c]] = @ \union new[c]]
      BY <1>1, <2>1, <2>5
    <2>7. Store!Put(name[c], new[c])
      BY <2>2, <2>6 DEF Store!Put
    <2> QED
      BY <2>1, <2>7 DEF Store!Next
  <1>5. ASSUME NEW c \in Client, Redis!AddFiles(c) PROVE Store!Next
    BY <1>4, <1>5 DEF Redis!AddFiles
  <1>6. ASSUME NEW c \in Client, Redis!Abandon(c)
        PROVE  Store!Next \/ UNCHANGED <<idx, files>>
    BY <1>4, <1>6 DEF Redis!Abandon
  <1>7. ASSUME NEW c \in Client, NEW t \in Name, NEW fs \in SUBSET File, Redis!Call(c, t, fs)
        PROVE  UNCHANGED <<idx, files>>
    BY <1>7 DEF Redis!Call, Redis!db
  <1>8. ASSUME NEW c \in Client,
               \/ Redis!SetRow(c) \/ Redis!GetIndex(c) \/ Redis!Incr(c) \/ Redis!SetReverse(c)
        PROVE  UNCHANGED <<idx, files>>
    BY <1>8 DEF Redis!SetRow, Redis!GetIndex, Redis!Incr, Redis!SetReverse, Redis!db
  <1> QED
    BY <1>2, <1>3, <1>5, <1>6, <1>7, <1>8 DEF Redis!Next, Redis!AddTorrent

-----------------------------------------------------------------------------
(* The index from id to name, in redis *)

\* An id that a call has placed leads to the name of that call, if to any.
PlacedOwn ==
    \A c \in Client : Placed(c) =>
        sid[c] \in Redis!Id /\ \A t \in Name : idx[t] = sid[c] => t = name[c]

Reversing(c) == pc[c] = "HSet tt_ti"

Lost == {t \in Name : /\ idx[t] # 0 /\ tt_ti[idx[t]] # t
                      /\ ~\E c \in Client : Reversing(c) /\ name[c] = t /\ sid[c] = idx[t]}

ReachInv ==
    /\ tt_ti \in [Redis!Id -> Name \union {Redis!NoName}] /\ faults \in Nat
    /\ PlacedOwn
    /\ IsFiniteSet(Lost) /\ Cardinality(Lost) <= faults

LEMMA ReachInit == Redis!Init => ReachInv
  <1> SUFFICES ASSUME Redis!Init PROVE ReachInv
    OBVIOUS
  <1>1. Lost = {}
    BY DEF Redis!Init, Lost
  <1>2. IsFiniteSet(Lost) /\ Cardinality(Lost) = 0
    BY <1>1, FS_EmptySet
  <1> QED
    BY <1>2 DEF Redis!Init, ReachInv, PlacedOwn, Placed

\* A step that leaves the two indexes, and the calls between the writes, alone.
LEMMA ReachKept ==
    ASSUME RedisInv, ReachInv, UNCHANGED <<idx, tt_ti, faults>>,
           \A d \in Client : Reversing(d) => Reversing(d)' /\ name'[d] = name[d] /\ sid'[d] = sid[d],
           \A d \in Client : Placed(d)' => \/ Placed(d) /\ name'[d] = name[d] /\ sid'[d] = sid[d]
                                           \/ name'[d] \in Name /\ sid'[d] = idx[name'[d]] /\ sid'[d] # 0
    PROVE  ReachInv'
  <1>1. Lost' \subseteq Lost
    BY DEF Lost
  <1>2. PlacedOwn'
    <2> SUFFICES ASSUME NEW d \in Client, Placed(d)'
                 PROVE  sid'[d] \in Redis!Id /\ \A t \in Name : idx[t] = sid'[d] => t = name'[d]
      BY DEF PlacedOwn
    <2>1. CASE Placed(d) /\ name'[d] = name[d] /\ sid'[d] = sid[d]
      BY <2>1 DEF ReachInv, PlacedOwn
    <2>2. CASE name'[d] \in Name /\ sid'[d] = idx[name'[d]] /\ sid'[d] # 0
      <3>1. sid'[d] \in 1 .. tt_idx
        BY <2>2 DEF RedisInv, RedisTypes
      <3>2. sid'[d] \in Redis!Id
        BY <3>1, IdInRange DEF RedisInv
      <3> QED
        BY <2>2, <3>2 DEF RedisInv, IdsBehindCounter
    <2> QED
      BY <2>1, <2>2
  <1> QED
    BY <1>1, <1>2, OneMore DEF ReachInv

LEMMA ReachNext == RedisInv /\ ReachInv /\ Redis!Next => ReachInv'
  <1> SUFFICES ASSUME RedisInv, ReachInv, Redis!Next PROVE ReachInv'
    OBVIOUS
  <1>1. ASSUME NEW c \in Client, NEW t \in Name, NEW fs \in SUBSET File, Redis!Call(c, t, fs)
        PROVE  ReachInv'
    <2>1. /\ pc[c] = "idle" /\ pc' = [pc EXCEPT ![c] = "HSet row"]
          /\ name' = [name EXCEPT ![c] = t] /\ UNCHANGED <<idx, tt_ti, sid, faults>>
      BY <1>1 DEF Redis!Call, Redis!Goto, Redis!db
    <2>2. \A d \in Client : (Reversing(d) \/ Placed(d) \/ Placed(d)') =>
              Reversing(d)' = Reversing(d) /\ Placed(d)' = Placed(d) /\ name'[d] = name[d]
      BY <2>1 DEF RedisInv, RedisTypes, Reversing, Placed
    <2> QED
      BY <2>1, <2>2, ReachKept
  <1>2. ASSUME NEW c \in Client, Redis!SetRow(c) \/ Redis!Incr(c) PROVE ReachInv'
    <2>1. /\ pc[c] \in {"HSet row", "Incr"}
          /\ pc' \in {[pc EXCEPT ![c] = "HGet idx"], [pc EXCEPT ![c] = "HSet idx"]}
          /\ \/ sid' = sid
             \/ sid' = [sid EXCEPT ![c] = tt_idx']
          /\ UNCHANGED <<idx, tt_ti, name, faults>>
      BY <1>2 DEF Redis!SetRow, Redis!Incr, Redis!Goto, Redis!call
    <2>2. \A d \in Client : (Reversing(d) \/ Placed(d) \/ Placed(d)') =>
              Reversing(d)' = Reversing(d) /\ Placed(d)' = Placed(d) /\ sid'[d] = sid[d]
      BY <2>1 DEF RedisInv, RedisTypes, Reversing, Placed
    <2> QED
      BY <2>1, <2>2, ReachKept
  <1>3. ASSUME NEW c \in Client, Redis!GetIndex(c) PROVE ReachInv'
    <2>1. /\ pc[c] = "HGet idx" /\ sid' = [sid EXCEPT ![c] = idx[name[c]]]
          /\ pc' = [pc EXCEPT ![c] = IF idx[name[c]] = 0 THEN "Incr" ELSE "SAdd"]
          /\ UNCHANGED <<idx, tt_ti, name, faults>>
      BY <1>3 DEF Redis!GetIndex, Redis!AfterIndex, Redis!Goto, Redis!db
    <2>2. name[c] \in Name
      BY <2>1 DEF RedisInv, RedisTypes, Idle
    <2>3. \A d \in Client : Reversing(d) => Reversing(d)' /\ sid'[d] = sid[d]
      BY <2>1 DEF RedisInv, RedisTypes, Reversing
    <2>4. \A d \in Client : Placed(d)' => \/ Placed(d) /\ sid'[d] = sid[d]
                                          \/ d = c /\ sid'[d] = idx[name[c]] /\ sid'[d] # 0
      BY <2>1 DEF RedisInv, RedisTypes, Placed
    <2> QED
      BY <2>1, <2>2, <2>3, <2>4, ReachKept
  <1>4. ASSUME NEW c \in Client, Redis!SetIndex(c) PROVE ReachInv'
    <2>1. /\ pc[c] = "HSet idx" /\ pc' = [pc EXCEPT ![c] = "HSet tt_ti"]
          /\ idx' = [idx EXCEPT ![name[c]] = sid[c]] /\ UNCHANGED <<tt_ti, name, sid, faults>>
      BY <1>4 DEF Redis!SetIndex, Redis!Goto, Redis!call
    <2>2. name[c] \in Name /\ sid[c] # 0 /\ OnItsWay(c)
      BY <2>1 DEF RedisInv, RedisTypes, IdsBehindCounter, Idle, OnItsWay
    <2>3. /\ \A t \in Name : idx'[t] = IF t = name[c] THEN sid[c] ELSE idx[t]
          /\ \A t \in Name : idx[t] # sid[c]
          /\ \A d \in Client : Placed(d) => sid[d] # sid[c]
      BY <2>1, <2>2 DEF RedisInv, RedisTypes, IdsBehindCounter, OnItsWay, Placed
    <2>4. /\ \A d \in Client : Reversing(d)' <=> Reversing(d) \/ d = c
          /\ \A d \in Client : Placed(d)' <=> Placed(d) \/ d = c
      BY <2>1 DEF RedisInv, RedisTypes, Reversing, Placed
    <2>5. Lost' \subseteq Lost
      BY <2>1, <2>2, <2>3, <2>4 DEF Lost
    <2>6. sid[c] \in Redis!Id
      <3>1. sid[c] \in 1 .. tt_idx
        BY <2>2 DEF RedisInv, RedisTypes
      <3> QED
        BY <3>1, IdInRange DEF RedisInv
    <2>7. PlacedOwn'
      <3> SUFFICES ASSUME NEW d \in Client, Placed(d)'
                   PROVE  sid'[d] \in Redis!Id /\ \A t \in Name : idx'[t] = sid'[d] => t = name'[d]
        BY DEF PlacedOwn
      <3>0. sid' = sid /\ name' = name
        BY <2>1
      <3>1. CASE d = c
        BY <2>3, <2>6, <3>0, <3>1
      <3>2. CASE d # c
        <4>1. Placed(d) /\ sid[d] # sid[c]
          BY <2>3, <2>4, <3>2
        <4>2. sid[d] \in Redis!Id /\ \A t \in Name : idx[t] = sid[d] => t = name[d]
          BY <4>1 DEF ReachInv, PlacedOwn
        <4> QED
          BY <2>3, <3>0, <4>1, <4>2
      <3> QED
        BY <3>1, <3>2
    <2> QED
      BY <2>1, <2>5, <2>7, OneMore DEF ReachInv
  <1>5. ASSUME NEW c \in Client, Redis!SetReverse(c) PROVE ReachInv'
    <2>1. /\ pc[c] = "HSet tt_ti" /\ pc' = [pc EXCEPT ![c] = "SAdd"]
          /\ tt_ti' = [tt_ti EXCEPT ![sid[c]] = name[c]] /\ UNCHANGED <<idx, name, sid, faults>>
      BY <1>5 DEF Redis!SetReverse, Redis!Goto, Redis!call
    <2>2. /\ name[c] \in Name /\ sid[c] \in Redis!Id
          /\ \A t \in Name : idx[t] = sid[c] => t = name[c]
      BY <2>1 DEF RedisInv, RedisTypes, ReachInv, PlacedOwn, Idle, Placed
    <2>3. \A i \in Redis!Id : tt_ti'[i] = IF i = sid[c] THEN name[c] ELSE tt_ti[i]
      BY <2>1, <2>2 DEF ReachInv
    <2>4. /\ \A d \in Client : Reversing(d) => Reversing(d)' \/ d = c
          /\ \A d \in Client : Placed(d)' <=> Placed(d)
      BY <2>1 DEF RedisInv, RedisTypes, Reversing, Placed
    <2>5. \A t \in Name : idx[t] # 0 => idx[t] \in Redis!Id
      <3>1. \A t \in Name : idx[t] # 0 => idx[t] \in 1 .. tt_idx
        BY DEF RedisInv, RedisTypes
      <3> QED
        BY <3>1, IdInRange DEF RedisInv
    <2>6. Lost' \subseteq Lost
      <3> SUFFICES ASSUME NEW t \in Lost' PROVE t \in Lost
        OBVIOUS
      <3>1. /\ t \in Name /\ idx[t] # 0 /\ tt_ti'[idx[t]] # t
            /\ ~\E d \in Client : Reversing(d)' /\ name[d] = t /\ sid[d] = idx[t]
        BY <2>1 DEF Lost
      <3>2. idx[t] # sid[c]
        BY <2>2, <2>3, <3>1
      <3> QED
        BY <2>3, <2>4, <2>5, <3>1, <3>2 DEF Lost
    <2>7. PlacedOwn'
      BY <2>1, <2>4 DEF ReachInv, PlacedOwn
    <2>8. tt_ti' \in [Redis!Id -> Name \union {Redis!NoName}]
      BY <2>1, <2>2 DEF ReachInv
    <2> QED
      BY <2>1, <2>6, <2>7, <2>8, OneMore DEF ReachInv
  <1>6. ASSUME NEW c \in Client, Redis!AddFiles(c) PROVE ReachInv'
    <2>1. pc[c] = "SAdd" /\ pc' = [pc EXCEPT ![c] = "idle"] /\ UNCHANGED <<idx, tt_ti, name, sid, faults>>
      BY <1>6 DEF Redis!AddFiles, Redis!Goto, Redis!call
    <2>2. \A d \in Client : (Reversing(d) => Reversing(d)') /\ (Placed(d)' => Placed(d))
      BY <2>1 DEF RedisInv, RedisTypes, Reversing, Placed
    <2> QED
      BY <2>1, <2>2, ReachKept
  <1>7. ASSUME NEW c \in Client, Redis!Abandon(c) PROVE ReachInv'
    <2>1. /\ pc' = [pc EXCEPT ![c] = "idle"] /\ faults' = faults + 1
          /\ UNCHANGED <<idx, tt_ti, name, sid>>
      BY <1>7 DEF Redis!Abandon, Redis!Goto, Redis!call
    <2>2. /\ \A d \in Client : Reversing(d) => Reversing(d)' \/ d = c
          /\ \A d \in Client : Placed(d)' => Placed(d)
      BY <2>1 DEF RedisInv, RedisTypes, Reversing, Placed
    <2>3. Lost' \subseteq Lost \union {name[c]}
      BY <2>1, <2>2 DEF Lost
    <2>4. PlacedOwn'
      BY <2>1, <2>2 DEF ReachInv, PlacedOwn
    <2>5. faults \in Nat /\ faults' \in Nat
      BY <2>1 DEF ReachInv
    <2>6. IsFiniteSet(Lost') /\ Cardinality(Lost') <= faults + 1
      BY <2>3, <2>5, OneMore DEF ReachInv
    <2> QED
      BY <2>1, <2>4, <2>5, <2>6 DEF ReachInv
  <1> QED
    BY <1>1, <1>2, <1>3, <1>4, <1>5, <1>6, <1>7 DEF Redis!Next, Redis!AddTorrent

-----------------------------------------------------------------------------
(* The invariant of SQL *)

\* Files that a client was told of, or that a call has passed, and that are not there.
Owed ==
    {p \in Name \X File :
        /\ p \notin fileRows
        /\ \/ p \in acked
           \/ \E c \in Client : pc[c] = "insert" /\ p[1] = name[c] /\ p[2] \in new[c] \ todo[c]}

SqlTypes ==
    /\ rows \subseteq Name /\ acked \subseteq Name \X File
    /\ pc \in [Client -> {"idle", "upsert", "select id", "insert"}]
    /\ DOMAIN name = Client /\ \A c \in Client : ~Idle(c) => name[c] \in Name
    /\ new \in [Client -> SUBSET File] /\ todo \in [Client -> SUBSET File]
    /\ faults \in Nat

\* A call begins with all its files, and records them under a row that is there.
Begun ==
    \A c \in Client : /\ pc[c] \in {"upsert", "select id"} => todo[c] = new[c]
                      /\ pc[c] = "insert" => name[c] \in rows

SqlInv == SqlTypes /\ Begun /\ IsFiniteSet(Owed) /\ Cardinality(Owed) <= faults

LEMMA SqlInit == Sql!Init => SqlInv
  <1> SUFFICES ASSUME Sql!Init PROVE SqlInv
    OBVIOUS
  <1>1. Owed = {}
    BY DEF Sql!Init, Owed
  <1>2. IsFiniteSet(Owed) /\ Cardinality(Owed) = 0
    BY <1>1, FS_EmptySet
  <1> QED
    BY <1>2 DEF Sql!Init, SqlInv, SqlTypes, Begun, Idle

\* A failed statement adds one file at most to those that are owed.
LEMMA OwedKept ==
    ASSUME SqlInv, NEW p
    PROVE  /\ Owed' \subseteq Owed /\ faults' = faults
                 => IsFiniteSet(Owed') /\ Cardinality(Owed') <= faults'
           /\ Owed' \subseteq Owed \union {p} /\ faults' = faults + 1
                 => IsFiniteSet(Owed') /\ Cardinality(Owed') <= faults'
  <1>1. IsFiniteSet(Owed) /\ Cardinality(Owed) <= faults /\ faults \in Nat
    BY DEF SqlInv, SqlTypes
  <1>2. /\ Owed' \subseteq Owed => IsFiniteSet(Owed') /\ Cardinality(Owed') <= faults
        /\ Owed' \subseteq Owed \union {p} => IsFiniteSet(Owed') /\ Cardinality(Owed') <= faults + 1
    BY <1>1, OneMore
  <1> QED
    BY <1>2

LEMMA SqlCall ==
    ASSUME SqlInv, NEW c \in Client, NEW t \in Name, NEW fs \in SUBSET File, Sql!Call(c, t, fs)
    PROVE  SqlInv'
  <1>1. /\ pc[c] = "idle" /\ pc' = [pc EXCEPT ![c] = "upsert"]
        /\ name' = [name EXCEPT ![c] = t]
        /\ new' = [new EXCEPT ![c] = fs] /\ todo' = [todo EXCEPT ![c] = fs]
        /\ UNCHANGED <<rows, fileRows, acked, faults>>
    BY DEF Sql!Call, Sql!Goto
  <1>2. SqlTypes'
    BY <1>1 DEF SqlInv, SqlTypes, Idle
  <1>3. Begun'
    BY <1>1 DEF SqlInv, SqlTypes, Begun
  <1>4. Owed' \subseteq Owed
    <2>1. \A d \in Client : pc'[d] = "insert" =>
              pc[d] = "insert" /\ name'[d] = name[d] /\ new'[d] = new[d] /\ todo'[d] = todo[d]
      BY <1>1 DEF SqlInv, SqlTypes
    <2> QED
      BY <1>1, <2>1 DEF Owed
  <1> QED
    BY <1>1, <1>2, <1>3, <1>4, OwedKept DEF SqlInv

LEMMA SqlUpsert ==
    ASSUME SqlInv, NEW c \in Client, Sql!Upsert(c)
    PROVE  SqlInv'
  <1>1. /\ pc[c] = "upsert" /\ pc' = [pc EXCEPT ![c] = "select id"]
        /\ rows' = rows \union {name[c]}
        /\ UNCHANGED <<fileRows, name, todo, new, acked, faults>>
    BY DEF Sql!Upsert, Sql!Goto
  <1>2. SqlTypes'
    BY <1>1 DEF SqlInv, SqlTypes, Idle
  <1>3. Begun'
    BY <1>1 DEF SqlInv, SqlTypes, Begun
  <1>4. Owed' \subseteq Owed
    <2>1. \A d \in Client : pc'[d] = "insert" => pc[d] = "insert"
      BY <1>1 DEF SqlInv, SqlTypes
    <2> QED
      BY <1>1, <2>1 DEF Owed
  <1> QED
    BY <1>1, <1>2, <1>3, <1>4, OwedKept DEF SqlInv

LEMMA SqlSelectId ==
    ASSUME SqlInv, NEW c \in Client, Sql!SelectId(c)
    PROVE  SqlInv'
  <1>1. /\ pc[c] = "select id" /\ pc' = [pc EXCEPT ![c] = "insert"]
        /\ name[c] \in rows /\ todo[c] = new[c]
        /\ UNCHANGED <<rows, fileRows, name, todo, new, acked, faults>>
    BY DEF Sql!SelectId, Sql!Goto, SqlInv, Begun
  <1>2. SqlTypes'
    BY <1>1 DEF SqlInv, SqlTypes, Idle
  <1>3. Begun'
    BY <1>1 DEF SqlInv, SqlTypes, Begun
  <1>4. Owed' \subseteq Owed
    <2>1. \A d \in Client : pc'[d] = "insert" => pc[d] = "insert" \/ new[d] \ todo[d] = {}
      BY <1>1 DEF SqlInv, SqlTypes
    <2> QED
      BY <1>1, <2>1 DEF Owed
  <1> QED
    BY <1>1, <1>2, <1>3, <1>4, OwedKept DEF SqlInv

\* One file of a call is tried.
LEMMA SqlTry ==
    ASSUME SqlInv, NEW c \in Client, NEW f \in File,
           Sql!InsertFile(c, f) \/ Sql!InsertFails(c, f)
    PROVE  SqlInv'
  <1>1. /\ pc[c] = "insert" /\ f \in todo[c] /\ todo' = [todo EXCEPT ![c] = @ \ {f}]
        /\ UNCHANGED <<rows, pc, name, new, acked>>
        /\ \/ fileRows' = fileRows \union {<<name[c], f>>} /\ faults' = faults
           \/ faults' = faults + 1 /\ fileRows' \in {fileRows, fileRows \union {<<name[c], f>>}}
    BY DEF Sql!InsertFile, Sql!InsertFails, Sql!Try, Sql!Fault
  <1>2. faults \in Nat
    BY DEF SqlInv, SqlTypes
  <1>3. SqlTypes'
    <2>1. faults' \in Nat
      BY <1>1, <1>2
    <2>2. todo' \in [Client -> SUBSET File]
      BY <1>1 DEF SqlInv, SqlTypes
    <2>3. pc' \in [Client -> {"idle", "upsert", "select id", "insert"}]
          /\ \A d \in Client : pc'[d] # "idle" => pc[d] # "idle"
      BY <1>1 DEF SqlInv, SqlTypes
    <2> QED
      BY <1>1, <2>1, <2>2, <2>3 DEF SqlInv, SqlTypes, Idle
  <1>4. Begun'
    BY <1>1 DEF SqlInv, SqlTypes, Begun
  <1>5. Owed' \subseteq Owed \union {<<name[c], f>>}
    <2>1. \A d \in Client : new'[d] = new[d] /\ todo'[d] = IF d = c THEN todo[d] \ {f} ELSE todo[d]
      BY <1>1 DEF SqlInv, SqlTypes
    <2> QED
      BY <1>1, <2>1 DEF Owed
  <1>6. <<name[c], f>> \in fileRows' => Owed' \subseteq Owed
    BY <1>5 DEF Owed
  <1> QED
    BY <1>1, <1>3, <1>4, <1>5, <1>6, OwedKept DEF SqlInv

LEMMA SqlReturn ==
    ASSUME SqlInv, NEW c \in Client, Sql!Return(c)
    PROVE  SqlInv'
  <1>1. /\ pc[c] = "insert" /\ pc' = [pc EXCEPT ![c] = "idle"] /\ todo[c] = {}
        /\ acked' \in {acked, acked \union {<<name[c], f>> : f \in new[c]}}
        /\ UNCHANGED <<rows, fileRows, name, todo, new, faults>>
    BY DEF Sql!Return, Sql!Goto
  <1>2. name[c] \in Name /\ new[c] \subseteq File
    BY <1>1 DEF SqlInv, SqlTypes, Idle
  <1>3. SqlTypes'
    <2>1. acked' \subseteq Name \X File
      <3>1. acked \subseteq Name \X File
        BY DEF SqlInv, SqlTypes
      <3>2. {<<name[c], f>> : f \in new[c]} \subseteq Name \X File
        BY <1>2
      <3> QED
        BY <1>1, <3>1, <3>2
    <2> QED
      BY <1>1, <2>1 DEF SqlInv, SqlTypes, Idle
  <1>4. Begun'
    BY <1>1 DEF SqlInv, SqlTypes, Begun
  <1>5. Owed' \subseteq Owed
    <2>1. \A d \in Client : pc'[d] = "insert" => pc[d] = "insert"
      BY <1>1 DEF SqlInv, SqlTypes
    <2>2. ASSUME NEW p \in Owed' PROVE p \in Owed
      <3>1. p \in Name \X File /\ p \notin fileRows
        BY <1>1, <2>2 DEF Owed
      <3>2. CASE p \in acked'
        <4>1. p \in acked \/ \E f \in new[c] : p = <<name[c], f>>
          BY <1>1, <3>2
        <4>2. p \in acked \/ (p[1] = name[c] /\ p[2] \in new[c] \ todo[c])
          BY <1>1, <4>1
        <4> QED
          BY <1>1, <3>1, <4>2 DEF Owed
      <3>3. CASE \E d \in Client : pc'[d] = "insert" /\ p[1] = name[d] /\ p[2] \in new[d] \ todo[d]
        BY <2>1, <3>1, <3>3 DEF Owed
      <3> QED
        BY <1>1, <2>2, <3>2, <3>3 DEF Owed
    <2> QED
      BY <2>2
  <1> QED
    BY <1>1, <1>3, <1>4, <1>5, OwedKept DEF SqlInv

LEMMA SqlAbandon ==
    ASSUME SqlInv, NEW c \in Client, Sql!Abandon(c)
    PROVE  SqlInv'
  <1>1. /\ pc' = [pc EXCEPT ![c] = "idle"] /\ todo' = [todo EXCEPT ![c] = {}]
        /\ faults' = faults + 1
        /\ UNCHANGED <<rows, fileRows, name, new, acked>>
    BY DEF Sql!Abandon, Sql!Goto, Sql!Fault
  <1>2. faults \in Nat
    BY DEF SqlInv, SqlTypes
  <1>3. SqlTypes'
    <2>1. faults' \in Nat
      BY <1>1, <1>2
    <2>2. todo' \in [Client -> SUBSET File]
      BY <1>1 DEF SqlInv, SqlTypes
    <2>3. pc' \in [Client -> {"idle", "upsert", "select id", "insert"}]
          /\ \A d \in Client : pc'[d] # "idle" => pc[d] # "idle"
      BY <1>1 DEF SqlInv, SqlTypes
    <2> QED
      BY <1>1, <2>1, <2>2, <2>3 DEF SqlInv, SqlTypes, Idle
  <1>4. Begun'
    BY <1>1 DEF SqlInv, SqlTypes, Begun
  <1>5. Owed' \subseteq Owed
    <2>1. \A d \in Client : pc'[d] = "insert" => pc[d] = "insert" /\ todo'[d] = todo[d]
      BY <1>1 DEF SqlInv, SqlTypes
    <2> QED
      BY <1>1, <2>1 DEF Owed
  <1> QED
    BY <1>1, <1>3, <1>4, <1>5, OwedKept DEF SqlInv

LEMMA SqlNext == SqlInv /\ Sql!Next => SqlInv'
  BY SqlCall, SqlUpsert, SqlSelectId, SqlTry, SqlReturn, SqlAbandon DEF Sql!Next, Sql!AddTorrent

\* So does SQL.
LEMMA SqlStores ==
    ASSUME SqlInv, Sql!Next, driver = "sql", driver' = "sql"
    PROVE  Store!Next \/ UNCHANGED <<Known, KnownFiles>>
  <1>1. /\ Known = rows /\ Known' = rows'
        /\ KnownFiles = [t \in Name |-> {f \in File : <<t, f>> \in fileRows}]
        /\ KnownFiles' = [t \in Name |-> {f \in File : <<t, f>> \in fileRows'}]
    BY DEF Known, KnownFiles, Sql!KnownFiles
  <1>2. ASSUME NEW c \in Client, Sql!Upsert(c) PROVE Store!Next
    <2>1. name[c] \in Name /\ rows' = rows \union {name[c]} /\ fileRows' = fileRows
      BY <1>2 DEF Sql!Upsert, SqlInv, SqlTypes, Idle
    <2>2. KnownFiles' = KnownFiles
      BY <1>1, <2>1
    <2>3. [KnownFiles EXCEPT ![name[c]] = @ \union {}] = KnownFiles
      BY <1>1, <2>1
    <2>4. Store!Put(name[c], {})
      BY <1>1, <2>1, <2>2, <2>3 DEF Store!Put
    <2> QED
      BY <2>1, <2>4 DEF Store!Next
  <1>3. ASSUME NEW c \in Client, NEW f \in File, pc[c] = "insert", UNCHANGED rows,
               fileRows' = fileRows \union {<<name[c], f>>}
        PROVE  Store!Next
    <2>1. name[c] \in Name /\ name[c] \in rows
      BY <1>3 DEF SqlInv, SqlTypes, Begun, Idle
    <2>2. Known' = Known \union {name[c]}
      BY <1>1, <1>3, <2>1
    <2>3. \A t \in Name : {g \in File : <<t, g>> \in fileRows'}
                            = {g \in File : <<t, g>> \in fileRows} \union IF t = name[c] THEN {f} ELSE {}
      BY <1>3
    <2>4. KnownFiles' = [KnownFiles EXCEPT ![name[c]] = @ \union {f}]
      BY <1>1, <2>1, <2>3
    <2>5. Store!Put(name[c], {f})
      BY <2>2, <2>4 DEF Store!Put
    <2> QED
      BY <2>1, <2>5 DEF Store!Next
  <1>4. ASSUME NEW c \in Client, NEW f \in File, Sql!InsertFile(c, f) \/ Sql!InsertFails(c, f)
        PROVE  Store!Next \/ UNCHANGED <<rows, fileRows>>
    BY <1>3, <1>4 DEF Sql!InsertFile, Sql!InsertFails, Sql!Try
  <1>5. ASSUME NEW c \in Client, NEW t \in Name, NEW fs \in SUBSET File, Sql!Call(c, t, fs)
        PROVE  UNCHANGED <<rows, fileRows>>
    BY <1>5 DEF Sql!Call
  <1>6. ASSUME NEW c \in Client, Sql!SelectId(c) \/ Sql!Return(c) \/ Sql!Abandon(c)
        PROVE  UNCHANGED <<rows, fileRows>>
    BY <1>6 DEF Sql!SelectId, Sql!Return, Sql!Abandon
  <1>7. UNCHANGED <<rows, fileRows>> => UNCHANGED <<Known, KnownFiles>>
    BY <1>1
  <1> QED
    BY <1>2, <1>4, <1>5, <1>6, <1>7 DEF Sql!Next, Sql!AddTorrent

-----------------------------------------------------------------------------
(* The database, with either driver *)

DatabaseInv ==
    /\ driver \in {"redis", "sql"}
    /\ driver = "redis" => RedisInv /\ ReachInv
    /\ driver = "sql" => SqlInv /\ idx = [t \in Name |-> 0]

\* The stores count as Database does.
LEMMA SameCardinality ==
    ASSUME NEW S
    PROVE  Sql!Cardinality(S) = Cardinality(S) /\ Redis!Cardinality(S) = Cardinality(S)
  BY DEF Cardinality, Sql!Cardinality, Redis!Cardinality

LEMMA DatabaseInvariant == Spec => []DatabaseInv
  <1>1. Init => DatabaseInv
    BY RedisInit, ReachInit, SqlInit DEF Init, DatabaseInv, Redis!Init
  <1>2. DatabaseInv /\ [Next]_vars => DatabaseInv'
    <2> SUFFICES ASSUME DatabaseInv, [Next]_vars PROVE DatabaseInv'
      OBVIOUS
    <2>1. CASE RedisStep
      BY <2>1, RedisNext, ReachNext DEF RedisStep, DatabaseInv
    <2>2. CASE SqlStep
      BY <2>2, SqlNext DEF SqlStep, DatabaseInv, redisOnly
    <2>3. CASE UNCHANGED vars
      <3>1. UNCHANGED <<driver, rows, pc, name, new, acked, calls, faults, idx, tt_idx, tt_ti,
                        files, sid, raced, fileRows, todo, failed>>
        BY <2>3 DEF vars, Redis!vars, Redis!db, Redis!call, Sql!vars
      <3>2. RedisInv => RedisInv'
        BY <3>1 DEF RedisInv, RedisTypes, EnoughIds, IdsBehindCounter, NoFilesAhead, Alone,
                    Before, Idle, OnItsWay, Placed
      <3>3. ReachInv => ReachInv'
        BY <3>1 DEF ReachInv, PlacedOwn, Lost, Placed, Reversing
      <3>4. SqlInv => SqlInv'
        BY <3>1 DEF SqlInv, SqlTypes, Begun, Owed, Idle
      <3> QED
        BY <3>1, <3>2, <3>3, <3>4 DEF DatabaseInv
    <2> QED
      BY <2>1, <2>2, <2>3 DEF Next
  <1> QED
    BY <1>1, <1>2, PTL DEF Spec

\* INCR hands each id out once, so that no two torrents share one, however many calls
\* of AddTorrent overlap, and wherever they break off.
THEOREM IdsStayUnique == Spec => []UniqueIds
  <1>1. DatabaseInv => UniqueIds
    <2>1. RedisInv => UniqueIds
      BY DEF RedisInv, IdsBehindCounter, UniqueIds, Redis!UniqueIds, Redis!Known, OnItsWay
    <2>2. SqlInv /\ idx = [t \in Name |-> 0] => UniqueIds
      BY DEF SqlInv, SqlTypes, UniqueIds, Redis!UniqueIds, Redis!Known
    <2> QED
      BY <2>1, <2>2 DEF DatabaseInv
  <1> QED
    BY <1>1, DatabaseInvariant, PTL

\* Torrents that are stored and not found by their id are as many as the calls that
\* broke off, at most: the two indexes part only where one ended between the writes.
THEOREM ReverseIndexHeld == Spec => []ReverseHeld
  <1>1. DatabaseInv => ReverseHeld
    <2> SUFFICES ASSUME DatabaseInv PROVE Cardinality(Redis!Unreachable) <= faults
      BY SameCardinality DEF ReverseHeld, Redis!ReverseHeld
    <2>1. CASE driver = "redis"
      <3>1. Redis!Unreachable = Lost
        BY DEF Redis!Unreachable, Redis!Known, Lost, Reversing
      <3> QED
        BY <2>1, <3>1 DEF DatabaseInv, ReachInv
    <2>2. CASE driver = "sql"
      <3>1. Redis!Unreachable = {}
        BY <2>2 DEF DatabaseInv, Redis!Unreachable, Redis!Known
      <3>2. Cardinality(Redis!Unreachable) = 0 /\ faults \in Nat
        BY <2>2, <3>1, FS_EmptySet DEF DatabaseInv, SqlInv, SqlTypes
      <3> QED
        BY <3>2
    <2> QED
      BY <2>1, <2>2 DEF DatabaseInv
  <1> QED
    BY <1>1, DatabaseInvariant, PTL

\* A file that AddTorrent acknowledged is found again: with redis, unless two calls for
\* its name overlapped; with SQL, but for one file for each failed statement.
THEOREM AcknowledgedKept == Spec => []AckedKept
  <1>1. DatabaseInv => AckedKept
    <2> SUFFICES ASSUME DatabaseInv PROVE AckedKept
      OBVIOUS
    <2>1. CASE driver = "redis"
      <3>1. RedisInv
        BY <2>1 DEF DatabaseInv
      <3>2. ASSUME NEW p \in acked, p[1] \notin raced PROVE p[2] \in Redis!KnownFiles[p[1]]
        <4>1. p[1] \in Name /\ p[2] \in File /\ p = <<p[1], p[2]>>
          BY <3>1 DEF RedisInv, RedisTypes
        <4>2. idx[p[1]] # 0 /\ p[2] \in files[idx[p[1]]]
          BY <3>1, <3>2, <4>1 DEF RedisInv, Alone
        <4> QED
          BY <4>1, <4>2 DEF Redis!KnownFiles
      <3> QED
        BY <2>1, <3>2 DEF AckedKept, Redis!AckedKept
    <2>2. CASE driver = "sql"
      <3>1. acked \ fileRows \subseteq Owed
        BY <2>2 DEF DatabaseInv, SqlInv, SqlTypes, Owed
      <3>2. IsFiniteSet(Owed) /\ Cardinality(Owed) <= faults /\ faults \in Nat
        BY <2>2 DEF DatabaseInv, SqlInv, SqlTypes
      <3> DEFINE lost == Cardinality(acked \ fileRows)
                 n == Cardinality(Owed)
      <3>3. IsFiniteSet(acked \ fileRows) /\ lost <= n
        BY <3>1, <3>2, FS_Subset
      <3>4. lost \in Nat /\ n \in Nat
        BY <3>2, <3>3, FS_CardinalityType
      <3>5. lost <= faults
        <4>1. n <= faults
          BY <3>2
        <4> HIDE DEF lost, n
        <4> QED
          BY <3>2, <3>3, <3>4, <4>1
      <3>6. Sql!AckedKept
        BY <3>5, SameCardinality DEF Sql!AckedKept
      <3> QED
        BY <2>2, <3>6 DEF AckedKept
    <2> QED
      BY <2>1, <2>2 DEF DatabaseInv
  <1> QED
    BY <1>1, DatabaseInvariant, PTL

\* Either store implements TorrentStore: what is stored stays stored, and files are
\* only added, one name at a time; with redis, until two calls for one name overlap.
THEOREM ImplementsTorrentStore == Spec => StoreSpec
  <1>1. Init => Store!Init
    BY DEF Init, Redis!Init, Sql!Init, Store!Init, Known, KnownFiles, Redis!Known,
           Redis!KnownFiles, Sql!KnownFiles
  <1>2. DatabaseInv /\ [Next]_vars => [raced' = {} => Store!Next]_<<Known, KnownFiles>>
    <2> SUFFICES ASSUME DatabaseInv, [Next]_vars, raced' = {}
                 PROVE  Store!Next \/ UNCHANGED <<Known, KnownFiles>>
      OBVIOUS
    <2>1. CASE RedisStep
      BY <2>1, RedisStores DEF RedisStep, DatabaseInv
    <2>2. CASE SqlStep
      BY <2>2, SqlStores DEF SqlStep, DatabaseInv
    <2>3. CASE UNCHANGED vars
      BY <2>3 DEF vars, Redis!vars, Redis!db, Redis!call, Sql!vars, Known, KnownFiles,
                  Redis!Known, Redis!KnownFiles, Sql!KnownFiles
    <2> QED
      BY <2>1, <2>2, <2>3 DEF Next
  <1> QED
    BY <1>1, <1>2, DatabaseInvariant, PTL DEF Spec, StoreSpec
=============================================================================
