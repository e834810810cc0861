--------------------------- MODULE ClusterProofs ---------------------------
(* Theorems about Cluster, for every set of nodes and every retry count. *)
EXTENDS Cluster, FiniteSetTheorems, TLAPS

-----------------------------------------------------------------------------
LEMMA EnoughType == Enough \in Nat /\ Enough > 0
  BY ClusterAssumption DEF Enough

LEMMA TypeInit == Init => TypeOK
  BY EnoughType DEF Init, TypeOK, PCs

\* The types are inductive.
LEMMA TypeNext == TypeOK /\ [Next]_vars => TypeOK'
  <1> SUFFICES ASSUME TypeOK, [Next]_vars PROVE TypeOK'
    OBVIOUS
  <1> USE EnoughType DEF TypeOK, PCs, Goto, subs, request
  <1>1. CASE UNCHANGED vars
    BY <1>1 DEF vars
  <1>2. ASSUME NEW n \in Node, Start(n) PROVE TypeOK'
    BY <1>2 DEF Start
  <1>3. ASSUME NEW n \in Node, Loop(n) PROVE TypeOK'
    <2>1. CASE Ping(n)
      BY <2>1 DEF Ping, Publish, Listening
    <2>2. CASE MasterAlive(n)
      BY <2>2 DEF MasterAlive, Settled
    <2>3. CASE MasterSilent(n)
      BY <2>3 DEF MasterSilent, NoResponders, Settled, Counted, AfterSilence
    <2>4. CASE PingFails(n)
      BY <2>4 DEF PingFails, Settled
    <2>5. CASE StopSeen(n)
      BY <2>5 DEF StopSeen
    <2> QED
      BY <1>3, <2>1, <2>2, <2>3, <2>4, <2>5 DEF Loop
  <1>4. ASSUME NEW n \in Node, AsMaster(n) PROVE TypeOK'
    <2>1. CASE Propose(n)
      BY <2>1 DEF Propose, Publish, Listening
    <2>2. CASE BackOff(n)
      BY <2>2 DEF BackOff, Settled
    <2>3. CASE Elected(n)
      BY <2>3 DEF Elected, NoResponders, Settled
    <2>4. CASE TakeOver(n) \/ InitOk(n)
      BY <2>4 DEF TakeOver, InitOk
    <2>5. CASE InitFails(n)
      BY <2>5 DEF InitFails, Unsubscribed, Unheard
    <2>6. CASE Unwind(n)
      BY <2>6 DEF Unwind, Unsubscribed, Unheard
    <2> QED
      BY <1>4, <2>1, <2>2, <2>3, <2>4, <2>5, <2>6 DEF AsMaster
  <1>5. ASSUME NEW n \in Node, Network(n) PROVE TypeOK'
    <2>1. CASE Disconnect(n)
      BY <2>1 DEF Disconnect, Unheard
    <2>2. CASE Reconnect(n)
      BY <2>2 DEF Reconnect, Listening
    <2>3. ASSUME NEW m \in Node, Answer(m, n) PROVE TypeOK'
      BY <2>3 DEF Answer
    <2> QED
      BY <1>5, <2>1, <2>2, <2>3 DEF Network
  <1>6. ASSUME NEW n \in Node, Stop(n) PROVE TypeOK'
    BY <1>6 DEF Stop, Unheard
  <1>7. ASSUME NEW n \in Node, Exit(n) \/ Crash(n) PROVE TypeOK'
    <2>1. Gone(n) /\ faults' = faults /\ exits' \in Nat
      BY <1>7 DEF Exit, Crash
    <2>2. asked' \in [Node -> SUBSET Node]
      BY <2>1 DEF Gone, Unheard
    <2> QED
      BY <2>1, <2>2 DEF Gone
  <1> QED
    BY <1>1, <1>2, <1>3, <1>4, <1>5, <1>6, <1>7 DEF Next

\* Every variable of the cluster keeps its type.
THEOREM Typing == Spec => []TypeOK
  BY TypeInit, TypeNext, PTL DEF Spec

-----------------------------------------------------------------------------
(***************************************************************************)
(* Exclusion. Whoever is past its subscription to the propose subject is a *)
(* candidate; of two candidates one still waits for the other's answer, or *)
(* for some answer on its way, and will back off. This holds outside of a  *)
(* set D of nodes hit by a fault, one for each fault at most.              *)
(***************************************************************************)
Candidate(n) == pc[n] \in {"proposing", "elected", "init", "master"} /\ ~stopping[n]

Hears(n, m) == pc[n] = "proposing" /\ (m \in asked[n] \/ answered[n])

Apart(D) ==
    /\ \A n \in Node \ D : pc[n] # "down" => connected[n]
    /\ \A n \in Node \ D : Candidate(n) => proposeSub[n]
    /\ \A m, n \in Node \ D : m # n /\ Candidate(m) /\ Candidate(n) => Hears(n, m) \/ Hears(m, n)

ElectInv == \E D \in SUBSET Node : IsFiniteSet(D) /\ Cardinality(D) <= faults /\ Apart(D)

LEMMA ElectInit == Init => ElectInv
  <1> SUFFICES ASSUME Init PROVE ElectInv
    OBVIOUS
  <1>1. IsFiniteSet({}) /\ Cardinality({}) = 0
    BY FS_EmptySet
  <1>2. Apart({})
    BY DEF Init, Apart, Candidate
  <1> QED
    BY <1>1, <1>2 DEF Init, ElectInv

\* A step that makes no new candidate and ends no wait but that of a node which
\* leaves keeps the candidates apart.
LEMMA ElectCalm ==
    ASSUME TypeOK, TypeOK', NEW D \in SUBSET Node, Apart(D),
           \A n \in Node \ D : pc'[n] # "down" => connected'[n],
           \A n \in Node \ D : Candidate(n)' => Candidate(n) /\ proposeSub'[n] = proposeSub[n],
           \A m, n \in Node \ D : Candidate(m)' /\ Candidate(n)' /\ Hears(n, m) => Hears(n, m)'
    PROVE  Apart(D)'
  BY DEF Apart

\* A step keeps the candidates outside of D apart, unless it is a fault of one node.
LEMMA ApartNext ==
    ASSUME TypeOK, TypeOK', [Next]_vars, NEW D \in SUBSET Node, Apart(D)
    PROVE  Apart(D)' \/ \E k \in Node : faults' = faults + 1 /\ Apart(D \union {k})'
  <1> USE DEF Goto, subs, request
  <1>t. /\ pc \in [Node -> PCs] /\ proposeSub \in [Node -> BOOLEAN] /\ connected \in [Node -> BOOLEAN]
        /\ asked \in [Node -> SUBSET Node] /\ answered \in [Node -> BOOLEAN]
        /\ stopping \in [Node -> BOOLEAN] /\ faults \in Nat
    BY DEF TypeOK
  <1>1. CASE UNCHANGED vars
    BY <1>1, ElectCalm DEF vars, Candidate, Hears, Apart
  <1>2. ASSUME NEW n \in Node, Start(n) PROVE Apart(D)'
    BY <1>2, <1>t, ElectCalm DEF Start, Candidate, Hears, Apart
  <1>3. ASSUME NEW n \in Node, Loop(n) PROVE Apart(D)'
    <2>1. /\ pc[n] \in {"ping", "pinging"} /\ pc'[n] \in {"ping", "pinging", "propose", "returned"}
          /\ \A m \in Node : m # n => UNCHANGED <<pc[m], asked[m], answered[m]>>
          /\ UNCHANGED <<proposeSub, connected, stopping>>
      <3>1. CASE Ping(n)
        BY <3>1, <1>t DEF Ping, Publish
      <3>2. CASE MasterAlive(n) \/ PingFails(n) \/ StopSeen(n)
        BY <3>2, <1>t DEF MasterAlive, PingFails, StopSeen, Settled
      <3>3. CASE MasterSilent(n)
        BY <3>3, <1>t DEF MasterSilent, NoResponders, Settled, AfterSilence
      <3> QED
        BY <1>3, <3>1, <3>2, <3>3 DEF Loop
    <2> QED
      BY <2>1, ElectCalm DEF Candidate, Hears, Apart
  <1>4. ASSUME NEW n \in Node, Propose(n) PROVE Apart(D)'
    <2>1. /\ pc[n] = "propose" /\ pc' = [pc EXCEPT ![n] = "proposing"]
          /\ proposeSub' = [proposeSub EXCEPT ![n] = TRUE] /\ UNCHANGED <<connected, stopping>>
          /\ asked' = [asked EXCEPT ![n] = IF connected[n] THEN Listening(proposeSub) \ {n} ELSE {}]
          /\ answered' = [answered EXCEPT ![n] = FALSE]
      BY <1>4 DEF Propose, Publish
    <2>2. /\ \A m \in Node \ D : pc'[m] # "down" => connected'[m]
          /\ \A m \in Node \ D : Candidate(m)' => proposeSub'[m]
      BY <2>1, <1>t DEF Apart, Candidate
    <2>3. ASSUME NEW m \in Node \ D, m # n, Candidate(m), n \notin D PROVE Hears(n, m)'
      <3>1. proposeSub[m] /\ connected[m] /\ connected[n]
        BY <2>1, <2>3 DEF Apart, Candidate
      <3> QED
        BY <2>1, <2>3, <3>1, <1>t DEF Listening, Hears
    <2>4. ASSUME NEW m \in Node, m # n PROVE /\ Candidate(m)' <=> Candidate(m)
                                             /\ \A k \in Node : Hears(m, k)' <=> Hears(m, k)
      BY <2>1, <2>4, <1>t DEF Candidate, Hears
    <2>5. ASSUME NEW k \in Node \ D, NEW m \in Node \ D, k # m, Candidate(k)', Candidate(m)'
          PROVE  Hears(k, m)' \/ Hears(m, k)'
      <3>1. CASE k = n
        BY <3>1, <2>3, <2>4, <2>5
      <3>2. CASE m = n
        BY <3>2, <2>3, <2>4, <2>5
      <3>3. CASE k # n /\ m # n
        BY <3>3, <2>1, <2>4, <2>5 DEF Apart
      <3> QED
        BY <3>1, <3>2, <3>3
    <2> QED
      BY <2>2, <2>5 DEF Apart
  <1>5. ASSUME NEW n \in Node, Elected(n)
        PROVE  Apart(D)' \/ (faults' = faults + 1 /\ Apart(D \union {n})')
    <2>1. /\ pc[n] = "proposing" /\ pc' = [pc EXCEPT ![n] = "elected"]
          /\ UNCHANGED <<proposeSub, connected, stopping>>
          /\ \A m \in Node : m # n => UNCHANGED <<asked[m], answered[m]>>
      BY <1>5, <1>t DEF Elected, NoResponders, Settled
    <2>2. CASE asked[n] = {} /\ ~answered[n]
      <3>1. \A m \in Node : ~Hears(n, m)
        BY <2>2 DEF Hears
      <3> QED
        BY <2>1, <3>1, <1>t DEF Apart, Candidate, Hears
    <2>3. CASE ~(asked[n] = {} /\ ~answered[n])
      <3>1. faults' = faults + 1
        BY <1>5, <2>3 DEF Elected, NoResponders
      <3> QED
        BY <2>1, <3>1, <1>t DEF Apart, Candidate, Hears
    <2> QED
      BY <2>2, <2>3
  <1>6. ASSUME NEW n \in Node, BackOff(n) PROVE Apart(D)'
    <2>1. /\ pc' = [pc EXCEPT ![n] = "unwind"] /\ UNCHANGED <<proposeSub, connected, stopping>>
          /\ pc[n] = "proposing"
          /\ \A m \in Node : m # n => UNCHANGED <<asked[m], answered[m]>>
      BY <1>6, <1>t DEF BackOff, Settled
    <2> QED
      BY <2>1, <1>t, ElectCalm DEF Apart, Candidate, Hears
  <1>7. ASSUME NEW n \in Node, TakeOver(n) \/ InitOk(n) PROVE Apart(D)'
    <2>1. /\ pc[n] \in {"elected", "init"} /\ pc'[n] \in {"init", "master"}
          /\ \A m \in Node : m # n => pc'[m] = pc[m]
          /\ UNCHANGED <<proposeSub, connected, asked, answered, stopping>>
      BY <1>7, <1>t DEF TakeOver, InitOk
    <2>2. \A m \in Node \ D : pc'[m] # "down" => connected'[m]
      BY <2>1 DEF Apart
    <2> QED
      BY <2>1, <2>2, ElectCalm DEF Candidate, Hears
  <1>8. ASSUME NEW n \in Node, InitFails(n) PROVE Apart(D)'
    BY <1>8, <1>t, ElectCalm DEF InitFails, Unsubscribed, Unheard, Apart, Candidate, Hears
  <1>9. ASSUME NEW n \in Node, Unwind(n) PROVE Apart(D)'
    BY <1>9, <1>t, ElectCalm DEF Unwind, Unsubscribed, Unheard, Apart, Candidate, Hears
  <1>10. ASSUME NEW n \in Node, Disconnect(n)
         PROVE  faults' = faults + 1 /\ Apart(D \union {n})'
    <2>1. /\ faults' = faults + 1 /\ UNCHANGED <<pc, proposeSub, stopping>>
          /\ \A m \in Node : m # n => /\ UNCHANGED <<connected[m], answered[m]>>
                                      /\ asked'[m] = asked[m] \ {n}
      BY <1>10, <1>t DEF Disconnect, Unheard
    <2> QED
      BY <2>1, <1>t DEF Apart, Candidate, Hears
  <1>11. ASSUME NEW n \in Node, Reconnect(n) PROVE Apart(D)'
    <2>1. /\ n \in D /\ UNCHANGED <<pc, proposeSub, stopping, answered>>
          /\ \A m \in Node : m # n => UNCHANGED <<connected[m], asked[m]>>
      BY <1>11, <1>t DEF Reconnect, Apart
    <2>2. \A m \in Node \ D : pc'[m] # "down" => connected'[m]
      BY <2>1 DEF Apart
    <2> QED
      BY <2>1, <2>2, ElectCalm DEF Candidate, Hears
  <1>12. ASSUME NEW n \in Node, NEW m \in Node, Answer(m, n) PROVE Apart(D)'
    BY <1>12, <1>t, ElectCalm DEF Answer, Apart, Candidate, Hears
  <1>13. ASSUME NEW n \in Node, Stop(n) PROVE Apart(D)'
    BY <1>13, <1>t, ElectCalm DEF Stop, Unheard, Apart, Candidate, Hears
  <1>14. ASSUME NEW n \in Node, Exit(n) \/ Crash(n) PROVE Apart(D)'
    <2>1. Gone(n)
      BY <1>14 DEF Exit, Crash
    <2>2. ~Candidate(n)' /\ pc'[n] = "down"
      BY <2>1, <1>t DEF Gone, Candidate
    <2>3. ASSUME NEW m \in Node, m # n
          PROVE  /\ UNCHANGED <<pc[m], proposeSub[m], connected[m], answered[m], stopping[m]>>
                 /\ asked'[m] = asked[m] \ {n}
      BY <2>1, <2>3, <1>t DEF Gone, Unheard
    <2>4. \A m \in Node \ D : pc'[m] # "down" => connected'[m]
      BY <2>2, <2>3 DEF Apart
    <2> QED
      BY <2>2, <2>3, <2>4, ElectCalm DEF Candidate, Hears
  <1> QED
    BY <1>1, <1>2, <1>3, <1>4, <1>5, <1>6, <1>7, <1>8, <1>9, <1>10, <1>11, <1>12, <1>13, <1>14
       DEF Next, AsMaster, Network

\* Faults are counted one by one.
LEMMA FaultSteps ==
    ASSUME [Next]_vars
    PROVE  faults' = faults \/ faults' = faults + 1
  <1> USE DEF subs, request
  <1>1. ASSUME NEW n \in Node, Loop(n) PROVE faults' = faults \/ faults' = faults + 1
    BY <1>1 DEF Loop, Ping, MasterAlive, MasterSilent, NoResponders, PingFails, StopSeen
  <1>2. ASSUME NEW n \in Node, AsMaster(n) PROVE faults' = faults \/ faults' = faults + 1
    BY <1>2 DEF AsMaster, Propose, BackOff, Elected, NoResponders, TakeOver, InitOk, InitFails, Unwind
  <1>3. ASSUME NEW n \in Node, Network(n) PROVE faults' = faults \/ faults' = faults + 1
    BY <1>3 DEF Network, Disconnect, Reconnect, Answer
  <1> QED
    BY <1>1, <1>2, <1>3 DEF Next, Start, Stop, Exit, Crash, vars

LEMMA ElectNext == TypeOK /\ TypeOK' /\ ElectInv /\ [Next]_vars => ElectInv'
  <1> SUFFICES ASSUME TypeOK, TypeOK', ElectInv, [Next]_vars PROVE ElectInv'
    OBVIOUS
  <1>t. faults \in Nat
    BY DEF TypeOK
  <1>1. PICK D \in SUBSET Node : IsFiniteSet(D) /\ Cardinality(D) <= faults /\ Apart(D)
    BY DEF ElectInv
  <1>2. Cardinality(D) \in Nat
    BY <1>1, FS_CardinalityType
  <1>3. CASE Apart(D)'
    <2>1. Cardinality(D) <= faults'
      BY <1>1, <1>2, <1>t, FaultSteps
    <2> QED
      BY <1>1, <1>3, <2>1 DEF ElectInv
  <1>4. ASSUME NEW k \in Node, faults' = faults + 1, Apart(D \union {k})' PROVE ElectInv'
    <2>1. /\ IsFiniteSet(D \union {k})
          /\ Cardinality(D \union {k}) \in {Cardinality(D), Cardinality(D) + 1}
      BY <1>1, FS_AddElement
    <2>2. Cardinality(D \union {k}) <= faults'
      BY <1>1, <1>2, <1>4, <1>t, <2>1
    <2>3. D \union {k} \in SUBSET Node
      OBVIOUS
    <2> QED
      BY <1>4, <2>1, <2>2, <2>3 DEF ElectInv
  <1> QED
    BY <1>1, <1>3, <1>4, ApartNext

LEMMA ElectInvariant == Spec => [](TypeOK /\ ElectInv)
  <1>1. Init => TypeOK /\ ElectInv
    BY TypeInit, ElectInit
  <1>2. (TypeOK /\ ElectInv) /\ [Next]_vars => (TypeOK /\ ElectInv)'
    BY TypeNext, ElectNext
  <1> QED
    BY <1>1, <1>2, PTL DEF Spec

\* Outside of the nodes hit by a fault there is one master at most.
LEMMA MastersBounded == TypeOK /\ ElectInv => IsFiniteSet(Masters) /\ Cardinality(Masters) <= 1 + faults
  <1> SUFFICES ASSUME TypeOK, ElectInv
               PROVE  IsFiniteSet(Masters) /\ Cardinality(Masters) <= 1 + faults
    OBVIOUS
  <1>t. faults \in Nat
    BY DEF TypeOK
  <1>1. PICK D \in SUBSET Node : IsFiniteSet(D) /\ Cardinality(D) <= faults /\ Apart(D)
    BY DEF ElectInv
  <1>2. \A m, n \in Masters \ D : m = n
    BY <1>1 DEF Apart, Masters, Master, Candidate, Hears
  <1>3. PICK k : Masters \subseteq D \union {k}
    <2>1. CASE Masters \subseteq D
      BY <2>1
    <2>2. ASSUME NEW m \in Masters \ D PROVE Masters \subseteq D \union {m}
      BY <1>2, <2>2
    <2> QED
      BY <2>1, <2>2
  <1>4. /\ IsFiniteSet(D \union {k}) /\ Cardinality(D) \in Nat
        /\ Cardinality(D \union {k}) \in {Cardinality(D), Cardinality(D) + 1}
    BY <1>1, FS_AddElement, FS_CardinalityType
  <1>5. /\ IsFiniteSet(Masters)
        /\ Cardinality(Masters) <= Cardinality(D \union {k}) /\ Cardinality(Masters) \in Nat
    BY <1>3, <1>4, FS_Subset, FS_CardinalityType
  <1> QED
    BY <1>1, <1>4, <1>5, <1>t

\* A network that delivers n answers late, or loses n connections, has 1 + n masters
\* at the same time at most, for any number of nodes and any crashes and restarts.
THEOREM MastersPerFault == Spec => []SplitBounded
  BY MastersBounded, ElectInvariant, PTL DEF SplitBounded

-----------------------------------------------------------------------------
(* The refinement of Mastership. *)

\* The role changes hands only by an election, a failed start or an end.
LEMMA RoleSteps ==
    ASSUME TypeOK, [Next]_vars
    PROVE  \/ Masters' = Masters
           \/ \E n \in Node : Masters' = Masters \union {n} /\ n \notin Masters
           \/ \E n \in Masters : Masters' = Masters \ {n} /\ faults' = faults
  <1> USE DEF TypeOK, Goto, Masters, Master, subs
  <1>1. CASE UNCHANGED vars
    BY <1>1 DEF vars
  <1>2. ASSUME NEW n \in Node, Start(n) \/ Loop(n) PROVE Masters' = Masters
    BY <1>2 DEF Start, Loop, Ping, MasterAlive, MasterSilent, PingFails, StopSeen, AfterSilence
  <1>3. ASSUME NEW n \in Node, Propose(n) \/ BackOff(n) \/ TakeOver(n) \/ InitOk(n) \/ Unwind(n)
        PROVE  Masters' = Masters
    BY <1>3 DEF Propose, BackOff, TakeOver, InitOk, Unwind
  <1>4. ASSUME NEW n \in Node, Network(n) PROVE Masters' = Masters
    BY <1>4 DEF Network, Disconnect, Reconnect, Answer
  <1>5. ASSUME NEW n \in Node, Elected(n) PROVE Masters' = Masters \/ (Masters' = Masters \union {n} /\ n \notin Masters)
    BY <1>5 DEF Elected
  <1>6. ASSUME NEW n \in Node, InitFails(n) PROVE Masters' = Masters \ {n} /\ faults' = faults
    BY <1>6 DEF InitFails
  <1>7. ASSUME NEW n \in Node, Stop(n) PROVE Masters' = Masters \ {n} /\ faults' = faults
    BY <1>7 DEF Stop
  <1>8. ASSUME NEW n \in Node, Exit(n) \/ Crash(n) PROVE Masters' = Masters \ {n} /\ faults' = faults
    BY <1>8 DEF Exit, Crash, Gone
  <1> QED
    BY <1>1, <1>2, <1>3, <1>4, <1>5, <1>6, <1>7, <1>8 DEF Next, AsMaster

\* Every step of the cluster is a step of Mastership or changes no role.
LEMMA MastersBoundedNext ==
    (TypeOK /\ ElectInv => IsFiniteSet(Masters) /\ Cardinality(Masters) <= 1 + faults)'
  BY MastersBounded, PTL

LEMMA RoleNext ==
    ASSUME TypeOK, TypeOK', ElectInv', [Next]_vars
    PROVE  [Role!Next]_<<Masters, faults>>
  <1> USE DEF Role!Next, Role!Slip
  <1>t. faults \in Nat /\ faults' \in Nat /\ (faults' = faults \/ faults' = faults + 1)
    BY FaultSteps DEF TypeOK
  <1>1. CASE Masters' = Masters
    BY <1>1, <1>t
  <1>2. ASSUME NEW n \in Node, Masters' = Masters \union {n}, n \notin Masters
        PROVE  Role!Acquire(n)
    <2>1. IsFiniteSet(Masters') /\ Cardinality(Masters') <= 1 + faults'
      BY MastersBoundedNext
    <2>2. IsFiniteSet(Masters)
      BY <1>2, <2>1, FS_Subset
    <2>3. /\ Cardinality(Masters) \in Nat
          /\ Cardinality(Masters \union {n}) = Cardinality(Masters) + 1
      BY <1>2, <2>2, FS_AddElement, FS_CardinalityType
    <2>4. Cardinality(Masters) <= faults'
      BY <1>2, <1>t, <2>1, <2>3
    <2>5. Role!Cardinality(Masters) = Cardinality(Masters)
      BY DEF Cardinality, Role!Cardinality
    <2> QED
      BY <1>2, <1>t, <2>4, <2>5 DEF Role!Acquire
  <1>3. ASSUME NEW n \in Masters, Masters' = Masters \ {n}, faults' = faults
        PROVE  n \in Node /\ Role!Release(n)
    BY <1>3 DEF Role!Release, Masters
  <1> QED
    BY <1>1, <1>2, <1>3, RoleSteps

\* The cluster implements Mastership, whatever faults the network has.
THEOREM ImplementsMastership == Spec => RoleSpec
  <1>1. Init => Role!Init
    BY DEF Init, Role!Init, Masters, Master
  <1>2. TypeOK /\ TypeOK' /\ ElectInv' /\ [Next]_vars => [Role!Next]_<<Masters, faults>>
    BY RoleNext
  <1> QED
    BY <1>1, <1>2, ElectInvariant, PTL DEF Spec, RoleSpec, Role!Spec
=============================================================================
