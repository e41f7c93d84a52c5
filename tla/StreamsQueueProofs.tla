------------------------- MODULE StreamsQueueProofs -------------------------
(***************************************************************************)
(* Proofs about the Redis Streams queue, for any number of entries,        *)
(* processes, retries and faults.                                          *)
(*                                                                         *)
(* IInv holds of every behaviour: every action but record_attempt has the  *)
(* same footprint (it adds, defers or leaves entries, resets counts and    *)
(* starts no handler), and a footprint keeps IInv.  From it follow the     *)
(* types and StartsBounded.  Trimming spares pending entries when there is *)
(* no startup window, whose purge deletes by age.  FInv and PInv hold as   *)
(* long as the group's position never moves back: they give                *)
(* OneDeliveryPerProcess and Conserved.                                    *)
(***************************************************************************)
EXTENDS StreamsQueue, FiniteSetTheorems, WellFoundedInduction, TLAPS

---------------------------------------------------------------------------
(* Sets of ids: least and greatest element, the first k, the trims.        *)

\* A non-empty set of naturals has a least element, which Min chooses.
LEMMA MinChosen ==
  ASSUME NEW S \in SUBSET Nat, S # {}
  PROVE  Min(S) \in S /\ \A x \in S : Min(S) <= x
<1> DEFINE R == {ss \in Nat \X Nat : ss[1] < ss[2]}
<1>1. IsWellFoundedOn(R, Nat)
  BY NatLessThanWellFounded DEF OpToRel
<1>2. \E x \in S : \A y \in S : ~(<<y, x>> \in R)
  <2> HIDE DEF R
  <2> QED BY <1>1, WFMin
<1>3. PICK x \in S : \A y \in S : ~(<<y, x>> \in R)
  BY <1>2
<1>4. ASSUME NEW y \in S PROVE x <= y
  <2>1. x \in Nat /\ y \in Nat /\ (y < x => <<y, x>> \in R)
    OBVIOUS
  <2> QED BY <1>3, <2>1
<1> QED BY <1>4 DEF Min

\* A non-empty bounded set of naturals has a greatest element, which Max chooses.
LEMMA MaxChosen ==
  ASSUME NEW k \in Nat, NEW S \in SUBSET (0..k), S # {}
  PROVE  Max(S) \in S /\ \A x \in S : x <= Max(S)
<1> DEFINE T == {k - x : x \in S}
<1>1. T \in SUBSET Nat /\ T # {}
  <2>1. \A x \in S : k - x \in Nat
    OBVIOUS
  <2>2. \E x : x \in S
    OBVIOUS
  <2> QED BY <2>1, <2>2
<1>2. PICK t \in T : \A u \in T : t <= u
  BY <1>1, MinChosen
<1>3. \E x \in S : \A y \in S : x >= y
  <2>1. PICK x \in S : t = k - x
    BY <1>2
  <2>2. \A y \in S : k - x <= k - y
    BY <1>2, <2>1
  <2> QED BY <2>2
<1> QED BY <1>3 DEF Max

\* A set of naturals bounded by k is finite.
LEMMA BoundedFinite ==
  ASSUME NEW k \in Nat, NEW S \in SUBSET (0..k)
  PROVE  IsFiniteSet(S) /\ Cardinality(S) \in Nat
<1>1. IsFiniteSet(0..k)
  BY FS_Interval
<1>2. IsFiniteSet(S)
  BY <1>1, FS_Subset
<1> QED BY <1>2, FS_CardinalityType

\* First(S, k) has at most k elements.
LEMMA FirstBound ==
  ASSUME NEW b \in Nat, NEW S \in SUBSET (0..b), NEW k \in Nat
  PROVE  /\ First(S, k) \subseteq S
         /\ IsFiniteSet(First(S, k)) /\ Cardinality(First(S, k)) <= k
<1> DEFINE F == First(S, k)
<1>1. F \subseteq S
  BY DEF First
<1>2. IsFiniteSet(F) /\ Cardinality(F) \in Nat
  BY <1>1, BoundedFinite
<1>3. CASE F = {}
  BY <1>1, <1>2, <1>3, FS_EmptySet
<1>4. CASE F # {}
  <2>1. Max(F) \in F /\ \A x \in F : x <= Max(F)
    BY <1>1, <1>4, MaxChosen
  <2>2. PICK m \in S : m = Max(F)
    BY <1>1, <2>1
  <2> DEFINE B == {j \in S : j < m}
  <2>3. IsFiniteSet(B) /\ Cardinality(B) \in Nat
    BY BoundedFinite
  <2>4. Cardinality(B) < k
    BY <2>1, <2>2 DEF First
  <2>5. F \subseteq B \cup {m}
    <3>1. ASSUME NEW x \in F PROVE x \in S /\ (x < m \/ x = m)
      <4>1. x \in S /\ x <= m
        BY <1>1, <2>1, <2>2
      <4> QED BY <4>1
    <3> QED BY <3>1
  <2>6. IsFiniteSet(B \cup {m}) /\ Cardinality(B \cup {m}) = Cardinality(B) + 1
    BY <2>3, FS_AddElement
  <2>7. Cardinality(F) <= Cardinality(B \cup {m})
    BY <2>5, <2>6, FS_Subset
  <2> HIDE DEF B, F
  <2>8. Cardinality(F) <= k
    BY <1>2, <2>3, <2>4, <2>6, <2>7
  <2> QED BY <1>1, <1>2, <2>8 DEF F
<1> QED BY <1>3, <1>4

\* XTRIM removes part of what it may.
LEMMA XTrimRemoves ==
  ASSUME NEW s, NEW removable, NEW t \in XTrim(s, removable)
  PROVE  t \subseteq s /\ s \ t \subseteq removable
BY DEF XTrim

\* A trim leaves part of the stream.
LEMMA TrimLeaves ==
  ASSUME NEW s, NEW P, NEW t \in trim_stream_lua(s, P)
  PROVE  t \subseteq s
<1>1. CASE Cardinality(s) <= MaxLen
  BY <1>1 DEF trim_stream_lua
<1>2. CASE ~(Cardinality(s) <= MaxLen) /\ P = {}
  BY <1>2, XTrimRemoves DEF trim_stream_lua
<1>3. CASE ~(Cardinality(s) <= MaxLen) /\ P # {}
  <2>1. PICK f \in XTrim(s, {i \in s : i < Min(P)}) :
          t \in IF Cardinality(f) > HardMaxLen THEN XTrim(f, Excess(f, HardMaxLen)) ELSE {f}
    BY <1>3 DEF trim_stream_lua
  <2>2. f \subseteq s /\ t \subseteq f
    BY <2>1, XTrimRemoves
  <2> QED BY <2>2
<1> QED BY <1>1, <1>2, <1>3

\* Excess removes no more than it must.
LEMMA ExcessKept ==
  ASSUME NEW b \in Nat, NEW f \in SUBSET (0..b), NEW k \in Nat, Cardinality(f) > k,
         NEW t \in XTrim(f, Excess(f, k))
  PROVE  Cardinality(t) >= k
<1>1. t \subseteq f /\ f \ t \subseteq Excess(f, k)
  BY XTrimRemoves
<1>2. IsFiniteSet(f) /\ Cardinality(f) \in Nat
  BY BoundedFinite
<1>3. IsFiniteSet(Excess(f, k)) /\ Cardinality(Excess(f, k)) <= Cardinality(f) - k
  <2>1. PICK n \in Nat : n = Cardinality(f) - k
    BY <1>2
  <2>2. IsFiniteSet(First(f, n)) /\ Cardinality(First(f, n)) <= n
    BY FirstBound
  <2> QED BY <2>1, <2>2 DEF Excess
<1>4. IsFiniteSet(t) /\ Cardinality(t) \in Nat
  BY <1>1, BoundedFinite
<1>5. Cardinality(f \ t) <= Cardinality(Excess(f, k))
  BY <1>1, <1>3, FS_Subset
<1>6. /\ Cardinality(f \ t) = Cardinality(f) - Cardinality(f \cap t)
      /\ f \cap t = t
  BY <1>1, <1>2, FS_Difference
<1>7. Cardinality(Excess(f, k)) \in Nat
  BY <1>3, FS_CardinalityType
<1> QED BY <1>2, <1>3, <1>4, <1>5, <1>6, <1>7

\* A trim spares what is pending until the stream is longer than HardMaxLen.
LEMMA TrimSpares ==
  ASSUME NEW b \in Nat, NEW s \in SUBSET (0..b), NEW P \in SUBSET Nat,
         NEW t \in trim_stream_lua(s, P), NEW i \in s \ t, i \in P
  PROVE  Cardinality(t) >= HardMaxLen
<1>1. t # s /\ P # {}
  OBVIOUS
<1>2. PICK f \in XTrim(s, {j \in s : j < Min(P)}) :
        t \in IF Cardinality(f) > HardMaxLen THEN XTrim(f, Excess(f, HardMaxLen)) ELSE {f}
  BY <1>1 DEF trim_stream_lua
<1>3. f \subseteq s /\ s \ f \subseteq {j \in s : j < Min(P)}
  BY <1>2, XTrimRemoves
<1>4. Min(P) \in P /\ \A j \in P : Min(P) <= j
  BY <1>1, MinChosen
<1>5. i \in f
  <2>1. i \in Nat /\ Min(P) \in Nat /\ Min(P) <= i
    BY <1>4
  <2> QED BY <1>3, <2>1
<1>6. Cardinality(f) > HardMaxLen /\ t \in XTrim(f, Excess(f, HardMaxLen))
  BY <1>2, <1>5
<1>7. f \in SUBSET (0..b) /\ HardMaxLen \in Nat
  BY <1>3, StreamSizes
<1> QED BY <1>6, <1>7, ExcessKept

---------------------------------------------------------------------------
(* The inductive invariant.                                                *)

\* Everything names entries that were added.
EntriesKnown ==
  /\ \A i \in 1..last : Root(i) \in 1..last
  /\ \A d \in delayed : d[1] \in 1..last
  /\ \A d \in deliv : d.id \in 1..last
  /\ \A i \in Ids : Pending(i) => i <= last
  /\ done \cup discarded \cup released \subseteq 1..last

\* Every delayed retry has an id left.
IdsReserved == IsFiniteSet(delayed) /\ last + Cardinality(delayed) <= MaxIds

\* A start is counted before the handler runs, and both counts go together.
StartsCounted ==
  \A i \in Ids : starts[i] <= attempts[i] /\ (i > last => starts[i] = 0)

\* A handler runs within the retries, so its copy is within them too.
RunningCounted ==
  \A d \in deliv : d.phase = "running" => d.n + entry[d.id].prior <= MaxRetries

IInv == TypeOK /\ EntriesKnown /\ IdsReserved /\ StartsCounted /\ RunningCounted /\ StartsBounded

---------------------------------------------------------------------------
(* What the steps have in common, except for record_attempt.               *)

\* The parts of the types that a step keeps by itself.
GroupOK ==
  /\ pel \in [Ids -> Procs \cup {Former, NoProc}]
  /\ idle \subseteq PendingIds
  /\ cursor \in 0..MaxIds
  /\ \A i \in Ids : Pending(i) => i <= last

RestOK ==
  /\ proc \in [Procs -> {Startup[k] : k \in 1..6} \cup {"draining", "checked", "gone"}]
  /\ target \in [Procs -> 0..MaxIds] /\ old \in 0..MaxIds
  /\ in_flight \in [Procs -> SUBSET Ids] /\ pass \subseteq Procs
  /\ faults \in 0..MaxFaults

Histories == done \cup discarded \cup released

StoreKept ==
  /\ entry' = entry /\ last' = last /\ delayed' = delayed
  /\ present' \subseteq present
  /\ Histories' \subseteq 1..last

StoreAdds ==
  /\ last + 1 \in Ids /\ last' = last + 1
  /\ \E r \in 1..(last + 1), n \in 0..MaxRetries :
       entry' = [entry EXCEPT ![last + 1] = [root |-> r, prior |-> n]]
  /\ present' \subseteq present \cup {last + 1}
  /\ Histories' \subseteq 1..(last + 1)
  /\ delayed' \subseteq delayed
  /\ IsFiniteSet(delayed') /\ last + 1 + Cardinality(delayed') <= MaxIds

StoreDefers ==
  /\ entry' = entry /\ last' = last /\ present' = present
  /\ Histories' \subseteq 1..last
  /\ \E x \in (1..last) \X (0..MaxRetries) : delayed' = delayed \cup {x}
  /\ IdLeft

CountsReset ==
  /\ attempts' \in [Ids -> Nat] /\ starts' \in [Ids -> Nat] /\ dlq' \in [Ids -> Nat]
  /\ \A i \in Ids : starts'[i] = 0 \/ (starts'[i] = starts[i] /\ attempts'[i] = attempts[i])

NothingStarts ==
  \A e \in deliv' : \/ e \in deliv
                    \/ /\ e \in [proc : Procs, id : Ids, phase : Phases, n : Nat]
                       /\ e.id <= last /\ e.phase # "running"

Footprint ==
  /\ StoreKept \/ StoreAdds \/ StoreDefers
  /\ CountsReset /\ NothingStarts /\ GroupOK' /\ RestOK'

\* Such a step keeps the invariant.
LEMMA FootprintKeeps ==
  ASSUME IInv, Footprint
  PROVE  IInv'
<1>1. /\ MaxIds \in Nat /\ MaxRetries \in Nat
      /\ last \in 0..MaxIds /\ last' \in 0..MaxIds /\ last <= last'
      /\ 1..last \subseteq Ids /\ 1..last \subseteq 1..last' /\ 1..last' \subseteq Ids
  <2>1. MaxIds \in Nat /\ MaxRetries \in Nat /\ last \in 0..MaxIds
    BY StreamSizes DEF IInv, TypeOK
  <2>2. last' = last \/ (last' = last + 1 /\ last + 1 \in 1..MaxIds)
    BY DEF Footprint, StoreKept, StoreAdds, StoreDefers, Ids
  <2> QED BY <2>1, <2>2 DEF Ids
<1>2. /\ entry' \in [Ids -> [root : Ids, prior : 0..MaxRetries]]
      /\ \A i \in 1..last : entry'[i] = entry[i]
      /\ \A i \in 1..last' : entry'[i].root \in 1..last'
  <2>1. CASE StoreKept \/ StoreDefers
    BY <2>1 DEF IInv, TypeOK, EntriesKnown, Root, StoreKept, StoreDefers
  <2>2. CASE StoreAdds
    <3>1. PICK r \in 1..(last + 1), n \in 0..MaxRetries :
            entry' = [entry EXCEPT ![last + 1] = [root |-> r, prior |-> n]]
      BY <2>2 DEF StoreAdds
    <3>2. last + 1 \in Ids /\ last' = last + 1 /\ r \in Ids
      BY <1>1, <2>2 DEF StoreAdds
    <3>3. entry \in [Ids -> [root : Ids, prior : 0..MaxRetries]]
      BY DEF IInv, TypeOK
    <3>4. entry' \in [Ids -> [root : Ids, prior : 0..MaxRetries]]
      BY <3>1, <3>2, <3>3
    <3>5. entry'[last + 1] = [root |-> r, prior |-> n] /\ \A i \in Ids \ {last + 1} : entry'[i] = entry[i]
      BY <3>1, <3>2, <3>3
    <3>6. \A i \in 1..last : i # last + 1
      BY <1>1
    <3>7. \A i \in 1..last : entry'[i] = entry[i]
      BY <1>1, <3>5, <3>6
    <3>8. ASSUME NEW i \in 1..last' PROVE entry'[i].root \in 1..last'
      <4>1. CASE i = last + 1
        BY <3>1, <3>2, <3>5, <4>1
      <4>2. CASE i # last + 1
        <5>1. i \in 1..last
          BY <1>1, <3>2, <4>2
        <5> QED BY <1>1, <3>7, <5>1 DEF IInv, EntriesKnown, Root
      <4> QED BY <4>1, <4>2
    <3> QED BY <3>4, <3>7, <3>8
  <2> QED BY <2>1, <2>2 DEF Footprint
<1>3. present' \subseteq 1..last' /\ Histories' \subseteq 1..last'
  <2>1. present \subseteq 1..last
    BY DEF IInv, TypeOK
  <2>2. CASE StoreKept \/ StoreDefers
    BY <2>1, <2>2 DEF StoreKept, StoreDefers
  <2>3. CASE StoreAdds
    <3>1. last' = last + 1 /\ last + 1 \in 1..last'
      BY <1>1, <2>3 DEF StoreAdds
    <3>2. present' \subseteq present \cup {last + 1} /\ Histories' \subseteq 1..last'
      BY <2>3, <3>1 DEF StoreAdds
    <3> QED BY <1>1, <2>1, <3>1, <3>2
  <2> QED BY <2>2, <2>3 DEF Footprint
<1>4. delayed' \subseteq Ids \X (0..MaxRetries) /\ \A d \in delayed' : d[1] \in 1..last'
  <2>1. delayed \subseteq Ids \X (0..MaxRetries) /\ \A d \in delayed : d[1] \in 1..last
    BY DEF IInv, TypeOK, EntriesKnown
  <2>2. CASE StoreKept \/ StoreAdds
    BY <1>1, <2>1, <2>2 DEF StoreKept, StoreAdds
  <2>3. CASE StoreDefers
    <3>1. PICK x \in (1..last) \X (0..MaxRetries) : delayed' = delayed \cup {x}
      BY <2>3 DEF StoreDefers
    <3>2. x \in Ids \X (0..MaxRetries) /\ x[1] \in 1..last'
      BY <1>1
    <3> QED BY <1>1, <2>1, <3>1, <3>2
  <2> QED BY <2>2, <2>3 DEF Footprint
<1>5. IdsReserved'
  <2>1. CASE StoreKept
    BY <2>1 DEF IInv, IdsReserved, StoreKept
  <2>2. CASE StoreAdds
    BY <2>2 DEF IdsReserved, StoreAdds
  <2>3. CASE StoreDefers
    <3>1. PICK x : delayed' = delayed \cup {x}
      BY <2>3 DEF StoreDefers
    <3>2. IsFiniteSet(delayed) /\ Cardinality(delayed) \in Nat
      BY FS_CardinalityType DEF IInv, IdsReserved
    <3>3. IsFiniteSet(delayed') /\ Cardinality(delayed') <= Cardinality(delayed) + 1
      BY <3>1, <3>2, FS_AddElement
    <3>4. Cardinality(delayed') \in Nat
      BY <3>3, FS_CardinalityType
    <3> QED BY <1>1, <2>3, <3>2, <3>3, <3>4 DEF StoreDefers, IdLeft, IdsReserved
  <2> QED BY <2>1, <2>2, <2>3 DEF Footprint
<1>6. /\ deliv' \subseteq [proc : Procs, id : Ids, phase : Phases, n : Nat]
      /\ \A e \in deliv' : e.id \in 1..last' /\ e.id \in 1..last
  <2> SUFFICES ASSUME NEW e \in deliv'
               PROVE  /\ e \in [proc : Procs, id : Ids, phase : Phases, n : Nat]
                      /\ e.id \in 1..last' /\ e.id \in 1..last
    OBVIOUS
  <2>1. CASE e \in deliv
    BY <1>1, <2>1 DEF IInv, TypeOK, EntriesKnown
  <2>2. CASE e \notin deliv
    <3>1. e \in [proc : Procs, id : Ids, phase : Phases, n : Nat] /\ e.id <= last
      BY <2>2 DEF Footprint, NothingStarts
    <3> QED BY <1>1, <3>1 DEF Ids
  <2> QED BY <2>1, <2>2
<1>7. RunningCounted'
  <2> SUFFICES ASSUME NEW e \in deliv', e.phase = "running"
               PROVE  e.n + entry'[e.id].prior <= MaxRetries
    BY DEF RunningCounted
  <2>1. e \in deliv
    BY DEF Footprint, NothingStarts
  <2> QED BY <1>2, <1>6, <2>1 DEF IInv, RunningCounted
<1>8. StartsCounted' /\ StartsBounded'
  <2>1. starts \in [Ids -> Nat] /\ attempts \in [Ids -> Nat]
    BY DEF IInv, TypeOK
  <2>2. ASSUME NEW i \in Ids
        PROVE  /\ starts'[i] <= attempts'[i] /\ starts'[i] <= starts[i]
               /\ (i > last => starts'[i] = 0)
    BY <2>1, <2>2 DEF IInv, StartsCounted, Footprint, CountsReset
  <2>3. starts' \in [Ids -> Nat] /\ attempts' \in [Ids -> Nat]
    BY DEF Footprint, CountsReset
  <2>4. StartsCounted'
    BY <1>1, <2>2 DEF StartsCounted, Ids
  <2>5. ASSUME NEW i \in 1..last' PROVE entry'[i].prior + starts'[i] <= MaxRetries
    <3>1. i \in Ids /\ entry'[i].prior \in 0..MaxRetries /\ starts'[i] \in Nat /\ starts[i] \in Nat
      BY <1>1, <1>2, <2>1, <2>3
    <3>2. CASE i \in 1..last
      <4>1. entry[i].prior + starts[i] <= MaxRetries /\ entry'[i] = entry[i]
        BY <1>2, <3>2 DEF IInv, StartsBounded
      <4> QED BY <2>2, <3>1, <4>1, <1>1
    <3>3. CASE i \notin 1..last
      <4>1. starts'[i] = 0
        BY <1>1, <2>2, <3>1, <3>3 DEF Ids
      <4> QED BY <1>1, <3>1, <4>1
    <3> QED BY <3>2, <3>3
  <2> QED BY <2>4, <2>5 DEF StartsBounded
<1>9. TypeOK'
  <2>1. attempts' \in [Ids -> Nat] /\ starts' \in [Ids -> Nat] /\ dlq' \in [Ids -> Nat]
    BY DEF Footprint, CountsReset
  <2>2. GroupOK' /\ RestOK'
    BY DEF Footprint
  <2> QED BY <1>1, <1>2, <1>3, <1>4, <1>6, <2>1, <2>2 DEF TypeOK, GroupOK, RestOK, Histories
<1>10. EntriesKnown'
  <2>1. \A i \in Ids : Pending(i)' => i <= last'
    BY DEF Footprint, GroupOK
  <2> QED BY <1>2, <1>3, <1>4, <1>6, <2>1 DEF EntriesKnown, Root, Histories
<1> QED BY <1>5, <1>7, <1>8, <1>9, <1>10 DEF IInv

---------------------------------------------------------------------------
(* The footprints of the shared parts of the actions.                      *)

\* What the invariant says of the parts a step leaves alone.
LEMMA Parts ==
  ASSUME IInv
  PROVE  /\ GroupOK /\ RestOK /\ Histories \subseteq 1..last
         /\ attempts \in [Ids -> Nat] /\ starts \in [Ids -> Nat] /\ dlq \in [Ids -> Nat]
         /\ last \in 0..MaxIds /\ MaxIds \in Nat /\ 1..last \subseteq Ids /\ 1..last \subseteq 1..(last + 1)
         /\ present \subseteq 1..last /\ \A i \in present : i \in Ids /\ Root(i) \in 1..last
         /\ \A d \in deliv : d.id \in 1..last /\ d.id \in Ids /\ d.proc \in Procs
<1>1. last \in 0..MaxIds /\ MaxIds \in Nat
  BY StreamSizes DEF IInv, TypeOK
<1>2. 1..last \subseteq Ids /\ 1..last \subseteq 1..(last + 1)
  BY <1>1 DEF Ids
<1>3. present \subseteq 1..last /\ \A i \in present : i \in Ids /\ Root(i) \in 1..last
  BY <1>2 DEF IInv, TypeOK, EntriesKnown
<1>4. \A d \in deliv : d.id \in 1..last /\ d.id \in Ids /\ d.proc \in Procs
  BY <1>2 DEF IInv, TypeOK, EntriesKnown
<1>5. GroupOK /\ RestOK /\ Histories \subseteq 1..last
  BY DEF IInv, TypeOK, EntriesKnown, GroupOK, RestOK, Histories
<1> QED BY <1>1, <1>2, <1>3, <1>4, <1>5 DEF IInv, TypeOK

\* A fault stays within the bound.
LEMMA FaultTyped ==
  ASSUME faults \in 0..MaxFaults, Fault
  PROVE  faults' \in 0..MaxFaults
BY StreamSizes DEF Fault

\* The roots of a set of entries are messages.
LEMMA RootsKnown ==
  ASSUME IInv, NEW S \in SUBSET (1..last)
  PROVE  {Root(i) : i \in S} \subseteq 1..last
BY DEF IInv, EntriesKnown

LEMMA XAddFootprint ==
  ASSUME IInv, last + 1 \in Ids, NEW r \in 1..(last + 1), NEW n \in 0..MaxRetries, NEW P,
         XAdd(r, n, P)
  PROVE  /\ last' = last + 1
         /\ entry' = [entry EXCEPT ![last + 1] = [root |-> r, prior |-> n]]
         /\ present' \subseteq present \cup {last + 1}
         /\ discarded' \subseteq 1..(last + 1)
<1>1. PICK s \in trim_stream_lua(present \cup {last + 1}, P) :
        /\ present' = s
        /\ discarded' = discarded \cup Skipped(s) \cup (IF last + 1 \in s THEN {} ELSE {r})
  BY DEF XAdd
<1>2. s \subseteq present \cup {last + 1}
  BY TrimLeaves
<1>3. Skipped(s) \subseteq 1..last
  BY Parts DEF Skipped
<1>4. discarded \subseteq 1..last
  BY Parts DEF Histories
<1>5. 1..last \subseteq 1..(last + 1)
  BY Parts
<1> QED BY <1>1, <1>2, <1>3, <1>4, <1>5 DEF XAdd

LEMMA XClaimFootprint ==
  ASSUME IInv, NEW S \in SUBSET PendingIds, NEW p \in Procs, XClaim(S, p), UNCHANGED <<last, cursor>>
  PROVE  GroupOK' /\ discarded' \subseteq 1..last
<1>1. pel' \in [Ids -> Procs \cup {Former, NoProc}]
  BY Parts DEF XClaim, GroupOK
<1>2. \A i \in Ids : Pending(i)' => Pending(i) /\ (i \in S => i \in present)
  BY DEF XClaim, Pending, PendingIds
<1>3. \A i \in Ids : Pending(i) /\ i \notin S => Pending(i)'
  BY DEF XClaim, Pending, PendingIds
<1>4. idle' \subseteq PendingIds'
  BY <1>3, Parts DEF XClaim, GroupOK, PendingIds
<1>5. \A i \in Ids : Pending(i)' => i <= last'
  BY <1>2, Parts DEF GroupOK
<1>6. S \subseteq 1..last
  <2>1. ASSUME NEW i \in S PROVE i \in 1..last
    BY Parts DEF PendingIds, GroupOK, Ids
  <2> QED BY <2>1
<1>7. discarded' \subseteq 1..last
  <2>1. {Root(i) : i \in S \ present} \subseteq 1..last
    BY <1>6, RootsKnown
  <2> QED BY <2>1, Parts DEF XClaim, Histories
<1> QED BY <1>1, <1>4, <1>5, <1>7, Parts DEF GroupOK

LEMMA XAckFootprint ==
  ASSUME IInv, NEW i \in Ids, XAck(i), UNCHANGED cursor, last' \in Nat, last <= last',
         dlq' \in [Ids -> Nat]
  PROVE  GroupOK' /\ CountsReset
<1>1. pel' \in [Ids -> Procs \cup {Former, NoProc}]
  BY Parts DEF XAck, GroupOK
<1>2. \A j \in Ids : Pending(j)' <=> Pending(j) /\ j # i
  BY Parts DEF XAck, Pending, GroupOK
<1>3. idle' \subseteq PendingIds'
  BY <1>2, Parts DEF XAck, GroupOK, PendingIds
<1>4. \A j \in Ids : Pending(j)' => j <= last'
  <2>1. \A j \in Ids : Pending(j)' => j <= last
    BY <1>2, Parts DEF GroupOK
  <2> QED BY <2>1, Parts DEF Ids
<1>5. CountsReset
  <2>1. attempts' \in [Ids -> Nat] /\ starts' \in [Ids -> Nat]
    BY Parts DEF XAck
  <2>2. \A j \in Ids : starts'[j] = 0 \/ (starts'[j] = starts[j] /\ attempts'[j] = attempts[j])
    BY Parts DEF XAck
  <2> QED BY <2>1, <2>2 DEF CountsReset
<1> QED BY <1>1, <1>3, <1>4, <1>5, Parts DEF GroupOK

LEMMA FinishFootprint ==
  ASSUME IInv, NEW d \in deliv, Finish(d)
  PROVE  NothingStarts /\ in_flight' \in [Procs -> SUBSET Ids]
<1>1. in_flight \in [Procs -> SUBSET Ids] /\ d.proc \in Procs
  BY Parts DEF RestOK
<1> QED BY <1>1 DEF Finish, NothingStarts

\* The parts a step leaves alone keep their footprint.
LEMMA Frame ==
  ASSUME IInv
  PROVE  /\ UNCHANGED <<pel, idle, cursor, last>> => GroupOK'
         /\ UNCHANGED <<pel, idle, cursor>> /\ last' = last + 1 => GroupOK'
         /\ UNCHANGED <<proc, target, old, in_flight, pass, faults>> => RestOK'
         /\ UNCHANGED <<attempts, starts, dlq>> => CountsReset
         /\ UNCHANGED deliv => NothingStarts
         /\ UNCHANGED <<entry, last, delayed, present, done, discarded, released>> => StoreKept
<1>1. UNCHANGED <<pel, idle, cursor, last>> => GroupOK'
  BY Parts DEF GroupOK, PendingIds, Pending
<1>2. UNCHANGED <<proc, target, old, in_flight, pass, faults>> => RestOK'
  BY Parts DEF RestOK
<1>3. UNCHANGED <<attempts, starts, dlq>> => CountsReset
  BY Parts DEF CountsReset
<1>4. UNCHANGED deliv => NothingStarts
  BY DEF NothingStarts
<1>5. UNCHANGED <<entry, last, delayed, present, done, discarded, released>> => StoreKept
  BY Parts DEF StoreKept, Histories
<1>6. UNCHANGED <<pel, idle, cursor>> /\ last' = last + 1 => GroupOK'
  BY Parts DEF GroupOK, PendingIds, Pending, Ids
<1> QED BY <1>1, <1>2, <1>3, <1>4, <1>5, <1>6

---------------------------------------------------------------------------
(* The footprints of the actions.                                          *)

LEMMA enqueueFootprint ==
  ASSUME IInv, enqueue
  PROVE  Footprint
<1>1. IsFiniteSet(delayed) /\ Cardinality(delayed) \in Nat /\ last \in Nat /\ MaxIds \in Nat
  BY FS_CardinalityType, Parts DEF IInv, IdsReserved
<1>2. last + 1 \in Ids /\ last + 1 \in 1..(last + 1) /\ last + 1 + Cardinality(delayed) <= MaxIds
  BY <1>1 DEF enqueue, IdLeft, Ids
<1>3. 0 \in 0..MaxRetries
  BY StreamSizes
<1>4. XAdd(last + 1, 0, PendingIds)
  BY DEF enqueue
<1>5. PICK r \in 1..(last + 1) : r = last + 1
  BY <1>2
<1>6. /\ last' = last + 1
      /\ entry' = [entry EXCEPT ![last + 1] = [root |-> r, prior |-> 0]]
      /\ present' \subseteq present \cup {last + 1}
      /\ discarded' \subseteq 1..(last + 1)
  BY <1>2, <1>3, <1>4, <1>5, XAddFootprint
<1>7. StoreAdds
  <2>1. Histories' \subseteq 1..(last + 1)
    BY <1>6, Parts DEF enqueue, Histories
  <2>2. delayed' = delayed
    BY DEF enqueue
  <2> QED BY <1>1, <1>2, <1>3, <1>6, <2>1, <2>2 DEF StoreAdds
<1> QED BY <1>6, <1>7, Frame DEF enqueue, Footprint

LEMMA promoteFootprint ==
  ASSUME IInv, NEW p \in Procs, promote_due_delayed(p)
  PROVE  Footprint
<1>1. PICK d \in delayed : delayed' = delayed \ {d} /\ XAdd(Root(d[1]), d[2], PendingIds)
  BY DEF promote_due_delayed
<1>2. IsFiniteSet(delayed) /\ Cardinality(delayed) \in Nat /\ last \in Nat /\ MaxIds \in Nat
  BY FS_CardinalityType, Parts DEF IInv, IdsReserved
<1>3. IsFiniteSet(delayed') /\ Cardinality(delayed') = Cardinality(delayed) - 1 /\ Cardinality(delayed') \in Nat
  BY <1>1, <1>2, FS_RemoveElement, FS_CardinalityType
<1>4. last + 1 \in Ids /\ last + 1 + Cardinality(delayed') <= MaxIds
  BY <1>2, <1>3 DEF IInv, IdsReserved, Ids
<1>5. PICK r \in 1..(last + 1), n \in 0..MaxRetries : r = Root(d[1]) /\ n = d[2]
  <2>1. d \in Ids \X (0..MaxRetries) /\ d[1] \in 1..last
    BY DEF IInv, TypeOK, EntriesKnown
  <2>2. Root(d[1]) \in 1..last
    BY <2>1 DEF IInv, EntriesKnown
  <2> QED BY <2>1, <2>2, Parts
<1>6. /\ last' = last + 1
      /\ entry' = [entry EXCEPT ![last + 1] = [root |-> r, prior |-> n]]
      /\ present' \subseteq present \cup {last + 1}
      /\ discarded' \subseteq 1..(last + 1)
  BY <1>1, <1>4, <1>5, XAddFootprint
<1>7. StoreAdds
  <2>1. Histories' \subseteq 1..(last + 1)
    BY <1>6, Parts DEF promote_due_delayed, Histories
  <2> QED BY <1>1, <1>3, <1>4, <1>6, <2>1 DEF StoreAdds
<1> QED BY <1>6, <1>7, Frame DEF promote_due_delayed, Footprint

\* The reply of a read: its entries are buffered, or lost.
LEMMA BufferedFootprint ==
  ASSUME IInv, NEW p \in Procs, NEW S \in SUBSET (1..last), Buffered(p, S),
         UNCHANGED <<target, old, in_flight>>
  PROVE  NothingStarts /\ RestOK'
<1>1. NothingStarts
  <2>1. ASSUME NEW i \in S
        PROVE  LET e == Delivery(p, i, "buffered", 0)
               IN  /\ e \in [proc : Procs, id : Ids, phase : Phases, n : Nat]
                   /\ e.id <= last /\ e.phase # "running"
    <3>1. i \in 1..last /\ i \in Ids /\ last \in Nat
      BY Parts
    <3> QED BY <3>1 DEF Delivery, Phases
  <2>2. deliv' \subseteq deliv \cup {Delivery(p, i, "buffered", 0) : i \in S}
    BY DEF Buffered
  <2> QED BY <2>1, <2>2 DEF NothingStarts
<1>2. faults \in 0..MaxFaults
  BY Parts DEF RestOK
<1>3. faults' \in 0..MaxFaults
  BY <1>2, FaultTyped DEF Buffered
<1>4. proc' \in [Procs -> {Startup[k] : k \in 1..6} \cup {"draining", "checked", "gone"}] /\ pass' \subseteq Procs
  BY Parts DEF RestOK, Buffered
<1> QED BY <1>1, <1>3, <1>4, Parts DEF RestOK

LEMMA refillFootprint ==
  ASSUME IInv, NEW p \in Procs, refill_prefetch(p)
  PROVE  Footprint
<1>1. CASE read_own_pending(p)
  <2> DEFINE again == First(NotInFlight(p), Batch)
             listed == First(Owned(p), Batch + Cardinality(in_flight[p])) \cap in_flight[p]
  <2>1. /\ XClaim(again \cup listed, p) /\ Buffered(p, again \cap present)
        /\ UNCHANGED <<entry, last, present, cursor, attempts, delayed, dlq>>
    BY <1>1 DEF read_own_pending
  <2>2. again \cup listed \subseteq PendingIds
    BY StreamNulls DEF First, NotInFlight, Owned, PendingIds, Pending
  <2> HIDE DEF again, listed
  <2>3. GroupOK' /\ discarded' \subseteq 1..last
    BY <2>1, <2>2, XClaimFootprint
  <2>4. again \cap present \subseteq 1..last
    BY Parts
  <2>5. NothingStarts /\ RestOK'
    BY <2>1, <2>4, BufferedFootprint DEF refill_prefetch
  <2>6. StoreKept
    BY <2>1, <2>3, Parts DEF refill_prefetch, StoreKept, Histories
  <2> QED BY <2>1, <2>3, <2>5, <2>6, Frame DEF refill_prefetch, Footprint
<1>2. CASE read_fresh(p)
  <2>1. PICK fresh \in SUBSET present :
          /\ fresh = First({i \in present : i > cursor}, Batch) /\ fresh # {}
          /\ pel' = [i \in Ids |-> IF i \in fresh THEN p ELSE pel[i]]
          /\ idle' = idle \ fresh /\ cursor' = Max(fresh) /\ Buffered(p, fresh)
          /\ UNCHANGED <<entry, last, present, attempts, delayed, dlq, discarded>>
    BY <1>2 DEF read_fresh, First
  <2>2. fresh \subseteq 1..last /\ fresh \subseteq Ids /\ fresh \subseteq 0..MaxIds
    BY Parts DEF Ids
  <2>3. cursor' \in fresh
    BY <2>1, <2>2, Parts, MaxChosen
  <2>4. pel' \in [Ids -> Procs \cup {Former, NoProc}]
    BY <2>1, Parts DEF GroupOK
  <2>5. \A i \in Ids : Pending(i)' <=> Pending(i) \/ i \in fresh
    BY <2>1, StreamNulls, Parts DEF Pending, GroupOK
  <2>6. idle' \subseteq PendingIds'
    BY <2>1, <2>5, Parts DEF GroupOK, PendingIds
  <2>7. \A i \in Ids : Pending(i)' => i <= last'
    BY <2>1, <2>2, <2>5, Parts DEF GroupOK
  <2>8. GroupOK'
    BY <2>2, <2>3, <2>4, <2>6, <2>7 DEF GroupOK
  <2>9. NothingStarts /\ RestOK'
    BY <2>1, <2>2, BufferedFootprint DEF refill_prefetch
  <2> QED BY <2>1, <2>8, <2>9, Frame DEF refill_prefetch, Footprint
<1> QED BY <1>1, <1>2 DEF refill_prefetch

LEMMA popFootprint ==
  ASSUME IInv, NEW p \in Procs, NEW i \in Ids, pop_prefetched(p, i)
  PROVE  Footprint
<1>1. PICK d \in Buffer(p) : d.id = i /\ deliv' = (deliv \ {d}) \cup {[d EXCEPT !.phase = "claimed"]}
  BY DEF pop_prefetched
<1>2. d \in deliv /\ d \in [proc : Procs, id : Ids, phase : Phases, n : Nat] /\ d.id <= last
  BY Parts DEF Buffer, IInv, TypeOK
<1>3. PICK e : e = [d EXCEPT !.phase = "claimed"]
  OBVIOUS
<1>4. e \in [proc : Procs, id : Ids, phase : Phases, n : Nat]
  BY <1>2, <1>3 DEF Phases
<1>5. e.id = d.id /\ e.phase = "claimed"
  BY <1>2, <1>3
<1>6. NothingStarts
  BY <1>1, <1>2, <1>3, <1>4, <1>5 DEF NothingStarts
<1>7. in_flight' \in [Procs -> SUBSET Ids]
  BY Parts DEF RestOK, pop_prefetched
<1>8. RestOK'
  BY <1>7, Parts DEF RestOK, pop_prefetched
<1> QED BY <1>6, <1>8, Frame DEF pop_prefetched, Footprint, redis, history

LEMMA dlqFootprint ==
  ASSUME IInv, NEW d \in deliv, move_msg_to_dlq(d)
  PROVE  Footprint
<1>1. d.id \in Ids /\ last \in Nat
  BY Parts
<1>2. dlq' \in [Ids -> Nat]
  BY <1>1, Parts DEF move_msg_to_dlq
<1>3. NothingStarts /\ in_flight' \in [Procs -> SUBSET Ids]
  BY FinishFootprint DEF move_msg_to_dlq
<1>4. RestOK'
  BY <1>3, Parts DEF RestOK, move_msg_to_dlq
<1>5. GroupOK' /\ CountsReset
  <2>1. CASE Pending(d.id)
    BY <1>1, <1>2, <2>1, XAckFootprint DEF move_msg_to_dlq
  <2>2. CASE ~Pending(d.id)
    BY <2>2, Frame DEF move_msg_to_dlq
  <2> QED BY <2>1, <2>2
<1> QED BY <1>3, <1>4, <1>5, Frame DEF move_msg_to_dlq, Footprint, history

LEMMA ackFootprint ==
  ASSUME IInv, NEW d \in deliv, ack_processed(d)
  PROVE  Footprint
<1>1. d.id \in Ids /\ last \in Nat /\ d.id \in 1..last
  BY Parts
<1>2. NothingStarts /\ in_flight' \in [Procs -> SUBSET Ids]
  BY FinishFootprint DEF ack_processed
<1>3. RestOK'
  BY <1>2, Parts DEF RestOK, ack_processed
<1>4. GroupOK' /\ CountsReset
  BY <1>1, XAckFootprint, Parts DEF ack_processed
<1>5. Root(d.id) \in 1..last
  BY <1>1 DEF IInv, EntriesKnown
<1>6. done' \subseteq 1..last
  BY <1>5, Parts DEF ack_processed, Histories
<1>7. StoreKept
  BY <1>6, Parts DEF ack_processed, StoreKept, Histories
<1> QED BY <1>2, <1>3, <1>4, <1>7 DEF Footprint

\* What a copy carries is within the retries.
LEMMA CarriedTyped ==
  ASSUME IInv, NEW d \in deliv, d.phase = "running", NEW c \in BOOLEAN
  PROVE  Carried(d, c) \in 0..MaxRetries
<1>1. d.n \in Nat /\ entry[d.id].prior \in 0..MaxRetries /\ MaxRetries \in Nat
  BY StreamSizes DEF IInv, TypeOK
<1>2. d.n + entry[d.id].prior <= MaxRetries
  BY DEF IInv, RunningCounted
<1> QED BY <1>1, <1>2 DEF Carried

LEMMA requeueFootprint ==
  ASSUME IInv, NEW d \in deliv, requeue_msg_for_infrastructure_retry(d)
  PROVE  Footprint
<1> USE DEF requeue_msg_for_infrastructure_retry
<1>1. d.id \in Ids /\ d.id \in 1..last /\ last \in Nat /\ MaxIds \in Nat
  BY Parts
<1>2. NothingStarts /\ in_flight' \in [Procs -> SUBSET Ids]
  BY FinishFootprint
<1>3. RestOK'
  BY <1>2, Parts DEF RestOK
<1>4. CASE ~Pending(d.id)
  BY <1>2, <1>3, <1>4, Frame DEF Footprint
<1>5. CASE Pending(d.id)
  <2>1. PICK c \in BOOLEAN :
          \/ /\ delayed' = delayed \cup {<<d.id, Carried(d, c)>>}
             /\ UNCHANGED <<entry, last, present, discarded>>
          \/ /\ XAdd(Root(d.id), Carried(d, c), PendingIds \ {d.id})
             /\ UNCHANGED delayed
    BY <1>5
  <2>2. PICK r \in 1..(last + 1), n \in 0..MaxRetries : r = Root(d.id) /\ n = Carried(d, c)
    <3>1. Carried(d, c) \in 0..MaxRetries
      BY CarriedTyped
    <3>2. Root(d.id) \in 1..last
      BY <1>1 DEF IInv, EntriesKnown
    <3> QED BY <3>1, <3>2, Parts
  <2>3. XAck(d.id)
    BY <1>5
  <2>4. CASE delayed' = delayed \cup {<<d.id, n>>} /\ UNCHANGED <<entry, last, present, discarded>>
    <3>1. GroupOK' /\ CountsReset
      BY <1>1, <2>3, <2>4, XAckFootprint, Parts
    <3>2. <<d.id, n>> \in (1..last) \X (0..MaxRetries)
      BY <1>1
    <3>3. StoreDefers
      BY <2>4, <3>2, Parts DEF StoreDefers, Histories
    <3> QED BY <1>2, <1>3, <3>1, <3>3 DEF Footprint
  <2>5. CASE XAdd(r, n, PendingIds \ {d.id}) /\ UNCHANGED delayed
    <3>1. IsFiniteSet(delayed) /\ Cardinality(delayed) \in Nat
      BY FS_CardinalityType DEF IInv, IdsReserved
    <3>2. last + 1 \in Ids /\ last + 1 + Cardinality(delayed) <= MaxIds
      BY <1>1, <3>1 DEF IdLeft, Ids
    <3>3. /\ last' = last + 1
          /\ entry' = [entry EXCEPT ![last + 1] = [root |-> r, prior |-> n]]
          /\ present' \subseteq present \cup {last + 1}
          /\ discarded' \subseteq 1..(last + 1)
      BY <2>5, <3>2, XAddFootprint
    <3>4. GroupOK' /\ CountsReset
      BY <1>1, <2>3, <3>3, XAckFootprint, Parts
    <3>5. Histories' \subseteq 1..(last + 1)
      BY <3>3, Parts DEF Histories
    <3>6. StoreAdds
      BY <2>5, <3>1, <3>2, <3>3, <3>5 DEF StoreAdds
    <3> QED BY <1>2, <1>3, <3>4, <3>6 DEF Footprint
  <2> QED BY <2>1, <2>2, <2>4, <2>5
<1> QED BY <1>4, <1>5

\* The other ends of a delivery, the clocks and the keepalive.
LEMMA QuietFootprint ==
  ASSUME IInv,
         \/ \E d \in deliv : DeliveryFails(d) \/ touch_pending_entry(d)
         \/ \E i \in Ids : OrphanIdles(i) \/ KeepaliveMissed(i)
         \/ EntryAges
  PROVE  Footprint
<1>1. ASSUME NEW d \in deliv, DeliveryFails(d)
      PROVE  Footprint
  <2>1. NothingStarts /\ in_flight' \in [Procs -> SUBSET Ids]
    BY <1>1, FinishFootprint DEF DeliveryFails
  <2>2. faults' \in 0..MaxFaults
    BY <1>1, FaultTyped, Parts DEF DeliveryFails, RestOK
  <2>3. RestOK'
    BY <1>1, <2>1, <2>2, Parts DEF RestOK, DeliveryFails
  <2> QED BY <1>1, <2>1, <2>3, Frame DEF DeliveryFails, Footprint, redis, history
<1>2. ASSUME NEW d \in deliv, touch_pending_entry(d)
      PROVE  Footprint
  <2>1. GroupOK'
    BY <1>2, Parts DEF GroupOK, touch_pending_entry, PendingIds, Pending
  <2> QED BY <1>2, <2>1, Frame DEF touch_pending_entry, Footprint, history
<1>3. ASSUME NEW i \in Ids, OrphanIdles(i) \/ KeepaliveMissed(i)
      PROVE  Footprint
  <2>1. GroupOK'
    BY <1>3, Parts DEF GroupOK, OrphanIdles, KeepaliveMissed, PendingIds, Pending
  <2>2. faults' \in 0..MaxFaults
    BY <1>3, FaultTyped, Parts DEF OrphanIdles, KeepaliveMissed, RestOK
  <2>3. RestOK'
    BY <1>3, <2>2, Parts DEF OrphanIdles, KeepaliveMissed, RestOK
  <2> QED BY <1>3, <2>1, <2>3, Frame DEF OrphanIdles, KeepaliveMissed, Footprint, history
<1>4. ASSUME EntryAges
      PROVE  Footprint
  <2>1. old' \in 0..MaxIds
    BY <1>4, Parts DEF EntryAges, RestOK
  <2>2. RestOK'
    BY <1>4, <2>1, Parts DEF EntryAges, RestOK
  <2> QED BY <1>4, <2>2, Frame DEF EntryAges, Footprint, redis, history
<1> QED BY <1>1, <1>2, <1>3, <1>4

LEMMA JanitorFootprint ==
  ASSUME IInv, NEW p \in Procs, Janitor(p)
  PROVE  Footprint
<1>1. ASSUME recover_orphaned_items(p)
      PROVE  Footprint
  <2>1. idle \subseteq PendingIds
    BY Parts DEF GroupOK
  <2>2. GroupOK' /\ discarded' \subseteq 1..last
    BY <1>1, <2>1, XClaimFootprint DEF recover_orphaned_items
  <2>3. Recovered \in {Startup[k] : k \in 1..6}
    <3>1. Startup[2] = "ff" /\ Startup[6] = "up" /\ 2 \in 1..6 /\ 6 \in 1..6
      BY DEF Startup
    <3> QED BY <3>1 DEF Recovered
  <2>4. RestOK'
    BY <1>1, <2>3, Parts DEF recover_orphaned_items, RestOK
  <2>5. StoreKept
    BY <1>1, <2>2, Parts DEF recover_orphaned_items, StoreKept, Histories
  <2> QED BY <1>1, <2>2, <2>4, <2>5, Frame DEF recover_orphaned_items, Footprint
<1>2. ASSUME cleanup_stale_consumers(p)
      PROVE  Footprint
  <2>1. PICK c \in Procs \cup {Former} : XClaim(Owned(c), p)
    BY <1>2 DEF cleanup_stale_consumers
  <2>2. Owned(c) \subseteq PendingIds
    BY StreamNulls DEF Owned, PendingIds, Pending
  <2>3. GroupOK' /\ discarded' \subseteq 1..last
    BY <1>2, <2>1, <2>2, XClaimFootprint DEF cleanup_stale_consumers
  <2>4. StoreKept
    BY <1>2, <2>3, Parts DEF cleanup_stale_consumers, StoreKept, Histories
  <2> QED BY <1>2, <2>3, <2>4, Frame DEF cleanup_stale_consumers, Footprint
<1>3. ASSUME trim_stream(p)
      PROVE  Footprint
  <2>1. PICK removable : \E s \in XTrim(present, removable) :
                           present' = s /\ discarded' = discarded \cup Skipped(s)
    BY <1>3 DEF trim_stream
  <2>2. present' \subseteq present
    BY <2>1, XTrimRemoves
  <2>3. discarded' \subseteq 1..last
    BY <2>1, Parts DEF Skipped, Histories
  <2>4. StoreKept
    BY <1>3, <2>2, <2>3, Parts DEF trim_stream, StoreKept, Histories
  <2> QED BY <1>3, <2>4, Frame DEF trim_stream, Footprint
<1> QED BY <1>1, <1>2, <1>3 DEF Janitor

LEMMA StartFootprint ==
  ASSUME IInv, NEW p \in Procs, StartStep(p)
  PROVE  Footprint
<1>1. {"recover", "ff", "setid", "purge", "purge_del", "up"} \subseteq {Startup[k] : k \in 1..6}
  <2>1. /\ Startup[1] = "recover" /\ Startup[2] = "ff" /\ Startup[3] = "setid"
        /\ Startup[4] = "purge" /\ Startup[5] = "purge_del" /\ Startup[6] = "up"
        /\ 1 \in 1..6 /\ 2 \in 1..6 /\ 3 \in 1..6 /\ 4 \in 1..6 /\ 5 \in 1..6 /\ 6 \in 1..6
    BY DEF Startup
  <2> QED BY <2>1
<1>2. ASSUME StartupStepSkipped(p)
      PROVE  Footprint
  <2>1. PICK k \in 1..5 :
          Fault /\ proc' = [proc EXCEPT ![p] = CASE k = 1 -> Recovered [] k = 2 -> "purge"
                                                [] OTHER -> Startup[k + 1]]
    BY <1>2 DEF StartupStepSkipped
  <2>2. (CASE k = 1 -> Recovered [] k = 2 -> "purge" [] OTHER -> Startup[k + 1])
          \in {Startup[j] : j \in 1..6}
    <3>1. Recovered \in {Startup[j] : j \in 1..6}
      BY <1>1 DEF Recovered
    <3>2. k + 1 \in 1..6
      OBVIOUS
    <3>3. Startup[k + 1] \in {Startup[j] : j \in 1..6}
      BY <3>2
    <3> QED BY <1>1, <3>1, <3>3
  <2>3. faults' \in 0..MaxFaults
    BY <2>1, FaultTyped, Parts DEF RestOK
  <2>4. RestOK'
    BY <1>2, <2>1, <2>2, <2>3, Parts DEF StartupStepSkipped, RestOK
  <2> QED BY <1>2, <2>4, Frame DEF StartupStepSkipped, Footprint, redis, history
<1>3. ASSUME FastForwardReads(p)
      PROVE  Footprint
  <2>1. RestOK'
    BY <1>1, <1>3, Parts DEF FastForwardReads, RestOK
  <2> QED BY <1>3, <2>1, Frame DEF FastForwardReads, Footprint, redis, history
<1>4. ASSUME fast_forward_if_stale(p)
      PROVE  Footprint
  <2>1. RestOK' /\ cursor' \in 0..MaxIds
    BY <1>1, <1>4, Parts DEF fast_forward_if_stale, RestOK
  <2>2. GroupOK'
    BY <1>4, <2>1, Parts DEF fast_forward_if_stale, GroupOK, PendingIds, Pending
  <2>3. discarded' \subseteq 1..last
    BY <1>4, Parts DEF fast_forward_if_stale, Histories
  <2>4. StoreKept
    BY <1>4, <2>3, Parts DEF fast_forward_if_stale, StoreKept, Histories
  <2> QED BY <1>4, <2>1, <2>2, <2>4, Frame DEF fast_forward_if_stale, Footprint
<1>5. ASSUME PurgePending(p)
      PROVE  Footprint
  <2>1. PICK purged \in SUBSET PendingIds :
          /\ pel' = [i \in Ids |-> IF i \in purged THEN NoProc ELSE pel[i]]
          /\ idle' = idle \ purged
          /\ discarded' = discarded \cup {Root(i) : i \in purged}
          /\ starts' = [i \in Ids |-> IF i \in purged THEN 0 ELSE starts[i]]
    BY <1>5 DEF PurgePending
  <2>2. RestOK'
    BY <1>1, <1>5, Parts DEF PurgePending, RestOK
  <2>3. pel' \in [Ids -> Procs \cup {Former, NoProc}]
    BY <2>1, Parts DEF GroupOK
  <2>4. \A i \in Ids : Pending(i)' <=> Pending(i) /\ i \notin purged
    BY <2>1 DEF Pending
  <2>5. GroupOK'
    BY <1>5, <2>1, <2>3, <2>4, Parts DEF PurgePending, GroupOK, PendingIds
  <2>6. purged \subseteq 1..last
    BY Parts DEF GroupOK, PendingIds, Ids
  <2>7. {Root(i) : i \in purged} \subseteq 1..last
    BY <2>6, RootsKnown
  <2>8. StoreKept
    BY <1>5, <2>1, <2>7, Parts DEF PurgePending, StoreKept, Histories
  <2>9. CountsReset
    BY <1>5, <2>1, Parts DEF PurgePending, CountsReset
  <2> QED BY <1>5, <2>2, <2>5, <2>8, <2>9, Frame DEF PurgePending, Footprint
<1>6. ASSUME purge_old_pending(p)
      PROVE  Footprint
  <2>1. RestOK'
    BY <1>1, <1>6, StreamSizes, Parts DEF purge_old_pending, RestOK
  <2>2. discarded' \subseteq 1..last /\ present' \subseteq present
    BY <1>6, Parts DEF purge_old_pending, Skipped, Histories
  <2>3. StoreKept
    BY <1>6, <2>2, Parts DEF purge_old_pending, StoreKept, Histories
  <2> QED BY <1>6, <2>1, <2>3, Frame DEF purge_old_pending, Footprint
<1> QED BY <1>2, <1>3, <1>4, <1>5, <1>6 DEF StartStep

LEMMA LeaveFootprint ==
  ASSUME IInv, NEW p \in Procs, Leave(p)
  PROVE  Footprint
<1>1. ASSUME Shutdown(p) \/ consumer_has_pending(p)
      PROVE  Footprint
  <2>1. faults' \in 0..MaxFaults
    BY <1>1, FaultTyped, Parts DEF Shutdown, consumer_has_pending, RestOK
  <2>2. RestOK'
    BY <1>1, <2>1, Parts DEF Shutdown, consumer_has_pending, RestOK
  <2> QED BY <1>1, <2>2, Frame DEF Shutdown, consumer_has_pending, Footprint, redis, history
<1>2. ASSUME Stop(p), UNCHANGED old, faults' \in 0..MaxFaults
      PROVE  NothingStarts /\ RestOK'
  BY <1>2, StreamSizes, Parts DEF Stop, NothingStarts, RestOK
<1>3. ASSUME unregister_consumer(p)
      PROVE  Footprint
  <2>1. NothingStarts /\ RestOK'
    BY <1>2, <1>3, Parts DEF unregister_consumer, RestOK
  <2>2. pel' \in [Ids -> Procs \cup {Former, NoProc}]
    BY <1>3, Parts DEF unregister_consumer, GroupOK
  <2>3. \A i \in Ids : Pending(i)' <=> Pending(i) /\ i \notin Owned(p)
    BY <1>3, StreamNulls DEF unregister_consumer, Pending, Owned
  <2>4. GroupOK'
    BY <1>3, <2>2, <2>3, Parts DEF unregister_consumer, GroupOK, PendingIds
  <2>5. Owned(p) \subseteq 1..last
    BY StreamNulls, Parts DEF GroupOK, Pending, Owned, Ids
  <2>6. {Root(i) : i \in Owned(p)} \subseteq 1..last
    BY <2>5, RootsKnown
  <2>7. StoreKept
    BY <1>3, <2>6, Parts DEF unregister_consumer, StoreKept, Histories
  <2>8. CountsReset
    BY <1>3, Parts DEF unregister_consumer, CountsReset
  <2> QED BY <2>1, <2>4, <2>7, <2>8 DEF Footprint
<1>4. ASSUME Crash(p) \/ Exit(p)
      PROVE  Footprint
  <2>1. faults' \in 0..MaxFaults /\ Stop(p) /\ UNCHANGED old
    BY <1>4, FaultTyped, Parts DEF Crash, Exit, RestOK
  <2>2. NothingStarts /\ RestOK'
    BY <1>2, <2>1
  <2> QED BY <1>4, <2>2, Frame DEF Crash, Exit, Footprint, redis, history
<1>5. ASSUME Start(p)
      PROVE  Footprint
  <2>1. "recover" \in {Startup[k] : k \in 1..6}
    <3>1. Startup[1] = "recover" /\ 1 \in 1..6
      BY DEF Startup
    <3> QED BY <3>1
  <2>2. RestOK'
    BY <1>5, <2>1, Parts DEF Start, RestOK
  <2>3. pel' \in [Ids -> Procs \cup {Former, NoProc}]
    BY <1>5, Parts DEF Start, GroupOK
  <2>4. \A i \in Ids : Pending(i)' <=> Pending(i)
    BY <1>5, StreamNulls DEF Start, Pending
  <2>5. GroupOK'
    BY <1>5, <2>3, <2>4, Parts DEF Start, GroupOK, PendingIds
  <2> QED BY <1>5, <2>2, <2>5, Frame DEF Start, Footprint, history
<1> QED BY <1>1, <1>3, <1>4, <1>5 DEF Leave

---------------------------------------------------------------------------
(* The invariant.                                                          *)

\* A counted start: the handler runs only within the retries.
LEMMA record_attemptKeeps ==
  ASSUME IInv, NEW d \in deliv, record_attempt(d)
  PROVE  IInv'
<1>1. PICK i \in Ids : i = d.id
  BY Parts
<1>2. PICK n \in Nat : n = attempts[i] + 1
  BY DEF IInv, TypeOK
<1>3. PICK buried \in BOOLEAN :
        buried = (exceeded_processing_retries(n, entry[i].prior) \/ Root(i) \in BadPayload)
  OBVIOUS
<1>4. /\ attempts' = [attempts EXCEPT ![i] = n]
      /\ deliv' = (deliv \ {d}) \cup
                  {[d EXCEPT !.phase = IF buried THEN "burying" ELSE "running", !.n = n]}
      /\ starts' = IF ~buried /\ Pending(i) THEN [starts EXCEPT ![i] = @ + 1] ELSE starts
      /\ UNCHANGED <<entry, last, present, cursor, pel, idle, delayed, dlq, proc,
                     target, in_flight, pass, old, faults, history>>
  BY <1>1, <1>2, <1>3 DEF record_attempt
<1>5. PICK e : e = [d EXCEPT !.phase = IF buried THEN "burying" ELSE "running", !.n = n]
  OBVIOUS
<1>6. d \in [proc : Procs, id : Ids, phase : Phases, n : Nat] /\ d.id \in 1..last
  BY Parts DEF IInv, TypeOK
<1>7. e \in [proc : Procs, id : Ids, phase : Phases, n : Nat]
  BY <1>5, <1>6 DEF Phases
<1>8. e.id = i /\ e.n = n /\ (e.phase = "running" => ~buried)
  BY <1>1, <1>5, <1>6
<1>9. deliv' \subseteq deliv \cup {e}
  BY <1>4, <1>5
<1>10. entry[i].prior \in Nat /\ starts[i] \in Nat /\ starts[i] < n /\ MaxRetries \in Nat
  BY <1>1, <1>2, StreamSizes DEF IInv, TypeOK, StartsCounted
<1>11. ~buried => n + entry[i].prior <= MaxRetries
  <2>1. ~buried => ~exceeded_processing_retries(n, entry[i].prior)
    BY <1>3, Zenon
  <2> QED BY <1>10, <2>1 DEF exceeded_processing_retries
<1>12. attempts' \in [Ids -> Nat] /\ starts' \in [Ids -> Nat]
  BY <1>4, Parts
<1>13. TypeOK'
  <2>1. deliv' \subseteq [proc : Procs, id : Ids, phase : Phases, n : Nat]
    BY <1>7, <1>9 DEF IInv, TypeOK
  <2> QED BY <1>4, <1>12, <2>1 DEF IInv, TypeOK, PendingIds, Pending, history
<1>14. EntriesKnown'
  BY <1>1, <1>4, <1>6, <1>8, <1>9 DEF IInv, EntriesKnown, Root, Pending, history
<1>15. StartsCounted'
  <2>1. ASSUME NEW j \in Ids PROVE starts'[j] <= attempts'[j] /\ (j > last => starts'[j] = 0)
    <3>1. starts[j] <= attempts[j] /\ (j > last => starts[j] = 0) /\ starts[j] \in Nat /\ attempts[j] \in Nat
      BY Parts DEF IInv, StartsCounted
    <3>2. CASE j = i
      <4>1. attempts'[j] = n /\ (starts'[j] = starts[j] \/ starts'[j] = starts[j] + 1)
        BY <1>4, <3>2, Parts
      <4>2. j <= last
        BY <1>1, <1>6, <3>2
      <4> QED BY <1>10, <3>1, <3>2, <4>1, <4>2, Parts DEF Ids
    <3>3. CASE j # i
      <4>1. attempts'[j] = attempts[j] /\ starts'[j] = starts[j]
        BY <1>4, <3>3, Parts
      <4> QED BY <3>1, <4>1
    <3> QED BY <3>2, <3>3
  <2> QED BY <1>4, <2>1 DEF StartsCounted
<1>16. RunningCounted'
  <2> SUFFICES ASSUME NEW x \in deliv', x.phase = "running"
               PROVE  x.n + entry[x.id].prior <= MaxRetries
    BY <1>4 DEF RunningCounted
  <2>1. CASE x \in deliv
    BY <2>1 DEF IInv, RunningCounted
  <2>2. CASE x = e
    BY <1>8, <1>11, <2>2
  <2> QED BY <1>9, <2>1, <2>2
<1>17. StartsBounded'
  <2>1. ASSUME NEW j \in 1..last PROVE entry[j].prior + starts'[j] <= MaxRetries
    <3>1. j \in Ids /\ entry[j].prior + starts[j] <= MaxRetries
      BY Parts DEF IInv, StartsBounded
    <3>2. CASE j = i /\ ~buried /\ Pending(i)
      <4>1. starts'[j] = starts[i] + 1
        BY <1>4, <3>2, Parts
      <4> QED BY <1>10, <1>11, <3>2, <4>1
    <3>3. CASE ~(j = i /\ ~buried /\ Pending(i))
      <4>1. starts'[j] = starts[j]
        BY <1>4, <3>1, <3>3, Parts
      <4> QED BY <3>1, <4>1
    <3> QED BY <3>2, <3>3
  <2> QED BY <1>4, <2>1 DEF StartsBounded
<1>18. IdsReserved'
  BY <1>4 DEF IInv, IdsReserved
<1> QED BY <1>13, <1>14, <1>15, <1>16, <1>17, <1>18 DEF IInv

LEMMA InitIInv ==
  ASSUME Init
  PROVE  IInv
<1>1. /\ MaxIds \in Nat /\ MaxRetries \in Nat /\ MaxFaults \in Nat /\ 1..0 = {}
  BY StreamSizes
<1>2. entry \in [Ids -> [root : Ids, prior : 0..MaxRetries]]
  BY <1>1 DEF Init
<1>3. "recover" \in {Startup[k] : k \in 1..6}
  <2>1. Startup[1] = "recover" /\ 1 \in 1..6
    BY DEF Startup
  <2> QED BY <2>1
<1>4. proc \in [Procs -> {Startup[k] : k \in 1..6} \cup {"draining", "checked", "gone"}]
  BY <1>3 DEF Init
<1>5. TypeOK
  BY <1>1, <1>2, <1>4 DEF Init, TypeOK, PendingIds, Pending
<1>6. EntriesKnown /\ StartsCounted /\ RunningCounted /\ StartsBounded
  BY <1>1 DEF Init, EntriesKnown, StartsCounted, RunningCounted, StartsBounded, Pending, Ids
<1>7. IdsReserved
  BY <1>1, FS_EmptySet DEF Init, IdsReserved
<1> QED BY <1>5, <1>6, <1>7 DEF IInv

LEMMA NextIInv ==
  ASSUME IInv, [Next]_vars
  PROVE  IInv'
<1>1. CASE enqueue
  BY <1>1, enqueueFootprint, FootprintKeeps
<1>2. CASE EntryAges
  BY <1>2, QuietFootprint, FootprintKeeps
<1>3. ASSUME NEW d \in deliv, Deliver(d)
      PROVE  IInv'
  <2>1. CASE record_attempt(d)
    BY <2>1, record_attemptKeeps
  <2>2. CASE move_msg_to_dlq(d)
    BY <2>2, dlqFootprint, FootprintKeeps
  <2>3. CASE ack_processed(d)
    BY <2>3, ackFootprint, FootprintKeeps
  <2>4. CASE requeue_msg_for_infrastructure_retry(d)
    BY <2>4, requeueFootprint, FootprintKeeps
  <2>5. CASE DeliveryFails(d) \/ touch_pending_entry(d)
    BY <2>5, QuietFootprint, FootprintKeeps
  <2> QED BY <1>3, <2>1, <2>2, <2>3, <2>4, <2>5 DEF Deliver, HandlerEnds
<1>4. ASSUME NEW i \in Ids, OrphanIdles(i) \/ KeepaliveMissed(i)
      PROVE  IInv'
  BY <1>4, QuietFootprint, FootprintKeeps
<1>5. ASSUME NEW p \in Procs, Claim(p) \/ Janitor(p) \/ StartStep(p) \/ Leave(p)
      PROVE  IInv'
  <2>1. CASE refill_prefetch(p)
    BY <2>1, refillFootprint, FootprintKeeps
  <2>2. ASSUME NEW i \in Ids, pop_prefetched(p, i)
        PROVE  IInv'
    BY <2>2, popFootprint, FootprintKeeps
  <2>3. CASE promote_due_delayed(p)
    BY <2>3, promoteFootprint, FootprintKeeps
  <2>4. CASE Janitor(p)
    BY <2>4, JanitorFootprint, FootprintKeeps
  <2>5. CASE StartStep(p)
    BY <2>5, StartFootprint, FootprintKeeps
  <2>6. CASE Leave(p)
    BY <2>6, LeaveFootprint, FootprintKeeps
  <2> QED BY <1>5, <2>1, <2>2, <2>3, <2>4, <2>5, <2>6 DEF Claim
<1>6. CASE UNCHANGED vars
  <2>1. Footprint
    BY <1>6, Frame DEF vars, redis, history, Footprint
  <2> QED BY <2>1, FootprintKeeps
<1> QED BY <1>1, <1>2, <1>3, <1>4, <1>5, <1>6 DEF Next

\* The invariant holds of the queue, for any number of entries, processes and
\* faults, with and without a startup window.
THEOREM Invariance == Spec => []IInv
<1>1. Init => IInv
  BY InitIInv
<1>2. IInv /\ [Next]_vars => IInv'
  BY NextIInv
<1> QED BY <1>1, <1>2, PTL DEF Spec

\* The stream, the group, the deliveries and the histories have their types.
THEOREM TypeCorrect == Spec => []TypeOK
<1>1. IInv => TypeOK
  BY DEF IInv
<1> QED BY <1>1, Invariance, PTL

\* MAX_PROCESSING_RETRIES bounds the handler starts of an entry and of its
\* counted copies, whatever reclaims, crashes and stale deliveries do:
\* record_attempt counts before it compares, and both the starts and the count
\* end with the pending entry.
THEOREM StartsWithinRetries == Spec => []StartsBounded
<1>1. IInv => StartsBounded
  BY DEF IInv
<1> QED BY <1>1, Invariance, PTL

---------------------------------------------------------------------------
(* Trimming spares what is pending.                                        *)

\* Without a startup window no process is in the steps of one.
NoWindowSteps == \A p \in Procs : proc[p] \notin {"ff", "setid", "purge", "purge_del"}

LEMMA NoWindowStep ==
  ASSUME ~Window, IInv, NoWindowSteps, [Next]_vars
  PROVE  NoWindowSteps'
<1> DEFINE W == {"ff", "setid", "purge", "purge_del"}
<1>1. proc \in [Procs -> {Startup[k] : k \in 1..6} \cup {"draining", "checked", "gone"}]
  BY Parts DEF RestOK
<1>2. ASSUME NEW p \in Procs, NEW v, proc' = [proc EXCEPT ![p] = v], v \notin W
      PROVE  NoWindowSteps'
  BY <1>1, <1>2 DEF NoWindowSteps
<1>3. ASSUME proc' = proc
      PROVE  NoWindowSteps'
  BY <1>3 DEF NoWindowSteps
<1>4. ASSUME NEW p \in Procs, refill_prefetch(p)
      PROVE  NoWindowSteps'
  <2>1. proc' = proc \/ proc' = [proc EXCEPT ![p] = "draining"]
    BY <1>4 DEF refill_prefetch, read_own_pending, read_fresh, Buffered
  <2> QED BY <1>2, <1>3, <2>1
<1>5. ASSUME NEW p \in Procs, recover_orphaned_items(p)
      PROVE  NoWindowSteps'
  <2>1. proc' = proc \/ proc' = [proc EXCEPT ![p] = "up"]
    BY <1>5 DEF recover_orphaned_items, Recovered
  <2> QED BY <1>2, <1>3, <2>1
<1>6. ASSUME NEW p \in Procs, StartStep(p)
      PROVE  NoWindowSteps'
  <2>1. proc[p] \notin W
    BY DEF NoWindowSteps
  <2>2. StartupStepSkipped(p)
    BY <1>6, <2>1 DEF StartStep, FastForwardReads, fast_forward_if_stale, PurgePending, purge_old_pending
  <2>3. PICK k \in 1..5 :
          /\ proc[p] = Startup[k]
          /\ proc' = [proc EXCEPT ![p] = CASE k = 1 -> Recovered [] k = 2 -> "purge"
                                         [] OTHER -> Startup[k + 1]]
    BY <2>2 DEF StartupStepSkipped
  <2>4. k = 1
    <3>1. k \in {1, 2, 3, 4, 5}
      OBVIOUS
    <3>2. Startup[2] = "ff" /\ Startup[3] = "setid" /\ Startup[4] = "purge" /\ Startup[5] = "purge_del"
      BY DEF Startup
    <3> QED BY <2>1, <2>3, <3>1, <3>2
  <2>5. proc' = [proc EXCEPT ![p] = "up"]
    BY <2>3, <2>4 DEF Recovered
  <2> QED BY <1>2, <2>5
<1>7. ASSUME NEW p \in Procs, Leave(p)
      PROVE  NoWindowSteps'
  <2>1. PICK v \in {"draining", "checked", "gone", "recover"} : proc' = [proc EXCEPT ![p] = v]
    BY <1>7 DEF Leave, Shutdown, consumer_has_pending, unregister_consumer, Crash, Exit, Start, Stop
  <2>2. v \notin W
    OBVIOUS
  <2> QED BY <1>2, <2>1, <2>2
<1>8. ASSUME NEW p \in Procs, Claim(p) \/ Janitor(p) \/ StartStep(p) \/ Leave(p)
      PROVE  NoWindowSteps'
  <2>1. CASE (\E i \in Ids : pop_prefetched(p, i)) \/ promote_due_delayed(p)
    BY <1>3, <2>1 DEF pop_prefetched, promote_due_delayed
  <2>2. CASE cleanup_stale_consumers(p) \/ trim_stream(p)
    BY <1>3, <2>2 DEF cleanup_stale_consumers, trim_stream
  <2> QED BY <1>4, <1>5, <1>6, <1>7, <1>8, <2>1, <2>2 DEF Claim, Janitor
<1>9. ASSUME NEW d \in deliv, Deliver(d)
      PROVE  NoWindowSteps'
  BY <1>3, <1>9 DEF Deliver, HandlerEnds, record_attempt, move_msg_to_dlq, ack_processed,
       requeue_msg_for_infrastructure_retry, DeliveryFails, touch_pending_entry
<1>10. ASSUME enqueue \/ EntryAges \/ UNCHANGED vars
              \/ \E i \in Ids : OrphanIdles(i) \/ KeepaliveMissed(i)
       PROVE  NoWindowSteps'
  BY <1>3, <1>10 DEF enqueue, EntryAges, vars, OrphanIdles, KeepaliveMissed
<1> QED BY <1>8, <1>9, <1>10 DEF Next

\* An entry that XADD's trim removes is pending only if the stream is too long.
LEMMA XAddSpares ==
  ASSUME IInv, last + 1 \in Ids, NEW r, NEW n, NEW P \in SUBSET Ids, XAdd(r, n, P),
         NEW i \in present \ present', i \in P
  PROVE  Cardinality(present') >= HardMaxLen
<1>1. PICK s \in trim_stream_lua(present \cup {last + 1}, P) : present' = s
  BY DEF XAdd
<1>2. PICK c \in SUBSET (0..MaxIds) : c = present \cup {last + 1}
  <2>1. present \subseteq Ids
    BY Parts
  <2>2. Ids \subseteq 0..MaxIds
    BY DEF Ids
  <2> QED BY <2>1, <2>2
<1>3. P \in SUBSET Nat /\ MaxIds \in Nat
  BY StreamSizes DEF Ids
<1>4. i \in c \ s
  BY <1>1, <1>2
<1>5. s \in trim_stream_lua(c, P)
  BY <1>1, <1>2
<1> QED BY <1>1, <1>3, <1>4, <1>5, TrimSpares

LEMMA StepSpares ==
  ASSUME ~Window, IInv, NoWindowSteps, [Next]_vars, NEW i \in present \ present', pel'[i] # NoProc
  PROVE  Cardinality(present') >= HardMaxLen
<1>1. i \in Ids /\ PendingIds \subseteq Ids /\ last \in Nat
  BY Parts DEF PendingIds
<1>2. IsFiniteSet(delayed) /\ Cardinality(delayed) \in Nat /\ MaxIds \in Nat
  BY FS_CardinalityType, StreamSizes DEF IInv, IdsReserved
<1>3. CASE enqueue
  <2>1. last + 1 \in Ids
    BY <1>1, <1>2, <1>3 DEF enqueue, IdLeft, Ids
  <2>2. i \in PendingIds
    BY <1>1, <1>3 DEF enqueue, PendingIds, Pending
  <2> QED BY <1>1, <1>3, <2>1, <2>2, XAddSpares DEF enqueue
<1>4. ASSUME NEW p \in Procs, promote_due_delayed(p)
      PROVE  Cardinality(present') >= HardMaxLen
  <2>1. PICK d \in delayed : XAdd(Root(d[1]), d[2], PendingIds)
    BY <1>4 DEF promote_due_delayed
  <2>2. Cardinality(delayed) # 0
    BY <1>2, FS_EmptySet
  <2>3. last + 1 \in Ids
    BY <1>1, <1>2, <2>2 DEF IInv, IdsReserved, Ids
  <2>4. i \in PendingIds
    BY <1>1, <1>4 DEF promote_due_delayed, PendingIds, Pending
  <2> QED BY <1>1, <2>1, <2>3, <2>4, XAddSpares
<1>5. ASSUME NEW d \in deliv, requeue_msg_for_infrastructure_retry(d)
      PROVE  Cardinality(present') >= HardMaxLen
  <2>1. Pending(d.id) /\ XAck(d.id) /\ d.id \in Ids
    BY <1>5, Parts DEF requeue_msg_for_infrastructure_retry
  <2>2. PICK r, n : XAdd(r, n, PendingIds \ {d.id})
    BY <1>5 DEF requeue_msg_for_infrastructure_retry
  <2>3. last + 1 \in Ids
    BY <1>1, <1>2, <1>5 DEF requeue_msg_for_infrastructure_retry, IdLeft, Ids
  <2>4. i \in PendingIds \ {d.id}
    <3>1. pel \in [Ids -> Procs \cup {Former, NoProc}]
      BY Parts DEF GroupOK
    <3> QED BY <1>1, <2>1, <3>1 DEF XAck, PendingIds, Pending
  <2>5. PICK P \in SUBSET Ids : P = PendingIds \ {d.id}
    BY <1>1
  <2> QED BY <2>2, <2>3, <2>4, <2>5, XAddSpares
<1>6. ASSUME NEW p \in Procs, trim_stream(p)
      PROVE  FALSE
  <2>1. i \in PendingIds
    BY <1>1, <1>6 DEF trim_stream, PendingIds, Pending
  <2>2. PICK removable : /\ present' \in XTrim(present, removable)
                         /\ removable = {j \in present : j < Min(PendingIds)}
    BY <1>6, <2>1 DEF trim_stream
  <2>3. i < Min(PendingIds)
    BY <2>2, XTrimRemoves
  <2>4. PendingIds \in SUBSET Nat
    BY <1>1 DEF Ids
  <2>5. Min(PendingIds) \in Nat /\ Min(PendingIds) <= i /\ i \in Nat
    BY <2>1, <2>4, MinChosen
  <2> QED BY <2>3, <2>5
<1>7. ASSUME NEW p \in Procs, purge_old_pending(p)
      PROVE  FALSE
  BY <1>7 DEF purge_old_pending, NoWindowSteps
<1>8. ASSUME present' = present
      PROVE  FALSE
  BY <1>8
<1>9. ASSUME NEW d \in deliv, Deliver(d)
      PROVE  Cardinality(present') >= HardMaxLen
  BY <1>5, <1>8, <1>9 DEF Deliver, HandlerEnds, record_attempt, move_msg_to_dlq, ack_processed,
       DeliveryFails, touch_pending_entry, redis
<1>10. ASSUME NEW p \in Procs, Claim(p) \/ Janitor(p)
       PROVE  Cardinality(present') >= HardMaxLen
  <2>1. CASE refill_prefetch(p) \/ \E j \in Ids : pop_prefetched(p, j)
    BY <1>8, <2>1 DEF refill_prefetch, read_own_pending, read_fresh, pop_prefetched, redis
  <2>2. CASE recover_orphaned_items(p) \/ cleanup_stale_consumers(p)
    BY <1>8, <2>2 DEF recover_orphaned_items, cleanup_stale_consumers
  <2> QED BY <1>4, <1>6, <1>10, <2>1, <2>2 DEF Claim, Janitor
<1>11. ASSUME NEW p \in Procs, StartStep(p) \/ Leave(p)
       PROVE  FALSE
  <2>1. CASE StartStep(p)
    BY <1>7, <1>8, <2>1 DEF StartStep, StartupStepSkipped, FastForwardReads, fast_forward_if_stale,
         PurgePending, redis
  <2>2. CASE Leave(p)
    BY <1>8, <2>2 DEF Leave, Shutdown, consumer_has_pending, unregister_consumer, Crash, Exit, Start, redis
  <2> QED BY <1>11, <2>1, <2>2
<1>12. ASSUME EntryAges \/ UNCHANGED vars \/ \E j \in Ids : OrphanIdles(j) \/ KeepaliveMissed(j)
       PROVE  FALSE
  BY <1>8, <1>12 DEF EntryAges, vars, OrphanIdles, KeepaliveMissed, redis
<1> QED BY <1>3, <1>9, <1>10, <1>11, <1>12 DEF Next

\* Without a startup window (whose purge deletes by age alone) trimming leaves a
\* pending entry in the stream until the stream exceeds STREAM_HARD_MAXLEN.
THEOREM TrimmingSparesPending ==
  ASSUME ~Window
  PROVE  Spec => PendingSpared
<1>1. Init => NoWindowSteps
  BY DEF Init, NoWindowSteps
<1>2. IInv /\ NoWindowSteps /\ [Next]_vars => NoWindowSteps'
  BY NoWindowStep
<1>3. Spec => []NoWindowSteps
  BY <1>1, <1>2, Invariance, PTL DEF Spec
<1>4. IInv /\ NoWindowSteps /\ [Next]_vars =>
        [\A i \in present \ present' :
           pel'[i] # NoProc => Cardinality(present') >= HardMaxLen]_vars
  BY StepSpares
<1> QED BY <1>3, <1>4, Invariance, PTL DEF Spec, PendingSpared

---------------------------------------------------------------------------
(* One delivery per process.  fast_forward_if_stale compares and sets the  *)
(* group's position in two commands, so XGROUP SETID may move the group    *)
(* back behind what another process has read meanwhile, and entries that   *)
(* are in processing or acknowledged are read again.  What follows holds   *)
(* of every behaviour in which that does not happen.                       *)

\* The group's position never moves back.
CursorForward == [][cursor <= cursor']_vars

\* What was delivered is behind the group's position.
DeliveredBehind ==
  /\ \A i \in PendingIds : i <= cursor
  /\ \A d \in deliv : d.id <= cursor

\* A lease and everything after it is marked as in flight.
FlightMarked ==
  \A d \in deliv : d.phase # "buffered" => d.id \in in_flight[d.proc]

FInv == DeliveredBehind /\ FlightMarked /\ OneDeliveryPerProcess

\* Except for a read, no step makes an entry pending.
LEMMA XAckPending ==
  ASSUME IInv, NEW i \in Ids, XAck(i)
  PROVE  PendingIds' = PendingIds \ {i}
<1>1. pel \in [Ids -> Procs \cup {Former, NoProc}]
  BY Parts DEF GroupOK
<1> QED BY <1>1 DEF XAck, PendingIds, Pending

LEMMA XClaimPending ==
  ASSUME IInv, NEW S \in SUBSET PendingIds, NEW p \in Procs, XClaim(S, p)
  PROVE  PendingIds' = PendingIds \ (S \ present)
BY StreamNulls DEF XClaim, PendingIds, Pending

LEMMA SamePending ==
  ASSUME pel' = pel
  PROVE  PendingIds' = PendingIds
BY DEF PendingIds, Pending

\* A step that only ends deliveries, and the marks of those.
LEMMA EndsKeep ==
  ASSUME IInv, FInv, cursor <= cursor', cursor' \in Nat, PendingIds' \subseteq PendingIds,
         deliv' \subseteq deliv,
         \A e \in deliv' : e.id \in in_flight[e.proc] => e.id \in in_flight'[e.proc]
  PROVE  FInv'
<1>1. cursor \in Nat /\ PendingIds \subseteq Nat /\ \A d \in deliv : d.id \in Nat
  BY Parts DEF GroupOK, PendingIds, Ids
<1>2. DeliveredBehind'
  BY <1>1 DEF FInv, DeliveredBehind
<1>3. FlightMarked'
  BY DEF FInv, FlightMarked
<1>4. OneDeliveryPerProcess'
  BY DEF FInv, OneDeliveryPerProcess
<1> QED BY <1>2, <1>3, <1>4 DEF FInv

\* Ending one delivery takes no mark from another: there is none of this entry.
LEMMA FinishMarks ==
  ASSUME IInv, FInv, NEW d \in deliv, Finish(d)
  PROVE  /\ deliv' \subseteq deliv
         /\ \A e \in deliv' : e.id \in in_flight[e.proc] => e.id \in in_flight'[e.proc]
<1>1. deliv' = deliv \ {d} /\ in_flight' = [in_flight EXCEPT ![d.proc] = @ \ {d.id}]
  BY DEF Finish
<1>2. in_flight \in [Procs -> SUBSET Ids] /\ d.proc \in Procs
  BY Parts DEF RestOK
<1>3. ASSUME NEW e \in deliv', e.id \in in_flight[e.proc]
      PROVE  e.id \in in_flight'[e.proc]
  <2>1. e \in deliv /\ e # d /\ e.proc \in Procs
    BY <1>1, Parts
  <2>2. CASE e.proc = d.proc
    <3>1. e.id # d.id
      BY <2>1, <2>2 DEF FInv, OneDeliveryPerProcess
    <3> QED BY <1>1, <1>2, <1>3, <2>2, <3>1
  <2>3. CASE e.proc # d.proc
    BY <1>1, <1>2, <1>3, <2>1, <2>3
  <2> QED BY <2>2, <2>3
<1> QED BY <1>1, <1>3

LEMMA StopMarks ==
  ASSUME IInv, NEW p \in Procs, Stop(p)
  PROVE  /\ deliv' \subseteq deliv
         /\ \A e \in deliv' : e.id \in in_flight[e.proc] => e.id \in in_flight'[e.proc]
<1>1. in_flight \in [Procs -> SUBSET Ids]
  BY Parts DEF RestOK
<1>2. ASSUME NEW e \in deliv'
      PROVE  e \in deliv /\ in_flight'[e.proc] = in_flight[e.proc]
  <2>1. e \in deliv /\ e.proc # p
    BY DEF Stop
  <2>2. e.proc \in Procs
    BY <2>1, Parts
  <2> QED BY <1>1, <2>1, <2>2 DEF Stop
<1> QED BY <1>2

\* A refill finds the buffer empty, takes own entries that are not in flight or
\* fresh ones that nobody had, and so doubles no delivery.
LEMMA RefillKeeps ==
  ASSUME IInv, FInv, cursor <= cursor', cursor' \in Nat, NEW p \in Procs, refill_prefetch(p)
  PROVE  FInv'
<1>1. cursor \in Nat /\ PendingIds \subseteq Nat /\ \A d \in deliv : d.id \in Nat
  BY Parts DEF GroupOK, PendingIds, Ids
<1>2. UNCHANGED in_flight /\ Buffer(p) = {}
  BY DEF refill_prefetch
<1>3. ASSUME NEW S, Buffered(p, S), \A i \in S : i \in Nat /\ i <= cursor',
             \A i \in S : \A d \in deliv : d.proc = p => d.id # i,
             \A i \in PendingIds' : i <= cursor'
      PROVE  FInv'
  <2>1. ASSUME NEW e \in deliv', e \notin deliv
        PROVE  \E i \in S : e = Delivery(p, i, "buffered", 0)
    BY <1>3, <2>1 DEF Buffered
  <2>2. ASSUME NEW e \in deliv', e \notin deliv
        PROVE  e.proc = p /\ e.id \in S /\ e.phase = "buffered" /\ e = Delivery(p, e.id, "buffered", 0)
    <3>1. PICK i \in S : e = Delivery(p, i, "buffered", 0)
      BY <2>1, <2>2
    <3> QED BY <3>1 DEF Delivery
  <2>3. DeliveredBehind'
    <3>1. ASSUME NEW e \in deliv' PROVE e.id <= cursor'
      <4>1. CASE e \in deliv
        BY <1>1, <4>1 DEF FInv, DeliveredBehind
      <4>2. CASE e \notin deliv
        BY <1>3, <2>2, <4>2
      <4> QED BY <4>1, <4>2
    <3> QED BY <1>3, <3>1 DEF DeliveredBehind
  <2>4. FlightMarked'
    BY <1>2, <2>2 DEF FInv, FlightMarked
  <2>5. OneDeliveryPerProcess'
    <3> SUFFICES ASSUME NEW d \in deliv', NEW e \in deliv', d.proc = e.proc, d.id = e.id
                 PROVE  d = e
      BY DEF OneDeliveryPerProcess
    <3>1. CASE d \in deliv /\ e \in deliv
      BY <3>1 DEF FInv, OneDeliveryPerProcess
    <3>2. CASE d \in deliv /\ e \notin deliv
      BY <1>3, <2>2, <3>2
    <3>3. CASE d \notin deliv /\ e \in deliv
      BY <1>3, <2>2, <3>3
    <3>4. CASE d \notin deliv /\ e \notin deliv
      BY <2>2, <3>4
    <3> QED BY <3>1, <3>2, <3>3, <3>4
  <2> QED BY <2>3, <2>4, <2>5 DEF FInv
<1>4. CASE read_own_pending(p)
  <2> DEFINE again == First(NotInFlight(p), Batch)
             listed == First(Owned(p), Batch + Cardinality(in_flight[p])) \cap in_flight[p]
  <2>1. XClaim(again \cup listed, p) /\ Buffered(p, again \cap present) /\ UNCHANGED cursor
    BY <1>4 DEF read_own_pending
  <2>2. again \cup listed \subseteq PendingIds
    BY StreamNulls DEF First, NotInFlight, Owned, PendingIds, Pending
  <2>3. again \cap in_flight[p] = {}
    BY DEF First, NotInFlight
  <2> HIDE DEF again, listed
  <2>4. PendingIds' \subseteq PendingIds
    BY <2>1, <2>2, XClaimPending
  <2>5. \A i \in PendingIds' : i <= cursor'
    BY <2>1, <2>4 DEF FInv, DeliveredBehind
  <2>6. \A i \in again \cap present : i \in Nat /\ i <= cursor'
    BY <1>1, <2>1, <2>2 DEF FInv, DeliveredBehind
  <2>7. \A i \in again \cap present : \A d \in deliv : d.proc = p => d.id # i
    BY <1>2, <2>3 DEF FInv, FlightMarked, Buffer
  <2> QED BY <1>3, <2>1, <2>5, <2>6, <2>7
<1>5. CASE read_fresh(p)
  <2>1. PICK fresh \in SUBSET present :
          /\ fresh = First({i \in present : i > cursor}, Batch) /\ fresh # {}
          /\ pel' = [i \in Ids |-> IF i \in fresh THEN p ELSE pel[i]]
          /\ cursor' = Max(fresh) /\ Buffered(p, fresh)
    BY <1>5 DEF read_fresh, First
  <2>2. fresh \subseteq Ids /\ fresh \subseteq 0..MaxIds /\ fresh \subseteq Nat /\ MaxIds \in Nat
    BY Parts DEF Ids
  <2>3. cursor' \in fresh /\ \A i \in fresh : i <= cursor' /\ i > cursor
    BY <2>1, <2>2, MaxChosen DEF First
  <2>4. PendingIds' \subseteq PendingIds \cup fresh
    BY <2>1 DEF PendingIds, Pending
  <2>5. \A i \in PendingIds' : i <= cursor'
    <3>1. \A i \in PendingIds : i <= cursor'
      BY <1>1, <2>3 DEF FInv, DeliveredBehind
    <3> QED BY <2>3, <2>4, <3>1
  <2>6. \A i \in fresh : \A d \in deliv : d.proc = p => d.id # i
    BY <1>1, <2>2, <2>3 DEF FInv, DeliveredBehind
  <2> QED BY <1>3, <2>1, <2>2, <2>3, <2>5, <2>6
<1> QED BY <1>4, <1>5 DEF refill_prefetch

\* The two steps that change a delivery keep its entry and mark it.
LEMMA DeliveryMoves ==
  ASSUME IInv, FInv, cursor <= cursor', cursor' \in Nat, UNCHANGED pel, NEW d \in deliv, NEW e,
         deliv' = (deliv \ {d}) \cup {e}, e.proc = d.proc, e.id = d.id,
         \A q \in Procs : in_flight[q] \subseteq in_flight'[q], e.id \in in_flight'[d.proc]
  PROVE  FInv'
<1>1. cursor \in Nat /\ PendingIds \subseteq Nat /\ \A x \in deliv : x.id \in Nat /\ x.proc \in Procs
  BY Parts DEF GroupOK, PendingIds, Ids
<1>2. DeliveredBehind'
  <2>1. PendingIds' = PendingIds
    BY SamePending
  <2>2. \A i \in PendingIds' : i <= cursor'
    BY <1>1, <2>1 DEF FInv, DeliveredBehind
  <2>3. \A x \in deliv : x.id <= cursor'
    BY <1>1 DEF FInv, DeliveredBehind
  <2>4. \A x \in deliv' : x.id <= cursor'
    BY <2>3
  <2> QED BY <2>2, <2>4 DEF DeliveredBehind
<1>3. FlightMarked'
  BY <1>1 DEF FInv, FlightMarked
<1>4. OneDeliveryPerProcess'
  BY DEF FInv, OneDeliveryPerProcess
<1> QED BY <1>2, <1>3, <1>4 DEF FInv

LEMMA PopKeeps ==
  ASSUME IInv, FInv, cursor <= cursor', cursor' \in Nat, NEW p \in Procs, NEW i \in Ids, pop_prefetched(p, i)
  PROVE  FInv'
<1>1. PICK d \in Buffer(p) : d.id = i /\ deliv' = (deliv \ {d}) \cup {[d EXCEPT !.phase = "claimed"]}
  BY DEF pop_prefetched
<1>2. d \in deliv /\ d.proc = p /\ d \in [proc : Procs, id : Ids, phase : Phases, n : Nat]
  BY DEF Buffer, IInv, TypeOK
<1>3. PICK e : e = [d EXCEPT !.phase = "claimed"]
  OBVIOUS
<1>4. e.proc = d.proc /\ e.id = d.id
  BY <1>2, <1>3
<1>5. in_flight \in [Procs -> SUBSET Ids] /\ in_flight' = [in_flight EXCEPT ![p] = @ \cup {i}]
  BY Parts DEF RestOK, pop_prefetched
<1>6. (\A q \in Procs : in_flight[q] \subseteq in_flight'[q]) /\ e.id \in in_flight'[d.proc]
  BY <1>1, <1>2, <1>4, <1>5
<1>7. UNCHANGED pel
  BY DEF pop_prefetched, redis
<1>8. deliv' = (deliv \ {d}) \cup {e}
  BY <1>1, <1>3
<1> QED BY <1>2, <1>4, <1>6, <1>7, <1>8, DeliveryMoves

LEMMA RecordKeeps ==
  ASSUME IInv, FInv, cursor <= cursor', cursor' \in Nat, NEW d \in deliv, record_attempt(d)
  PROVE  FInv'
<1>1. PICK ph, n : deliv' = (deliv \ {d}) \cup {[d EXCEPT !.phase = ph, !.n = n]}
  BY DEF record_attempt
<1>2. d.proc \in Procs /\ d \in [proc : Procs, id : Ids, phase : Phases, n : Nat]
  BY DEF IInv, TypeOK
<1>3. PICK e : e = [d EXCEPT !.phase = ph, !.n = n]
  OBVIOUS
<1>4. e.proc = d.proc /\ e.id = d.id
  BY <1>2, <1>3
<1>5. d.id \in in_flight[d.proc] /\ UNCHANGED <<pel, in_flight>>
  BY DEF record_attempt, FInv, FlightMarked
<1>6. (\A q \in Procs : in_flight[q] \subseteq in_flight'[q]) /\ e.id \in in_flight'[d.proc]
  BY <1>4, <1>5
<1>7. deliv' = (deliv \ {d}) \cup {e}
  BY <1>1, <1>3
<1> QED BY <1>4, <1>5, <1>6, <1>7, DeliveryMoves

LEMMA NextFInv ==
  ASSUME IInv, FInv, [Next]_vars, IInv', cursor <= cursor'
  PROVE  FInv'
<1>1. cursor' \in Nat
  BY DEF IInv, TypeOK
<1>2. ASSUME UNCHANGED <<deliv, in_flight>>, PendingIds' \subseteq PendingIds
      PROVE  FInv'
  BY <1>1, <1>2, EndsKeep
<1>3. ASSUME UNCHANGED <<deliv, in_flight, pel>>
      PROVE  FInv'
  BY <1>2, <1>3, SamePending
<1>4. ASSUME NEW d \in deliv, Finish(d), PendingIds' \subseteq PendingIds
      PROVE  FInv'
  <2>1. /\ deliv' \subseteq deliv
        /\ \A e \in deliv' : e.id \in in_flight[e.proc] => e.id \in in_flight'[e.proc]
    BY <1>4, FinishMarks
  <2> QED BY <1>1, <1>4, <2>1, EndsKeep
<1>5. ASSUME NEW p \in Procs, Stop(p), PendingIds' \subseteq PendingIds
      PROVE  FInv'
  <2>1. /\ deliv' \subseteq deliv
        /\ \A e \in deliv' : e.id \in in_flight[e.proc] => e.id \in in_flight'[e.proc]
    BY <1>5, StopMarks
  <2> QED BY <1>1, <1>5, <2>1, EndsKeep
<1>6. ASSUME NEW d \in deliv, Deliver(d)
      PROVE  FInv'
  <2>1. CASE record_attempt(d)
    BY <1>1, <2>1, RecordKeeps
  <2>2. CASE touch_pending_entry(d)
    BY <1>3, <2>2 DEF touch_pending_entry
  <2>3. CASE move_msg_to_dlq(d) \/ HandlerEnds(d)
    <3>1. Finish(d) /\ (XAck(d.id) \/ UNCHANGED pel) /\ d.id \in Ids
      BY <2>3, Parts DEF move_msg_to_dlq, HandlerEnds, ack_processed,
           requeue_msg_for_infrastructure_retry, DeliveryFails, redis
    <3>2. PendingIds' \subseteq PendingIds
      BY <3>1, XAckPending, SamePending
    <3> QED BY <1>4, <3>1, <3>2
  <2> QED BY <1>6, <2>1, <2>2, <2>3 DEF Deliver
<1>7. ASSUME NEW p \in Procs, Claim(p)
      PROVE  FInv'
  <2>1. CASE refill_prefetch(p)
    BY <1>1, <2>1, RefillKeeps
  <2>2. ASSUME NEW i \in Ids, pop_prefetched(p, i)
        PROVE  FInv'
    BY <1>1, <2>2, PopKeeps
  <2>3. CASE promote_due_delayed(p)
    BY <1>3, <2>3 DEF promote_due_delayed
  <2> QED BY <1>7, <2>1, <2>2, <2>3 DEF Claim
<1>8. ASSUME NEW p \in Procs, Janitor(p)
      PROVE  FInv'
  <2>1. CASE recover_orphaned_items(p)
    <3>1. idle \in SUBSET PendingIds /\ XClaim(idle, p) /\ UNCHANGED <<deliv, in_flight>>
      BY <2>1, Parts DEF GroupOK, recover_orphaned_items
    <3>2. PendingIds' \subseteq PendingIds
      BY <3>1, XClaimPending
    <3> QED BY <1>2, <3>1, <3>2
  <2>2. CASE cleanup_stale_consumers(p)
    <3>1. PICK c \in Procs \cup {Former} : XClaim(Owned(c), p)
      BY <2>2 DEF cleanup_stale_consumers
    <3>2. Owned(c) \in SUBSET PendingIds
      BY StreamNulls DEF Owned, PendingIds, Pending
    <3>3. PendingIds' \subseteq PendingIds
      BY <3>1, <3>2, XClaimPending
    <3> QED BY <1>2, <2>2, <3>3 DEF cleanup_stale_consumers
  <2>3. CASE trim_stream(p)
    BY <1>3, <2>3 DEF trim_stream
  <2> QED BY <1>8, <2>1, <2>2, <2>3 DEF Janitor
<1>9. ASSUME NEW p \in Procs, StartStep(p)
      PROVE  FInv'
  <2>1. CASE PurgePending(p)
    <3>1. PendingIds' \subseteq PendingIds
      BY <2>1 DEF PurgePending, PendingIds, Pending
    <3> QED BY <1>2, <2>1, <3>1 DEF PurgePending
  <2>2. CASE ~PurgePending(p)
    BY <1>3, <1>9, <2>2 DEF StartStep, StartupStepSkipped, FastForwardReads, fast_forward_if_stale,
         purge_old_pending, redis
  <2> QED BY <2>1, <2>2
<1>10. ASSUME NEW p \in Procs, Leave(p)
       PROVE  FInv'
  <2>1. CASE Shutdown(p) \/ consumer_has_pending(p)
    BY <1>3, <2>1 DEF Shutdown, consumer_has_pending, redis
  <2>2. CASE unregister_consumer(p)
    <3>1. PendingIds' \subseteq PendingIds
      BY <2>2 DEF unregister_consumer, PendingIds, Pending
    <3> QED BY <1>5, <2>2, <3>1 DEF unregister_consumer
  <2>3. CASE Crash(p) \/ Exit(p)
    <3>1. PendingIds' \subseteq PendingIds /\ Stop(p)
      BY <2>3, SamePending DEF Crash, Exit, redis
    <3> QED BY <1>5, <3>1
  <2>4. CASE Start(p)
    <3>1. PendingIds' \subseteq PendingIds
      BY <2>4, StreamNulls DEF Start, PendingIds, Pending
    <3> QED BY <1>2, <2>4, <3>1 DEF Start
  <2> QED BY <1>10, <2>1, <2>2, <2>3, <2>4 DEF Leave
<1>11. ASSUME enqueue \/ EntryAges \/ UNCHANGED vars
              \/ \E i \in Ids : OrphanIdles(i) \/ KeepaliveMissed(i)
       PROVE  FInv'
  BY <1>3, <1>11 DEF enqueue, EntryAges, vars, OrphanIdles, KeepaliveMissed, redis
<1> QED BY <1>6, <1>7, <1>8, <1>9, <1>10, <1>11 DEF Next

LEMMA InitFInv ==
  ASSUME Init
  PROVE  FInv
BY DEF Init, FInv, DeliveredBehind, FlightMarked, OneDeliveryPerProcess, PendingIds, Pending

\* The facts above, for behaviours in which the group's position never moves back.
LEMMA ForwardInvariance == Spec /\ CursorForward => []FInv
<1>1. Init => FInv
  BY InitFInv
<1>2. IInv /\ IInv' /\ FInv /\ [Next]_vars /\ [cursor <= cursor']_vars => FInv'
  <2> SUFFICES ASSUME IInv, IInv', FInv, [Next]_vars, [cursor <= cursor']_vars PROVE FInv'
    OBVIOUS
  <2>1. cursor <= cursor'
    <3>1. CASE UNCHANGED vars
      <4>1. cursor' = cursor /\ cursor \in Nat
        BY <3>1, Parts DEF vars, redis, GroupOK
      <4> QED BY <4>1
    <3> QED BY <3>1
  <2> QED BY <2>1, NextFInv
<1> QED BY <1>1, <1>2, Invariance, PTL DEF Spec, CursorForward

\* Without a startup window there is no fast-forward, and reads move the group
\* forward.
LEMMA NoWindowForward ==
  ASSUME ~Window
  PROVE  Spec => CursorForward
<1>1. Init => NoWindowSteps
  BY DEF Init, NoWindowSteps
<1>2. IInv /\ NoWindowSteps /\ [Next]_vars => NoWindowSteps'
  BY NoWindowStep
<1>3. Spec => []NoWindowSteps
  BY <1>1, <1>2, Invariance, PTL DEF Spec
<1>4. IInv /\ NoWindowSteps /\ [Next]_vars => [cursor <= cursor']_vars
  <2> SUFFICES ASSUME IInv, NoWindowSteps, Next PROVE cursor <= cursor'
    OBVIOUS
  <2>1. cursor \in Nat
    BY Parts DEF GroupOK
  <2>2. ASSUME cursor' = cursor PROVE cursor <= cursor'
    BY <2>1, <2>2
  <2>3. ASSUME NEW p \in Procs, read_fresh(p)
        PROVE  cursor <= cursor'
    <3>1. PICK fresh \in SUBSET present :
            fresh = First({i \in present : i > cursor}, Batch) /\ fresh # {} /\ cursor' = Max(fresh)
      BY <2>3 DEF read_fresh, First
    <3>2. fresh \subseteq 0..MaxIds /\ MaxIds \in Nat
      BY Parts DEF Ids
    <3>3. cursor' \in fresh
      BY <3>1, <3>2, MaxChosen
    <3>4. \A i \in fresh : i > cursor
      BY <3>1 DEF First
    <3>5. cursor' > cursor
      BY <3>3, <3>4
    <3>6. cursor' \in Nat
      BY <3>2, <3>3
    <3> QED BY <2>1, <3>5, <3>6
  <2>4. ASSUME NEW p \in Procs, Claim(p) \/ Janitor(p)
        PROVE  cursor <= cursor'
    BY <2>2, <2>3, <2>4 DEF Claim, Janitor, refill_prefetch, read_own_pending, pop_prefetched,
         promote_due_delayed, recover_orphaned_items, cleanup_stale_consumers, trim_stream, redis
  <2>5. ASSUME NEW p \in Procs, StartStep(p)
        PROVE  cursor <= cursor'
    <3>1. ~fast_forward_if_stale(p)
      BY DEF fast_forward_if_stale, NoWindowSteps
    <3> QED BY <2>2, <2>5, <3>1 DEF StartStep, StartupStepSkipped, FastForwardReads, PurgePending,
              purge_old_pending, redis
  <2>6. ASSUME NEW p \in Procs, Leave(p)
        PROVE  cursor <= cursor'
    BY <2>2, <2>6 DEF Leave, Shutdown, consumer_has_pending, unregister_consumer, Crash, Exit, Start, redis
  <2>7. ASSUME NEW d \in deliv, Deliver(d)
        PROVE  cursor <= cursor'
    BY <2>2, <2>7 DEF Deliver, HandlerEnds, record_attempt, move_msg_to_dlq, ack_processed,
         requeue_msg_for_infrastructure_retry, DeliveryFails, touch_pending_entry, redis
  <2>8. ASSUME enqueue \/ EntryAges \/ \E i \in Ids : OrphanIdles(i) \/ KeepaliveMissed(i)
        PROVE  cursor <= cursor'
    BY <2>2, <2>8 DEF enqueue, EntryAges, OrphanIdles, KeepaliveMissed, redis
  <2> QED BY <2>4, <2>5, <2>6, <2>7, <2>8 DEF Next
<1> QED BY <1>3, <1>4, Invariance, PTL DEF Spec, CursorForward

\* Within one process an entry is delivered once at a time, as long as the group's
\* position does not move back under the refill.
THEOREM NoDoubleDelivery == Spec /\ CursorForward => []OneDeliveryPerProcess
<1>1. FInv => OneDeliveryPerProcess
  BY DEF FInv
<1> QED BY <1>1, ForwardInvariance, PTL

\* So it is in every deployment without a startup window.
COROLLARY NoDoubleDeliveryNoWindow ==
  ASSUME ~Window
  PROVE  Spec => []OneDeliveryPerProcess
BY NoDoubleDelivery, NoWindowForward, PTL

---------------------------------------------------------------------------
(* Conservation.  The places of a message fall into four columns, and      *)
(* every step moves a message from one column to another.                  *)

Waiting == {i \in present : i > cursor}
Live == PendingIds \cup Waiting

LiveOf(r) == {i \in Live : Root(i) = r}
DelayedOf(r) == {d \in delayed : Root(d[1]) = r}
DeadOf(r) == {x \in (1..last) \X (1..MaxIds) : Root(x[1]) = r /\ x[2] <= dlq[x[1]]}
EndOf(r) == {f \in {"done", "discarded", "released"} :
               \/ f = "done" /\ r \in done
               \/ f = "discarded" /\ r \in discarded
               \/ f = "released" /\ r \in released}

Single(S) == \E x : S = {x}

\* One column has one element, the others are empty.
One(L, Q, X, E) ==
  \/ Single(L) /\ Q = {} /\ X = {} /\ E = {}
  \/ L = {} /\ Single(Q) /\ X = {} /\ E = {}
  \/ L = {} /\ Q = {} /\ Single(X) /\ E = {}
  \/ L = {} /\ Q = {} /\ X = {} /\ Single(E)

Placed == \A r \in Sent : One(LiveOf(r), DelayedOf(r), DeadOf(r), EndOf(r))

\* Every position is one the stream has reached, and an id that was not added has
\* no dead letter.
Reached ==
  /\ cursor <= last /\ old <= last /\ \A p \in Procs : target[p] <= last
  /\ \A i \in Ids : i > last => dlq[i] = 0

PInv == Placed /\ Reached

\* That is what Conserved says.
LEMMA PlacedConserves ==
  ASSUME IInv, Placed
  PROVE  Conserved
<1> SUFFICES ASSUME NEW r \in Sent
             PROVE  Cardinality(Places(r)) = 1
  BY DEF Conserved
<1>1. {j \in 1..last : Root(j) = r /\ (Undelivered(j) \/ Pending(j))} = LiveOf(r)
  <2>1. Live \subseteq 1..last
    BY Parts DEF Live, PendingIds, Waiting, GroupOK, Ids
  <2>2. \A j \in 1..last : j \in Live <=> Undelivered(j) \/ Pending(j)
    BY Parts DEF Live, PendingIds, Waiting, Undelivered
  <2> QED BY <2>1, <2>2 DEF LiveOf
<1>2. {e \in delayed : Root(e[1]) = r} = DelayedOf(r)
  BY DEF DelayedOf
<1>3. {x \in {"dead"} \X (1..last) \X (1..MaxIds) : Root(x[2]) = r /\ x[3] <= dlq[x[2]]}
        = {<<"dead", y[1], y[2]>> : y \in DeadOf(r)}
  <2> DEFINE T == {x \in {"dead"} \X (1..last) \X (1..MaxIds) : Root(x[2]) = r /\ x[3] <= dlq[x[2]]}
  <2>1. ASSUME NEW x \in T
        PROVE  \E y \in DeadOf(r) : x = <<"dead", y[1], y[2]>>
    <3>1. PICK i \in 1..last, k \in 1..MaxIds : x = <<"dead", i, k>>
      OBVIOUS
    <3>2. Root(i) = r /\ k <= dlq[i]
      BY <3>1
    <3>3. PICK y : y = <<i, k>>
      OBVIOUS
    <3>4. y \in (1..last) \X (1..MaxIds) /\ y[1] = i /\ y[2] = k
      BY <3>3
    <3>5. y \in DeadOf(r)
      BY <3>2, <3>4 DEF DeadOf
    <3> QED BY <3>1, <3>4, <3>5
  <2>2. ASSUME NEW y \in DeadOf(r)
        PROVE  <<"dead", y[1], y[2]>> \in T
    <3>1. PICK i \in 1..last, k \in 1..MaxIds : y[1] = i /\ y[2] = k /\ Root(i) = r /\ k <= dlq[i]
      BY DEF DeadOf
    <3>2. <<"dead", i, k>> \in T
      BY <3>1
    <3> QED BY <3>1, <3>2
  <2> QED BY <2>1, <2>2
<1>4. {f \in {"done", "discarded", "released"} :
         r \in CASE f = "done" -> done [] f = "discarded" -> discarded [] OTHER -> released}
        = EndOf(r)
  BY DEF EndOf
<1>5. Places(r) = {<<"live", i>> : i \in LiveOf(r)} \cup {<<"delayed", d>> : d \in DelayedOf(r)}
                  \cup {<<"dead", y[1], y[2]>> : y \in DeadOf(r)} \cup {<<e>> : e \in EndOf(r)}
  BY <1>1, <1>2, <1>3, <1>4 DEF Places
<1>6. One(LiveOf(r), DelayedOf(r), DeadOf(r), EndOf(r))
  BY DEF Placed
<1>7. \E z : Places(r) = {z}
  <2>1. CASE Single(LiveOf(r)) /\ DelayedOf(r) = {} /\ DeadOf(r) = {} /\ EndOf(r) = {}
    <3>1. PICK i : LiveOf(r) = {i}
      BY <2>1 DEF Single
    <3>2. Places(r) = {<<"live", i>>}
      BY <1>5, <2>1, <3>1
    <3> QED BY <3>2
  <2>2. CASE LiveOf(r) = {} /\ Single(DelayedOf(r)) /\ DeadOf(r) = {} /\ EndOf(r) = {}
    <3>1. PICK d : DelayedOf(r) = {d}
      BY <2>2 DEF Single
    <3>2. Places(r) = {<<"delayed", d>>}
      BY <1>5, <2>2, <3>1
    <3> QED BY <3>2
  <2>3. CASE LiveOf(r) = {} /\ DelayedOf(r) = {} /\ Single(DeadOf(r)) /\ EndOf(r) = {}
    <3>1. PICK y : DeadOf(r) = {y}
      BY <2>3 DEF Single
    <3>2. Places(r) = {<<"dead", y[1], y[2]>>}
      BY <1>5, <2>3, <3>1
    <3> QED BY <3>2
  <2>4. CASE LiveOf(r) = {} /\ DelayedOf(r) = {} /\ DeadOf(r) = {} /\ Single(EndOf(r))
    <3>1. PICK e : EndOf(r) = {e}
      BY <2>4 DEF Single
    <3>2. Places(r) = {<<e>>}
      BY <1>5, <2>4, <3>1
    <3> QED BY <3>2
  <2> QED BY <1>6, <2>1, <2>2, <2>3, <2>4 DEF One
<1> QED BY <1>7, FS_Singleton

\* Taking ids K out of the live column, into end f if one of them was the message's.
LEMMA MoveOut ==
  ASSUME NEW L, NEW Q, NEW X, NEW E, NEW K, NEW f, NEW F, One(L, Q, X, E),
         F = IF L \cap K = {} THEN E ELSE E \cup {f}
  PROVE  One(L \ K, Q, X, F)
<1>1. CASE L \cap K = {}
  <2>1. L \ K = L /\ F = E
    BY <1>1
  <2> QED BY <2>1
<1>2. CASE L \cap K # {}
  <2>1. Single(L) /\ Q = {} /\ X = {} /\ E = {}
    BY <1>2 DEF One
  <2>2. PICK i : L = {i}
    BY <2>1 DEF Single
  <2>3. L \ K = {} /\ F = {f}
    BY <1>2, <2>1, <2>2
  <2> QED BY <2>1, <2>3 DEF One, Single
<1> QED BY <1>1, <1>2

---------------------------------------------------------------------------
(* The ways a step moves messages.                                         *)

Settles ==
  /\ UNCHANGED <<entry, last, delayed, dlq>>
  /\ \E D \in SUBSET Live :
       /\ Live' = Live \ D
       /\ \/ done' = done \cup {Root(i) : i \in D} /\ UNCHANGED <<discarded, released>>
          \/ discarded' = discarded \cup {Root(i) : i \in D} /\ UNCHANGED <<done, released>>
          \/ released' = released \cup {Root(i) : i \in D} /\ UNCHANGED <<done, discarded>>

Buries ==
  /\ UNCHANGED <<entry, last, delayed, history>>
  /\ \E i \in Live : Live' = Live \ {i} /\ dlq' = [dlq EXCEPT ![i] = @ + 1]

Defers ==
  /\ UNCHANGED <<entry, last, dlq, history>>
  /\ \E i \in Live, n \in 0..MaxRetries : Live' = Live \ {i} /\ delayed' = delayed \cup {<<i, n>>}

\* src is the entry that the new one is a copy of, K what the trim removes.
Copies(r, src) ==
  \/ src = {} /\ r = last + 1 /\ delayed' = delayed
  \/ src = {} /\ \E x \in delayed : r = Root(x[1]) /\ delayed' = delayed \ {x}
  \/ delayed' = delayed /\ \E i \in Live : src = {i} /\ r = Root(i)

AddsAs(r, n, src, K) ==
  /\ entry' = [entry EXCEPT ![last + 1] = [root |-> r, prior |-> n]]
  /\ K \subseteq (Live \ src) \cup {last + 1}
  /\ Live' = ((Live \ src) \cup {last + 1}) \ K
  /\ discarded' = discarded \cup {entry'[i].root : i \in K}
  /\ Copies(r, src)

Adds ==
  /\ last' = last + 1 /\ last + 1 \in Ids /\ UNCHANGED <<dlq, done, released>>
  /\ \E r \in 1..(last + 1), n \in 0..MaxRetries, src \in SUBSET Live, K \in SUBSET (1..(last + 1)) :
       AddsAs(r, n, src, K)

\* The live entries of the invariant.
LEMMA LiveKnown ==
  ASSUME IInv
  PROVE  /\ Live \subseteq 1..last /\ Live \subseteq Ids
         /\ \A i \in Live : Root(i) \in Sent /\ i \in LiveOf(Root(i))
         /\ Sent \subseteq 1..last
<1>1. Live \subseteq 1..last /\ Live \subseteq Ids
  BY Parts DEF Live, PendingIds, Waiting, GroupOK, Ids
<1>2. \A i \in Live : Root(i) \in Sent /\ i \in LiveOf(Root(i))
  BY <1>1 DEF Sent, LiveOf
<1>3. Sent \subseteq 1..last
  BY DEF Sent, IInv, EntriesKnown
<1> QED BY <1>1, <1>2, <1>3

\* A message one of whose entries is live is nowhere else.
LEMMA LiveOnly ==
  ASSUME IInv, Placed, NEW i \in Live
  PROVE  /\ LiveOf(Root(i)) = {i}
         /\ DelayedOf(Root(i)) = {} /\ DeadOf(Root(i)) = {} /\ EndOf(Root(i)) = {}
<1>1. One(LiveOf(Root(i)), DelayedOf(Root(i)), DeadOf(Root(i)), EndOf(Root(i)))
  BY LiveKnown DEF Placed
<1>2. i \in LiveOf(Root(i))
  BY LiveKnown
<1> QED BY <1>1, <1>2 DEF One, Single

\* A delayed message is nowhere else.
LEMMA DelayedOnly ==
  ASSUME IInv, Placed, NEW x \in delayed
  PROVE  /\ Root(x[1]) \in Sent
         /\ LiveOf(Root(x[1])) = {} /\ DelayedOf(Root(x[1])) = {x}
         /\ DeadOf(Root(x[1])) = {} /\ EndOf(Root(x[1])) = {}
<1>1. x[1] \in 1..last
  BY DEF IInv, EntriesKnown
<1>2. Root(x[1]) \in Sent
  BY <1>1 DEF Sent
<1>3. One(LiveOf(Root(x[1])), DelayedOf(Root(x[1])), DeadOf(Root(x[1])), EndOf(Root(x[1])))
  BY <1>2 DEF Placed
<1>4. x \in DelayedOf(Root(x[1]))
  BY DEF DelayedOf
<1> QED BY <1>2, <1>3, <1>4 DEF One, Single

LEMMA SettlesKeeps ==
  ASSUME IInv, Placed, Settles
  PROVE  Placed'
<1>1. PICK D \in SUBSET Live :
        /\ Live' = Live \ D
        /\ \/ done' = done \cup {Root(i) : i \in D} /\ UNCHANGED <<discarded, released>>
           \/ discarded' = discarded \cup {Root(i) : i \in D} /\ UNCHANGED <<done, released>>
           \/ released' = released \cup {Root(i) : i \in D} /\ UNCHANGED <<done, discarded>>
  BY DEF Settles
<1>2. UNCHANGED <<entry, last, delayed, dlq>>
  BY DEF Settles
<1>3. Sent' = Sent
  BY <1>2 DEF Sent, Root
<1> SUFFICES ASSUME NEW r \in Sent
             PROVE  One(LiveOf(r)', DelayedOf(r)', DeadOf(r)', EndOf(r)')
  BY <1>3 DEF Placed
<1>4. One(LiveOf(r), DelayedOf(r), DeadOf(r), EndOf(r))
  BY DEF Placed
<1>5. LiveOf(r)' = LiveOf(r) \ D
  BY <1>1, <1>2 DEF LiveOf, Root
<1>6. DelayedOf(r)' = DelayedOf(r) /\ DeadOf(r)' = DeadOf(r)
  BY <1>2 DEF DelayedOf, DeadOf, Root
<1>7. r \in {Root(i) : i \in D} <=> LiveOf(r) \cap D # {}
  BY DEF LiveOf
<1>8. PICK f \in {"done", "discarded", "released"} :
        EndOf(r)' = IF LiveOf(r) \cap D = {} THEN EndOf(r) ELSE EndOf(r) \cup {f}
  <2>1. CASE done' = done \cup {Root(i) : i \in D} /\ UNCHANGED <<discarded, released>>
    <3>1. EndOf(r)' = IF LiveOf(r) \cap D = {} THEN EndOf(r) ELSE EndOf(r) \cup {"done"}
      BY <1>7, <2>1 DEF EndOf
    <3> QED BY <3>1
  <2>2. CASE discarded' = discarded \cup {Root(i) : i \in D} /\ UNCHANGED <<done, released>>
    <3>1. EndOf(r)' = IF LiveOf(r) \cap D = {} THEN EndOf(r) ELSE EndOf(r) \cup {"discarded"}
      BY <1>7, <2>2 DEF EndOf
    <3> QED BY <3>1
  <2>3. CASE released' = released \cup {Root(i) : i \in D} /\ UNCHANGED <<done, discarded>>
    <3>1. EndOf(r)' = IF LiveOf(r) \cap D = {} THEN EndOf(r) ELSE EndOf(r) \cup {"released"}
      BY <1>7, <2>3 DEF EndOf
    <3> QED BY <3>1
  <2> QED BY <1>1, <2>1, <2>2, <2>3
<1>9. One(LiveOf(r) \ D, DelayedOf(r), DeadOf(r), EndOf(r)')
  BY <1>4, <1>8, MoveOut
<1> QED BY <1>5, <1>6, <1>9

LEMMA BuriesKeeps ==
  ASSUME IInv, Placed, Buries
  PROVE  Placed'
<1>1. PICK i \in Live : Live' = Live \ {i} /\ dlq' = [dlq EXCEPT ![i] = @ + 1]
  BY DEF Buries
<1>2. UNCHANGED <<entry, last, delayed, done, discarded, released>>
  BY DEF Buries, history
<1>3. Sent' = Sent
  BY <1>2 DEF Sent, Root
<1>4. i \in 1..last /\ i \in Ids /\ dlq \in [Ids -> Nat] /\ 1..last \subseteq Ids
  BY LiveKnown, Parts
<1> SUFFICES ASSUME NEW r \in Sent
             PROVE  One(LiveOf(r)', DelayedOf(r)', DeadOf(r)', EndOf(r)')
  BY <1>3 DEF Placed
<1>5. LiveOf(r)' = LiveOf(r) \ {i}
  BY <1>1, <1>2 DEF LiveOf, Root
<1>6. DelayedOf(r)' = DelayedOf(r) /\ EndOf(r)' = EndOf(r)
  BY <1>2 DEF DelayedOf, EndOf, Root
<1>7. CASE r = Root(i)
  <2>1. LiveOf(r) = {i} /\ DelayedOf(r) = {} /\ DeadOf(r) = {} /\ EndOf(r) = {}
    BY <1>7, LiveOnly
  <2>2. ASSUME NEW j \in 1..last, Root(j) = r
        PROVE  dlq[j] = 0
    <3>1. 1 \in 1..MaxIds
      BY <1>4, StreamSizes DEF Ids
    <3>2. PICK x \in (1..last) \X (1..MaxIds) : x[1] = j /\ x[2] = 1
      <4>1. <<j, 1>> \in (1..last) \X (1..MaxIds) /\ <<j, 1>>[1] = j /\ <<j, 1>>[2] = 1
        BY <3>1
      <4> QED BY <4>1, Zenon
    <3>3. ~(1 <= dlq[j])
      BY <2>1, <2>2, <3>2 DEF DeadOf
    <3> QED BY <1>4, <3>3
  <2>3. DeadOf(r)' = {<<i, 1>>}
    <3>1. dlq'[i] = 1 /\ \A j \in 1..last : Root(j) = r /\ j # i => dlq'[j] = 0
      BY <1>1, <1>4, <1>7, <2>2
    <3>2. <<i, 1>> \in DeadOf(r)'
      <4>1. 1 \in 1..MaxIds
        BY <1>4, StreamSizes DEF Ids
      <4>2. PICK x \in (1..last) \X (1..MaxIds) : x = <<i, 1>> /\ x[1] = i /\ x[2] = 1
        <5>1. <<i, 1>> \in (1..last) \X (1..MaxIds) /\ <<i, 1>>[1] = i /\ <<i, 1>>[2] = 1
          BY <1>4, <4>1
        <5> QED BY <5>1, Zenon
      <4>3. x \in DeadOf(r)'
        BY <1>2, <1>7, <3>1, <4>2 DEF DeadOf, Root
      <4> QED BY <4>2, <4>3
    <3>3. ASSUME NEW x \in DeadOf(r)'
          PROVE  x = <<i, 1>>
      <4>1. x \in (1..last) \X (1..MaxIds) /\ Root(x[1]) = r /\ x[2] <= dlq'[x[1]]
        BY <1>2 DEF DeadOf, Root
      <4>2. x[1] = i
        BY <3>1, <4>1
      <4>3. x[2] = 1
        BY <3>1, <4>1, <4>2
      <4> QED BY <4>1, <4>2, <4>3
    <3> QED BY <3>2, <3>3
  <2> QED BY <1>5, <1>6, <2>1, <2>3 DEF One, Single
<1>8. CASE r # Root(i)
  <2>1. LiveOf(r)' = LiveOf(r)
    BY <1>5, <1>8 DEF LiveOf
  <2>2. DeadOf(r)' = DeadOf(r)
    <3>1. \A j \in 1..last : Root(j) = r => dlq'[j] = dlq[j]
      BY <1>1, <1>4, <1>8
    <3>2. \A x \in (1..last) \X (1..MaxIds) : Root(x[1]) = r => dlq'[x[1]] = dlq[x[1]]
      BY <3>1
    <3> QED BY <1>2, <3>2 DEF DeadOf, Root
  <2> QED BY <1>6, <2>1, <2>2 DEF Placed
<1> QED BY <1>7, <1>8

LEMMA DefersKeeps ==
  ASSUME IInv, Placed, Defers
  PROVE  Placed'
<1>1. PICK i \in Live, n \in 0..MaxRetries : Live' = Live \ {i} /\ delayed' = delayed \cup {<<i, n>>}
  BY DEF Defers
<1>2. UNCHANGED <<entry, last, dlq, done, discarded, released>>
  BY DEF Defers, history
<1>3. Sent' = Sent
  BY <1>2 DEF Sent, Root
<1> SUFFICES ASSUME NEW r \in Sent
             PROVE  One(LiveOf(r)', DelayedOf(r)', DeadOf(r)', EndOf(r)')
  BY <1>3 DEF Placed
<1>4. LiveOf(r)' = LiveOf(r) \ {i}
  BY <1>1, <1>2 DEF LiveOf, Root
<1>5. DeadOf(r)' = DeadOf(r) /\ EndOf(r)' = EndOf(r)
  BY <1>2 DEF DeadOf, EndOf, Root
<1>6. PICK x \in Live \X (0..MaxRetries) : x = <<i, n>> /\ x[1] = i
  <2>1. <<i, n>> \in Live \X (0..MaxRetries) /\ <<i, n>>[1] = i
    OBVIOUS
  <2> QED BY <2>1, Zenon
<1>7. DelayedOf(r)' = DelayedOf(r) \cup (IF Root(i) = r THEN {x} ELSE {})
  BY <1>1, <1>2, <1>6 DEF DelayedOf, Root
<1>8. CASE r = Root(i)
  <2>1. LiveOf(r) = {i} /\ DelayedOf(r) = {} /\ DeadOf(r) = {} /\ EndOf(r) = {}
    BY <1>8, LiveOnly
  <2>2. LiveOf(r)' = {} /\ DelayedOf(r)' = {x}
    BY <1>4, <1>7, <1>8, <2>1
  <2> QED BY <1>5, <2>1, <2>2 DEF One, Single
<1>9. CASE r # Root(i)
  <2>1. LiveOf(r)' = LiveOf(r) /\ DelayedOf(r)' = DelayedOf(r)
    BY <1>4, <1>7, <1>9 DEF LiveOf
  <2> QED BY <1>5, <2>1 DEF Placed
<1> QED BY <1>8, <1>9

LEMMA AddsKeeps ==
  ASSUME IInv, PInv, Adds
  PROVE  Placed'
<1>1. PICK r \in 1..(last + 1), n \in 0..MaxRetries, src \in SUBSET Live, K \in SUBSET (1..(last + 1)) :
        AddsAs(r, n, src, K)
  BY DEF Adds
<1>2. PICK m \in Ids : m = last + 1 /\ last' = m /\ m \notin 1..last /\ 1..m = (1..last) \cup {m}
  BY Parts DEF Adds
<1>3. UNCHANGED <<dlq, done, released>>
  BY DEF Adds
<1>4. entry'[m].root = r /\ \A j \in 1..last : entry'[j] = entry[j]
  <2>1. entry' = [entry EXCEPT ![m] = [root |-> r, prior |-> n]]
    BY <1>1, <1>2 DEF AddsAs
  <2>2. entry \in [Ids -> [root : Ids, prior : 0..MaxRetries]] /\ 1..last \subseteq Ids
    BY Parts DEF IInv, TypeOK
  <2> QED BY <1>2, <2>1, <2>2
<1>5. Root(m)' = r /\ \A j \in 1..last : Root(j)' = Root(j)
  BY <1>4 DEF Root
<1>6. /\ Live' = ((Live \ src) \cup {m}) \ K
      /\ K \subseteq (Live \ src) \cup {m}
      /\ discarded' = discarded \cup {entry'[i].root : i \in K}
      /\ Copies(r, src)
  BY <1>1, <1>2 DEF AddsAs
<1>7. Live \subseteq 1..last /\ Sent \subseteq 1..last /\ \A d \in delayed : d[1] \in 1..last
  BY LiveKnown DEF IInv, EntriesKnown
<1>8. Sent' \subseteq Sent \cup {r}
  <2>1. Sent' = {Root(j)' : j \in (1..last) \cup {m}}
    BY <1>2 DEF Sent
  <2> QED BY <1>5, <2>1 DEF Sent
<1>9. delayed' \subseteq delayed
  BY <1>6 DEF Copies
<1> SUFFICES ASSUME NEW q \in Sent'
             PROVE  One(LiveOf(q)', DelayedOf(q)', DeadOf(q)', EndOf(q)')
  BY DEF Placed
<1> DEFINE L == {i \in (Live \ src) \cup {m} : Root(i)' = q}
<1>10. LiveOf(q)' = L \ K
  BY <1>6 DEF LiveOf
<1>11. EndOf(q)' = IF L \cap K = {} THEN EndOf(q) ELSE EndOf(q) \cup {"discarded"}
  <2>1. q \in {entry'[i].root : i \in K} <=> L \cap K # {}
    BY <1>6 DEF Root
  <2> QED BY <1>3, <1>6, <2>1 DEF EndOf
<1>12. DelayedOf(q)' = {d \in delayed' : Root(d[1]) = q}
  BY <1>5, <1>7, <1>9 DEF DelayedOf
<1>13. DeadOf(q)' = DeadOf(q)
  <2>1. dlq'[m] = 0
    BY <1>2, <1>3, Parts DEF PInv, Reached, Ids
  <2>2. ASSUME NEW x \in DeadOf(q)'
        PROVE  x \in DeadOf(q)
    <3>1. x \in ((1..last) \cup {m}) \X (1..MaxIds) /\ Root(x[1])' = q /\ x[2] <= dlq[x[1]]
      BY <1>2, <1>3 DEF DeadOf
    <3>2. x[1] # m
      BY <1>3, <2>1, <3>1
    <3> QED BY <1>5, <3>1, <3>2 DEF DeadOf
  <2>3. ASSUME NEW x \in DeadOf(q)
        PROVE  x \in DeadOf(q)'
    <3>1. x \in (1..last) \X (1..MaxIds) /\ Root(x[1]) = q /\ x[2] <= dlq[x[1]]
      BY DEF DeadOf
    <3>2. x \in (1..last') \X (1..MaxIds)
      BY <1>2, <3>1
    <3> QED BY <1>3, <1>5, <3>1, <3>2 DEF DeadOf
  <2> QED BY <2>2, <2>3
<1>14. One(L, DelayedOf(q)', DeadOf(q), EndOf(q))
  <2>1. CASE q = r
    <3>1. CASE src = {} /\ r = m /\ delayed' = delayed
      <4>1. LiveOf(r) = {} /\ DelayedOf(r) = {}
        BY <1>2, <1>7, <3>1 DEF LiveOf, DelayedOf, IInv, EntriesKnown
      <4>2. DeadOf(r) = {}
        <5>1. ASSUME NEW x \in DeadOf(r) PROVE FALSE
          <6>1. x[1] \in 1..last /\ Root(x[1]) = m
            BY <3>1 DEF DeadOf
          <6> QED BY <1>2, <6>1 DEF IInv, EntriesKnown
        <5> QED BY <5>1
      <4>3. EndOf(r) = {}
        BY <1>2, <3>1 DEF EndOf, IInv, EntriesKnown
      <4>4. L = {m}
        BY <1>2, <1>5, <1>7, <2>1, <3>1, <4>1 DEF LiveOf
      <4>5. DelayedOf(q)' = {}
        BY <1>12, <2>1, <3>1, <4>1 DEF DelayedOf
      <4> QED BY <2>1, <4>2, <4>3, <4>4, <4>5 DEF One, Single
    <3>2. ASSUME src = {}, NEW x \in delayed, r = Root(x[1]), delayed' = delayed \ {x}
          PROVE  One(L, DelayedOf(q)', DeadOf(q), EndOf(q))
      <4>1. LiveOf(r) = {} /\ DelayedOf(r) = {x} /\ DeadOf(r) = {} /\ EndOf(r) = {}
        BY <3>2, DelayedOnly DEF PInv
      <4>2. L = {m}
        BY <1>2, <1>5, <1>7, <2>1, <3>2, <4>1 DEF LiveOf
      <4>3. DelayedOf(q)' = {}
        BY <1>12, <2>1, <3>2, <4>1 DEF DelayedOf
      <4> QED BY <2>1, <4>1, <4>2, <4>3 DEF One, Single
    <3>3. ASSUME delayed' = delayed, NEW i \in Live, src = {i}, r = Root(i)
          PROVE  One(L, DelayedOf(q)', DeadOf(q), EndOf(q))
      <4>1. LiveOf(r) = {i} /\ DelayedOf(r) = {} /\ DeadOf(r) = {} /\ EndOf(r) = {}
        BY <3>3, LiveOnly DEF PInv
      <4>2. L = {m}
        BY <1>2, <1>5, <1>7, <2>1, <3>3, <4>1 DEF LiveOf
      <4>3. DelayedOf(q)' = {}
        BY <1>12, <2>1, <3>3, <4>1 DEF DelayedOf
      <4> QED BY <2>1, <4>1, <4>2, <4>3 DEF One, Single
    <3> QED BY <1>2, <1>6, <3>1, <3>2, <3>3 DEF Copies
  <2>2. CASE q # r
    <3>1. q \in Sent
      BY <1>8, <2>2
    <3>2. L = LiveOf(q)
      <4>1. \A i \in src : Root(i) = r
        BY <1>6 DEF Copies
      <4> QED BY <1>5, <1>7, <2>2, <4>1 DEF LiveOf
    <3>3. DelayedOf(q)' = DelayedOf(q)
      BY <1>6, <1>12, <2>2 DEF Copies, DelayedOf
    <3> QED BY <3>1, <3>2, <3>3 DEF PInv, Placed
  <2> QED BY <2>1, <2>2
<1> HIDE DEF L
<1>15. One(L \ K, DelayedOf(q)', DeadOf(q), EndOf(q)')
  BY <1>11, <1>14, MoveOut
<1> QED BY <1>10, <1>13, <1>15

---------------------------------------------------------------------------
(* Which of them each action is.                                           *)

\* What is pending has been delivered and waits no longer.
LEMMA PendingNotWaiting ==
  ASSUME IInv, DeliveredBehind
  PROVE  PendingIds \cap Waiting = {}
<1>1. cursor \in Nat /\ PendingIds \subseteq Nat
  BY Parts DEF GroupOK, PendingIds, Ids
<1>2. ASSUME NEW i \in PendingIds, i \in Waiting PROVE FALSE
  <2>1. i <= cursor /\ i > cursor /\ i \in Nat
    BY <1>1, <1>2 DEF DeliveredBehind, Waiting
  <2> QED BY <1>1, <2>1
<1> QED BY <1>2

\* A step of the stream that moves nothing.
LEMMA QuietSettles ==
  ASSUME UNCHANGED <<entry, last, delayed, dlq, present, cursor, done, discarded, released>>,
         PendingIds' = PendingIds
  PROVE  Settles
<1>1. Live' = Live \ {} /\ discarded' = discarded \cup {Root(i) : i \in {}}
  BY DEF Live, Waiting
<1> QED BY <1>1 DEF Settles

\* Pending entries D end as done, discarded or released.
LEMMA PendingSettles ==
  ASSUME IInv, DeliveredBehind, NEW D \in SUBSET PendingIds, PendingIds' = PendingIds \ D,
         UNCHANGED <<entry, last, delayed, dlq, present, cursor>>,
         \/ done' = done \cup {Root(i) : i \in D} /\ UNCHANGED <<discarded, released>>
         \/ discarded' = discarded \cup {Root(i) : i \in D} /\ UNCHANGED <<done, released>>
         \/ released' = released \cup {Root(i) : i \in D} /\ UNCHANGED <<done, discarded>>
  PROVE  Settles
<1>1. Waiting' = Waiting
  BY DEF Waiting
<1>2. Live' = Live \ D /\ D \in SUBSET Live
  BY <1>1, PendingNotWaiting DEF Live
<1> QED BY <1>2 DEF Settles

\* Waiting entries D are discarded.
LEMMA WaitingSettles ==
  ASSUME IInv, DeliveredBehind, NEW D \in SUBSET Waiting, Waiting' = Waiting \ D,
         PendingIds' = PendingIds, UNCHANGED <<entry, last, delayed, dlq, done, released>>,
         discarded' = discarded \cup {Root(i) : i \in D}
  PROVE  Settles
<1>1. Live' = Live \ D /\ D \in SUBSET Live
  BY PendingNotWaiting DEF Live
<1> QED BY <1>1 DEF Settles

\* A trim or a purge of the stream down to s.
LEMMA SkipSettles ==
  ASSUME IInv, DeliveredBehind, NEW s \in SUBSET present, present' = s,
         UNCHANGED <<pel, cursor, entry, last, delayed, dlq, done, released>>,
         discarded' = discarded \cup Skipped(s)
  PROVE  Settles
<1> DEFINE D == {j \in present : j > cursor /\ j \notin s}
<1>1. D \in SUBSET Waiting /\ Waiting' = Waiting \ D /\ discarded' = discarded \cup {Root(i) : i \in D}
  BY DEF Waiting, Skipped
<1> HIDE DEF D
<1> QED BY <1>1, SamePending, WaitingSettles

LEMMA XClaimSettles ==
  ASSUME IInv, DeliveredBehind, NEW S \in SUBSET PendingIds, NEW p \in Procs, XClaim(S, p),
         UNCHANGED <<entry, last, delayed, dlq, present, cursor, done, released>>
  PROVE  Settles
<1>1. PICK D \in SUBSET PendingIds : D = S \ present
  OBVIOUS
<1>2. PendingIds' = PendingIds \ D /\ discarded' = discarded \cup {Root(i) : i \in D}
  BY <1>1, XClaimPending DEF XClaim
<1> QED BY <1>1, <1>2, PendingSettles

\* The ids up to an element of First(S, k) that are in S are all in it.
LEMMA FirstPrefix ==
  ASSUME NEW b \in Nat, NEW S \in SUBSET (0..b), NEW k \in Nat,
         NEW m \in First(S, k), NEW i \in S, i <= m
  PROVE  i \in First(S, k)
<1> DEFINE A == {j \in S : j < i}
           B == {j \in S : j < m}
<1>1. m \in S /\ Cardinality(B) < k
  BY DEF First
<1>2. A \subseteq B
  <2>1. ASSUME NEW j \in S, j < i PROVE j < m
    <3>1. i \in Nat /\ j \in Nat /\ m \in Nat
      BY <1>1
    <3> QED BY <2>1, <3>1
  <2> QED BY <2>1
<1>3. IsFiniteSet(B) /\ Cardinality(B) \in Nat
  BY BoundedFinite
<1>4. Cardinality(A) <= Cardinality(B) /\ Cardinality(A) \in Nat
  BY <1>2, <1>3, FS_Subset, FS_CardinalityType
<1>5. Cardinality(A) < k
  BY <1>1, <1>3, <1>4
<1> QED BY <1>5 DEF First

\* A read makes the first waiting entries pending.
LEMMA ReadSettles ==
  ASSUME IInv, DeliveredBehind, NEW p \in Procs, read_fresh(p), UNCHANGED <<done, released>>
  PROVE  Settles
<1>1. PICK fresh \in SUBSET present :
        /\ fresh = First(Waiting, Batch) /\ fresh # {}
        /\ pel' = [i \in Ids |-> IF i \in fresh THEN p ELSE pel[i]]
        /\ cursor' = Max(fresh)
        /\ UNCHANGED <<entry, last, present, delayed, dlq, discarded>>
  BY DEF read_fresh, First, Waiting
<1>2. MaxIds \in Nat /\ Batch \in Nat /\ Waiting \in SUBSET (0..MaxIds) /\ fresh \in SUBSET (0..MaxIds)
      /\ cursor \in Nat /\ fresh \subseteq Ids /\ fresh \subseteq Waiting
  BY <1>1, Parts, StreamSizes DEF Waiting, Ids, GroupOK, First
<1>3. cursor' \in fresh /\ \A i \in fresh : i <= cursor'
  BY <1>1, <1>2, MaxChosen
<1>4. ASSUME NEW i \in Waiting, i <= cursor'
      PROVE  i \in fresh
  BY <1>1, <1>2, <1>3, <1>4, FirstPrefix
<1>5. Waiting' = Waiting \ fresh
  <2>1. Waiting' = {i \in present : i > cursor'}
    BY <1>1 DEF Waiting
  <2>2. \A i \in present : i > cursor' <=> i \in Waiting /\ i \notin fresh
    <3> SUFFICES ASSUME NEW i \in present PROVE i > cursor' <=> i \in Waiting /\ i \notin fresh
      OBVIOUS
    <3>1. i \in Nat /\ cursor' \in Nat /\ cursor' > cursor
      BY <1>2, <1>3, Parts DEF Ids, Waiting
    <3>2. ASSUME i > cursor' PROVE i \in Waiting /\ i \notin fresh
      BY <1>2, <1>3, <3>1, <3>2 DEF Waiting
    <3>3. ASSUME i \in Waiting, i \notin fresh PROVE i > cursor'
      BY <1>4, <3>1, <3>3
    <3> QED BY <3>2, <3>3
  <2> QED BY <2>1, <2>2 DEF Waiting
<1>6. PendingIds' = PendingIds \cup fresh
  BY <1>1, <1>2, StreamNulls DEF PendingIds, Pending
<1>7. Live' = Live \ {} /\ discarded' = discarded \cup {Root(i) : i \in {}}
  BY <1>1, <1>2, <1>5, <1>6 DEF Live
<1> QED BY <1>1, <1>7 DEF Settles

LEMMA XAddAdds ==
  ASSUME IInv, DeliveredBehind, Reached, last + 1 \in Ids,
         NEW r \in 1..(last + 1), NEW n \in 0..MaxRetries, NEW P, XAdd(r, n, P),
         NEW src \in SUBSET PendingIds, PendingIds' = PendingIds \ src, Copies(r, src),
         UNCHANGED <<cursor, dlq, done, released>>
  PROVE  Adds
<1>1. PICK m \in Ids : m = last + 1
  OBVIOUS
<1>2. PICK s \in trim_stream_lua(present \cup {m}, P) :
        /\ present' = s
        /\ discarded' = discarded \cup Skipped(s) \cup (IF m \in s THEN {} ELSE {r})
  BY <1>1 DEF XAdd
<1>3. last' = m /\ entry' = [entry EXCEPT ![m] = [root |-> r, prior |-> n]]
  BY <1>1 DEF XAdd
<1>4. s \subseteq present \cup {m}
  BY TrimLeaves
<1>5. last \in Nat /\ cursor \in Nat /\ present \subseteq 1..last /\ PendingIds \subseteq 1..last
  BY Parts DEF GroupOK, PendingIds, Ids
<1>6. m > cursor /\ m \notin present /\ m \notin PendingIds /\ m \notin Waiting
  BY <1>1, <1>5 DEF Reached, Waiting
<1>7. PICK K : K = (Waiting \cup {m}) \ s
  OBVIOUS
<1>8. Waiting' = (Waiting \cup {m}) \ K
  BY <1>2, <1>4, <1>6, <1>7 DEF Waiting
<1>9. Live' = ((Live \ src) \cup {m}) \ K
  BY <1>6, <1>7, <1>8, PendingNotWaiting DEF Live
<1>10. K \subseteq (Live \ src) \cup {m} /\ src \in SUBSET Live
  BY <1>7, PendingNotWaiting DEF Live
<1>11. K \in SUBSET (1..(last + 1))
  <2>1. 1..last \subseteq 1..(last + 1) /\ m \in 1..(last + 1)
    BY <1>1, <1>5
  <2>2. Waiting \subseteq 1..last
    BY <1>5 DEF Waiting
  <2> QED BY <1>7, <2>1, <2>2
<1>12. discarded' = discarded \cup {entry'[i].root : i \in K}
  <2>1. entry \in [Ids -> [root : Ids, prior : 0..MaxRetries]]
    BY DEF IInv, TypeOK
  <2>2. entry'[m].root = r /\ \A i \in Waiting : entry'[i] = entry[i]
    BY <1>3, <1>6, <2>1, Parts DEF Waiting
  <2>3. Skipped(s) = {entry'[i].root : i \in Waiting \ s}
    BY <2>2 DEF Skipped, Waiting, Root
  <2>4. (IF m \in s THEN {} ELSE {r}) = {entry'[i].root : i \in {m} \ s}
    BY <2>2
  <2>5. K = (Waiting \ s) \cup ({m} \ s)
    BY <1>7
  <2> QED BY <1>2, <2>3, <2>4, <2>5
<1>13. AddsAs(r, n, src, K)
  BY <1>1, <1>3, <1>9, <1>10, <1>12 DEF AddsAs
<1> QED BY <1>1, <1>3, <1>10, <1>11, <1>13 DEF Adds

\* Every step is one of the four.
Moves == Settles \/ Buries \/ Defers \/ Adds

LEMMA ProducerMoves ==
  ASSUME IInv, DeliveredBehind, Reached, enqueue \/ \E p \in Procs : promote_due_delayed(p)
  PROVE  Adds
<1>1. IsFiniteSet(delayed) /\ Cardinality(delayed) \in Nat /\ last \in Nat /\ MaxIds \in Nat
  BY FS_CardinalityType, Parts DEF IInv, IdsReserved
<1>2. 0 \in 0..MaxRetries /\ {} \in SUBSET PendingIds
  BY StreamSizes
<1>3. PendingIds' = PendingIds \ {}
  BY SamePending DEF enqueue, promote_due_delayed
<1>4. CASE enqueue
  <2>1. last + 1 \in Ids
    BY <1>1, <1>4 DEF enqueue, IdLeft, Ids
  <2>2. PICK r \in 1..(last + 1) : r = last + 1
    BY <1>1
  <2>3. XAdd(r, 0, PendingIds) /\ Copies(r, {}) /\ UNCHANGED <<cursor, dlq, done, released>>
    BY <1>4, <2>2 DEF enqueue, Copies
  <2> QED BY <1>2, <1>3, <2>1, <2>3, XAddAdds
<1>5. ASSUME NEW p \in Procs, promote_due_delayed(p)
      PROVE  Adds
  <2>1. PICK d \in delayed : delayed' = delayed \ {d} /\ XAdd(Root(d[1]), d[2], PendingIds)
    BY <1>5 DEF promote_due_delayed
  <2>2. Cardinality(delayed) # 0
    BY <1>1, FS_EmptySet
  <2>3. last + 1 \in Ids
    BY <1>1, <2>2 DEF IInv, IdsReserved, Ids
  <2>4. PICK r \in 1..(last + 1), n \in 0..MaxRetries : r = Root(d[1]) /\ n = d[2]
    <3>1. d \in Ids \X (0..MaxRetries) /\ d[1] \in 1..last
      BY DEF IInv, TypeOK, EntriesKnown
    <3>2. Root(d[1]) \in 1..last
      BY <3>1 DEF IInv, EntriesKnown
    <3> QED BY <3>1, <3>2, Parts
  <2>5. XAdd(r, n, PendingIds) /\ Copies(r, {}) /\ UNCHANGED <<cursor, dlq, done, released>>
    BY <1>5, <2>1, <2>4 DEF promote_due_delayed, Copies
  <2> QED BY <1>2, <1>3, <2>3, <2>5, XAddAdds
<1> QED BY <1>4, <1>5

LEMMA SettlementMoves ==
  ASSUME IInv, DeliveredBehind, Reached, NEW d \in deliv, Deliver(d)
  PROVE  Moves
<1>1. PICK i \in Ids : i = d.id
  BY Parts
<1>2. i \in 1..last /\ Root(i) \in 1..last
  BY <1>1, Parts DEF IInv, EntriesKnown
<1>3. CASE record_attempt(d) \/ DeliveryFails(d) \/ touch_pending_entry(d)
  <2>1. UNCHANGED <<entry, last, delayed, dlq, present, cursor, done, discarded, released>> /\ UNCHANGED pel
    BY <1>3 DEF record_attempt, DeliveryFails, touch_pending_entry, redis, history
  <2> QED BY <2>1, SamePending, QuietSettles DEF Moves
<1>4. CASE move_msg_to_dlq(d) /\ Pending(i)
  <2>1. /\ UNCHANGED <<entry, last, delayed, history, present, cursor>>
        /\ XAck(i) /\ dlq' = [dlq EXCEPT ![i] = @ + 1]
    BY <1>1, <1>4 DEF move_msg_to_dlq
  <2>2. PendingIds' = PendingIds \ {i} /\ i \in PendingIds
    BY <1>4, <2>1, XAckPending DEF PendingIds
  <2>3. Live' = Live \ {i} /\ i \in Live
    BY <2>1, <2>2, PendingNotWaiting DEF Live, Waiting
  <2> QED BY <2>1, <2>3 DEF Buries, Moves
<1>5. CASE ack_processed(d) /\ Pending(i)
  <2>1. /\ UNCHANGED <<entry, last, delayed, dlq, present, cursor, discarded, released>>
        /\ XAck(i) /\ done' = done \cup {Root(i)}
    BY <1>1, <1>5 DEF ack_processed
  <2>2. PendingIds' = PendingIds \ {i} /\ {i} \in SUBSET PendingIds
    BY <1>5, <2>1, XAckPending DEF PendingIds
  <2>3. done' = done \cup {Root(j) : j \in {i}}
    BY <2>1
  <2> QED BY <2>1, <2>2, <2>3, PendingSettles DEF Moves
<1>6. CASE (move_msg_to_dlq(d) \/ ack_processed(d) \/ requeue_msg_for_infrastructure_retry(d)) /\ ~Pending(i)
  <2>1. /\ UNCHANGED <<entry, last, delayed, dlq, present, cursor, done, discarded, released>>
        /\ XAck(i) \/ UNCHANGED pel
    BY <1>1, <1>6 DEF move_msg_to_dlq, ack_processed, requeue_msg_for_infrastructure_retry, history
  <2>2. PendingIds' = PendingIds
    BY <1>6, <2>1, XAckPending, SamePending DEF PendingIds
  <2> QED BY <2>1, <2>2, QuietSettles DEF Moves
<1>7. CASE requeue_msg_for_infrastructure_retry(d) /\ Pending(i)
  <2>1. PICK c \in BOOLEAN :
          \/ /\ delayed' = delayed \cup {<<i, Carried(d, c)>>}
             /\ UNCHANGED <<entry, last, present, discarded>>
          \/ /\ XAdd(Root(i), Carried(d, c), PendingIds \ {i})
             /\ UNCHANGED delayed
    BY <1>1, <1>7 DEF requeue_msg_for_infrastructure_retry
  <2>2. XAck(i) /\ UNCHANGED <<cursor, dlq, done, released>> /\ d.phase = "running" /\ IdLeft
    BY <1>1, <1>7 DEF requeue_msg_for_infrastructure_retry
  <2>3. PICK r \in 1..(last + 1), n \in 0..MaxRetries : r = Root(i) /\ n = Carried(d, c)
    <3>1. Carried(d, c) \in 0..MaxRetries
      BY <2>2, CarriedTyped
    <3> QED BY <1>2, <3>1, Parts
  <2>4. PendingIds' = PendingIds \ {i} /\ {i} \in SUBSET PendingIds /\ i \in Live
    BY <1>7, <2>2, XAckPending DEF PendingIds, Live
  <2>5. CASE delayed' = delayed \cup {<<i, n>>} /\ UNCHANGED <<entry, last, present, discarded>>
    <3>1. Live' = Live \ {i}
      BY <2>2, <2>4, <2>5, PendingNotWaiting DEF Live, Waiting
    <3> QED BY <2>2, <2>4, <2>5, <3>1 DEF Defers, Moves, history
  <2>6. CASE XAdd(r, n, PendingIds \ {i}) /\ UNCHANGED delayed
    <3>1. last + 1 \in Ids
      <4>1. IsFiniteSet(delayed) /\ Cardinality(delayed) \in Nat /\ last \in Nat /\ MaxIds \in Nat
        BY FS_CardinalityType, Parts DEF IInv, IdsReserved
      <4> QED BY <2>2, <4>1 DEF IdLeft, Ids
    <3>2. Copies(r, {i})
      BY <2>3, <2>4, <2>6 DEF Copies
    <3> QED BY <2>2, <2>4, <2>6, <3>1, <3>2, XAddAdds DEF Moves
  <2> QED BY <2>1, <2>3, <2>5, <2>6
<1> QED BY <1>3, <1>4, <1>5, <1>6, <1>7 DEF Deliver, HandlerEnds

LEMMA ProcessMoves ==
  ASSUME IInv, DeliveredBehind, Reached, cursor <= cursor', cursor' \in Nat, NEW p \in Procs,
         refill_prefetch(p) \/ (\E i \in Ids : pop_prefetched(p, i)) \/ Janitor(p) \/ StartStep(p) \/ Leave(p)
  PROVE  Settles
<1>1. ASSUME UNCHANGED <<entry, last, delayed, dlq, present, cursor, done, discarded, released, pel>>
      PROVE  Settles
  BY <1>1, SamePending, QuietSettles
<1>2. CASE refill_prefetch(p) /\ read_own_pending(p)
  <2> DEFINE again == First(NotInFlight(p), Batch)
             listed == First(Owned(p), Batch + Cardinality(in_flight[p])) \cap in_flight[p]
  <2>1. /\ XClaim(again \cup listed, p)
        /\ UNCHANGED <<entry, last, present, cursor, delayed, dlq, done, released>>
    BY <1>2 DEF read_own_pending, refill_prefetch
  <2>2. again \cup listed \in SUBSET PendingIds
    BY StreamNulls DEF First, NotInFlight, Owned, PendingIds, Pending
  <2> HIDE DEF again, listed
  <2> QED BY <2>1, <2>2, XClaimSettles
<1>3. CASE refill_prefetch(p) /\ read_fresh(p)
  BY <1>3, ReadSettles DEF refill_prefetch
<1>4. CASE recover_orphaned_items(p)
  <2>1. idle \in SUBSET PendingIds
    BY Parts DEF GroupOK
  <2> QED BY <1>4, <2>1, XClaimSettles DEF recover_orphaned_items
<1>5. CASE cleanup_stale_consumers(p)
  <2>1. PICK c \in Procs \cup {Former} : XClaim(Owned(c), p)
    BY <1>5 DEF cleanup_stale_consumers
  <2>2. Owned(c) \in SUBSET PendingIds
    BY StreamNulls DEF Owned, PendingIds, Pending
  <2> QED BY <1>5, <2>1, <2>2, XClaimSettles DEF cleanup_stale_consumers
<1>6. CASE trim_stream(p)
  <2>1. PICK removable : \E s \in XTrim(present, removable) :
                           present' = s /\ discarded' = discarded \cup Skipped(s)
    BY <1>6 DEF trim_stream
  <2>2. PICK s \in SUBSET present : present' = s /\ discarded' = discarded \cup Skipped(s)
    BY <2>1, XTrimRemoves
  <2> QED BY <1>6, <2>2, SkipSettles DEF trim_stream
<1>7. CASE fast_forward_if_stale(p)
  <2> DEFINE D == {j \in present : cursor < j /\ j <= target[p]}
  <2>1. /\ UNCHANGED <<entry, last, delayed, dlq, done, released, pel, present>>
        /\ cursor' = target[p] /\ discarded' = discarded \cup {Root(i) : i \in D}
    BY <1>7 DEF fast_forward_if_stale
  <2>2. cursor \in Nat /\ present \subseteq Nat
    BY Parts DEF GroupOK, Ids
  <2>3. D \in SUBSET Waiting
    BY <2>2 DEF Waiting
  <2>4. Waiting' = Waiting \ D
    <3>1. Waiting' = {i \in present : i > target[p]}
      BY <2>1 DEF Waiting
    <3>2. \A i \in present : i > target[p] <=> i > cursor /\ ~(cursor < i /\ i <= target[p])
      BY <2>1, <2>2
    <3> QED BY <3>1, <3>2 DEF Waiting
  <2> HIDE DEF D
  <2> QED BY <2>1, <2>3, <2>4, SamePending, WaitingSettles
<1>8. CASE PurgePending(p)
  <2>1. PICK purged \in SUBSET PendingIds :
          /\ pel' = [i \in Ids |-> IF i \in purged THEN NoProc ELSE pel[i]]
          /\ discarded' = discarded \cup {Root(i) : i \in purged}
    BY <1>8 DEF PurgePending
  <2>2. PendingIds' = PendingIds \ purged
    BY <2>1 DEF PendingIds, Pending
  <2> QED BY <1>8, <2>1, <2>2, PendingSettles DEF PurgePending
<1>9. CASE purge_old_pending(p)
  <2>1. PICK s \in SUBSET present : present' = s /\ discarded' = discarded \cup Skipped(s)
    BY <1>9 DEF purge_old_pending
  <2> QED BY <1>9, <2>1, SkipSettles DEF purge_old_pending
<1>10. CASE unregister_consumer(p)
  <2>1. PICK D \in SUBSET PendingIds : D = Owned(p)
    BY StreamNulls DEF Owned, PendingIds, Pending
  <2>2. PendingIds' = PendingIds \ D
    BY <1>10, <2>1 DEF unregister_consumer, PendingIds, Pending, Owned
  <2> QED BY <1>10, <2>1, <2>2, PendingSettles DEF unregister_consumer
<1>11. CASE Start(p)
  <2>1. PendingIds' = PendingIds
    BY <1>11, StreamNulls DEF Start, PendingIds, Pending
  <2> QED BY <1>11, <2>1, QuietSettles DEF Start, history
<1>12. CASE \E i \in Ids : pop_prefetched(p, i)
  BY <1>1, <1>12 DEF pop_prefetched, redis, history
<1>13. CASE StartupStepSkipped(p) \/ FastForwardReads(p)
  BY <1>1, <1>13 DEF StartupStepSkipped, FastForwardReads, redis, history
<1>14. CASE Shutdown(p) \/ consumer_has_pending(p) \/ Crash(p) \/ Exit(p)
  BY <1>1, <1>14 DEF Shutdown, consumer_has_pending, Crash, Exit, redis, history
<1>15. refill_prefetch(p) => read_own_pending(p) \/ read_fresh(p)
  BY DEF refill_prefetch
<1> QED BY <1>2, <1>3, <1>4, <1>5, <1>6, <1>7, <1>8, <1>9, <1>10, <1>11, <1>12, <1>13, <1>14, <1>15
       DEF Janitor, StartStep, Leave

LEMMA NextMoves ==
  ASSUME IInv, DeliveredBehind, Reached, cursor <= cursor', cursor' \in Nat, [Next]_vars
  PROVE  Moves
<1>1. ASSUME EntryAges \/ UNCHANGED vars \/ \E i \in Ids : OrphanIdles(i) \/ KeepaliveMissed(i)
      PROVE  Moves
  <2>1. UNCHANGED <<entry, last, delayed, dlq, present, cursor, done, discarded, released>> /\ UNCHANGED pel
    BY <1>1 DEF EntryAges, vars, OrphanIdles, KeepaliveMissed, redis, history
  <2> QED BY <2>1, SamePending, QuietSettles DEF Moves
<1>2. ASSUME NEW p \in Procs, Claim(p) \/ Janitor(p) \/ StartStep(p) \/ Leave(p)
      PROVE  Moves
  BY <1>2, ProcessMoves, ProducerMoves DEF Claim, Moves
<1>3. CASE enqueue
  BY <1>3, ProducerMoves DEF Moves
<1>4. ASSUME NEW d \in deliv, Deliver(d)
      PROVE  Moves
  BY <1>4, SettlementMoves
<1> QED BY <1>1, <1>2, <1>3, <1>4 DEF Next

---------------------------------------------------------------------------
(* Conservation as a theorem.                                              *)

\* The positions stay within the stream.
LEMMA ReachedStep ==
  ASSUME IInv, IInv', Reached, Moves, [Next]_vars
  PROVE  Reached'
<1>1. last \in Nat /\ last' \in Nat /\ cursor \in Nat /\ old \in Nat /\ target \in [Procs -> 0..MaxIds]
  BY DEF IInv, TypeOK
<1>2. last <= last'
  BY <1>1 DEF Moves, Settles, Buries, Defers, Adds
<1>3. \A i \in Ids : i > last' => dlq'[i] = 0
  <2> SUFFICES ASSUME NEW i \in Ids, i > last'
               PROVE  dlq'[i] = 0
    OBVIOUS
  <2>1. i > last /\ dlq[i] = 0
    BY <1>1, <1>2 DEF Reached, Ids
  <2>2. CASE Buries
    <3>1. PICK j \in Live : dlq' = [dlq EXCEPT ![j] = @ + 1]
      BY <2>2 DEF Buries
    <3>2. i # j
      BY <1>1, <2>1, LiveKnown
    <3> QED BY <2>1, <3>1, <3>2, Parts
  <2>3. CASE Settles \/ Defers \/ Adds
    BY <2>1, <2>3 DEF Settles, Defers, Adds
  <2> QED BY <2>2, <2>3 DEF Moves
<1>4. ASSUME cursor' = cursor \/ cursor' \in present \/ (\E p \in Procs : cursor' = target[p]),
             old' = old \/ (old < last /\ old' = old + 1),
             \A q \in Procs : target'[q] \in {target[q], old, 0}
      PROVE  Reached'
  <2>1. cursor' <= last
    BY <1>1, <1>4, Parts DEF Reached
  <2>2. cursor' \in Nat /\ old' \in Nat /\ old' <= last
    BY <1>1, <1>4 DEF Reached, IInv, TypeOK
  <2>3. \A q \in Procs : target'[q] <= last /\ target'[q] \in Nat
    BY <1>1, <1>4 DEF Reached
  <2> QED BY <1>1, <1>2, <1>3, <2>1, <2>2, <2>3 DEF Reached
<1>5. ASSUME UNCHANGED <<cursor, old, target>>
      PROVE  Reached'
  BY <1>4, <1>5
<1>6. ASSUME NEW p \in Procs, Claim(p) \/ Janitor(p)
      PROVE  Reached'
  <2>1. CASE refill_prefetch(p) /\ read_fresh(p)
    <3>1. PICK fresh \in SUBSET present : fresh # {} /\ cursor' = Max(fresh)
      BY <2>1 DEF read_fresh, First
    <3>2. fresh \subseteq 0..MaxIds /\ MaxIds \in Nat
      BY Parts DEF Ids
    <3>3. cursor' \in present
      BY <3>1, <3>2, MaxChosen
    <3> QED BY <1>4, <2>1, <3>3 DEF refill_prefetch
  <2>2. CASE ~(refill_prefetch(p) /\ read_fresh(p))
    BY <1>5, <1>6, <2>2 DEF Claim, Janitor, refill_prefetch, read_own_pending, pop_prefetched,
         promote_due_delayed, recover_orphaned_items, cleanup_stale_consumers, trim_stream, redis
  <2> QED BY <2>1, <2>2
<1>7. ASSUME NEW p \in Procs, StartStep(p)
      PROVE  Reached'
  <2>1. CASE StartupStepSkipped(p)
    BY <1>5, <2>1 DEF StartupStepSkipped, redis
  <2>2. CASE FastForwardReads(p)
    BY <1>1, <1>4, <2>2 DEF FastForwardReads, redis
  <2>3. CASE fast_forward_if_stale(p)
    BY <1>1, <1>4, <2>3 DEF fast_forward_if_stale
  <2>4. CASE PurgePending(p) \/ purge_old_pending(p)
    BY <1>1, <1>4, <2>4 DEF PurgePending, purge_old_pending
  <2> QED BY <1>7, <2>1, <2>2, <2>3, <2>4 DEF StartStep
<1>8. ASSUME NEW p \in Procs, Leave(p)
      PROVE  Reached'
  <2>1. CASE Shutdown(p) \/ consumer_has_pending(p) \/ Start(p)
    BY <1>5, <2>1 DEF Shutdown, consumer_has_pending, Start, redis
  <2>2. CASE unregister_consumer(p) \/ Crash(p) \/ Exit(p)
    BY <1>1, <1>4, <2>2 DEF unregister_consumer, Crash, Exit, Stop, redis
  <2> QED BY <1>8, <2>1, <2>2 DEF Leave
<1>9. ASSUME NEW d \in deliv, Deliver(d)
      PROVE  Reached'
  BY <1>5, <1>9 DEF Deliver, HandlerEnds, record_attempt, move_msg_to_dlq, ack_processed,
       requeue_msg_for_infrastructure_retry, DeliveryFails, touch_pending_entry, redis
<1>10. CASE EntryAges
  BY <1>4, <1>10 DEF EntryAges, redis
<1>11. ASSUME enqueue \/ UNCHANGED vars \/ \E i \in Ids : OrphanIdles(i) \/ KeepaliveMissed(i)
       PROVE  Reached'
  BY <1>5, <1>11 DEF enqueue, vars, OrphanIdles, KeepaliveMissed, redis
<1> QED BY <1>6, <1>7, <1>8, <1>9, <1>10, <1>11 DEF Next

LEMMA NextPInv ==
  ASSUME IInv, IInv', FInv, PInv, [Next]_vars, cursor <= cursor'
  PROVE  PInv'
<1>1. cursor' \in Nat
  BY DEF IInv, TypeOK
<1>2. Moves
  BY <1>1, NextMoves DEF FInv, PInv
<1>3. Placed'
  BY <1>2, SettlesKeeps, BuriesKeeps, DefersKeeps, AddsKeeps DEF Moves, PInv
<1>4. Reached'
  BY <1>2, ReachedStep DEF PInv
<1> QED BY <1>3, <1>4 DEF PInv

LEMMA InitPInv ==
  ASSUME Init
  PROVE  PInv
<1>1. MaxIds \in Nat /\ 1..0 = {}
  BY StreamSizes
<1>2. Placed
  BY <1>1 DEF Init, Placed, Sent
<1>3. Reached
  BY <1>1 DEF Init, Reached, Ids
<1> QED BY <1>2, <1>3 DEF PInv

\* Every enqueued message is in exactly one place, whatever is requeued, reclaimed,
\* settled late, trimmed or purged, as long as the group's position does not move
\* back: an acknowledged entry is then never read again.
THEOREM MessagesConserved == Spec /\ CursorForward => []Conserved
<1>1. Init => PInv
  BY InitPInv
<1>2. IInv /\ IInv' /\ FInv /\ PInv /\ [Next]_vars /\ [cursor <= cursor']_vars => PInv'
  <2> SUFFICES ASSUME IInv, IInv', FInv, PInv, [Next]_vars, [cursor <= cursor']_vars PROVE PInv'
    OBVIOUS
  <2>1. cursor <= cursor'
    <3>1. CASE UNCHANGED vars
      <4>1. cursor' = cursor /\ cursor \in Nat
        BY <3>1, Parts DEF vars, redis, GroupOK
      <4> QED BY <4>1
    <3> QED BY <3>1
  <2> QED BY <2>1, NextPInv
<1>3. Spec /\ CursorForward => []PInv
  BY <1>1, <1>2, Invariance, ForwardInvariance, PTL DEF Spec, CursorForward
<1>4. IInv /\ PInv => Conserved
  BY PlacedConserves DEF PInv
<1> QED BY <1>3, <1>4, Invariance, PTL

\* So it is in every deployment without a startup window.
COROLLARY MessagesConservedNoWindow ==
  ASSUME ~Window
  PROVE  Spec => []Conserved
BY MessagesConserved, NoWindowForward, PTL
============================================================================
