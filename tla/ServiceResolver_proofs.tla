----------------------- MODULE ServiceResolver_proofs -----------------------
(***************************************************************************)
(* Theorems about ServiceResolver, for any instances, ring, size of the    *)
(* subset and number of changes and errors: what is left to happen after   *)
(* Close, and what the connection is given.  Then theorems about the ring  *)
(* the resolver takes its subset from, SubsetRing, for any instances and   *)
(* any hash functions that tell the points of one instance apart: what     *)
(* GetN returns, that its walk ends, that the subset is stable, and that   *)
(* it is what the resolver takes.                                          *)
(***************************************************************************)
EXTENDS ServiceResolver, SubsetRing, Subsequences_proofs

\* An update after Close has found the context not cancelled at the head of the
\* loop; the next time it does not.
ClosedOK ==
    /\ closing # "no" => cancelled = TRUE
    /\ late \in {0, 1}
    /\ closing # "done" => late = 0
    /\ late = 1 => pc \in {"check", "ended"}

LEMMA InitClosed == Init => ClosedOK
  BY DEF Init, ClosedOK

\* One step per action that moves what ClosedOK speaks of.
LEMMA NextClosed == ASSUME ClosedOK, [Next]_vars PROVE ClosedOK'
  <1>1. CASE GetWatcher
    BY <1>1 DEF ClosedOK, GetWatcher
  <1>2. CASE BuildReturns
    BY <1>2 DEF ClosedOK, BuildReturns, outside
  <1>3. CASE BuildTimesOut
    BY <1>3 DEF ClosedOK, BuildTimesOut, outside
  <1>4. CASE Check
    <2>1. late = 1 => cancelled = TRUE
      BY DEF ClosedOK
    <2>2. late = 1 => pc' = "ended"
      BY <1>4, <2>1 DEF Check, Stops
    <2> QED BY <1>4, <2>2 DEF ClosedOK, Check, outside
  <1>5. CASE NextReturns
    <2>1. late = 0
      BY <1>5 DEF ClosedOK, NextReturns
    <2> QED BY <1>5, <2>1 DEF ClosedOK, NextReturns
  <1>6. CASE NextFails
    <2>1. late = 0
      BY <1>6 DEF ClosedOK, NextFails
    <2> QED BY <1>6, <2>1 DEF ClosedOK, NextFails
  <1>7. CASE NextCancelled
    BY <1>7 DEF ClosedOK, NextCancelled, outside
  <1>8. CASE Update
    <2>1. late = 0
      BY <1>8 DEF ClosedOK, Update
    <2>2. late' = (IF closing = "done" THEN 1 ELSE 0) /\ pc' = "check"
      BY <1>8, <2>1 DEF Update
    <2> QED BY <1>8, <2>2 DEF ClosedOK, Update, outside
  <1>9. CASE Wake
    <2>1. late = 0
      BY <1>9 DEF ClosedOK, Wake
    <2> QED BY <1>9, <2>1 DEF ClosedOK, Wake, outside
  <1>10. CASE Close
    BY <1>10 DEF ClosedOK, Close, outside
  <1>11. CASE StopWatcher
    BY <1>11 DEF ClosedOK, StopWatcher
  <1>12. CASE Change
    BY <1>12 DEF ClosedOK, Change
  <1>13. CASE UNCHANGED vars
    BY <1>13 DEF ClosedOK, vars, outside
  <1> QED
    BY <1>1, <1>2, <1>3, <1>4, <1>5, <1>6, <1>7, <1>8, <1>9, <1>10, <1>11, <1>12, <1>13
    DEF Next

\* After Close has returned, at most one update still reaches the connection.
THEOREM ClosedStops == Spec => []CloseStopsUpdates
  <1>1. ClosedOK => CloseStopsUpdates
    BY DEF ClosedOK, CloseStopsUpdates
  <1> QED BY InitClosed, NextClosed, <1>1, PTL DEF Spec

-----------------------------------------------------------------------------
(* From instances to addresses *)

\* No two of the instances serve at the same address, and each serves at one.
Apart(s) ==
    /\ \A j \in DOMAIN s : Endpoint[s[j]] # None
    /\ \A j, k \in DOMAIN s : Endpoint[s[j]] = Endpoint[s[k]] => j = k

LEMMA FilteredApart ==
  ASSUME NEW s \in Seq(Instances)
  PROVE  Filtered(s) \in Seq(Instances) /\ Apart(Filtered(s))
  <1> DEFINE First(k) == \A j \in DOMAIN s : Endpoint[s[j]] = Endpoint[s[k]] => k <= j
             P == {k \in DOMAIN s : Endpoint[s[k]] # None /\ First(k)}
             t == Kept(s, P)
  <1>1. Filtered(s) = t
    BY DEF Filtered
  <1>2. t \in Seq(Instances) /\ \E pos : From(pos, t, s, P, Len(s))
    <2> HIDE DEF P
    <2> QED BY KeptFrom
  <1>3. PICK pos : From(pos, t, s, P, Len(s))
    BY <1>2
  <1>4. DOMAIN t = 1..Len(t) /\ Len(t) \in Nat /\ DOMAIN s = 1..Len(s) /\ Len(s) \in Nat
    <2> HIDE DEF t
    <2> QED BY <1>2
  <1>5. \A k \in DOMAIN t : pos[k] \in P /\ pos[k] \in 1..Len(s) /\ t[k] = s[pos[k]]
    <2> HIDE DEF t, P
    <2> QED BY <1>3, <1>4 DEF From
  <1>6. \A k \in DOMAIN t : Endpoint[t[k]] # None
    <2> HIDE DEF t
    <2> QED BY <1>5
  <1>7. ASSUME NEW j \in DOMAIN t, NEW k \in DOMAIN t, Endpoint[t[j]] = Endpoint[t[k]]
        PROVE  j = k
    <2>1. First(pos[j]) /\ First(pos[k])
      <3> HIDE DEF t
      <3> QED BY <1>5
    <2>2. pos[j] <= pos[k] /\ pos[k] <= pos[j]
      <3> HIDE DEF t, P
      <3> QED BY <1>4, <1>5, <1>7, <2>1
    <2>3. pos[j] = pos[k]
      <3> HIDE DEF t, P
      <3> QED BY <1>5, <2>2
    <2>4. j < k => pos[j] < pos[k]
      <3> HIDE DEF t, P
      <3> QED BY <1>3, <1>4 DEF From
    <2>5. k < j => pos[k] < pos[j]
      <3> HIDE DEF t, P
      <3> QED BY <1>3, <1>4 DEF From
    <2> HIDE DEF t, P
    <2> QED BY <1>4, <1>5, <2>3, <2>4, <2>5
  <1> HIDE DEF t
  <1> QED BY <1>1, <1>2, <1>6, <1>7 DEF Apart

\* The instances S on the ring: each once, and no others.
LEMMA OnRingOnce ==
  ASSUME NEW S \in SUBSET Instances
  PROVE  /\ OnRing[S] \in Seq(S)
         /\ \A j, k \in DOMAIN OnRing[S] : OnRing[S][j] = OnRing[S][k] => j = k
         /\ \A m \in S : \E k \in DOMAIN OnRing[S] : OnRing[S][k] = m
  <1> DEFINE P == {k \in DOMAIN RingOrder : RingOrder[k] \in S}
             t == Kept(RingOrder, P)
  <1>1. OnRing[S] = t
    BY DEF OnRing
  <1>2. RingOrder \in Seq(Instances)
    BY SubsetAssumption
  <1>3. t \in Seq(Instances) /\ \E pos : From(pos, t, RingOrder, P, Len(RingOrder))
    <2> HIDE DEF P
    <2> QED BY <1>2, KeptFrom
  <1>4. PICK pos : From(pos, t, RingOrder, P, Len(RingOrder))
    BY <1>3
  <1>5. /\ DOMAIN t = 1..Len(t) /\ Len(t) \in Nat
        /\ DOMAIN RingOrder = 1..Len(RingOrder) /\ Len(RingOrder) \in Nat
    <2> HIDE DEF t
    <2> QED BY <1>2, <1>3
  <1>6. \A k \in DOMAIN t :
            pos[k] \in P /\ pos[k] \in 1..Len(RingOrder) /\ t[k] = RingOrder[pos[k]]
    <2> HIDE DEF t, P
    <2> QED BY <1>4, <1>5 DEF From
  <1>7. t \in Seq(S)
    <2>1. \A k \in 1..Len(t) : t[k] \in S
      <3> HIDE DEF t
      <3> QED BY <1>5, <1>6
    <2> HIDE DEF t
    <2> QED BY <1>3, <2>1, ElementOfSeq, SeqDef, LenProperties
  <1>8. ASSUME NEW j \in DOMAIN t, NEW k \in DOMAIN t, t[j] = t[k] PROVE j = k
    <2>1. pos[j] = pos[k]
      <3> HIDE DEF t, P
      <3> QED BY <1>5, <1>6, <1>8, SubsetAssumption
    <2>2. (j < k => pos[j] < pos[k]) /\ (k < j => pos[k] < pos[j])
      <3> HIDE DEF t, P
      <3> QED BY <1>4, <1>5 DEF From
    <2> HIDE DEF t, P
    <2> QED BY <1>5, <1>6, <2>1, <2>2
  <1>9. ASSUME NEW m \in S PROVE \E k \in DOMAIN t : t[k] = m
    <2>1. PICK i \in DOMAIN RingOrder : RingOrder[i] = m
      BY <1>2, SubsetAssumption DEF ToSet
    <2>2. i \in P /\ i \in 1..Len(RingOrder)
      BY <1>5, <2>1
    <2>3. PICK k \in 1..Len(t) : pos[k] = i
      <3> HIDE DEF t, P
      <3> QED BY <1>4, <2>2 DEF From
    <2>4. k \in DOMAIN t /\ t[k] = RingOrder[i]
      <3> HIDE DEF t, P
      <3> QED BY <1>5, <1>6, <2>3
    <2> QED BY <2>1, <2>4
  <1> HIDE DEF t
  <1> QED BY <1>1, <1>7, <1>8, <1>9

\* There are as many on the ring as there are different ones.
LEMMA OnRingAll ==
  ASSUME NEW s \in Seq(Instances), \A j, k \in DOMAIN s : s[j] = s[k] => j = k
  PROVE  Len(s) <= Len(OnRing[ToSet(s)])
  <1> DEFINE t == OnRing[ToSet(s)]
             place(k) == CHOOSE i \in DOMAIN t : t[i] = s[k]
             f == [k \in 1..Len(s) |-> place(k)]
  <1>1. ToSet(s) = {s[k] : k \in DOMAIN s} /\ DOMAIN s = 1..Len(s) /\ Len(s) \in Nat
    BY DEF ToSet
  <1>2. ToSet(s) \in SUBSET Instances
    BY <1>1, ElementOfSeq
  <1>3. t \in Seq(ToSet(s)) /\ \A m \in ToSet(s) : \E k \in DOMAIN t : t[k] = m
    BY <1>2, OnRingOnce
  <1> HIDE DEF t
  <1>4. DOMAIN t = 1..Len(t) /\ Len(t) \in Nat
    BY <1>3
  <1>5. \A k \in 1..Len(s) : place(k) \in 1..Len(t) /\ t[place(k)] = s[k]
    BY <1>1, <1>3, <1>4
  <1> HIDE DEF place
  <1>6. f \in [1..Len(s) -> 1..Len(t)]
    BY <1>5
  <1>7. ASSUME NEW j \in 1..Len(s), NEW k \in 1..Len(s), f[j] = f[k] PROVE j = k
    <2>1. s[j] = s[k]
      BY <1>5, <1>7
    <2> QED BY <1>1, <2>1
  <1>8. f \in Injection(1..Len(s), 1..Len(t))
    <2> HIDE DEF f
    <2> QED BY <1>6, <1>7 DEF Injection, IsInjective
  <1>9. Cardinality(1..Len(s)) <= Cardinality(1..Len(t))
    <2> HIDE DEF f
    <2> QED BY <1>1, <1>4, <1>8, FS_Interval, FS_Injection
  <1>10. Cardinality(1..Len(s)) = Len(s) /\ Cardinality(1..Len(t)) = Len(t)
    <2>1. ASSUME NEW n \in Nat PROVE Cardinality(1..n) = n
      <3>1. Cardinality(1..n) = IF 1 > n THEN 0 ELSE n - 1 + 1
        BY FS_Interval
      <3> QED BY <3>1
    <2> QED BY <1>1, <1>4, <2>1
  <1> QED BY <1>9, <1>10 DEF t

\* At most SubsetSize of them, no two at the same address.
LEMMA SubsetApart ==
  ASSUME NEW s \in Seq(Instances), Apart(s)
  PROVE  /\ Subset(s) \in Seq(Instances) /\ Apart(Subset(s))
         /\ Len(Subset(s)) <= SubsetSize
  <1>1. CASE Len(s) <= SubsetSize
    BY <1>1 DEF Subset
  <1>2. CASE ~(Len(s) <= SubsetSize)
    <2> DEFINE t == OnRing[ToSet(s)]
               u == SubSeq(t, 1, SubsetSize)
    <2>1. SubsetSize \in Nat \ {0} /\ Len(s) \in Nat /\ DOMAIN s = 1..Len(s)
      BY SubsetAssumption
    <2>2. ToSet(s) = {s[k] : k \in DOMAIN s} /\ ToSet(s) \in SUBSET Instances
      BY ElementOfSeq DEF ToSet
    <2>3. /\ t \in Seq(ToSet(s))
          /\ \A j, k \in DOMAIN t : t[j] = t[k] => j = k
      BY <2>2, OnRingOnce
    <2>4. SubsetSize <= Len(t)
      <3>1. \A j, k \in DOMAIN s : s[j] = s[k] => j = k
        BY DEF Apart
      <3>2. Len(s) <= Len(t)
        BY <3>1, OnRingAll
      <3> QED BY <1>2, <2>1, <2>3, <3>2
    <2> HIDE DEF t
    <2>5. /\ u \in Seq(ToSet(s)) /\ Len(u) = SubsetSize
          /\ \A k \in 1..SubsetSize : u[k] = t[k]
      BY <2>1, <2>3, <2>4, SubSeqProperties
    <2> HIDE DEF u
    <2>6. /\ DOMAIN u = 1..SubsetSize /\ DOMAIN t = 1..Len(t) /\ Len(t) \in Nat
          /\ \A k \in DOMAIN u : k \in DOMAIN t /\ u[k] = t[k]
      BY <2>1, <2>3, <2>4, <2>5
    <2>7. \A k \in DOMAIN u : \E i \in DOMAIN s : u[k] = s[i]
      BY <2>2, <2>5, <2>6, ElementOfSeq
    <2>8. \A k \in DOMAIN u : Endpoint[u[k]] # None
      BY <2>7 DEF Apart
    <2>9. ASSUME NEW j \in DOMAIN u, NEW k \in DOMAIN u, Endpoint[u[j]] = Endpoint[u[k]]
          PROVE  j = k
      <3>1. u[j] = u[k]
        BY <2>7, <2>9 DEF Apart
      <3> QED BY <2>3, <2>6, <3>1
    <2>10. u \in Seq(Instances)
      BY <2>2, <2>5
    <2> QED BY <1>2, <2>1, <2>5, <2>8, <2>9, <2>10 DEF Subset, Apart, t, u
  <1> QED BY <1>1, <1>2

LEMMA AddressesOfDistinct ==
  ASSUME NEW s \in Seq(Instances)
  PROVE  /\ Len(AddressesOf(s)) <= SubsetSize
         /\ \A j, k \in DOMAIN AddressesOf(s) :
                AddressesOf(s)[j] = AddressesOf(s)[k] => j = k
  <1> DEFINE chosen == Subset(Filtered(s))
             a == [k \in DOMAIN chosen |-> Endpoint[chosen[k]]]
  <1>1. chosen \in Seq(Instances) /\ Apart(chosen) /\ Len(chosen) <= SubsetSize
    BY FilteredApart, SubsetApart
  <1>2. AddressesOf(s) = a
    BY DEF AddressesOf
  <1> HIDE DEF chosen
  <1>3. DOMAIN a = DOMAIN chosen /\ DOMAIN chosen = 1..Len(chosen) /\ Len(chosen) \in Nat
    BY <1>1
  <1>4. Len(a) = Len(chosen)
    BY <1>3
  <1>5. \A j, k \in DOMAIN a : a[j] = a[k] => j = k
    BY <1>1 DEF Apart
  <1> HIDE DEF a
  <1> QED BY <1>1, <1>2, <1>4, <1>5

-----------------------------------------------------------------------------
(* What the connection is given *)

\* The registry and the goroutine that watches it hold instances.
HoldOK == registry \in Seq(Instances) /\ ins \in Seq(Instances)

GivenOK == HoldOK /\ AddressesDistinct

LEMMA InitGiven == Init => GivenOK
  <1>1. RingOrder \in Seq(Instances) /\ <<>> \in Seq(Instances)
    BY SubsetAssumption
  <1>2. Init => HoldOK
    BY <1>1 DEF Init, HoldOK
  <1>3. Init => AddressesDistinct
    BY DEF Init, AddressesDistinct
  <1> QED BY <1>2, <1>3 DEF GivenOK

\* An instance registers or is gone.
LEMMA ChangeHolds ==
  ASSUME registry \in Seq(Instances), Change
  PROVE  registry' \in Seq(Instances)
  <1>1. PICK m \in Instances :
          registry' = IF m \in ToSet(registry)
                      THEN Kept(registry, {k \in DOMAIN registry : registry[k] # m})
                      ELSE Append(registry, m)
    BY DEF Change
  <1> DEFINE rest == {k \in DOMAIN registry : registry[k] # m}
  <1> HIDE DEF rest
  <1>2. Kept(registry, rest) \in Seq(Instances)
    BY KeptFrom
  <1>3. Append(registry, m) \in Seq(Instances)
    OBVIOUS
  <1> QED BY <1>1, <1>2, <1>3 DEF rest

\* Only an update gives addresses, those of the instances Next returned.
LEMMA NextGiven == ASSUME GivenOK, [Next]_vars PROVE GivenOK'
  <1>1. CASE Update
    <2>1. addrs' = AddressesOf(ins) /\ UNCHANGED <<registry, ins>>
      BY <1>1 DEF Update, outside
    <2>2. ins \in Seq(Instances)
      BY DEF GivenOK, HoldOK
    <2> QED BY <2>1, <2>2, AddressesOfDistinct DEF GivenOK, HoldOK, AddressesDistinct
  <1>2. CASE NextReturns
    BY <1>2 DEF NextReturns, GivenOK, HoldOK, AddressesDistinct
  <1>3. CASE Change
    <2>1. registry' \in Seq(Instances)
      BY <1>3, ChangeHolds DEF GivenOK, HoldOK
    <2>2. UNCHANGED <<ins, addrs>>
      BY <1>3 DEF Change
    <2> QED BY <2>1, <2>2 DEF GivenOK, HoldOK, AddressesDistinct
  <1>4. ASSUME ~Update, ~NextReturns, ~Change
        PROVE  UNCHANGED <<registry, ins, addrs>>
    BY <1>4 DEF Next, vars, outside, GetWatcher, BuildReturns, BuildTimesOut, Check, NextFails,
                NextCancelled, Wake, Close, StopWatcher
  <1> QED
    BY <1>1, <1>2, <1>3, <1>4 DEF GivenOK, HoldOK, AddressesDistinct

\* The connection never gets more than SubsetSize addresses, nor one of them
\* twice: filterEndpoints keeps one instance per address, and what the ring
\* picks are different instances, of which it has enough.
THEOREM AddressesStayDistinct == Spec => []AddressesDistinct
  <1>1. GivenOK => AddressesDistinct
    BY DEF GivenOK
  <1> QED BY InitGiven, NextGiven, <1>1, PTL DEF Spec

-----------------------------------------------------------------------------
(* The ring the subset is taken from                                       *)

\* How far past the key a point is.
Past(p) == (p + RingSize - Key - 1) % RingSize

LEMMA PastIs ==
  ASSUME RingIsSound, NEW p \in Points
  PROVE  /\ p > Key => Past(p) = p - Key - 1
         /\ p <= Key => Past(p) = p + RingSize - Key - 1
         /\ Past(p) \in Nat
  <1>1. RingSize \in Nat /\ RingSize > 0 /\ Key \in 0..RingSize - 1 /\ p \in 0..RingSize - 1
    BY DEF RingIsSound, Points
  <1>2. CASE p > Key
    <2>1. p - Key - 1 \in 0..RingSize - 1 /\ p + RingSize - Key - 1 = (p - Key - 1) + RingSize
      BY <1>1, <1>2
    <2>2. \A d \in 0..RingSize - 1 : (d + RingSize) % RingSize = d
      BY <1>1
    <2>3. Past(p) = p - Key - 1
      BY <2>1, <2>2 DEF Past
    <2> QED BY <1>1, <1>2, <2>1, <2>3
  <1>3. CASE p <= Key
    <2>1. p + RingSize - Key - 1 \in 0..RingSize - 1
      BY <1>1, <1>3
    <2>2. \A d \in 0..RingSize - 1 : d % RingSize = d
      BY <1>1
    <2>3. Past(p) = p + RingSize - Key - 1
      BY <2>1, <2>2 DEF Past
    <2> QED BY <1>1, <1>3, <2>1, <2>3
  <1> QED BY <1>1, <1>2, <1>3

\* The points in use, sorted.
LEMMA SortedIs ==
  ASSUME RingIsSound, DOMAIN circle \subseteq Points
  PROVE  /\ SortedHashes \in Seq(Points)
         /\ RingLen \in Nat
         /\ \A k \in 1..RingLen : SortedHashes[k] \in DOMAIN circle
         /\ \A j, k \in 1..RingLen : j < k => SortedHashes[j] < SortedHashes[k]
         /\ \A p \in DOMAIN circle : \E k \in 1..RingLen : SortedHashes[k] = p
  <1> DEFINE all == [k \in 1..RingSize |-> k - 1]
             P == {p + 1 : p \in DOMAIN circle}
             t == Kept(all, P)
  <1>1. RingSize \in Nat /\ Points = 0..RingSize - 1
    BY DEF RingIsSound, Points
  <1>2. /\ all \in Seq(Points) /\ Len(all) = RingSize
        /\ \A k \in 1..RingSize : all[k] = k - 1
    BY <1>1
  <1>3. SortedHashes = t
    BY DEF SortedHashes, Kept
  <1>4. \A n \in P : n \in 1..RingSize /\ n - 1 \in DOMAIN circle
    BY <1>1
  <1>5. \A p \in DOMAIN circle : p + 1 \in P /\ p + 1 \in 1..RingSize /\ p + 1 - 1 = p
    BY <1>1
  <1> HIDE DEF all, P
  <1>6. PICK pos : t \in Seq(Points) /\ From(pos, t, all, P, RingSize)
    BY <1>2, KeptFrom
  <1> HIDE DEF t
  <1>7. /\ pos \in [1..Len(t) -> P \cap (1..RingSize)] /\ Len(t) \in Nat
        /\ \A k \in 1..Len(t) : t[k] = all[pos[k]]
        /\ \A j, k \in 1..Len(t) : j < k => pos[j] < pos[k]
        /\ \A n \in P \cap (1..RingSize) : \E k \in 1..Len(t) : pos[k] = n
    BY <1>6 DEF From
  <1>8. \A k \in 1..Len(t) : pos[k] \in P /\ pos[k] \in 1..RingSize /\ t[k] = pos[k] - 1
    BY <1>2, <1>7
  <1>9. \A k \in 1..Len(t) : t[k] \in DOMAIN circle
    BY <1>4, <1>8
  <1>10. \A j, k \in 1..Len(t) : j < k => t[j] < t[k]
    BY <1>7, <1>8
  <1>11. \A p \in DOMAIN circle : \E k \in 1..Len(t) : t[k] = p
    <2> SUFFICES ASSUME NEW p \in DOMAIN circle PROVE \E k \in 1..Len(t) : t[k] = p
      OBVIOUS
    <2>1. PICK k \in 1..Len(t) : pos[k] = p + 1
      BY <1>5, <1>7
    <2>2. t[k] = p + 1 - 1
      BY <1>8, <2>1
    <2> QED BY <1>5, <2>2
  <1> QED BY <1>3, <1>6, <1>7, <1>9, <1>10, <1>11 DEF RingLen

\* A set of numbers up to n that is not empty has a greatest one.
LEMMA GreatestNumber ==
  ASSUME NEW n \in Nat, NEW T \in SUBSET (0..n), T # {}
  PROVE  \E m \in T : \A k \in T : k <= m
  <1> DEFINE U == {n - k : k \in T}
  <1>1. U \in SUBSET Nat /\ U # {}
    <2>1. \A k \in T : k \in 0..n /\ n - k \in Nat
      OBVIOUS
    <2> QED BY <2>1
  <1>2. PICK u \in U : \A v \in U : u <= v
    <2> HIDE DEF U
    <2> QED BY <1>1, LeastNumber
  <1>3. PICK m \in T : u = n - m
    BY <1>2
  <1>4. \A k \in T : n - k \in U
    OBVIOUS
  <1> HIDE DEF U
  <1>5. \A k \in T : k <= m
    BY <1>2, <1>3, <1>4
  <1> QED BY <1>5

\* What a fresh ring holds: each of its instances somewhere, and all of its
\* points as long as no two share one.
LEMMA CircleIs ==
  ASSUME RingIsSound, OwnPoints, hash \in Hashings, NEW l \in Seq(Members)
  PROVE  LET c == Circle(l)
         IN  /\ DOMAIN c \subseteq Points
             /\ \A p \in DOMAIN c : c[p] \in ToSet(l)
             /\ \A m \in ToSet(l) : \E p \in DOMAIN c : c[p] = m
             /\ Disjoint(ToSet(l)) =>
                    \A m \in ToSet(l) : {q \in DOMAIN c : c[q] = m} = hash[m]
  <1> DEFINE Owners(p) == {j \in DOMAIN l : p \in hash[l[j]]}
             last1(p) == CHOOSE j \in Owners(p) : \A k \in Owners(p) : k <= j
             c == Circle(l)
  <1>1. /\ ToSet(l) = {l[j] : j \in DOMAIN l} /\ ToSet(l) \subseteq Members
        /\ DOMAIN l = 1..Len(l) /\ Len(l) \in Nat
    BY DEF ToSet
  <1>2. /\ hash \in [Members -> SUBSET Points]
        /\ \A m \in Members : \E p \in hash[m] : \A o \in Members \ {m} : p \notin hash[o]
    BY DEF RingIsSound, OwnPoints, Points
  <1>3. c = [p \in {q \in Points : Owners(q) # {}} |-> l[last1(p)]]
    BY DEF Circle
  <1>4. ASSUME NEW p, Owners(p) # {} PROVE last1(p) \in Owners(p)
    <2>1. Owners(p) \in SUBSET (0..Len(l))
      BY <1>1
    <2> HIDE DEF Owners
    <2>2. \E m \in Owners(p) : \A k \in Owners(p) : k <= m
      BY <1>1, <1>4, <2>1, GreatestNumber
    <2> QED BY <2>2
  <1> HIDE DEF last1, c
  <1>5. ASSUME NEW p \in DOMAIN c
        PROVE  p \in Points /\ c[p] \in ToSet(l) /\ p \in hash[c[p]]
    <2>1. p \in Points /\ Owners(p) # {} /\ c[p] = l[last1(p)]
      BY <1>3, <1>5
    <2>2. last1(p) \in Owners(p)
      BY <1>4, <2>1
    <2>3. last1(p) \in DOMAIN l /\ p \in hash[l[last1(p)]]
      BY <2>2
    <2> QED BY <1>1, <2>1, <2>3
  <1>6. ASSUME NEW m \in ToSet(l), NEW p \in hash[m] PROVE p \in DOMAIN c
    <2>1. PICK j \in DOMAIN l : l[j] = m
      BY <1>1
    <2>2. j \in Owners(p) /\ p \in Points
      BY <1>1, <1>2, <2>1
    <2> QED BY <1>3, <2>2
  <1>7. ASSUME NEW m \in ToSet(l) PROVE \E p \in DOMAIN c : c[p] = m
    <2>1. PICK p \in hash[m] : \A o \in Members \ {m} : p \notin hash[o]
      BY <1>1, <1>2
    <2>2. p \in DOMAIN c
      BY <1>6, <2>1
    <2>3. c[p] \in Members /\ p \in hash[c[p]]
      BY <1>1, <1>5, <2>2
    <2> QED BY <2>1, <2>2, <2>3
  <1>8. ASSUME Disjoint(ToSet(l)), NEW m \in ToSet(l)
        PROVE  {q \in DOMAIN c : c[q] = m} = hash[m]
    <2>1. \A q \in DOMAIN c : c[q] = m => q \in hash[m]
      BY <1>5
    <2>2. ASSUME NEW q \in hash[m] PROVE q \in DOMAIN c /\ c[q] = m
      <3>1. q \in DOMAIN c
        BY <1>6
      <3>2. c[q] \in ToSet(l) /\ q \in hash[c[q]]
        BY <1>5, <3>1
      <3> QED BY <1>8, <3>1, <3>2 DEF Disjoint
    <2> QED BY <2>1, <2>2
  <1>9. DOMAIN c \subseteq Points /\ \A p \in DOMAIN c : c[p] \in ToSet(l)
    BY <1>5
  <1> QED BY <1>7, <1>8, <1>9 DEF c

\* Where the walk starts: past the key, or at the first point if none is.
LEMMA SearchIs ==
  ASSUME RingIsSound, DOMAIN circle \subseteq Points, DOMAIN circle # {}
  PROVE  LET n == RingLen
             a == Search(SelectKey)
         IN  /\ n \in Nat \ {0} /\ a \in 0..n - 1
             /\ \/ a = 0 /\ \A j \in 1..n : SortedHashes[j] <= Key
                \/ /\ \A j \in 1..a : SortedHashes[j] <= Key
                   /\ \A j \in a + 1..n : SortedHashes[j] > Key
  <1> DEFINE n == RingLen
             S == SortedHashes
             later == {j \in 0..(n - 1) : S[j + 1] > Key}
             a == Search(SelectKey)
  <1>1. /\ n \in Nat /\ \A k \in 1..n : S[k] \in Nat
        /\ \A j, k \in 1..n : j < k => S[j] < S[k]
        /\ Key \in Nat /\ n # 0
    <2>1. Points \subseteq Nat /\ Key \in Nat
      BY DEF RingIsSound, Points
    <2>2. /\ n \in Nat /\ \A k \in 1..n : S[k] \in DOMAIN circle
          /\ \A j, k \in 1..n : j < k => S[j] < S[k]
          /\ \A p \in DOMAIN circle : \E k \in 1..n : S[k] = p
      BY SortedIs
    <2> HIDE DEF n, S
    <2>3. n # 0
      BY <2>2
    <2> QED BY <2>1, <2>2, <2>3
  <1>2. a = IF later = {} THEN 0 ELSE CHOOSE j \in later : \A k \in later : j <= k
    BY DEF Search, SelectKey
  <1> HIDE DEF n, S, a
  <1>3. CASE later = {}
    <2>1. \A j \in 1..n : j - 1 \in 0..n - 1 /\ j - 1 + 1 = j
      BY <1>1
    <2>2. ASSUME NEW j \in 1..n PROVE S[j] <= Key
      <3>1. j - 1 \in 0..n - 1 /\ ~(S[j - 1 + 1] > Key)
        BY <1>3, <2>1
      <3>2. ~(S[j] > Key)
        BY <2>1, <3>1
      <3> QED BY <1>1, <3>2
    <2>3. a = 0 /\ 0 \in 0..n - 1
      BY <1>1, <1>2, <1>3
    <2> QED BY <1>1, <2>2, <2>3 DEF n, S, a
  <1>4. CASE later # {}
    <2>1. later \in SUBSET Nat
      OBVIOUS
    <2> HIDE DEF later
    <2>2. \E j \in later : \A k \in later : j <= k
      BY <1>4, <2>1, LeastNumber
    <2>3. a \in later /\ \A k \in later : a <= k
      BY <1>2, <1>4, <2>2
    <2>4. a \in 0..n - 1 /\ S[a + 1] > Key
      BY <2>3 DEF later
    <2>5. ASSUME NEW j \in 1..a PROVE S[j] <= Key
      <3>1. j \in 1..n /\ j - 1 \in 0..n - 1 /\ j - 1 + 1 = j /\ ~(a <= j - 1)
        BY <1>1, <2>4
      <3>2. j - 1 \notin later
        BY <2>3, <3>1
      <3>3. ~(S[j] > Key)
        BY <3>1, <3>2 DEF later
      <3> QED BY <1>1, <3>1, <3>3
    <2>6. ASSUME NEW j \in a + 1..n PROVE S[j] > Key
      <3>1. j \in 1..n /\ a + 1 \in 1..n /\ (j = a + 1 \/ a + 1 < j)
        BY <1>1, <2>4
      <3> QED BY <1>1, <2>4, <3>1
    <2> QED BY <1>1, <2>4, <2>5, <2>6 DEF n, S, a
  <1> QED BY <1>3, <1>4

\* The point met after j steps of a walk that starts at index a.
Met(a, j) ==
    SortedHashes[IF a + j < RingLen THEN a + j + 1 ELSE a + j + 1 - RingLen]

\* One round from the key on meets every point once, each further past the key
\* than the one before.
LEMMA RoundIs ==
  ASSUME RingIsSound, DOMAIN circle \subseteq Points, DOMAIN circle # {}
  PROVE  LET n == RingLen
             a == Search(SelectKey)
         IN  /\ \A j \in 0..n - 1 : Met(a, j) \in DOMAIN circle /\ Past(Met(a, j)) \in Nat
             /\ \A j, k \in 0..n - 1 : j < k => Past(Met(a, j)) < Past(Met(a, k))
             /\ \A p \in DOMAIN circle : \E j \in 0..n - 1 : Met(a, j) = p
  <1> DEFINE n == RingLen
             S == SortedHashes
             a == Search(SelectKey)
             at(j) == IF a + j < n THEN a + j + 1 ELSE a + j + 1 - n
  <1>1. /\ RingSize \in Nat /\ Key \in 0..RingSize - 1 /\ Points = 0..RingSize - 1
    BY DEF RingIsSound, Points
  <1>2. /\ \A k \in 1..n : S[k] \in DOMAIN circle
        /\ \A j, k \in 1..n : j < k => S[j] < S[k]
        /\ \A p \in DOMAIN circle : \E k \in 1..n : S[k] = p
    BY SortedIs
  <1>3. /\ n \in Nat \ {0} /\ a \in 0..n - 1
        /\ \/ a = 0 /\ \A j \in 1..n : S[j] <= Key
           \/ /\ \A j \in 1..a : S[j] <= Key
              /\ \A j \in a + 1..n : S[j] > Key
    BY SearchIs
  <1>4. \A k \in 1..n :
            /\ S[k] \in 0..RingSize - 1
            /\ S[k] > Key => Past(S[k]) = S[k] - Key - 1
            /\ S[k] <= Key => Past(S[k]) = S[k] + RingSize - Key - 1
            /\ Past(S[k]) \in Nat
    BY <1>1, <1>2, PastIs
  <1>5. \A j : Met(a, j) = S[at(j)]
    BY DEF Met
  <1> HIDE DEF n, S, a
  <1>6. \A j \in 0..n - 1 : at(j) \in 1..n
    BY <1>3
  <1>7. ASSUME NEW j \in 0..n - 1, NEW k \in 0..n - 1, j < k
        PROVE  Past(S[at(j)]) < Past(S[at(k)])
    <2>1. /\ at(j) \in 1..n /\ at(k) \in 1..n
          /\ \/ at(j) < at(k) /\ (at(j) > a <=> at(k) > a)
             \/ at(j) > a /\ at(k) <= a /\ a # 0
      BY <1>3, <1>6, <1>7
    <2> HIDE DEF at
    <2>2. CASE at(j) < at(k) /\ (at(j) > a <=> at(k) > a)
      <3>1. S[at(j)] < S[at(k)]
        BY <1>2, <2>1, <2>2
      <3>2. \/ S[at(j)] > Key /\ S[at(k)] > Key
            \/ S[at(j)] <= Key /\ S[at(k)] <= Key
        <4>1. CASE \A x \in 1..n : S[x] <= Key
          BY <2>1, <4>1
        <4>2. CASE /\ \A x \in 1..a : S[x] <= Key
                   /\ \A x \in a + 1..n : S[x] > Key
          <5>1. CASE at(j) > a
            <6>1. at(j) \in a + 1..n /\ at(k) \in a + 1..n
              BY <1>3, <2>1, <2>2, <5>1
            <6> QED BY <4>2, <6>1
          <5>2. CASE ~(at(j) > a)
            <6>1. at(j) \in 1..a /\ at(k) \in 1..a
              BY <1>3, <2>1, <2>2, <5>2
            <6> QED BY <4>2, <6>1
          <5> QED BY <5>1, <5>2
        <4> QED BY <1>3, <4>1, <4>2
      <3>3. S[at(j)] \in Int /\ S[at(k)] \in Int /\ Key \in Int
        BY <1>1, <1>4, <2>1
      <3>4. CASE S[at(j)] > Key /\ S[at(k)] > Key
        <4>1. /\ Past(S[at(j)]) = S[at(j)] - Key - 1
              /\ Past(S[at(k)]) = S[at(k)] - Key - 1
          BY <1>4, <2>1, <3>4
        <4> QED BY <3>1, <3>3, <4>1
      <3>5. CASE S[at(j)] <= Key /\ S[at(k)] <= Key
        <4>1. /\ Past(S[at(j)]) = S[at(j)] + RingSize - Key - 1
              /\ Past(S[at(k)]) = S[at(k)] + RingSize - Key - 1
          BY <1>4, <2>1, <3>5
        <4> QED BY <1>1, <3>1, <3>3, <4>1
      <3> QED BY <3>2, <3>4, <3>5
    <2>3. CASE at(j) > a /\ at(k) <= a /\ a # 0
      <3>1. S[at(j)] > Key /\ S[at(k)] <= Key
        BY <1>3, <2>1, <2>3
      <3> QED BY <1>1, <1>4, <2>1, <3>1
    <2> QED BY <2>1, <2>2, <2>3
  <1>8. ASSUME NEW p \in DOMAIN circle PROVE \E j \in 0..n - 1 : S[at(j)] = p
    <2>1. PICK k \in 1..n : S[k] = p
      BY <1>2
    <2>2. \E j \in 0..n - 1 : at(j) = k
      <3>1. CASE k > a
        <4>1. k - a - 1 \in 0..n - 1 /\ at(k - a - 1) = k
          BY <1>3, <3>1
        <4> QED BY <4>1
      <3>2. CASE k <= a
        <4>1. k + n - a - 1 \in 0..n - 1 /\ at(k + n - a - 1) = k
          BY <1>3, <3>2
        <4> QED BY <4>1
      <3> QED BY <1>3, <3>1, <3>2
    <2> QED BY <2>1, <2>2
  <1> HIDE DEF at
  <1> QED BY <1>2, <1>4, <1>5, <1>6, <1>7, <1>8 DEF n, a

\* The least distance of some points.
Least(P) ==
    LET far == {Past(p) : p \in P}
    IN  CHOOSE d \in far : \A e \in far : d <= e

LEMMA LeastIs ==
  ASSUME RingIsSound, NEW P \in SUBSET Points, P # {}
  PROVE  /\ Least(P) \in Nat /\ \E p \in P : Least(P) = Past(p)
         /\ \A p \in P : Least(P) <= Past(p)
  <1> DEFINE far == {Past(p) : p \in P}
  <1>1. far \in SUBSET Nat /\ far # {}
    BY PastIs
  <1>2. \A p \in P : Past(p) \in far
    OBVIOUS
  <1>3. \A d \in far : \E p \in P : d = Past(p)
    OBVIOUS
  <1>4. Least(P) = CHOOSE d \in far : \A e \in far : d <= e
    BY DEF Least
  <1> HIDE DEF far
  <1>5. \E d \in far : \A e \in far : d <= e
    BY <1>1, LeastNumber
  <1>6. Least(P) \in far /\ \A e \in far : Least(P) <= e
    BY <1>4, <1>5
  <1> QED BY <1>1, <1>2, <1>3, <1>6

LEMMA DistanceIs ==
  ASSUME RingIsSound, DOMAIN circle \subseteq Points,
         NEW m, \E p \in DOMAIN circle : circle[p] = m
  PROVE  /\ Distance(m) \in Nat
         /\ \E p \in DOMAIN circle : circle[p] = m /\ Distance(m) = Past(p)
         /\ \A p \in DOMAIN circle : circle[p] = m => Distance(m) <= Past(p)
  <1> DEFINE P == {q \in DOMAIN circle : circle[q] = m}
  <1>1. Distance(m) = Least(P)
    BY DEF Distance, Least, Past
  <1>2. P \in SUBSET Points /\ P # {}
    OBVIOUS
  <1>3. \A p : p \in P <=> p \in DOMAIN circle /\ circle[p] = m
    OBVIOUS
  <1> HIDE DEF P
  <1> QED BY <1>1, <1>2, <1>3, LeastIs

-----------------------------------------------------------------------------
(* The walk                                                                *)

\* No instance twice.
Differ(s) == \A j, k \in DOMAIN s : s[j] = s[k] => j = k

\* There are more instances than asked for, and a ring of them.
OnARing ==
    /\ hash \in Hashings
    /\ list \in Seq(Members) /\ Differ(list) /\ Len(list) > Num
    /\ circle = Circle(list)

LEMMA OnARingIs ==
  ASSUME RingIsSound, OwnPoints, OnARing
  PROVE  /\ DOMAIN circle \subseteq Points /\ DOMAIN circle # {}
         /\ \A p \in DOMAIN circle : circle[p] \in ToSet(list)
         /\ \A m \in ToSet(list) : \E p \in DOMAIN circle : circle[p] = m
         /\ ToSet(list) \subseteq Members
  <1>1. /\ DOMAIN circle \subseteq Points
        /\ \A p \in DOMAIN circle : circle[p] \in ToSet(list)
        /\ \A m \in ToSet(list) : \E p \in DOMAIN circle : circle[p] = m
    BY CircleIs DEF OnARing
  <1>2. Num \in Nat /\ list \in Seq(Members) /\ Len(list) > Num
    BY DEF OnARing, RingIsSound
  <1>3. 1 \in DOMAIN list
    BY <1>2
  <1>4. ToSet(list) \subseteq Members /\ list[1] \in ToSet(list)
    BY <1>2, <1>3 DEF ToSet
  <1> QED BY <1>1, <1>4

\* An instance not met before is at least as far as the point that is met, and
\* exactly as far if that point is one of its own.
LEMMA NotMetBefore ==
  ASSUME RingIsSound, OwnPoints, OnARing, NEW m \in ToSet(list),
         NEW w \in 0..RingLen - 1,
         \A j \in 0..w : j # w => circle[Met(Search(SelectKey), j)] # m
  PROVE  LET p == Met(Search(SelectKey), w)
         IN  /\ circle[p] = m => Distance(m) = Past(p)
             /\ circle[p] # m => Past(p) < Distance(m)
  <1> DEFINE n == RingLen
             met(j) == Met(Search(SelectKey), j)
             d == Distance(m)
  <1>1. /\ DOMAIN circle \subseteq Points /\ DOMAIN circle # {}
        /\ \E p \in DOMAIN circle : circle[p] = m
    BY OnARingIs
  <1>2. /\ \A j \in 0..n - 1 : met(j) \in DOMAIN circle /\ Past(met(j)) \in Nat
        /\ \A j, k \in 0..n - 1 : j < k => Past(met(j)) < Past(met(k))
        /\ \A p \in DOMAIN circle : \E j \in 0..n - 1 : met(j) = p
    BY <1>1, RoundIs
  <1>3. /\ d \in Nat /\ \E p \in DOMAIN circle : circle[p] = m /\ d = Past(p)
        /\ \A p \in DOMAIN circle : circle[p] = m => d <= Past(p)
    BY <1>1, DistanceIs
  <1>4. n \in Nat /\ w \in 0..n - 1
    BY <1>1, SortedIs
  <1>5. \A j \in 0..w : j # w => circle[met(j)] # m
    OBVIOUS
  <1> HIDE DEF n, met, d
  <1>6. PICK k \in 0..n - 1 : circle[met(k)] = m /\ d = Past(met(k))
    BY <1>2, <1>3
  <1>7. k >= w
    BY <1>4, <1>5, <1>6
  <1>8. CASE circle[met(w)] = m
    <2>1. d <= Past(met(w))
      BY <1>2, <1>3, <1>4, <1>8
    <2>2. k = w \/ Past(met(w)) < Past(met(k))
      BY <1>2, <1>4, <1>7
    <2>3. Past(met(w)) \in Nat
      BY <1>2, <1>4
    <2>4. d = Past(met(w))
      BY <1>3, <1>6, <2>1, <2>2, <2>3
    <2> QED BY <1>8, <2>4 DEF met, d
  <1>9. CASE circle[met(w)] # m
    <2>1. k > w
      BY <1>4, <1>6, <1>7, <1>9
    <2>2. Past(met(w)) < d
      BY <1>2, <1>4, <1>6, <2>1
    <2> QED BY <1>9, <2>2 DEF met, d
  <1> QED BY <1>8, <1>9

\* After w steps from index a, r is who was met, the nearest first, and all
\* others are further than the walk has come.
Seen(r, a, w) ==
    /\ r \in Seq(Members) /\ Differ(r) /\ ToSet(r) \subseteq ToSet(list)
    /\ \A j \in 0..w : circle[Met(a, j)] \in ToSet(r)
    /\ \A k \in DOMAIN r : Distance(r[k]) <= Past(Met(a, w))
    /\ \A m \in ToSet(list) \ ToSet(r) : Past(Met(a, w)) < Distance(m)
    /\ \A j, k \in DOMAIN r : j < k => Distance(r[j]) < Distance(r[k])

LEMMA SeenFirst ==
  ASSUME RingIsSound, OwnPoints, OnARing
  PROVE  LET a == Search(SelectKey)
         IN  /\ a \in 0..RingLen - 1 /\ At(a) = circle[Met(a, 0)]
             /\ Seen(<<At(a)>>, a, 0)
  <1> DEFINE a == Search(SelectKey)
             n == RingLen
             p == Met(a, 0)
             m == circle[p]
             r == <<m>>
  <1>1. /\ DOMAIN circle \subseteq Points /\ DOMAIN circle # {}
        /\ \A q \in DOMAIN circle : circle[q] \in ToSet(list)
        /\ ToSet(list) \subseteq Members
    BY OnARingIs
  <1>2. n \in Nat \ {0} /\ a \in 0..n - 1
    BY <1>1, SearchIs
  <1>3. p = SortedHashes[a + 1]
    <2> HIDE DEF a
    <2>1. a + 0 < n /\ a + 0 + 1 = a + 1
      BY <1>2
    <2> QED BY <2>1 DEF Met
  <1>4. At(a) = m
    BY <1>3 DEF At
  <1>5. 0 \in 0..n - 1 /\ p \in DOMAIN circle /\ Past(p) \in Nat
    BY <1>1, <1>2, RoundIs
  <1>6. m \in ToSet(list) /\ m \in Members
    BY <1>1, <1>5
  <1>7. \A o \in ToSet(list) : /\ m = o => Distance(o) = Past(p)
                               /\ m # o => Past(p) < Distance(o)
    <2>1. \A j \in 0..0 : j = 0
      OBVIOUS
    <2> QED BY <1>5, <2>1, NotMetBefore
  <1> HIDE DEF m, p, a
  <1>8. r \in Seq(Members) /\ Len(r) = 1 /\ r[1] = m /\ DOMAIN r = {1}
    BY <1>6
  <1> HIDE DEF r
  <1>9. ToSet(r) = {m} /\ Differ(r)
    BY <1>8 DEF ToSet, Differ
  <1>10. Distance(r[1]) = Past(p)
    BY <1>6, <1>7, <1>8
  <1>11. \A j \in 0..0 : circle[Met(a, j)] \in ToSet(r)
    BY <1>9 DEF m, p
  <1>12. Seen(r, a, 0)
    BY <1>5, <1>6, <1>7, <1>8, <1>9, <1>10, <1>11 DEF Seen, p
  <1> QED BY <1>2, <1>4, <1>12 DEF r, m, p, a, n

LEMMA SeenNext ==
  ASSUME RingIsSound, OwnPoints, OnARing, NEW r, NEW w \in Nat,
         w + 1 \in 0..RingLen - 1, Seen(r, Search(SelectKey), w)
  PROVE  LET a == Search(SelectKey)
             m == circle[Met(a, w + 1)]
         IN  Seen(IF m \in ToSet(r) THEN r ELSE Append(r, m), a, w + 1)
  <1> DEFINE a == Search(SelectKey)
             n == RingLen
             p == Met(a, w + 1)
             m == circle[p]
             D(o) == Distance(o)
             here == Past(Met(a, w))
  <1>1. /\ DOMAIN circle \subseteq Points /\ DOMAIN circle # {}
        /\ \A q \in DOMAIN circle : circle[q] \in ToSet(list)
        /\ \A o \in ToSet(list) : \E q \in DOMAIN circle : circle[q] = o
        /\ ToSet(list) \subseteq Members
    BY OnARingIs
  <1>2. n \in Nat /\ w \in 0..n - 1 /\ w + 1 \in 0..n - 1 /\ w < w + 1
    BY <1>1, SortedIs
  <1>3. /\ p \in DOMAIN circle /\ Past(p) \in Nat /\ here \in Nat /\ here < Past(p)
    BY <1>1, <1>2, RoundIs
  <1>4. m \in ToSet(list) /\ m \in Members
    BY <1>1, <1>3
  <1>5. \A o \in ToSet(list) : D(o) \in Nat
    BY <1>1, DistanceIs
  <1>6. /\ r \in Seq(Members) /\ Differ(r) /\ ToSet(r) \subseteq ToSet(list)
        /\ \A j \in 0..w : circle[Met(a, j)] \in ToSet(r)
        /\ \A k \in DOMAIN r : D(r[k]) <= here
        /\ \A j, k \in DOMAIN r : j < k => D(r[j]) < D(r[k])
    BY DEF Seen
  <1>7. ASSUME NEW o \in ToSet(list) \ ToSet(r)
        PROVE  (m = o => D(o) = Past(p)) /\ (m # o => Past(p) < D(o))
    <2>1. \A j \in 0..w + 1 : j # w + 1 => circle[Met(a, j)] # o
      <3>1. \A j \in 0..w + 1 : j # w + 1 => j \in 0..w
        OBVIOUS
      <3> QED BY <1>6, <1>7, <3>1
    <2> HIDE DEF p, m, D
    <2> QED BY <1>2, <2>1, NotMetBefore DEF p, m, D
  <1>8. \A k \in DOMAIN r : r[k] \in ToSet(r) /\ D(r[k]) \in Nat
    BY <1>5, <1>6 DEF ToSet
  <1>9. \A j \in 0..w + 1 : j \in 0..w \/ j = w + 1
    BY <1>2
  <1> HIDE DEF D, here
  <1>10. CASE m \in ToSet(r)
    <2>1. \A j \in 0..w + 1 : circle[Met(a, j)] \in ToSet(r)
      BY <1>6, <1>9, <1>10
    <2>2. \A k \in DOMAIN r : D(r[k]) <= Past(p)
      BY <1>3, <1>6, <1>8
    <2>3. \A o \in ToSet(list) \ ToSet(r) : Past(p) < D(o)
      BY <1>7, <1>10
    <2>4. Seen(r, a, w + 1)
      BY <1>6, <2>1, <2>2, <2>3 DEF Seen, D, p
    <2> QED BY <1>10, <2>4
  <1>11. CASE m \notin ToSet(r)
    <2> DEFINE s == Append(r, m)
               l == Len(r)
    <2>1. /\ s \in Seq(Members) /\ l \in Nat /\ DOMAIN s = 1..l + 1 /\ DOMAIN r = 1..l
          /\ s[l + 1] = m /\ \A k \in 1..l : s[k] = r[k]
      <3> HIDE DEF m
      <3> QED BY <1>4, <1>6
    <2> HIDE DEF s, l, m
    <2>2. \A k \in DOMAIN s : k = l + 1 \/ (k \in 1..l /\ k \in DOMAIN r /\ k < l + 1)
      BY <2>1
    <2>3. ToSet(s) = ToSet(r) \cup {m}
      BY <2>1, <2>2 DEF ToSet
    <2>4. Differ(s)
      <3>1. \A k \in 1..l : s[k] # m
        BY <1>8, <1>11, <2>1
      <3> QED BY <1>6, <2>1, <2>2, <3>1 DEF Differ
    <2>5. D(m) = Past(p)
      BY <1>4, <1>7, <1>11
    <2>6. \A k \in DOMAIN s : D(s[k]) <= Past(p)
      BY <1>3, <1>6, <1>8, <2>1, <2>2, <2>5
    <2>7. \A j, k \in DOMAIN s : j < k => D(s[j]) < D(s[k])
      <3> SUFFICES ASSUME NEW j \in DOMAIN s, NEW k \in DOMAIN s, j < k PROVE D(s[j]) < D(s[k])
        OBVIOUS
      <3>1. j \in 1..l /\ j \in DOMAIN r
        BY <2>1, <2>2
      <3>2. CASE k = l + 1
        BY <1>3, <1>6, <1>8, <2>1, <2>5, <3>1, <3>2
      <3>3. CASE k \in 1..l
        BY <1>6, <2>1, <3>1, <3>3
      <3> QED BY <2>2, <3>2, <3>3
    <2>8. \A j \in 0..w + 1 : circle[Met(a, j)] \in ToSet(s)
      BY <1>6, <1>9, <2>3 DEF m, p
    <2>9. \A o \in ToSet(list) \ ToSet(s) : Past(p) < D(o)
      BY <1>7, <2>3
    <2>10. Seen(s, a, w + 1)
      BY <1>4, <1>6, <2>1, <2>3, <2>4, <2>6, <2>7, <2>8, <2>9 DEF Seen, D, p
    <2> QED BY <1>11, <2>10 DEF s, m
  <1> QED BY <1>10, <1>11

\* As many instances as there are places in a list without repetitions.
LEMMA DifferCount ==
  ASSUME NEW s \in Seq(Members), Differ(s)
  PROVE  IsFiniteSet(ToSet(s)) /\ Cardinality(ToSet(s)) = Len(s)
  <1> DEFINE f == [k \in 1..Len(s) |-> s[k]]
  <1>1. Len(s) \in Nat /\ DOMAIN s = 1..Len(s)
    OBVIOUS
  <1>2. ToSet(s) = {s[k] : k \in 1..Len(s)}
    BY <1>1 DEF ToSet
  <1>3. f \in Bijection(1..Len(s), ToSet(s))
    BY <1>1, <1>2 DEF Bijection, Injection, IsInjective, Surjection, Differ
  <1>4. IsFiniteSet(1..Len(s)) /\ Cardinality(1..Len(s)) = Len(s)
    BY <1>1, FS_Interval
  <1> QED BY <1>3, <1>4, FS_Bijection DEF ExistsBijection

LEMMA EnoughIs ==
  ASSUME RingIsSound, OnARing, NEW r
  PROVE  Enough(r) <=> Len(r) = Num
  <1>1. Cardinality(ToSet(list)) = Len(list) /\ list \in Seq(Members) /\ Len(list) > Num
    BY DifferCount DEF OnARing
  <1>2. Num \in Nat /\ Len(list) \in Nat
    BY <1>1 DEF RingIsSound
  <1>3. Enough(r) <=>
            Len(r) = (IF Cardinality(ToSet(list)) < Num THEN Cardinality(ToSet(list)) ELSE Num)
    BY DEF Enough
  <1> QED BY <1>1, <1>2, <1>3

\* Once round, everyone was seen.
LEMMA SeenAll ==
  ASSUME RingIsSound, OwnPoints, OnARing, NEW r,
         Seen(r, Search(SelectKey), RingLen - 1)
  PROVE  Len(r) = Len(list)
  <1> DEFINE a == Search(SelectKey)
             n == RingLen
  <1>1. /\ DOMAIN circle \subseteq Points /\ DOMAIN circle # {}
        /\ \A o \in ToSet(list) : \E q \in DOMAIN circle : circle[q] = o
    BY OnARingIs
  <1>2. \A p \in DOMAIN circle : \E j \in 0..n - 1 : Met(a, j) = p
    BY <1>1, RoundIs
  <1>3. /\ r \in Seq(Members) /\ Differ(r) /\ ToSet(r) \subseteq ToSet(list)
        /\ \A j \in 0..n - 1 : circle[Met(a, j)] \in ToSet(r)
    BY DEF Seen
  <1>4. ToSet(r) = ToSet(list)
    BY <1>1, <1>2, <1>3
  <1>5. list \in Seq(Members) /\ Differ(list)
    BY DEF OnARing
  <1> QED BY <1>3, <1>4, <1>5, DifferCount

\* r is the nearest, in their order.
Chosen(r) ==
    /\ r \in Seq(Members) /\ Differ(r) /\ ToSet(r) \subseteq ToSet(list) /\ Len(r) = Num
    /\ \A j, k \in DOMAIN r : j < k => Distance(r[j]) < Distance(r[k])
    /\ \A m \in ToSet(list) \ ToSet(r), k \in DOMAIN r : Distance(r[k]) < Distance(m)

LEMMA SeenEnough ==
  ASSUME RingIsSound, OwnPoints, OnARing, NEW r, NEW w \in 0..RingLen - 1,
         Seen(r, Search(SelectKey), w), Len(r) = Num
  PROVE  Chosen(r)
  <1> DEFINE here == Past(Met(Search(SelectKey), w))
  <1>1. /\ DOMAIN circle \subseteq Points /\ DOMAIN circle # {}
        /\ \A o \in ToSet(list) : \E q \in DOMAIN circle : circle[q] = o
    BY OnARingIs
  <1>2. here \in Nat
    BY <1>1, RoundIs
  <1>3. \A o \in ToSet(list) : Distance(o) \in Nat
    BY <1>1, DistanceIs
  <1>4. /\ r \in Seq(Members) /\ Differ(r) /\ ToSet(r) \subseteq ToSet(list)
        /\ \A k \in DOMAIN r : Distance(r[k]) <= here
        /\ \A m \in ToSet(list) \ ToSet(r) : here < Distance(m)
        /\ \A j, k \in DOMAIN r : j < k => Distance(r[j]) < Distance(r[k])
    BY DEF Seen
  <1>5. \A k \in DOMAIN r : r[k] \in ToSet(list)
    BY <1>4 DEF ToSet
  <1> HIDE DEF here
  <1>6. \A m \in ToSet(list) \ ToSet(r), k \in DOMAIN r : Distance(r[k]) < Distance(m)
    BY <1>2, <1>3, <1>4, <1>5
  <1> QED BY <1>4, <1>6 DEF Chosen

\* No point is of two of the instances l.
Sharing(h, l) == \E m, o \in ToSet(l) : m # o /\ h[m] \cap h[o] # {}

\* What Subset returns for the instances l, told by the hash function h alone.
Selected(h, l, r) ==
    \/ Len(l) <= Num /\ r = l
    \/ /\ Len(l) > Num /\ Len(r) = Num
       /\ r \in Seq(Members) /\ Differ(r) /\ ToSet(r) \subseteq ToSet(l)
       /\ ~Sharing(h, l) =>
            \A m \in ToSet(l) \ ToSet(r), k \in DOMAIN r : Least(h[r[k]]) < Least(h[m])

\* Where no point is shared an instance is as far as its own nearest point.
LEMMA OwnDistance ==
  ASSUME RingIsSound, OwnPoints, OnARing, Disjoint(ToSet(list)), NEW m \in ToSet(list)
  PROVE  Distance(m) = Least(hash[m])
  <1>1. {q \in DOMAIN circle : circle[q] = m} = hash[m]
    BY CircleIs DEF OnARing
  <1> QED BY <1>1 DEF Distance, Least, Past

LEMMA ChosenSelected ==
  ASSUME RingIsSound, OwnPoints, OnARing, NEW r, Chosen(r)
  PROVE  Selected(hash, list, r)
  <1>1. ASSUME Disjoint(ToSet(list)), NEW m \in ToSet(list)
        PROVE  Distance(m) = Least(hash[m])
    BY <1>1, OwnDistance
  <1>2. /\ r \in Seq(Members) /\ Differ(r) /\ ToSet(r) \subseteq ToSet(list) /\ Len(r) = Num
        /\ \A m \in ToSet(list) \ ToSet(r), k \in DOMAIN r : Distance(r[k]) < Distance(m)
    BY DEF Chosen
  <1>3. \A k \in DOMAIN r : r[k] \in ToSet(list)
    BY <1>2 DEF ToSet
  <1>4. ASSUME Disjoint(ToSet(list)), NEW m \in ToSet(list) \ ToSet(r), NEW k \in DOMAIN r
        PROVE  Least(hash[r[k]]) < Least(hash[m])
    BY <1>1, <1>2, <1>3, <1>4
  <1>5. ~Sharing(hash, list) => Disjoint(ToSet(list))
    BY DEF Sharing, Disjoint
  <1> QED BY <1>2, <1>4, <1>5 DEF Selected, OnARing

\* Of fewer instances each one selected before is selected still: one that is
\* not would be further than all that are, one of which was further before.
LEMMA SelectedStays ==
  ASSUME RingIsSound, OwnPoints, hash \in Hashings,
         NEW l \in Seq(Members), NEW r, Differ(l), Selected(hash, l, r),
         NEW few \in Seq(Members), NEW s, Differ(few), Selected(hash, few, s),
         ToSet(few) \subseteq ToSet(l), ~Sharing(hash, l),
         NEW m \in ToSet(r), m \in ToSet(few)
  PROVE  m \in ToSet(s)
  <1> SUFFICES ASSUME m \notin ToSet(s) PROVE FALSE
    OBVIOUS
  <1>1. Num \in Nat /\ Len(few) \in Nat /\ Len(l) \in Nat
    BY DEF RingIsSound
  <1>2. /\ IsFiniteSet(ToSet(l)) /\ Cardinality(ToSet(l)) = Len(l)
        /\ IsFiniteSet(ToSet(few)) /\ Cardinality(ToSet(few)) = Len(few)
    BY DifferCount
  <1>3. Len(few) > Num
    BY <1>1 DEF Selected
  <1>4. Len(l) > Num
    <2>1. Len(few) <= Len(l)
      BY <1>2, FS_Subset
    <2> QED BY <1>1, <1>3, <2>1
  <1>5. ~Sharing(hash, few)
    BY DEF Sharing
  <1>6. /\ Len(s) = Num /\ s \in Seq(Members) /\ Differ(s) /\ ToSet(s) \subseteq ToSet(few)
        /\ \A o \in ToSet(few) \ ToSet(s), k \in DOMAIN s : Least(hash[s[k]]) < Least(hash[o])
    BY <1>1, <1>3, <1>5 DEF Selected
  <1>7. /\ Len(r) = Num /\ r \in Seq(Members) /\ Differ(r) /\ ToSet(r) \subseteq ToSet(l)
        /\ \A o \in ToSet(l) \ ToSet(r), k \in DOMAIN r : Least(hash[r[k]]) < Least(hash[o])
    BY <1>1, <1>4 DEF Selected
  <1>8. ~(ToSet(s) \subseteq ToSet(r))
    <2>1. /\ IsFiniteSet(ToSet(r)) /\ Cardinality(ToSet(r)) = Num
          /\ IsFiniteSet(ToSet(s)) /\ Cardinality(ToSet(s)) = Num
      BY <1>6, <1>7, DifferCount
    <2>2. ToSet(s) \subseteq ToSet(r) => ToSet(s) = ToSet(r)
      BY <2>1, FS_Subset
    <2> QED BY <2>2
  <1>9. PICK k \in DOMAIN s : s[k] \notin ToSet(r)
    BY <1>8 DEF ToSet
  <1>10. PICK j \in DOMAIN r : r[j] = m
    BY DEF ToSet
  <1>11. s[k] \in ToSet(s) /\ s[k] \in ToSet(l) \ ToSet(r)
    BY <1>6, <1>9 DEF ToSet
  <1>12. Least(hash[s[k]]) < Least(hash[m]) /\ Least(hash[m]) < Least(hash[s[k]])
    BY <1>6, <1>7, <1>10, <1>11
  <1>13. Least(hash[m]) \in Nat /\ Least(hash[s[k]]) \in Nat
    <2>1. m \in Members /\ s[k] \in Members
      BY <1>11 DEF ToSet
    <2>2. \A o \in Members : hash[o] \in SUBSET Points /\ hash[o] # {}
      BY DEF RingIsSound, OwnPoints, Points
    <2> QED BY <2>1, <2>2, LeastIs
  <1> QED BY <1>12, <1>13

-----------------------------------------------------------------------------
(* The steps of the ring                                                   *)

\* Where a walk has come to.
WalkingOK ==
    LET a == Search(SelectKey)
        n == RingLen
    IN  /\ start = a /\ walked \in 0..n - 1 /\ Len(res) < Num
        /\ Seen(res, a, walked)
        /\ index = IF a + walked < n THEN a + walked + 1 ELSE a + walked + 1 - n

ResultOK ==
    /\ phase # "idle" => Len(list) > Num
    /\ Len(list) > Num => circle = Circle(list)
    /\ phase = "locate" => walked = 0
    /\ phase = "walk" => WalkingOK
    /\ phase = "idle" => IF Len(list) > Num THEN Chosen(res) ELSE res = list

RingInv ==
    /\ hash \in Hashings
    /\ list \in Seq(Members) /\ Differ(list)
    /\ previous.list \in Seq(Members) /\ Differ(previous.list)
    /\ Selected(hash, previous.list, previous.res)
    /\ ResultOK

LEMMA InitRing ==
  ASSUME RingIsSound, RingInit
  PROVE  RingInv
  <1>1. Num \in Nat /\ Num > 0
    BY DEF RingIsSound
  <1>2. /\ hash \in Hashings /\ list = <<>> /\ res = <<>> /\ phase = "idle"
        /\ previous.list = <<>> /\ previous.res = <<>>
    BY DEF RingInit
  <1>3. <<>> \in Seq(Members) /\ Len(<<>>) = 0 /\ Differ(<<>>)
    BY DEF Differ
  <1> QED BY <1>1, <1>2, <1>3 DEF RingInv, ResultOK, Selected

\* What an idle ring gave is selected.
LEMMA IdleSelected ==
  ASSUME RingIsSound, OwnPoints, RingInv, phase = "idle"
  PROVE  Selected(hash, list, res)
  <1>1. CASE Len(list) > Num
    BY <1>1, ChosenSelected DEF RingInv, ResultOK, OnARing
  <1>2. CASE ~(Len(list) > Num)
    <2>1. Len(list) <= Num
      BY <1>2 DEF RingInv, RingIsSound
    <2> QED BY <1>2, <2>1 DEF RingInv, ResultOK, Selected
  <1> QED BY <1>1, <1>2

LEMMA CallKeeps ==
  ASSUME RingIsSound, OwnPoints, RingInv,
         NEW insts \in Seq(Members), Differ(insts), Call(insts)
  PROVE  RingInv'
  <1>1. /\ phase = "idle" /\ list' = insts /\ hash' = hash /\ walked' = 0
        /\ previous' = [list |-> list, res |-> res]
        /\ \/ Len(insts) <= Num /\ res' = insts /\ phase' = phase
           \/ Len(insts) > Num /\ circle' = Circle(insts) /\ phase' = "locate"
    BY DEF Call
  <1>2. Circle(list)' = Circle(insts)
    BY <1>1 DEF Circle
  <1>3. Selected(hash, list, res)
    BY <1>1, IdleSelected
  <1>4. Selected(hash, previous.list, previous.res)'
    <2>1. previous'.list = list /\ previous'.res = res
      BY <1>1
    <2> QED BY <1>1, <1>3, <2>1
  <1>5. previous'.list \in Seq(Members) /\ Differ(previous'.list)
    BY <1>1 DEF RingInv
  <1>6. ResultOK'
    <2>1. Num \in Nat /\ Len(insts) \in Nat
      BY DEF RingIsSound
    <2> QED BY <1>1, <1>2, <2>1 DEF ResultOK
  <1> QED BY <1>1, <1>4, <1>5, <1>6 DEF RingInv, Differ

LEMMA JoinKeeps ==
  ASSUME RingIsSound, OwnPoints, RingInv, NEW m \in Members, Join(m)
  PROVE  RingInv'
  <1> DEFINE insts == Append(list, m)
             l == Len(list)
  <1>1. m \notin ToSet(list) /\ Call(insts)
    BY DEF Join, ToSet
  <1>2. list \in Seq(Members) /\ Differ(list)
    BY DEF RingInv
  <1>3. /\ insts \in Seq(Members) /\ l \in Nat /\ DOMAIN insts = 1..l + 1 /\ DOMAIN list = 1..l
        /\ insts[l + 1] = m /\ \A k \in 1..l : insts[k] = list[k]
    BY <1>2
  <1>4. \A k \in 1..l : list[k] # m
    BY <1>1, <1>3 DEF ToSet
  <1> HIDE DEF insts, l
  <1>5. \A k \in DOMAIN insts : k \in 1..l \/ k = l + 1
    BY <1>3
  <1>6. Differ(insts)
    BY <1>2, <1>3, <1>4, <1>5 DEF Differ
  <1> QED BY <1>1, <1>3, <1>6, CallKeeps

LEMMA LeaveKeeps ==
  ASSUME RingIsSound, OwnPoints, RingInv, NEW m \in Members, Leave(m)
  PROVE  RingInv'
  <1> DEFINE P == {k \in DOMAIN list : list[k] # m}
             t == Kept(list, P)
  <1>1. list \in Seq(Members) /\ Differ(list)
    BY DEF RingInv
  <1>2. Call(t)
    <2>1. Kept(list, P) = t
      BY DEF Kept
    <2> HIDE DEF t
    <2> QED BY <2>1 DEF Leave
  <1> HIDE DEF P
  <1>3. PICK pos : t \in Seq(Members) /\ From(pos, t, list, P, Len(list))
    BY <1>1, KeptFrom
  <1> HIDE DEF t
  <1>4. /\ DOMAIN t = 1..Len(t) /\ Len(t) \in Nat /\ DOMAIN list = 1..Len(list)
        /\ pos \in [1..Len(t) -> P \cap (1..Len(list))]
        /\ \A k \in 1..Len(t) : t[k] = list[pos[k]]
        /\ \A j, k \in 1..Len(t) : j < k => pos[j] < pos[k]
    BY <1>1, <1>3 DEF From
  <1>5. \A k \in 1..Len(t) : pos[k] \in DOMAIN list /\ pos[k] \in Nat
    BY <1>4
  <1>6. ASSUME NEW j \in DOMAIN t, NEW k \in DOMAIN t, t[j] = t[k] PROVE j = k
    <2>1. pos[j] = pos[k]
      BY <1>1, <1>4, <1>5, <1>6 DEF Differ
    <2>2. ~(j < k) /\ ~(k < j)
      BY <1>4, <1>5, <2>1
    <2> QED BY <1>4, <2>2
  <1>7. Differ(t)
    BY <1>6 DEF Differ
  <1> QED BY <1>2, <1>3, <1>7, CallKeeps

\* What is said of the ring stays true as long as the ring is the same.
LEMMA SameRing ==
  ASSUME UNCHANGED <<hash, list, circle>>
  PROVE  /\ Search(SelectKey)' = Search(SelectKey)
         /\ RingLen' = RingLen
         /\ Circle(list)' = Circle(list)
         /\ \A a, w : Seen(res, a, w)' <=> Seen(res', a, w)
         /\ Chosen(res)' <=> Chosen(res')
  <1>1. SortedHashes' = SortedHashes
    BY DEF SortedHashes
  <1>2. RingLen' = RingLen
    BY <1>1 DEF RingLen
  <1>3. \A m : Distance(m)' = Distance(m)
    BY DEF Distance
  <1>4. \A a, j : Met(a, j)' = Met(a, j)
    BY <1>1, <1>2 DEF Met
  <1>5. Search(SelectKey)' = Search(SelectKey)
    BY <1>1, <1>2 DEF Search, SelectKey
  <1>6. Circle(list)' = Circle(list)
    BY DEF Circle
  <1>7. \A a, w : Seen(res, a, w)' <=> Seen(res', a, w)
    BY <1>3, <1>4 DEF Seen, Past, ToSet, Differ
  <1>8. Chosen(res)' <=> Chosen(res')
    BY <1>3 DEF Chosen, ToSet, Differ
  <1> QED BY <1>2, <1>5, <1>6, <1>7, <1>8

\* After a point of the walk: it ends with the nearest, or goes on from there.
LEMMA WalkGoesOn ==
  ASSUME RingIsSound, OwnPoints, RingInv, phase # "idle",
         UNCHANGED <<hash, list, circle, previous>>,
         start' = Search(SelectKey), walked' \in 0..RingLen - 1,
         Seen(res', Search(SelectKey), walked'), Len(res') <= Num,
         index' = IF start' + walked' < RingLen THEN start' + walked' + 1
                  ELSE start' + walked' + 1 - RingLen,
         phase' = IF Enough(res') THEN "idle" ELSE "walk"
  PROVE  RingInv'
  <1>1. OnARing /\ Len(list) > Num
    BY DEF RingInv, ResultOK, OnARing
  <1>2. Enough(res') <=> Len(res') = Num
    BY <1>1, EnoughIs
  <1>3. CASE Enough(res')
    <2>1. Chosen(res')
      BY <1>1, <1>2, <1>3, SeenEnough
    <2>2. Chosen(res)'
      BY <2>1, SameRing
    <2>3. ResultOK'
      BY <1>1, <1>3, <2>2, SameRing DEF RingInv, ResultOK
    <2> QED BY <2>3 DEF RingInv
  <1>4. CASE ~Enough(res')
    <2>1. Len(res') < Num
      <3>1. res' \in Seq(Members) /\ Num \in Nat
        BY DEF Seen, RingIsSound
      <3> QED BY <1>2, <1>4, <3>1
    <2>2. WalkingOK'
      BY <2>1, SameRing DEF WalkingOK
    <2>3. ResultOK'
      BY <1>1, <1>4, <2>2, SameRing DEF RingInv, ResultOK
    <2> QED BY <2>3 DEF RingInv
  <1> QED BY <1>3, <1>4

LEMMA LocateKeeps ==
  ASSUME RingIsSound, OwnPoints, RingInv, Locate
  PROVE  RingInv'
  <1> DEFINE a == Search(SelectKey)
  <1>1. /\ phase = "locate" /\ res' = <<At(a)>> /\ start' = a /\ index' = a + 1
        /\ phase' = IF Enough(res') THEN "idle" ELSE "walk"
        /\ UNCHANGED <<hash, list, circle, walked, previous>>
    BY DEF Locate
  <1>2. OnARing /\ walked = 0
    BY <1>1 DEF RingInv, ResultOK, OnARing
  <1>3. a \in 0..RingLen - 1 /\ Seen(res', a, 0)
    BY <1>1, <1>2, SeenFirst
  <1>4. RingLen \in Nat
    BY <1>2, OnARingIs, SortedIs
  <1>5. Len(res') = 1 /\ 1 <= Num
    BY <1>1 DEF RingIsSound
  <1> HIDE DEF a
  <1>6. /\ walked' = 0 /\ walked' \in 0..RingLen - 1
        /\ index' = IF a + walked' < RingLen THEN a + walked' + 1
                    ELSE a + walked' + 1 - RingLen
    BY <1>1, <1>2, <1>3, <1>4
  <1> QED BY <1>1, <1>3, <1>5, <1>6, WalkGoesOn DEF a

\* The index never comes back to where it started: everyone is found before.
LEMMA WalkKeeps ==
  ASSUME RingIsSound, OwnPoints, RingInv, Walk
  PROVE  RingInv'
  <1> DEFINE a == Search(SelectKey)
             n == RingLen
             at == IF index >= n THEN 0 ELSE index
             m == circle[Met(a, walked + 1)]
             found == IF m \in ToSet(res) THEN res ELSE Append(res, m)
  <1>1. phase = "walk"
    BY DEF Walk
  <1>2. OnARing
    BY <1>1 DEF RingInv, ResultOK, OnARing
  <1>3. /\ start = a /\ walked \in 0..n - 1 /\ Len(res) < Num /\ Seen(res, a, walked)
        /\ index = IF a + walked < n THEN a + walked + 1 ELSE a + walked + 1 - n
    BY <1>1 DEF RingInv, ResultOK, WalkingOK
  <1>4. n \in Nat /\ a \in 0..n - 1
    BY <1>2, OnARingIs, SortedIs, SearchIs
  <1>5. res \in Seq(Members) /\ Len(res) \in Nat /\ Num \in Nat /\ Len(list) > Num
        /\ Len(list) \in Nat
    BY <1>2, <1>3 DEF Seen, OnARing, RingIsSound
  <1>6. walked # n - 1
    <2>1. walked = n - 1 => Len(res) = Len(list)
      BY <1>2, <1>3, SeenAll
    <2> QED BY <1>3, <1>5, <2>1
  <1> HIDE DEF a, n
  <1>7. walked + 1 \in 0..n - 1 /\ walked \in Nat
    BY <1>3, <1>4, <1>6
  <1>8. index # start
    BY <1>3, <1>4, <1>7
  <1>9. At(at) = m
    <2>1. (IF a + (walked + 1) < n THEN a + (walked + 1) + 1 ELSE a + (walked + 1) + 1 - n) = at + 1
      BY <1>3, <1>4, <1>7
    <2> HIDE DEF at
    <2> QED BY <2>1 DEF At, Met, n
  <1>10. /\ res' = found /\ index' = at + 1 /\ walked' = walked + 1
         /\ phase' = IF Enough(found) THEN "idle" ELSE "walk"
         /\ UNCHANGED <<hash, list, circle, start, previous>>
    <2> HIDE DEF m
    <2> QED BY <1>8, <1>9 DEF Walk, n
  <1>11. Seen(found, a, walked + 1)
    BY <1>2, <1>3, <1>7, SeenNext DEF a, n
  <1>12. Len(found) <= Num
    <2> HIDE DEF m
    <2>1. Len(Append(res, m)) = Len(res) + 1
      BY <1>5
    <2> QED BY <1>3, <1>5, <2>1
  <1> HIDE DEF found
  <1>13. index' = IF a + walked' < n THEN a + walked' + 1 ELSE a + walked' + 1 - n
    BY <1>3, <1>4, <1>7, <1>10
  <1> HIDE DEF at
  <1> QED BY <1>1, <1>3, <1>7, <1>10, <1>11, <1>12, <1>13, WalkGoesOn DEF a, n

LEMMA NextRing ==
  ASSUME RingIsSound, OwnPoints, RingInv, [RingNext]_ringVars
  PROVE  RingInv'
  <1>1. ASSUME NEW m \in Members, Join(m) PROVE RingInv'
    BY <1>1, JoinKeeps
  <1>2. ASSUME NEW m \in Members, Leave(m) PROVE RingInv'
    BY <1>2, LeaveKeeps
  <1>3. CASE Locate
    BY <1>3, LocateKeeps
  <1>4. CASE Walk
    BY <1>4, WalkKeeps
  <1>5. CASE UNCHANGED ringVars
    <2>1. UNCHANGED <<hash, list, phase, circle, index, start, res, walked, previous>>
      BY <1>5 DEF ringVars
    <2>2. Chosen(res)' <=> Chosen(res)
      BY <2>1, SameRing
    <2>3. WalkingOK' <=> WalkingOK
      BY <2>1, SameRing DEF WalkingOK
    <2>4. ResultOK'
      BY <2>1, <2>2, <2>3, SameRing DEF RingInv, ResultOK
    <2> QED BY <2>1, <2>4 DEF RingInv
  <1> QED BY <1>1, <1>2, <1>3, <1>4, <1>5 DEF RingNext

-----------------------------------------------------------------------------
(* What follows                                                            *)

LEMMA RingResult ==
  ASSUME RingIsSound, OwnPoints, RingInv
  PROVE  ResultIsNearest /\ WalkEndsInARound
  <1>1. ResultIsNearest
    BY DEF RingInv, ResultOK, Chosen, ResultIsNearest, ToSet
  <1>2. WalkEndsInARound
    <2> SUFFICES ASSUME phase = "walk" PROVE walked < RingLen
      BY DEF WalkEndsInARound
    <2>1. OnARing /\ walked \in 0..RingLen - 1
      BY DEF RingInv, ResultOK, WalkingOK, OnARing
    <2>2. RingLen \in Nat
      BY <2>1, OnARingIs, SortedIs
    <2> QED BY <2>1, <2>2
  <1> QED BY <1>1, <1>2

LEMMA RingStable ==
  ASSUME RingIsSound, OwnPoints, RingInv
  PROVE  SubsetStable
  <1> DEFINE now == ToSet(list)
             before == ToSet(previous.list)
  <1> SUFFICES ASSUME phase = "idle", Disjoint(now \cup before)
               PROVE  /\ now \ before = {} => ToSet(previous.res) \ (before \ now) \subseteq ToSet(res)
                      /\ before \ now = {} => ToSet(res) \subseteq ToSet(previous.res) \cup (now \ before)
    BY DEF SubsetStable, ToSet
  <1>1. ~Sharing(hash, list) /\ ~Sharing(hash, previous.list)
    BY DEF Sharing, Disjoint
  <1>2. /\ Selected(hash, list, res) /\ Selected(hash, previous.list, previous.res)
        /\ list \in Seq(Members) /\ previous.list \in Seq(Members)
        /\ Differ(list) /\ Differ(previous.list) /\ hash \in Hashings
    BY IdleSelected DEF RingInv
  <1>3. ToSet(res) \subseteq now /\ ToSet(previous.res) \subseteq before
    BY <1>2 DEF Selected
  <1>4. ASSUME now \ before = {}, NEW m \in ToSet(previous.res) \ (before \ now)
        PROVE  m \in ToSet(res)
    <2>1. now \subseteq before /\ m \in now /\ m \in ToSet(previous.res)
      BY <1>3, <1>4
    <2> QED BY <1>1, <1>2, <2>1, SelectedStays
  <1>5. ASSUME before \ now = {}, NEW m \in ToSet(res)
        PROVE  m \in ToSet(previous.res) \cup (now \ before)
    <2>1. before \subseteq now /\ m \in now
      BY <1>3, <1>5
    <2>2. m \in before => m \in ToSet(previous.res)
      BY <1>1, <1>2, <2>1, SelectedStays
    <2> QED BY <2>1, <2>2
  <1> QED BY <1>4, <1>5

-----------------------------------------------------------------------------
(* The ring of the resolver                                                *)

\* RingOrder is the order of the instances on the ring the hash function makes:
\* by their nearest points, none of which is of two of them.
OrderOfRing ==
    /\ Members = Instances /\ Num = SubsetSize
    /\ Disjoint(Instances)
    /\ \A j, k \in DOMAIN RingOrder :
          j < k => Least(hash[RingOrder[j]]) < Least(hash[RingOrder[k]])

\* Who comes first on the ring comes first in RingOrder.
LEMMA OnRingRises ==
  ASSUME NEW S \in SUBSET Instances
  PROVE  \A j, k \in DOMAIN OnRing[S] : j < k =>
            \E i, l \in DOMAIN RingOrder :
                i < l /\ RingOrder[i] = OnRing[S][j] /\ RingOrder[l] = OnRing[S][k]
  <1> DEFINE P == {k \in DOMAIN RingOrder : RingOrder[k] \in S}
             t == Kept(RingOrder, P)
  <1>1. OnRing[S] = t
    BY DEF OnRing
  <1>2. RingOrder \in Seq(Instances)
    BY SubsetAssumption
  <1>3. t \in Seq(Instances) /\ \E pos : From(pos, t, RingOrder, P, Len(RingOrder))
    <2> HIDE DEF P
    <2> QED BY <1>2, KeptFrom
  <1> HIDE DEF t
  <1>4. PICK pos : From(pos, t, RingOrder, P, Len(RingOrder))
    BY <1>3
  <1>5. DOMAIN t = 1..Len(t) /\ DOMAIN RingOrder = 1..Len(RingOrder)
    BY <1>2, <1>3
  <1>6. ASSUME NEW j \in DOMAIN t, NEW k \in DOMAIN t, j < k
        PROVE  /\ pos[j] \in DOMAIN RingOrder /\ pos[k] \in DOMAIN RingOrder /\ pos[j] < pos[k]
               /\ RingOrder[pos[j]] = t[j] /\ RingOrder[pos[k]] = t[k]
    <2> HIDE DEF P
    <2> QED BY <1>4, <1>5, <1>6 DEF From
  <1> QED BY <1>1, <1>6

\* The nearest are those the resolver takes of its ring: who is the k-th of
\* one is the k-th of the other, once those before agree.
LEMMA ChosenIsOnRing ==
  ASSUME RingIsSound, OwnPoints, OnARing, OrderOfRing, NEW r, Chosen(r)
  PROVE  r = SubSeq(OnRing[ToSet(list)], 1, Num)
  <1> DEFINE S == ToSet(list)
             t == OnRing[S]
             n == Num
  <1>1. /\ n \in Nat /\ n = SubsetSize /\ list \in Seq(Instances) /\ Differ(list) /\ Len(list) > n
        /\ Len(list) \in Nat
    BY DEF RingIsSound, OnARing, OrderOfRing
  <1>2. S \in SUBSET Instances
    BY <1>1, ElementOfSeq DEF ToSet
  <1>3. /\ t \in Seq(S) /\ \A m \in S : \E k \in DOMAIN t : t[k] = m
    BY <1>2, OnRingOnce
  <1>4. Len(list) <= Len(t)
    BY <1>1, OnRingAll DEF Differ
  <1>5. Disjoint(S)
    BY <1>2 DEF OrderOfRing, Disjoint
  <1>6. \A m \in S : Distance(m) = Least(hash[m]) /\ Distance(m) \in Nat
    <2>1. \A m \in S : \E p \in DOMAIN circle : circle[p] = m
      BY OnARingIs
    <2>2. DOMAIN circle \subseteq Points
      BY OnARingIs
    <2> QED BY <1>5, <2>1, <2>2, OwnDistance, DistanceIs
  <1>7. \A j, k \in DOMAIN t : j < k => Distance(t[j]) < Distance(t[k])
    <2> SUFFICES ASSUME NEW j \in DOMAIN t, NEW k \in DOMAIN t, j < k
                 PROVE  Distance(t[j]) < Distance(t[k])
      OBVIOUS
    <2>1. PICK i \in DOMAIN RingOrder, l \in DOMAIN RingOrder :
             i < l /\ RingOrder[i] = t[j] /\ RingOrder[l] = t[k]
      BY <1>2, OnRingRises
    <2>2. Least(hash[t[j]]) < Least(hash[t[k]])
      BY <2>1 DEF OrderOfRing
    <2>3. t[j] \in S /\ t[k] \in S
      <3> HIDE DEF t, S
      <3> QED BY <1>3, ElementOfSeq
    <2> QED BY <1>6, <2>2, <2>3
  <1>8. /\ r \in Seq(Members) /\ Differ(r) /\ ToSet(r) \subseteq S /\ Len(r) = n
        /\ \A j, k \in DOMAIN r : j < k => Distance(r[j]) < Distance(r[k])
        /\ \A m \in S \ ToSet(r), k \in DOMAIN r : Distance(r[k]) < Distance(m)
    BY DEF Chosen
  <1> HIDE DEF S, t, n
  <1>9. /\ DOMAIN r = 1..n /\ DOMAIN t = 1..Len(t) /\ Len(t) \in Nat /\ n <= Len(t)
        /\ \A k \in 1..n : k \in DOMAIN t
    BY <1>1, <1>3, <1>4, <1>8
  <1>10. /\ \A k \in DOMAIN r : r[k] \in S
         /\ \A k \in DOMAIN t : t[k] \in S
         /\ \A m \in ToSet(r) : \E k \in DOMAIN r : r[k] = m
    <2>1. \A k \in DOMAIN t : t[k] \in S
      BY <1>3, <1>9, ElementOfSeq
    <2> QED BY <1>8, <2>1 DEF ToSet
  <1> DEFINE T == {k \in 0..n : \A j \in 1..k : r[j] = t[j]}
  <1>11. ASSUME NEW k \in 0..n - 1, k \in T
         PROVE  k + 1 \in T
    <2>1. /\ k + 1 \in 1..n /\ k + 1 \in DOMAIN r /\ k + 1 \in DOMAIN t
          /\ \A i \in 1..k + 1 : i = k + 1 \/ i \in 1..k
          /\ \A i \in Nat \ {0} : i \in 1..k \/ i = k + 1 \/ k + 1 < i
      BY <1>1, <1>9
    <2>2. \A j \in 1..k : r[j] = t[j] /\ j \in DOMAIN r /\ j \in DOMAIN t /\ j # k + 1
      BY <1>1, <1>9, <1>11
    <2> HIDE DEF T
    <2>3. r[k + 1] = t[k + 1]
      <3> SUFFICES ASSUME r[k + 1] # t[k + 1] PROVE FALSE
        OBVIOUS
      <3>1. Distance(t[k + 1]) < Distance(r[k + 1])
        <4>1. PICK i \in DOMAIN t : t[i] = r[k + 1]
          BY <1>3, <1>10, <2>1
        <4>2. i \notin 1..k
          BY <1>8, <2>1, <2>2, <4>1 DEF Differ
        <4>3. k + 1 < i
          BY <1>9, <2>1, <4>1, <4>2
        <4> QED BY <1>7, <2>1, <4>1, <4>3
      <3>2. Distance(r[k + 1]) < Distance(t[k + 1])
        <4>1. CASE t[k + 1] \in ToSet(r)
          <5>1. PICK i \in DOMAIN r : r[i] = t[k + 1]
            BY <1>10, <4>1
          <5>2. i \notin 1..k
            <6> SUFFICES ASSUME i \in 1..k PROVE FALSE
              OBVIOUS
            <6>1. t[i] = t[k + 1] /\ i \in DOMAIN t /\ i < k + 1
              BY <2>2, <5>1
            <6>2. Distance(t[i]) < Distance(t[k + 1])
              BY <1>7, <2>1, <6>1
            <6> QED BY <1>6, <1>10, <6>1, <6>2
          <5>3. k + 1 < i
            BY <1>1, <1>9, <2>1, <5>1, <5>2
          <5> QED BY <1>8, <2>1, <5>1, <5>3
        <4>2. CASE t[k + 1] \notin ToSet(r)
          BY <1>8, <1>10, <2>1, <4>2
        <4> QED BY <4>1, <4>2
      <3>3. Distance(r[k + 1]) \in Nat /\ Distance(t[k + 1]) \in Nat
        BY <1>6, <1>10, <2>1
      <3> QED BY <3>1, <3>2, <3>3
    <2> QED BY <1>1, <1>11, <2>1, <2>2, <2>3 DEF T
  <1>12. n \in T
    <2>1. 0 \in T
      BY <1>1
    <2> HIDE DEF T
    <2>2. 0..n \subseteq T
      BY <1>1, <1>11, <2>1, InductionUpTo
    <2> QED BY <1>1, <2>2
  <1>13. \A k \in 1..n : r[k] = t[k]
    BY <1>12
  <1>14. /\ SubSeq(t, 1, n) \in Seq(S) /\ Len(SubSeq(t, 1, n)) = n
         /\ \A k \in 1..n : SubSeq(t, 1, n)[k] = t[k]
    BY <1>1, <1>3, <1>9, SubSeqProperties
  <1>15. r = SubSeq(t, 1, n)
    <2> DEFINE u == SubSeq(t, 1, n)
    <2> HIDE DEF u
    <2>1. u \in Seq(S) /\ Len(u) = n /\ \A k \in 1..n : u[k] = r[k]
      BY <1>13, <1>14 DEF u
    <2>2. r = u
      BY <1>1, <1>8, <2>1
    <2> QED BY <2>2 DEF u
  <1> QED BY <1>15 DEF S, t, n

-----------------------------------------------------------------------------
(* The theorems about the ring                                             *)

\* GetN returns the nearest instances in the order of the ring, whatever the
\* instances, their points and the key.
THEOREM SubsetsAreNearest == RingSpec => []ResultIsNearest
  <1>1. RingInit => RingInv
    BY InitRing, RingAssumption, OwnPointAssumption
  <1>2. RingInv /\ [RingNext]_ringVars => RingInv'
    BY NextRing, RingAssumption, OwnPointAssumption
  <1>3. RingInv => ResultIsNearest
    BY RingResult, RingAssumption, OwnPointAssumption
  <1> QED
    BY <1>1, <1>2, <1>3, PTL DEF RingSpec

\* What ServiceResolver takes to be the subset of some instances is what GetN
\* returns for them, where they share no points and RingOrder is their order on
\* the ring: the resolver is modelled over a ring that does what it says.
THEOREM ResolverTakesTheNearest ==
  RingSpec => [](phase = "idle" /\ OrderOfRing => res = Subset(list))
  <1>1. RingInit => RingInv
    BY InitRing, RingAssumption, OwnPointAssumption
  <1>2. RingInv /\ [RingNext]_ringVars => RingInv'
    BY NextRing, RingAssumption, OwnPointAssumption
  <1>3. RingInv => (phase = "idle" /\ OrderOfRing => res = Subset(list))
    <2> SUFFICES ASSUME RingInv, phase = "idle", OrderOfRing PROVE res = Subset(list)
      OBVIOUS
    <2>1. Num = SubsetSize /\ Num \in Nat /\ Len(list) \in Nat
      BY RingAssumption DEF RingIsSound, OrderOfRing, RingInv
    <2>2. CASE Len(list) > Num
      <3>1. OnARing /\ Chosen(res)
        BY <2>2 DEF RingInv, ResultOK, OnARing
      <3>2. res = SubSeq(OnRing[ToSet(list)], 1, Num)
        BY <3>1, ChosenIsOnRing, RingAssumption, OwnPointAssumption
      <3> QED BY <2>1, <2>2, <3>2 DEF Subset
    <2>3. CASE Len(list) <= Num
      BY <2>1, <2>3 DEF RingInv, ResultOK, Subset
    <2> QED BY <2>1, <2>2, <2>3
  <1> QED BY <1>1, <1>2, <1>3, PTL DEF RingSpec

\* Its loop ends within one round.
THEOREM WalksEndInARound == RingSpec => []WalkEndsInARound
  <1>1. RingInit => RingInv
    BY InitRing, RingAssumption, OwnPointAssumption
  <1>2. RingInv /\ [RingNext]_ringVars => RingInv'
    BY NextRing, RingAssumption, OwnPointAssumption
  <1>3. RingInv => WalkEndsInARound
    BY RingResult, RingAssumption, OwnPointAssumption
  <1> QED
    BY <1>1, <1>2, <1>3, PTL DEF RingSpec

\* An instance that leaves takes no other out of the subset, and one that joins
\* brings no other in.
THEOREM SubsetsAreStable == RingSpec => []SubsetStable
  <1>1. RingInit => RingInv
    BY InitRing, RingAssumption, OwnPointAssumption
  <1>2. RingInv /\ [RingNext]_ringVars => RingInv'
    BY NextRing, RingAssumption, OwnPointAssumption
  <1>3. RingInv => SubsetStable
    BY RingStable, RingAssumption, OwnPointAssumption
  <1> QED
    BY <1>1, <1>2, <1>3, PTL DEF RingSpec
=============================================================================
