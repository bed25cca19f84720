----------------------------- MODULE SubsetRing -----------------------------
(***************************************************************************)
(* The subset of a service's instances that this node connects to          *)
(* (infra/transport/subset, infra/transport/consistent): of more instances *)
(* than Num, those the walk around a fresh ring of hash points meets       *)
(* first, from the node's own key on.                                      *)
(*                                                                         *)
(* One call of Subset after the other, as instances come and go; one       *)
(* action is one iteration of the loop of GetN.  The hash function is a    *)
(* choice made once.  An instance is named by its String().                *)
(***************************************************************************)
EXTENDS Subsequences, SequencesExt

CONSTANTS
    Members,    \* instances of the service, members of the ring
    RingSize,   \* points of the ring, 2^32 in the code
    Hashings,   \* hash functions: the points of the replicas of each instance
    Key,        \* the point of the node's selector key
    Num         \* instances to select

RingIsSound ==
    /\ RingSize \in Nat \ {0} /\ Num \in Nat \ {0} /\ Key \in 0..(RingSize - 1)
    /\ Hashings \subseteq [Members -> SUBSET (0..(RingSize - 1))]
ASSUME RingAssumption == RingIsSound

\* Replicas of two instances may share a point, but no instance loses all of
\* its points to others: each has 160 of 2^32.  If one did, it would not be on
\* the ring, and GetN, which counts it, might never come to an end.
OwnPoints ==
    \A h \in Hashings, m \in Members :
        \E p \in h[m] : \A o \in Members \ {m} : p \notin h[o]
ASSUME OwnPointAssumption == OwnPoints

VARIABLES
    hash,       \* the hash function
    list,       \* the instances of the last call, in the order discovered
    phase,      \* where that call is
    circle,     \* Consistent.circle: the instance at each point in use
    index,      \* i of GetN, an index into sortedHashes
    start,      \* start of GetN, likewise
    res,        \* the result, as far as it is known
    walked,     \* history: iterations of the loop so far
    previous    \* history: list and result of the call before

ringVars == <<hash, list, phase, circle, index, start, res, walked, previous>>

Points == 0..(RingSize - 1)

RingTypeOK ==
    /\ hash \in Hashings
    /\ list \in Seq(Members)
    /\ phase \in {"idle", "locate", "walk"}
    /\ DOMAIN circle \subseteq Points
    /\ \A p \in DOMAIN circle : circle[p] \in Members
    /\ index \in Nat /\ start \in Nat /\ walked \in Nat
    /\ res \in Seq(Members)
    /\ previous \in [list : Seq(Members), res : Seq(Members)]

RingInit ==
    /\ hash \in Hashings
    /\ list = <<>> /\ res = <<>> /\ previous = [list |-> <<>>, res |-> <<>>]
    /\ phase = "idle"
    /\ circle = [p \in {} |-> p]
    /\ index = 0 /\ start = 0 /\ walked = 0

-----------------------------------------------------------------------------
(* The ring *)

\* Consistent.Set on a new ring: the instances are added in their order, each
\* takes over the points it shares with those before it.
Circle(insts) ==
    LET Owners(p) == {j \in DOMAIN insts : p \in hash[insts[j]]}
    IN  [p \in {q \in Points : Owners(q) # {}} |->
            insts[CHOOSE j \in Owners(p) : \A k \in Owners(p) : k <= j]]

\* updateSortedHashes, indexed from 0 as the code does.
SortedHashes == Kept([k \in 1..RingSize |-> k - 1], {p + 1 : p \in DOMAIN circle})
At(idx) == circle[SortedHashes[idx + 1]]
RingLen == Len(SortedHashes)

\* Mutant: the key counts as a point of its own successor.
Search_AtKey(key) ==
    LET later == {j \in 0..(RingLen - 1) : SortedHashes[j + 1] >= key}
    IN  IF later = {} THEN 0 ELSE CHOOSE j \in later : \A k \in later : j <= k

\* search: the index of the first point past the key, 0 when there is none.
Search(key) ==
    LET later == {j \in 0..(RingLen - 1) : SortedHashes[j + 1] > key}
    IN  IF later = {} THEN 0 ELSE CHOOSE j \in later : \A k \in later : j <= k

\* Mutant: the key is drawn anew at every update.
SelectKey_PerUpdate == (Key + Len(list)) % RingSize

\* selectorKey is drawn once, in Build.
SelectKey == Key

\* Mutant: nothing but the way round ends the walk.
Enough_Never(found) == FALSE

\* GetN has found what it was asked for, or all there is.
Enough(found) ==
    LET count == Cardinality(ToSet(list))
    IN  Len(found) = IF count < Num THEN count ELSE Num

-----------------------------------------------------------------------------
(* Steps *)

\* Subset is called with the instances insts: few are returned as they are.
Call(insts) ==
    /\ phase = "idle"
    /\ previous' = [list |-> list, res |-> res]
    /\ list' = insts
    /\ walked' = 0
    /\ \/ /\ Len(insts) <= Num
          /\ res' = insts
          /\ UNCHANGED <<phase, circle>>
       \/ /\ Len(insts) > Num
          /\ circle' = Circle(insts)
          /\ res' = <<>>
          /\ phase' = "locate"
    /\ UNCHANGED <<hash, index, start>>

\* external: an instance is discovered, or is gone.
Join(m) == m \notin ToSet(list) /\ Call(Append(list, m))
Leave(m) == m \in ToSet(list) /\ Call(Kept(list, {k \in DOMAIN list : list[k] # m}))

\* GetN, before its loop.
Locate ==
    LET at == Search(SelectKey)
    IN  /\ phase = "locate"
        /\ res' = <<At(at)>>
        /\ start' = at
        /\ index' = at + 1
        /\ phase' = IF Enough(res') THEN "idle" ELSE "walk"
        /\ UNCHANGED <<hash, list, circle, walked, previous>>

\* One iteration of the loop of GetN.  The way round ends at start, except
\* that the index is compared before it wraps: a walk that started at 0 passes
\* it unnoticed.
Walk ==
    LET at == IF index >= RingLen THEN 0 ELSE index
        found == IF At(at) \in ToSet(res) THEN res ELSE Append(res, At(at))
    IN  /\ phase = "walk"
        /\ \/ /\ index = start
              /\ phase' = "idle"
              /\ UNCHANGED <<index, res, walked>>
           \/ /\ index # start
              /\ res' = found
              /\ index' = at + 1
              /\ walked' = walked + 1
              /\ phase' = IF Enough(found) THEN "idle" ELSE "walk"
        /\ UNCHANGED <<hash, list, circle, start, previous>>

RingNext ==
    \/ \E m \in Members : Join(m) \/ Leave(m)
    \/ Locate \/ Walk

RingSpec == RingInit /\ [][RingNext]_ringVars

-----------------------------------------------------------------------------
(* Properties *)

\* How far past the key the nearest point of instance m is.
Distance(m) ==
    LET far == {(p + RingSize - Key - 1) % RingSize : p \in {q \in DOMAIN circle : circle[q] = m}}
    IN  CHOOSE d \in far : \A e \in far : d <= e

\* The result of GetN is what consistent hashing asks for, although the ring
\* is walked by index, wraps around and skips instances met before: Num
\* different instances, the nearest to the key, in the order of the ring.
ResultIsNearest ==
    phase = "idle" /\ Len(list) > Num =>
        /\ Len(res) = Num
        /\ \A j, k \in DOMAIN res : j < k => Distance(res[j]) < Distance(res[k])
        /\ \A m \in ToSet(list) \ ToSet(res), k \in DOMAIN res :
                Distance(res[k]) < Distance(m)

\* The walk ends within one round, wherever it starts, although the condition
\* of its loop alone would not end it when it starts at index 0.
WalkEndsInARound == phase = "walk" => walked < RingLen

\* consistent.go:15: few keys get remapped.  As long as no two instances share
\* a point, an instance that leaves takes no other instance out of the subset,
\* and one that joins brings no other in: connections are not dropped without
\* need.
Disjoint(insts) == \A m, o \in insts : m # o => hash[m] \cap hash[o] = {}

SubsetStable ==
    phase = "idle" /\ Disjoint(ToSet(list) \cup ToSet(previous.list)) =>
        LET left == ToSet(previous.list) \ ToSet(list)
            joined == ToSet(list) \ ToSet(previous.list)
        IN  /\ joined = {} => ToSet(previous.res) \ left \subseteq ToSet(res)
            /\ left = {} => ToSet(res) \subseteq ToSet(previous.res) \cup joined
=============================================================================
