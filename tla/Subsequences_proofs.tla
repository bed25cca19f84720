------------------------ MODULE Subsequences_proofs ------------------------
(***************************************************************************)
(* Lemmas about what is kept of a sequence, for any sequence and any       *)
(* positions.  The induction they rest on is one over sets of numbers.     *)
(***************************************************************************)
EXTENDS Subsequences, FiniteSetTheorems, SequenceTheorems, TLAPS

-----------------------------------------------------------------------------
(* Induction *)

\* A set of numbers that is not empty has a least one.
LEMMA LeastNumber ==
  ASSUME NEW T \in SUBSET Nat, T # {}
  PROVE  \E m \in T : \A k \in T : m <= k
  <1> DEFINE upTo(n) == 0..n
             R == StrictSubsetOrdering(Nat)
             Below == {upTo(n) : n \in T}
  <1>1. \A n \in T : IsFiniteSet(upTo(n)) /\ upTo(n) \in SUBSET Nat
    BY FS_Interval
  <1>2. Below \subseteq FiniteSubsetsOf(Nat) /\ Below # {}
    BY <1>1 DEF FiniteSubsetsOf
  <1>3. IsWellFoundedOn(R, FiniteSubsetsOf(Nat))
    BY FS_StrictSubsetOrderingWellFounded
  <1>4. PICK x \in Below : \A y \in Below : ~(<<y, x>> \in R)
    <2> HIDE DEF R, Below
    <2> QED BY <1>2, <1>3, WFMin
  <1>5. PICK m \in T : x = upTo(m)
    BY <1>4
  <1>6. ASSUME NEW k \in T PROVE m <= k
    <2> SUFFICES ASSUME k < m PROVE FALSE
      OBVIOUS
    <2>1. upTo(k) \subseteq upTo(m) /\ m \in upTo(m) /\ m \notin upTo(k)
      OBVIOUS
    <2>2. <<upTo(k), upTo(m)>> \in R
      BY <2>1, <1>1 DEF StrictSubsetOrdering
    <2>3. upTo(k) \in Below
      OBVIOUS
    <2> QED BY <1>4, <1>5, <2>2, <2>3
  <1> QED BY <1>6

\* What holds of 0 and of the number after each it holds of holds of all.
LEMMA InductionUpTo ==
  ASSUME NEW S, NEW m \in Nat, 0 \in S, \A n \in 0..m - 1 : n \in S => n + 1 \in S
  PROVE  0..m \subseteq S
  <1> SUFFICES ASSUME (0..m) \ S # {} PROVE FALSE
    OBVIOUS
  <1> DEFINE T == (0..m) \ S
  <1>1. PICK l \in T : \A k \in T : l <= k
    <2>1. T \in SUBSET Nat /\ T # {}
      OBVIOUS
    <2> HIDE DEF T
    <2> QED BY <2>1, LeastNumber
  <1>2. l \in 0..m /\ l # 0
    BY <1>1
  <1>3. l - 1 \in 0..m - 1 /\ l - 1 \in 0..m /\ ~(l <= l - 1) /\ l - 1 + 1 = l
    BY <1>2
  <1>4. l - 1 \in S
    BY <1>1, <1>3
  <1> QED BY <1>1, <1>3, <1>4

-----------------------------------------------------------------------------
(* What is kept *)

\* Taking the elements one by one: f[n] is what is kept of the first n.
Taking(f, s, P) ==
    f = [n \in 0..Len(s) |->
            IF n = 0 THEN <<>>
            ELSE IF n \in P THEN Append(f[n - 1], s[n]) ELSE f[n - 1]]

\* They can be taken.
LEMMA TakingExists ==
  ASSUME NEW S, NEW s \in Seq(S), NEW P
  PROVE  \E f : Taking(f, s, P)
  <1> DEFINE upTo(f, m) ==
               f = [n \in 0..m |-> IF n = 0 THEN <<>>
                                  ELSE IF n \in P THEN Append(f[n - 1], s[n]) ELSE f[n - 1]]
             T == {m \in Nat : \E f : upTo(f, m)}
  <1>1. 0 \in T
    <2> DEFINE f == [n \in 0..0 |-> <<>>]
    <2>1. upTo(f, 0)
      OBVIOUS
    <2> QED BY <2>1
  <1>2. ASSUME NEW m \in Nat, m \in T PROVE m + 1 \in T
    <2>1. PICK f : upTo(f, m)
      BY <1>2
    <2> DEFINE last == IF m + 1 \in P THEN Append(f[m], s[m + 1]) ELSE f[m]
               g == [n \in 0..m + 1 |-> IF n = m + 1 THEN last ELSE f[n]]
    <2>2. \A n \in 0..m : g[n] = f[n]
      OBVIOUS
    <2>3. ASSUME NEW n \in 0..m + 1
          PROVE  g[n] = IF n = 0 THEN <<>>
                        ELSE IF n \in P THEN Append(g[n - 1], s[n]) ELSE g[n - 1]
      <3>1. CASE n = m + 1
        <4>1. g[n - 1] = f[m] /\ g[n] = last /\ n # 0
          BY <3>1, <2>2
        <4> QED BY <4>1, <3>1
      <3>2. CASE n # m + 1
        <4>1. n \in 0..m /\ (n # 0 => n - 1 \in 0..m)
          BY <3>2
        <4>2. f[n] = IF n = 0 THEN <<>>
                     ELSE IF n \in P THEN Append(f[n - 1], s[n]) ELSE f[n - 1]
          BY <4>1, <2>1
        <4> QED BY <4>1, <4>2, <2>2
      <3> QED BY <3>1, <3>2
    <2>4. upTo(g, m + 1)
      <3> DEFINE e(n) == IF n = 0 THEN <<>>
                        ELSE IF n \in P THEN Append(g[n - 1], s[n]) ELSE g[n - 1]
      <3>1. g = [n \in 0..m + 1 |-> g[n]]
        OBVIOUS
      <3>2. \A n \in 0..m + 1 : g[n] = e(n)
        BY <2>3
      <3> HIDE DEF g
      <3>3. g = [n \in 0..m + 1 |-> e(n)]
        BY <3>1, <3>2
      <3> QED BY <3>3
    <2>5. \E h : upTo(h, m + 1)
      <3> HIDE DEF g, upTo
      <3> QED BY <2>4
    <2> HIDE DEF upTo
    <2> QED BY <2>5
  <1>3. Len(s) \in Nat
    OBVIOUS
  <1>4. Len(s) \in T
    <2> HIDE DEF T
    <2>1. 0..Len(s) \subseteq T
      BY <1>1, <1>2, <1>3, InductionUpTo
    <2> QED BY <2>1, <1>3
  <1> QED BY <1>4 DEF Taking

\* What is kept is what is taken in the end.
LEMMA KeptIsTaken ==
  ASSUME NEW S, NEW s \in Seq(S), NEW P
  PROVE  \E f : Taking(f, s, P) /\ Kept(s, P) = f[Len(s)]
  <1>1. Taking(CHOOSE f : Taking(f, s, P), s, P)
    BY TakingExists
  <1> QED BY <1>1 DEF Kept, Taking

\* t holds the elements of s at the positions of P up to n, in their order: pos
\* says where each of them is from.
From(pos, t, s, P, n) ==
    /\ pos \in [1..Len(t) -> P \cap (1..n)]
    /\ \A k \in 1..Len(t) : t[k] = s[pos[k]]
    /\ \A j, k \in 1..Len(t) : j < k => pos[j] < pos[k]
    /\ \A i \in P \cap (1..n) : \E k \in 1..Len(t) : pos[k] = i

\* One more position: not chosen, or chosen and appended.
LEMMA TakingOne ==
  ASSUME NEW S, NEW s \in Seq(S), NEW P, NEW n \in 0..Len(s) - 1,
         NEW t \in Seq(S), NEW pos, From(pos, t, s, P, n)
  PROVE  LET more == IF n + 1 \in P THEN Append(t, s[n + 1]) ELSE t
         IN  more \in Seq(S) /\ \E where : From(where, more, s, P, n + 1)
  <1>1. /\ Len(s) \in Nat /\ Len(t) \in Nat /\ n \in Nat /\ n + 1 \in 1..Len(s)
        /\ s[n + 1] \in S
    OBVIOUS
  <1>2. CASE n + 1 \notin P
    <2>1. P \cap (1..n + 1) = P \cap (1..n)
      BY <1>1, <1>2
    <2>2. From(pos, t, s, P, n + 1)
      BY <2>1 DEF From
    <2> QED BY <1>2, <2>2
  <1>3. CASE n + 1 \in P
    <2> DEFINE more == Append(t, s[n + 1])
               l == Len(t)
               where == [k \in 1..l + 1 |-> IF k = l + 1 THEN n + 1 ELSE pos[k]]
    <2>1. more \in Seq(S) /\ Len(more) = l + 1 /\ l \in Nat
      BY <1>1
    <2>2. more[l + 1] = s[n + 1] /\ \A k \in 1..l : more[k] = t[k]
      BY <1>1
    <2>3. \A k \in 1..l : pos[k] \in P /\ pos[k] \in 1..n
      BY DEF From
    <2>4. \A k \in 1..l + 1 : k = l + 1 \/ k \in 1..l
      BY <2>1
    <2>5. where[l + 1] = n + 1 /\ \A k \in 1..l : where[k] = pos[k]
      BY <2>1
    <2>6. \A k \in 1..l + 1 : where[k] \in P \cap (1..n + 1)
      <3> HIDE DEF where
      <3> QED BY <1>1, <1>3, <2>3, <2>4, <2>5
    <2>7. where \in [1..l + 1 -> P \cap (1..n + 1)]
      BY <2>6
    <2> HIDE DEF where, more, l
    <2>8. \A k \in 1..l + 1 : more[k] = s[where[k]]
      BY <2>2, <2>4, <2>5 DEF From, l
    <2>9. \A j, k \in 1..l + 1 : j < k => where[j] < where[k]
      <3> SUFFICES ASSUME NEW j \in 1..l + 1, NEW k \in 1..l + 1, j < k
                   PROVE  where[j] < where[k]
        OBVIOUS
      <3>1. j \in 1..l
        BY <2>1
      <3>2. CASE k = l + 1
        BY <1>1, <2>3, <2>5, <3>1, <3>2
      <3>3. CASE k \in 1..l
        BY <2>5, <3>1, <3>3 DEF From, l
      <3> QED BY <2>4, <3>2, <3>3
    <2>10. \A i \in P \cap (1..n + 1) : \E k \in 1..l + 1 : where[k] = i
      <3> SUFFICES ASSUME NEW i \in P \cap (1..n + 1)
                   PROVE  \E k \in 1..l + 1 : where[k] = i
        OBVIOUS
      <3>1. CASE i = n + 1
        BY <2>1, <2>5, <3>1
      <3>2. CASE i # n + 1
        <4>1. i \in P \cap (1..n)
          BY <1>1, <3>2
        <4>2. PICK k \in 1..l : pos[k] = i
          BY <4>1 DEF From, l
        <4> QED BY <2>1, <2>5, <4>2
      <3> QED BY <3>1, <3>2
    <2>11. From(where, more, s, P, n + 1)
      BY <2>1, <2>7, <2>8, <2>9, <2>10 DEF From
    <2> QED BY <1>3, <2>1, <2>11 DEF more
  <1> QED BY <1>2, <1>3

\* What is kept are the elements at the chosen positions, in their order, each
\* position once.
LEMMA KeptFrom ==
  ASSUME NEW S, NEW s \in Seq(S), NEW P
  PROVE  /\ Kept(s, P) \in Seq(S)
         /\ \E pos : From(pos, Kept(s, P), s, P, Len(s))
  <1>1. PICK f : Taking(f, s, P) /\ Kept(s, P) = f[Len(s)]
    BY KeptIsTaken
  <1> DEFINE T == {n \in 0..Len(s) : f[n] \in Seq(S) /\ \E pos : From(pos, f[n], s, P, n)}
  <1>2. Len(s) \in Nat
    OBVIOUS
  <1>3. 0 \in T
    <2>1. f[0] = <<>>
      BY <1>1, <1>2 DEF Taking
    <2> DEFINE none == [k \in 1..0 |-> 0]
    <2>2. From(none, <<>>, s, P, 0)
      BY DEF From
    <2>3. <<>> \in Seq(S) /\ 0 \in 0..Len(s)
      BY <1>2
    <2> HIDE DEF none
    <2> QED BY <2>1, <2>2, <2>3
  <1>4. ASSUME NEW n \in 0..Len(s) - 1, n \in T PROVE n + 1 \in T
    <2>1. n + 1 \in 0..Len(s) /\ n + 1 # 0 /\ n + 1 - 1 = n
      BY <1>2
    <2>2. f[n + 1] = IF n + 1 \in P THEN Append(f[n], s[n + 1]) ELSE f[n]
      <3> DEFINE m == n + 1
      <3>1. f[m] = IF m = 0 THEN <<>>
                   ELSE IF m \in P THEN Append(f[m - 1], s[m]) ELSE f[m - 1]
        <4> HIDE DEF m
        <4> QED BY <1>1, <2>1 DEF Taking, m
      <3> QED BY <2>1, <3>1
    <2>3. f[n] \in Seq(S) /\ \E pos : From(pos, f[n], s, P, n)
      BY <1>4
    <2>4. f[n + 1] \in Seq(S) /\ \E pos : From(pos, f[n + 1], s, P, n + 1)
      BY <2>2, <2>3, TakingOne
    <2> QED BY <2>1, <2>4
  <1>5. Len(s) \in T
    <2> HIDE DEF T
    <2>1. 0..Len(s) \subseteq T
      BY <1>2, <1>3, <1>4, InductionUpTo
    <2> QED BY <1>2, <2>1
  <1> QED BY <1>1, <1>5

\* When every position is chosen, all is kept.
LEMMA KeptWhole ==
  ASSUME NEW S, NEW s \in Seq(S)
  PROVE  Kept(s, DOMAIN s) = s
  <1>1. PICK f : Taking(f, s, DOMAIN s) /\ Kept(s, DOMAIN s) = f[Len(s)]
    BY KeptIsTaken
  <1>2. Len(s) \in Nat /\ DOMAIN s = 1..Len(s) /\ \A i \in 1..Len(s) : s[i] \in S
    OBVIOUS
  <1> DEFINE n == Len(s)
             T == {k \in 0..n : /\ f[k] \in Seq(S) /\ Len(f[k]) = k
                                /\ \A i \in 1..k : f[k][i] = s[i]}
  <1>3. 0 \in T
    <2>1. f[0] = <<>>
      BY <1>1, <1>2 DEF Taking
    <2>2. <<>> \in Seq(S) /\ Len(<<>>) = 0 /\ 0 \in 0..n
      BY <1>2
    <2>3. \A i \in 1..0 : <<>>[i] = s[i]
      OBVIOUS
    <2> HIDE DEF n
    <2> QED BY <2>1, <2>2, <2>3
  <1>4. ASSUME NEW k \in 0..n - 1, k \in T PROVE k + 1 \in T
    <2>1. k + 1 \in 1..n /\ k + 1 \in 0..n /\ k + 1 # 0 /\ k + 1 - 1 = k
      BY <1>2
    <2>2. f[k + 1] = Append(f[k], s[k + 1])
      <3> DEFINE m == k + 1
      <3>1. f[m] = IF m = 0 THEN <<>>
                   ELSE IF m \in DOMAIN s THEN Append(f[m - 1], s[m]) ELSE f[m - 1]
        <4> HIDE DEF m
        <4> QED BY <1>1, <2>1 DEF Taking, m
      <3> QED BY <1>2, <2>1, <3>1
    <2>3. f[k] \in Seq(S) /\ Len(f[k]) = k /\ \A i \in 1..k : f[k][i] = s[i]
      BY <1>4
    <2>4. s[k + 1] \in S
      BY <1>2, <2>1
    <2> DEFINE g == f[k]
               x == s[k + 1]
    <2> HIDE DEF g, x
    <2>5. /\ Append(g, x) \in Seq(S) /\ Len(Append(g, x)) = k + 1
          /\ Append(g, x)[k + 1] = x /\ \A i \in 1..k : Append(g, x)[i] = g[i]
      BY <2>3, <2>4 DEF g, x
    <2>6. \A i \in 1..k + 1 : f[k + 1][i] = s[i]
      <3>1. \A i \in 1..k + 1 : i = k + 1 \/ i \in 1..k
        BY <2>1
      <3> QED BY <2>2, <2>3, <2>5, <3>1 DEF g, x
    <2> QED BY <2>1, <2>2, <2>5, <2>6 DEF g, x
  <1>5. n \in T
    <2> HIDE DEF T
    <2>1. 0..n \subseteq T
      BY <1>2, <1>3, <1>4, InductionUpTo
    <2> QED BY <1>2, <2>1
  <1>6. f[n] \in Seq(S) /\ Len(f[n]) = n /\ \A i \in 1..n : f[n][i] = s[i]
    BY <1>5
  <1> DEFINE t == f[n]
  <1> HIDE DEF t, n
  <1>7. t = s
    BY <1>2, <1>6 DEF t, n
  <1> QED BY <1>1, <1>7 DEF t, n

-----------------------------------------------------------------------------
(* When a sequence is part of a longer one *)

\* What always rises from one number to the next is never below it.
LEMMA RisingIsAbove ==
  ASSUME NEW n \in Nat, NEW g \in [1..n -> Nat \ {0}],
         \A j, k \in 1..n : j < k => g[j] < g[k]
  PROVE  \A k \in 1..n : k <= g[k]
  <1> DEFINE T == {k \in 0..n : k = 0 \/ k <= g[k]}
  <1>1. 0 \in T
    OBVIOUS
  <1>2. ASSUME NEW k \in 0..n - 1, k \in T PROVE k + 1 \in T
    <2>1. k + 1 \in 1..n /\ g[k + 1] \in Nat \ {0} /\ k \in Nat
      OBVIOUS
    <2>2. CASE k = 0
      BY <2>1, <2>2
    <2>3. CASE k # 0
      <3>1. k \in 1..n /\ k < k + 1 /\ k <= g[k] /\ g[k] \in Nat
        BY <1>2, <2>3
      <3>2. g[k] < g[k + 1]
        BY <2>1, <3>1
      <3> QED BY <2>1, <3>1, <3>2
    <2> QED BY <2>2, <2>3
  <1>3. 0..n \subseteq T
    <2> HIDE DEF T
    <2> QED BY <1>1, <1>2, InductionUpTo
  <1> QED BY <1>3

\* s is found in t, its elements in their order, perhaps with others between.
LiesIn(e, s, t) ==
    /\ e \in [DOMAIN s -> DOMAIN t]
    /\ \A i \in DOMAIN s : t[e[i]] = s[i]
    /\ \A i, j \in DOMAIN s : i < j => e[i] < e[j]

\* Then so is what is kept of it, if it is also kept of the longer one, and no
\* element lies nearer there.
LEMMA KeptLiesIn ==
  ASSUME NEW S, NEW s \in Seq(S), NEW t \in Seq(S), NEW P, NEW Q,
         NEW e, LiesIn(e, s, t), \A i \in P \cap DOMAIN s : e[i] \in Q
  PROVE  \A k \in DOMAIN Kept(s, P) :
            \E l \in DOMAIN Kept(t, Q) : l >= k /\ Kept(t, Q)[l] = Kept(s, P)[k]
  <1> DEFINE m == Kept(s, P)
             w == Kept(t, Q)
  <1>1. m \in Seq(S) /\ w \in Seq(S)
    BY KeptFrom
  <1>2. PICK pos : From(pos, m, s, P, Len(s))
    BY KeptFrom
  <1>3. PICK qos : From(qos, w, t, Q, Len(t))
    BY KeptFrom
  <1> HIDE DEF m, w
  <1>4. /\ DOMAIN m = 1..Len(m) /\ Len(m) \in Nat /\ DOMAIN w = 1..Len(w) /\ Len(w) \in Nat
        /\ DOMAIN s = 1..Len(s) /\ Len(s) \in Nat /\ DOMAIN t = 1..Len(t) /\ Len(t) \in Nat
    BY <1>1
  <1>5. \A k \in 1..Len(m) : pos[k] \in P /\ pos[k] \in 1..Len(s) /\ m[k] = s[pos[k]]
    BY <1>2 DEF From
  <1>6. \A k \in 1..Len(w) : qos[k] \in Q /\ qos[k] \in 1..Len(t) /\ w[k] = t[qos[k]]
    BY <1>3 DEF From
  <1>7. ASSUME NEW k \in 1..Len(m) PROVE \E l \in 1..Len(w) : qos[l] = e[pos[k]]
    <2>1. e[pos[k]] \in Q \cap (1..Len(t))
      BY <1>4, <1>5 DEF LiesIn
    <2> QED BY <1>3, <2>1 DEF From
  <1> DEFINE place(k) == CHOOSE l \in 1..Len(w) : qos[l] = e[pos[k]]
             g == [k \in 1..Len(m) |-> place(k)]
  <1>8. \A k \in 1..Len(m) : place(k) \in 1..Len(w) /\ qos[place(k)] = e[pos[k]]
    BY <1>7
  <1> HIDE DEF place
  <1>9. g \in [1..Len(m) -> Nat \ {0}] /\ \A k \in 1..Len(m) : g[k] = place(k)
    BY <1>4, <1>8
  <1> HIDE DEF g
  <1>10. ASSUME NEW j \in 1..Len(m), NEW k \in 1..Len(m), j < k PROVE g[j] < g[k]
    <2>1. pos[j] < pos[k]
      BY <1>2, <1>10 DEF From
    <2>2. qos[g[j]] < qos[g[k]]
      BY <1>4, <1>5, <1>8, <1>9, <2>1 DEF LiesIn
    <2>3. g[j] \in 1..Len(w) /\ g[k] \in 1..Len(w)
      BY <1>8, <1>9
    <2>4. CASE g[k] < g[j]
      <3>1. qos[g[k]] < qos[g[j]]
        BY <1>3, <2>3, <2>4 DEF From
      <3> QED BY <1>6, <2>2, <2>3, <3>1
    <2>5. CASE g[k] = g[j]
      BY <1>6, <2>2, <2>3, <2>5
    <2> QED BY <1>4, <2>3, <2>4, <2>5
  <1>11. \A k \in 1..Len(m) : k <= g[k]
    BY <1>4, <1>9, <1>10, RisingIsAbove
  <1>12. ASSUME NEW k \in DOMAIN m PROVE \E l \in DOMAIN w : l >= k /\ w[l] = m[k]
    <2>1. k \in 1..Len(m)
      BY <1>4
    <2>2. g[k] \in DOMAIN w /\ g[k] >= k
      BY <1>4, <1>8, <1>9, <1>11, <2>1
    <2>3. w[g[k]] = t[e[pos[k]]] /\ m[k] = s[pos[k]] /\ pos[k] \in DOMAIN s
      BY <1>4, <1>5, <1>6, <1>8, <1>9, <2>1
    <2>4. w[g[k]] = m[k]
      BY <2>3 DEF LiesIn
    <2> QED BY <2>2, <2>4
  <1> QED BY <1>12 DEF m, w
=============================================================================
