------------------------ MODULE Conversation_proofs -------------------------
(***************************************************************************)
(* Proofs about Conversation, for any messages, edits and tools, and about *)
(* CacheSim, for any sessions, limits and order of observations.           *)
(*                                                                         *)
(* The conversion: streaks of one role become turns (StreakRole, NextStreak), *)
(* and the repair leaves as calls those that had a result in the history or *)
(* have one in the current message, and as results exactly theirs          *)
(* (ConvertForm).  The edits: what is cleared is older than what the last  *)
(* message answers (GoneAreOld), so the question and its call stay at the  *)
(* end (Poised).  A regular conversation is converted message by message   *)
(* (ConvertOrdered), so the next request begins with the last one.  The    *)
(* cache: what left the table had expired, or as many sessions as the      *)
(* least capacity were seen after it.                                      *)
(***************************************************************************)
EXTENDS Conversation, CacheSim, FiniteSetTheorems, SequenceTheorems, WellFoundedInduction,
        TLAPS

(* Least elements and induction. *)

\* Every inhabited set of naturals has a least element: its initial segments are
\* finite sets, on which strict inclusion is well founded.
LEMMA LeastNat ==
    ASSUME NEW T \in SUBSET Nat, T # {}
    PROVE  \E m \in T : \A k \in T : m <= k
<1> DEFINE U == {0 .. n : n \in T}
           R == StrictSubsetOrdering(Nat)
<1>1. U \subseteq FiniteSubsetsOf(Nat) /\ U # {}
  <2>1. ASSUME NEW n \in T PROVE 0 .. n \in FiniteSubsetsOf(Nat)
    BY FS_Interval DEF FiniteSubsetsOf
  <2> QED BY <2>1
<1>2. IsWellFoundedOn(R, FiniteSubsetsOf(Nat))
  BY FS_StrictSubsetOrderingWellFounded
<1> HIDE DEF U, R
<1>3. PICK x \in U : \A y \in U : ~(<<y, x>> \in R)
  BY <1>1, <1>2, WFMin
<1>4. PICK m \in T : x = 0 .. m
  BY DEF U
<1>5. ASSUME NEW k \in T, k < m PROVE FALSE
  <2>1. 0 .. k \in U /\ 0 .. k \subseteq 0 .. m /\ 0 .. k # 0 .. m
    BY <1>4, <1>5 DEF U
  <2>2. <<0 .. k, 0 .. m>> \in R
    BY <2>1 DEF R, StrictSubsetOrdering
  <2> QED BY <1>3, <1>4, <2>1, <2>2
<1> QED BY <1>5

\* A set with 0 and the successor of each of its members holds every natural.
LEMMA Induction ==
    ASSUME NEW T \in SUBSET Nat, 0 \in T, \A k \in T : k + 1 \in T
    PROVE  \A k \in Nat : k \in T
<1> SUFFICES ASSUME NEW k \in Nat \ T PROVE FALSE
  OBVIOUS
<1>1. PICK m \in Nat \ T : \A l \in Nat \ T : m <= l
  BY LeastNat
<1>2. m # 0 /\ m - 1 \in Nat /\ (m - 1) + 1 = m
  BY <1>1
<1>3. m - 1 \in T
  BY <1>1, <1>2
<1> QED BY <1>1, <1>2, <1>3

\* The values of f come one from the other, from a on.
IsChain(f, a, n, G) == f[0] = a /\ \A k \in 1 .. n : f[k] = G[k][f[k - 1]]

\* Such values exist, whatever the functions on A are.
LEMMA ChainExists ==
    ASSUME NEW n \in Nat, NEW A, NEW a \in A, NEW G \in [1 .. n -> [A -> A]]
    PROVE  \E f \in [0 .. n -> A] : IsChain(f, a, n, G)
<1> DEFINE P(m) == \E f \in [0 .. m -> A] : f[0] = a /\ \A k \in 1 .. m : f[k] = G[k][f[k - 1]]
           T == {m \in Nat : m <= n => P(m)}
<1>1. 0 \in T
  <2> DEFINE f == [k \in 0 .. 0 |-> a]
  <2>1. f \in [0 .. 0 -> A] /\ f[0] = a /\ \A k \in 1 .. 0 : f[k] = G[k][f[k - 1]]
    OBVIOUS
  <2>2. P(0)
    BY <2>1
  <2> QED BY <2>2
<1>2. ASSUME NEW m \in Nat, P(m), m + 1 <= n PROVE P(m + 1)
  <2>1. PICK f \in [0 .. m -> A] : f[0] = a /\ \A k \in 1 .. m : f[k] = G[k][f[k - 1]]
    BY <1>2
  <2> DEFINE g == [k \in 0 .. m + 1 |-> IF k = m + 1 THEN G[m + 1][f[m]] ELSE f[k]]
  <2>2. m + 1 \in 1 .. n /\ m \in 0 .. m
    BY <1>2
  <2>3. G[m + 1][f[m]] \in A
    BY <2>1, <2>2
  <2>4. g \in [0 .. m + 1 -> A]
    BY <2>1, <2>3
  <2>5. g[0] = a /\ g[m + 1] = G[m + 1][f[m]] /\ \A k \in 0 .. m : g[k] = f[k]
    BY <2>1, <1>2
  <2>6. ASSUME NEW k \in 1 .. m + 1 PROVE g[k] = G[k][g[k - 1]]
    <3>1. CASE k = m + 1
      BY <2>5, <3>1, <2>2
    <3>2. CASE k # m + 1
      <4>1. k \in 1 .. m /\ k \in 0 .. m /\ k - 1 \in 0 .. m
        BY <3>2
      <4> HIDE DEF g
      <4> QED BY <4>1, <2>1, <2>5
    <3> QED BY <3>1, <3>2
  <2> HIDE DEF g
  <2> QED BY <2>4, <2>5, <2>6
<1> HIDE DEF P
<1>3. \A k \in T : k + 1 \in T
  BY <1>2
<1>4. n \in T
  BY <1>1, <1>3, Induction
<1>5. P(n)
  BY <1>4
<1> QED BY <1>5 DEF P, IsChain

-----------------------------------------------------------------------------
(* The elements at some positions. *)

\* r holds the elements of s at the positions in K, p says where each is from.
Picks(p, s, K, r) ==
    /\ p \in [1 .. Len(r) -> K]
    /\ \A i, j \in 1 .. Len(r) : i < j => p[i] < p[j]
    /\ \A k \in K : \E i \in 1 .. Len(r) : p[i] = k
    /\ \A i \in 1 .. Len(r) : r[i] = s[p[i]]

AtChain(f, s, K) ==
    /\ f[0] = <<>> /\ At(s, K) = f[Len(s)]
    /\ \A k \in 1 .. Len(s) : f[k] = IF k \in K THEN Append(f[k - 1], s[k]) ELSE f[k - 1]

LEMMA AtSteps ==
    ASSUME NEW S, NEW s \in Seq(S), NEW K
    PROVE  \E f \in [0 .. Len(s) -> Seq(S)] : AtChain(f, s, K)
<1> DEFINE G == [k \in 1 .. Len(s) |->
                    [r \in Seq(S) |-> IF k \in K THEN Append(r, s[k]) ELSE r]]
           Step(f) == [n \in 0 .. Len(s) |->
                          IF n = 0 THEN <<>>
                          ELSE IF n \in K THEN Append(f[n - 1], s[n]) ELSE f[n - 1]]
           h == CHOOSE f : f = Step(f)
<1>1. Len(s) \in Nat /\ <<>> \in Seq(S)
  OBVIOUS
<1>2. G \in [1 .. Len(s) -> [Seq(S) -> Seq(S)]]
  <2>1. ASSUME NEW k \in 1 .. Len(s), NEW r \in Seq(S)
        PROVE  (IF k \in K THEN Append(r, s[k]) ELSE r) \in Seq(S)
    OBVIOUS
  <2> QED BY <2>1
<1>3. \A k \in 1 .. Len(s) : \A r \in Seq(S) :
         G[k][r] = IF k \in K THEN Append(r, s[k]) ELSE r
  OBVIOUS
<1> HIDE DEF G
<1>4. PICK f \in [0 .. Len(s) -> Seq(S)] :
         f[0] = <<>> /\ \A k \in 1 .. Len(s) : f[k] = G[k][f[k - 1]]
  <2> HIDE DEF h
  <2>1. \E f \in [0 .. Len(s) -> Seq(S)] : IsChain(f, <<>>, Len(s), G)
    <3> DEFINE A == Seq(S)
               n == Len(s)
               e == <<>>
    <3>1. n \in Nat /\ e \in A /\ G \in [1 .. n -> [A -> A]]
      BY <1>1, <1>2
    <3> HIDE DEF A, n, e
    <3>2. \E f \in [0 .. n -> A] : IsChain(f, e, n, G)
      BY <3>1, ChainExists
    <3> QED BY <3>2 DEF A, n, e
  <2> QED BY <2>1 DEF IsChain
<1>5. ASSUME NEW k \in 1 .. Len(s)
      PROVE  f[k] = IF k \in K THEN Append(f[k - 1], s[k]) ELSE f[k - 1]
  <2>1. k - 1 \in 0 .. Len(s)
    OBVIOUS
  <2>2. f[k - 1] \in Seq(S)
    BY <1>4, <2>1
  <2> QED BY <1>3, <1>4, <2>2
<1>6. f = Step(f)
  <2> HIDE DEF h
  <2>1. f = [k \in 0 .. Len(s) |-> f[k]]
    BY <1>4
  <2>2. ASSUME NEW k \in 0 .. Len(s) PROVE f[k] = Step(f)[k]
    <3>1. CASE k = 0
      BY <1>4, <3>1
    <3>2. CASE k # 0
      <4>1. k \in 1 .. Len(s)
        BY <3>2
      <4> QED BY <1>5, <3>2, <4>1
    <3> QED BY <3>1, <3>2
  <2>3. Step(f) = [k \in 0 .. Len(s) |-> Step(f)[k]]
    OBVIOUS
  <2> HIDE DEF Step
  <2> QED BY <2>1, <2>2, <2>3
<1>7. h = Step(h)
  <2> HIDE DEF Step
  <2> QED BY <1>6
<1>8. At(s, K) = h[Len(s)]
  BY DEF At
<1> HIDE DEF h
<1> DEFINE T == {k \in Nat : k <= Len(s) => h[k] = f[k]}
<1>9. 0 \in T
  BY <1>4, <1>7
<1>10. ASSUME NEW k \in T PROVE k + 1 \in T
  <2> SUFFICES ASSUME k + 1 <= Len(s) PROVE h[k + 1] = f[k + 1]
    OBVIOUS
  <2>1. k \in Nat /\ k + 1 \in 1 .. Len(s) /\ k + 1 \in 0 .. Len(s) /\ (k + 1) - 1 = k /\ k + 1 # 0
    OBVIOUS
  <2>2. h[k] = f[k]
    BY <2>1
  <2>3. f[k + 1] = IF k + 1 \in K THEN Append(f[k], s[k + 1]) ELSE f[k]
    BY <1>5, <2>1
  <2>4. h[k + 1] = Step(h)[k + 1]
    BY <1>7
  <2>5. Step(h)[k + 1] = IF k + 1 \in K THEN Append(h[k], s[k + 1]) ELSE h[k]
    BY <2>1
  <2> QED BY <2>2, <2>3, <2>4, <2>5
<1>11. \A k \in Nat : k \in T
  <2> HIDE DEF T
  <2>1. T \in SUBSET Nat
    BY DEF T
  <2> QED BY <1>9, <1>10, <2>1, Induction
<1>12. h[Len(s)] = f[Len(s)]
  BY <1>1, <1>11
<1> QED BY <1>4, <1>5, <1>8, <1>12 DEF AtChain

LEMMA AppendTo ==
    ASSUME NEW S, NEW s \in Seq(S), NEW e \in S
    PROVE  /\ Append(s, e) \in Seq(S) /\ Len(Append(s, e)) = Len(s) + 1 /\ Len(s) \in Nat
           /\ Append(s, e)[Len(s) + 1] = e /\ \A i \in 1 .. Len(s) : Append(s, e)[i] = s[i]
OBVIOUS

\* One element more.
LEMMA PickOneMore ==
    ASSUME NEW S, NEW s \in Seq(S), NEW k \in 1 .. Len(s), NEW K \in SUBSET (1 .. k - 1),
           NEW r \in Seq(S), NEW p, Picks(p, s, K, r)
    PROVE  \E q : Picks(q, s, K \cup {k}, Append(r, s[k]))
<1> DEFINE n == Len(r)
           t == Append(r, s[k])
           q == [i \in 1 .. n + 1 |-> IF i = n + 1 THEN k ELSE p[i]]
<1>1. /\ n \in Nat /\ Len(t) = n + 1 /\ t[n + 1] = s[k] /\ k \in Nat
      /\ \A i \in 1 .. n : t[i] = r[i]
  <2>1. s[k] \in S
    OBVIOUS
  <2> QED BY <2>1, AppendTo
<1> HIDE DEF t
<1>2. /\ p \in [1 .. n -> K] /\ \A i \in 1 .. n : r[i] = s[p[i]]
      /\ \A i, j \in 1 .. n : i < j => p[i] < p[j]
      /\ \A l \in K : \E i \in 1 .. n : p[i] = l
  BY DEF Picks
<1> HIDE DEF n
<1>3. q[n + 1] = k /\ \A i \in 1 .. n : q[i] = p[i]
  BY <1>1
<1>4. \A i \in 1 .. n : p[i] \in K /\ p[i] \in Nat /\ p[i] < k
  <2>1. \A l \in K : l \in Nat /\ l < k
    BY <1>1
  <2> QED BY <1>2, <2>1
<1>5. n + 1 \in 1 .. n + 1 /\ \A i \in 1 .. n + 1 : i = n + 1 \/ i \in 1 .. n
  BY <1>1
<1>6. q \in [1 .. Len(t) -> K \cup {k}]
  BY <1>1, <1>2, <1>5
<1> HIDE DEF q
<1>7. \A i, j \in 1 .. Len(t) : i < j => q[i] < q[j]
  <2> SUFFICES ASSUME NEW i \in 1 .. n + 1, NEW j \in 1 .. n + 1, i < j PROVE q[i] < q[j]
    BY <1>1
  <2>1. i \in 1 .. n
    BY <1>1
  <2>2. CASE j = n + 1
    BY <1>3, <1>4, <2>1, <2>2
  <2>3. CASE j \in 1 .. n
    BY <1>2, <1>3, <2>1, <2>3
  <2> QED BY <1>5, <2>2, <2>3
<1>8. \A l \in K \cup {k} : \E i \in 1 .. Len(t) : q[i] = l
  <2>1. 1 .. n \subseteq 1 .. n + 1
    BY <1>1
  <2> QED BY <1>1, <1>2, <1>3, <1>5, <2>1
<1>9. \A i \in 1 .. Len(t) : t[i] = s[q[i]]
  BY <1>1, <1>2, <1>3, <1>5
<1> QED BY <1>6, <1>7, <1>8, <1>9 DEF Picks, t

\* What At yields: the elements at these positions, each once, in their order.
LEMMA AtPicks ==
    ASSUME NEW S, NEW s \in Seq(S), NEW K \in SUBSET (DOMAIN s)
    PROVE  At(s, K) \in Seq(S) /\ \E p : Picks(p, s, K, At(s, K))
<1>0. PICK f \in [0 .. Len(s) -> Seq(S)] : AtChain(f, s, K)
  BY AtSteps
<1>1. /\ f \in [0 .. Len(s) -> Seq(S)] /\ f[0] = <<>> /\ At(s, K) = f[Len(s)]
      /\ \A k \in 1 .. Len(s) : f[k] = IF k \in K THEN Append(f[k - 1], s[k]) ELSE f[k - 1]
  BY <1>0 DEF AtChain
<1>2. Len(s) \in Nat /\ DOMAIN s = 1 .. Len(s)
  OBVIOUS
<1> DEFINE Upto(k) == K \cap (1 .. k)
           P(k) == \E p : Picks(p, s, Upto(k), f[k])
           T == {k \in Nat : k <= Len(s) => P(k)}
<1>3. 0 \in T
  <2> DEFINE p == [i \in 1 .. 0 |-> 0]
  <2>1. Upto(0) = {} /\ Len(f[0]) = 0
    BY <1>1
  <2>2. 1 .. Len(f[0]) = {}
    BY <2>1
  <2>3. p \in [{} -> {}]
    OBVIOUS
  <2>4. Picks(p, s, Upto(0), f[0])
    <3> HIDE DEF p
    <3> QED BY <2>1, <2>2, <2>3 DEF Picks
  <2> QED BY <2>4
<1>4. ASSUME NEW k \in T PROVE k + 1 \in T
  <2> SUFFICES ASSUME k + 1 <= Len(s) PROVE P(k + 1)
    OBVIOUS
  <2>1. /\ k \in Nat /\ k + 1 \in 1 .. Len(s) /\ k \in 0 .. Len(s)
        /\ (k + 1) - 1 = k
    BY <1>2
  <2>2. PICK p : Picks(p, s, Upto(k), f[k])
    <3>1. P(k)
      <4> HIDE DEF P
      <4> QED BY <2>1
    <3> HIDE DEF Upto
    <3> QED BY <3>1
  <2>3. f[k] \in Seq(S)
    BY <1>1, <2>1
  <2>4. CASE k + 1 \in K
    <3>1. Upto(k + 1) = Upto(k) \cup {k + 1} /\ Upto(k) \in SUBSET (1 .. (k + 1) - 1)
      BY <2>1, <2>4
    <3>2. f[k + 1] = Append(f[k], s[k + 1])
      BY <1>1, <2>1, <2>4
    <3>3. \E q : Picks(q, s, Upto(k) \cup {k + 1}, Append(f[k], s[k + 1]))
      <4> HIDE DEF Upto
      <4> QED BY <2>1, <2>2, <2>3, <3>1, PickOneMore
    <3> QED BY <3>1, <3>2, <3>3
  <2>5. CASE k + 1 \notin K
    <3>1. Upto(k + 1) = Upto(k)
      BY <2>1, <2>5
    <3>2. f[k + 1] = f[k]
      BY <1>1, <2>1, <2>5
    <3> QED BY <2>2, <3>1, <3>2
  <2> QED BY <2>4, <2>5
<1>5. Len(s) \in T
  <2> HIDE DEF P
  <2>1. T \in SUBSET Nat
    OBVIOUS
  <2> HIDE DEF T
  <2> QED BY <1>2, <1>3, <1>4, <2>1, Induction
<1>6. Upto(Len(s)) = K
  BY <1>2
<1>7. At(s, K) \in Seq(S)
  BY <1>1, <1>2
<1>8. P(Len(s))
  <2> HIDE DEF P
  <2> QED BY <1>2, <1>5
<1>9. \E p : Picks(p, s, K, f[Len(s)])
  <2> HIDE DEF Upto
  <2> QED BY <1>6, <1>8
<1> QED BY <1>1, <1>7, <1>9

\* Its elements.
LEMMA AtElements ==
    ASSUME NEW S, NEW s \in Seq(S), NEW K \in SUBSET (DOMAIN s)
    PROVE  /\ At(s, K) \in Seq(S)
           /\ \A i \in DOMAIN At(s, K) : \E k \in K : At(s, K)[i] = s[k]
           /\ \A k \in K : \E i \in DOMAIN At(s, K) : At(s, K)[i] = s[k]
           /\ ToSet(At(s, K)) = {s[k] : k \in K}
<1> DEFINE r == At(s, K)
<1>1. r \in Seq(S) /\ \E p : Picks(p, s, K, r)
  BY AtPicks
<1> HIDE DEF r
<1>2. PICK p : Picks(p, s, K, r)
  BY <1>1
<1>3. DOMAIN r = 1 .. Len(r)
  BY <1>1
<1>4. \A i \in DOMAIN r : p[i] \in K /\ r[i] = s[p[i]]
  BY <1>2, <1>3 DEF Picks
<1>5. \A k \in K : \E i \in DOMAIN r : p[i] = k
  BY <1>2, <1>3 DEF Picks
<1>6. \A k \in K : \E i \in DOMAIN r : r[i] = s[k]
  BY <1>4, <1>5
<1>7. ToSet(r) = {s[k] : k \in K}
  BY <1>4, <1>6 DEF ToSet
<1> QED BY <1>1, <1>4, <1>6, <1>7 DEF r

LEMMA AmongElements ==
    ASSUME NEW S, NEW s \in Seq(S), NEW A
    PROVE  Among(s, A) \in Seq(S) /\ ToSet(Among(s, A)) = ToSet(s) \cap A
<1> DEFINE K == {i \in DOMAIN s : s[i] \in A}
<1>1. K \in SUBSET (DOMAIN s)
  OBVIOUS
<1>2. {s[k] : k \in K} = ToSet(s) \cap A
  BY DEF ToSet
<1>3. Among(s, A) = At(s, K)
  BY DEF Among
<1> HIDE DEF K
<1> QED BY <1>1, <1>2, <1>3, AtElements

-----------------------------------------------------------------------------
(* One sequence after the other. *)

FlatChain(f, ss) ==
    /\ f[0] = <<>> /\ FlattenSeq(ss) = f[Len(ss)]
    /\ \A k \in 1 .. Len(ss) : f[k] = f[k - 1] \o ss[k]

LEMMA Joined ==
    ASSUME NEW S, NEW r \in Seq(S), NEW t \in Seq(S)
    PROVE  /\ r \o t \in Seq(S) /\ Len(r \o t) = Len(r) + Len(t)
           /\ \A i \in 1 .. Len(r) : (r \o t)[i] = r[i]
           /\ \A i \in 1 .. Len(t) : (r \o t)[Len(r) + i] = t[i]
OBVIOUS

LEMMA NothingBefore == ASSUME NEW S, NEW r \in Seq(S) PROVE <<>> \o r = r /\ r \o <<>> = r
OBVIOUS

LEMMA FlattenSteps ==
    ASSUME NEW S, NEW ss \in Seq(Seq(S))
    PROVE  \E f \in [0 .. Len(ss) -> Seq(S)] : FlatChain(f, ss)
<1> DEFINE A == Seq(S)
           n == Len(ss)
           e == <<>>
           G == [k \in 1 .. n |-> [r \in A |-> r \o ss[k]]]
           Step(f) == [i \in 1 .. n |-> IF i = 1 THEN ss[i] ELSE f[i - 1] \o ss[i]]
           h == CHOOSE f : f = Step(f)
<1>1. n \in Nat /\ e \in A /\ \A r \in A : e \o r = r
  BY NothingBefore
<1>2. \A k \in 1 .. n : ss[k] \in A
  OBVIOUS
<1>3. \A k \in 1 .. n : \A r \in A : r \o ss[k] \in A
  BY <1>2, Joined
<1>4. FlattenSeq(ss) = IF n = 0 THEN ss ELSE h[n]
  BY DEF FlattenSeq
<1>5. n = 0 => ss = e
  OBVIOUS
<1>6. G \in [1 .. n -> [A -> A]] /\ \A k \in 1 .. n : \A r \in A : G[k][r] = r \o ss[k]
  <2> HIDE DEF A, n
  <2> QED BY <1>3
<1> HIDE DEF A, n, e, G
<1>7. PICK f \in [0 .. n -> A] : IsChain(f, e, n, G)
  <2> HIDE DEF h, Step
  <2> QED BY <1>1, <1>6, ChainExists
<1>8. f[0] = e /\ \A k \in 1 .. n : f[k] = f[k - 1] \o ss[k] /\ f[k] \in A /\ f[k - 1] \in A
  <2>1. \A k \in 1 .. n : k - 1 \in 0 .. n /\ k \in 0 .. n
    BY <1>1
  <2>2. f[0] = e /\ \A k \in 1 .. n : f[k] = G[k][f[k - 1]]
    BY <1>7 DEF IsChain
  <2> QED BY <1>6, <1>7, <2>1, <2>2
<1> DEFINE g == [i \in 1 .. n |-> f[i]]
<1>9. g = Step(g)
  <2>1. ASSUME NEW i \in 1 .. n
        PROVE  f[i] = IF i = 1 THEN ss[i] ELSE g[i - 1] \o ss[i]
    <3>1. CASE i = 1
      <4>1. i - 1 = 0
        BY <3>1
      <4> QED BY <1>1, <1>2, <1>8, <3>1, <4>1
    <3>2. CASE i # 1
      <4>1. i - 1 \in 1 .. n
        BY <1>1, <3>2
      <4>2. g[i - 1] = f[i - 1]
        BY <4>1
      <4> QED BY <1>8, <3>2, <4>2
    <3> QED BY <3>1, <3>2
  <2> QED BY <2>1
<1>10. h = Step(h)
  <2> HIDE DEF Step
  <2> QED BY <1>9
<1> HIDE DEF h, g
<1> DEFINE T == {k \in Nat : k \in 1 .. n => h[k] = f[k]}
<1>11. 0 \in T
  BY <1>1
<1>12. ASSUME NEW k \in T PROVE k + 1 \in T
  <2> SUFFICES ASSUME k + 1 \in 1 .. n PROVE h[k + 1] = f[k + 1]
    OBVIOUS
  <2>1. h[k + 1] = IF k + 1 = 1 THEN ss[k + 1] ELSE h[(k + 1) - 1] \o ss[k + 1]
    <3>1. h[k + 1] = Step(h)[k + 1]
      BY <1>10
    <3> QED BY <3>1
  <2>2. f[k + 1] = f[(k + 1) - 1] \o ss[k + 1]
    BY <1>8
  <2>3. k \in Nat /\ (k + 1) - 1 = k
    OBVIOUS
  <2>4. CASE k = 0
    <3>1. k + 1 = 1 /\ (k + 1) - 1 = 0
      BY <2>4
    <3>2. ss[k + 1] \in A
      BY <1>2
    <3>3. f[k + 1] = e \o ss[k + 1]
      BY <1>8, <2>2, <3>1
    <3>4. h[k + 1] = ss[k + 1]
      BY <2>1, <3>1
    <3> QED BY <1>1, <3>2, <3>3, <3>4
  <2>5. CASE k # 0
    <3>1. k \in 1 .. n /\ k + 1 # 1
      BY <1>1, <2>3, <2>5
    <3>2. h[k] = f[k]
      BY <3>1
    <3> QED BY <2>1, <2>2, <2>3, <3>1, <3>2
  <2> QED BY <2>4, <2>5
<1>13. \A k \in Nat : k \in T
  <2>1. T \in SUBSET Nat
    OBVIOUS
  <2> HIDE DEF T
  <2> QED BY <1>11, <1>12, <2>1, Induction
<1>14. n # 0 => h[n] = f[n]
  BY <1>1, <1>13
<1>15. FlattenSeq(ss) = f[n]
  BY <1>1, <1>4, <1>5, <1>8, <1>14
<1>16. FlatChain(f, ss)
  BY <1>8, <1>15 DEF FlatChain, n, e
<1> QED BY <1>7, <1>16 DEF n, A

LEMMA FlattenTyped ==
    ASSUME NEW S, NEW ss \in Seq(Seq(S))
    PROVE  FlattenSeq(ss) \in Seq(S)
<1>1. PICK f \in [0 .. Len(ss) -> Seq(S)] : FlatChain(f, ss)
  BY FlattenSteps
<1>2. Len(ss) \in 0 .. Len(ss)
  OBVIOUS
<1> QED BY <1>1, <1>2 DEF FlatChain

-----------------------------------------------------------------------------
(* Messages and their edits. *)

Talk == Seq(Message)
Edit == [type : STRING, keep : Nat, exclude : SUBSET STRING, due : BOOLEAN]

LEMMA BlockKinds ==
    ASSUME NEW b \in Block
    PROVE  /\ b.type = "text" => b.text \in {"w", "_"}
           /\ b.type \in {"tool_use", "tool_result"} => b.id \in Id
           /\ b.type \in {"image", "tool_result"} => b.media \in BOOLEAN
BY DEF Block, Id

LEMMA MessageParts ==
    ASSUME NEW m \in Message
    PROVE  m.role \in {"user", "assistant"} /\ m.blocks \in Seq(Block)
BY DEF Message

LEMMA TalkParts ==
    ASSUME NEW ms \in Talk
    PROVE  /\ Len(ms) \in Nat /\ DOMAIN ms = 1 .. Len(ms)
           /\ \A i \in 1 .. Len(ms) : ms[i] \in Message
BY DEF Talk

LEMMA OfTypeTyped ==
    ASSUME NEW bs \in Seq(Block), NEW type
    PROVE  /\ OfType(bs, type) \in Seq(Block)
           /\ \A i \in DOMAIN OfType(bs, type) : OfType(bs, type)[i].type = type
<1> DEFINE K == {i \in DOMAIN bs : bs[i].type = type}
<1>1. OfType(bs, type) = At(bs, K) /\ K \in SUBSET (DOMAIN bs) /\ \A k \in K : bs[k].type = type
  BY DEF OfType
<1> HIDE DEF K
<1>2. /\ At(bs, K) \in Seq(Block)
      /\ \A i \in DOMAIN At(bs, K) : \E k \in K : At(bs, K)[i] = bs[k]
  BY <1>1, AtElements
<1> QED BY <1>1, <1>2

\* A function on the positions of a sequence is a sequence as long.
LEMMA MappedSeq ==
    ASSUME NEW S, NEW R, NEW s \in Seq(S), NEW f, f = [i \in DOMAIN s |-> f[i]],
           \A i \in DOMAIN s : f[i] \in R
    PROVE  f \in Seq(R) /\ Len(f) = Len(s) /\ DOMAIN f = DOMAIN s
<1>1. DOMAIN s = 1 .. Len(s) /\ Len(s) \in Nat
  OBVIOUS
<1>2. f \in [1 .. Len(s) -> R]
  BY <1>1
<1> QED BY <1>1, <1>2

LEMMA TextsTyped == ASSUME NEW bs \in Seq(Block) PROVE Texts(bs) \in Seq({"w", "_"})
<1> DEFINE ts == OfType(bs, "text")
           f == [i \in DOMAIN ts |-> ts[i].text]
<1>1. ts \in Seq(Block) /\ \A i \in DOMAIN ts : ts[i].type = "text"
  BY OfTypeTyped
<1>2. Texts(bs) = f
  BY DEF Texts
<1> HIDE DEF ts
<1>3. \A i \in DOMAIN ts : ts[i] \in Block
  BY <1>1
<1>4. \A i \in DOMAIN ts : f[i] \in {"w", "_"}
  BY <1>1, <1>3, BlockKinds
<1>5. f = [i \in DOMAIN ts |-> f[i]]
  OBVIOUS
<1> HIDE DEF f
<1> QED BY <1>1, <1>2, <1>4, <1>5, MappedSeq

LEMMA IdsTyped ==
    ASSUME NEW bs \in Seq(Block), NEW type \in {"tool_use", "tool_result"}
    PROVE  Ids(bs, type) \in Seq(Id)
<1> DEFINE ts == OfType(bs, type)
           f == [i \in DOMAIN ts |-> ts[i].id]
<1>1. ts \in Seq(Block) /\ \A i \in DOMAIN ts : ts[i].type = type
  BY OfTypeTyped
<1>2. Ids(bs, type) = f
  BY DEF Ids
<1> HIDE DEF ts
<1>3. \A i \in DOMAIN ts : ts[i] \in Block
  BY <1>1
<1>4. \A i \in DOMAIN ts : f[i] \in Id
  BY <1>1, <1>3, BlockKinds
<1>5. f = [i \in DOMAIN ts |-> f[i]]
  OBVIOUS
<1> HIDE DEF f
<1> QED BY <1>1, <1>2, <1>4, <1>5, MappedSeq

LEMMA BlocksTyped == ASSUME NEW ms \in Talk PROVE Blocks(ms) \in Seq(Block)
<1> DEFINE f == [i \in DOMAIN ms |-> ms[i].blocks]
<1>1. \A i \in DOMAIN ms : f[i] \in Seq(Block)
  BY TalkParts, MessageParts
<1>2. f = [i \in DOMAIN ms |-> f[i]] /\ Blocks(ms) = FlattenSeq(f)
  BY DEF Blocks
<1> HIDE DEF f
<1>3. ms \in Seq(Message)
  BY DEF Talk
<1>4. f \in Seq(Seq(Block))
  BY <1>1, <1>2, <1>3, MappedSeq
<1> QED BY <1>2, <1>4, FlattenTyped

\* Messages at some positions.
LEMMA AtTalk == ASSUME NEW ms \in Talk, NEW K \in SUBSET (DOMAIN ms) PROVE At(ms, K) \in Talk
<1>1. ms \in Seq(Message)
  BY DEF Talk
<1>2. At(ms, K) \in Seq(Message)
  BY <1>1, AtElements
<1> QED BY <1>2 DEF Talk

LEMMA AtBlocks ==
    ASSUME NEW bs \in Seq(Block), NEW K \in SUBSET (DOMAIN bs) PROVE At(bs, K) \in Seq(Block)
BY AtElements

LEMMA DropEmptyTyped == ASSUME NEW ms \in Talk PROVE DropEmpty(ms) \in Talk
BY AtTalk DEF DropEmpty

LEMMA WithoutTyped == ASSUME NEW bs \in Seq(Block), NEW gone PROVE Without(bs, gone) \in Seq(Block)
BY AtBlocks DEF Without

\* Messages with other blocks.
LEMMA OtherBlocks ==
    ASSUME NEW ms \in Talk, NEW f,
           f = [i \in DOMAIN ms |-> f[i]],
           \A i \in DOMAIN ms : \E bs \in Seq(Block) : f[i] = [ms[i] EXCEPT !.blocks = bs]
    PROVE  f \in Talk /\ Len(f) = Len(ms) /\ \A i \in DOMAIN ms : f[i].role = ms[i].role
<1>1. ASSUME NEW i \in DOMAIN ms PROVE f[i] \in Message /\ f[i].role = ms[i].role
  <2>1. PICK bs \in Seq(Block) : f[i] = [ms[i] EXCEPT !.blocks = bs]
    OBVIOUS
  <2>2. ms[i] \in Message
    BY TalkParts
  <2>3. [ms[i] EXCEPT !.blocks = bs] \in Message /\ [ms[i] EXCEPT !.blocks = bs].role = ms[i].role
    BY <2>2 DEF Message
  <2> QED BY <2>1, <2>3
<1>2. ms \in Seq(Message)
  BY DEF Talk
<1>3. f \in Seq(Message) /\ Len(f) = Len(ms)
  BY <1>1, <1>2, MappedSeq
<1> QED BY <1>1, <1>3 DEF Talk

LEMMA ClearToolUsesTyped ==
    ASSUME NEW ms \in Talk, NEW keep \in Nat, NEW exclude
    PROVE  ClearToolUses(ms, keep, exclude) \in Talk
<1> DEFINE ids  == Clearable(ms, exclude)
           gone == {ids[i] : i \in 1 .. Len(ids) - keep}
           f == [i \in DOMAIN ms |-> [ms[i] EXCEPT !.blocks = Without(@, gone)]]
<1>1. ClearToolUses(ms, keep, exclude) = IF gone = {} THEN ms ELSE DropEmpty(f)
  BY DEF ClearToolUses
<1> HIDE DEF gone
<1>2. ASSUME NEW i \in DOMAIN ms PROVE \E bs \in Seq(Block) : f[i] = [ms[i] EXCEPT !.blocks = bs]
  <2>1. ms[i].blocks \in Seq(Block)
    BY TalkParts, MessageParts
  <2>2. Without(ms[i].blocks, gone) \in Seq(Block)
    BY <2>1, WithoutTyped
  <2>3. f[i] = [ms[i] EXCEPT !.blocks = Without(ms[i].blocks, gone)]
    OBVIOUS
  <2> QED BY <2>2, <2>3
<1>3. f = [i \in DOMAIN ms |-> f[i]]
  OBVIOUS
<1> HIDE DEF f
<1>4. f \in Talk
  BY <1>2, <1>3, OtherBlocks
<1> QED BY <1>1, <1>4, DropEmptyTyped

LEMMA ClearThinkingTyped ==
    ASSUME NEW ms \in Talk, NEW keep \in Nat
    PROVE  ClearThinking(ms, keep) \in Talk
<1> DEFINE thinks == {i \in DOMAIN ms : ms[i].role = "assistant"
                                        /\ OfType(ms[i].blocks, "thinking") # <<>>}
           gone   == {i \in thinks : Cardinality({j \in thinks : j > i}) >= keep}
           Rest(bs) == At(bs, {i \in DOMAIN bs : bs[i].type # "thinking"})
           f == [i \in DOMAIN ms |-> IF i \in gone THEN [ms[i] EXCEPT !.blocks = Rest(@)] ELSE ms[i]]
<1>1. ClearThinking(ms, keep) = IF gone = {} THEN ms ELSE DropEmpty(f)
  BY DEF ClearThinking
<1>2. \A bs \in Seq(Block) : Rest(bs) \in Seq(Block)
  BY AtBlocks
<1> HIDE DEF gone, thinks, Rest
<1>3. ASSUME NEW i \in DOMAIN ms PROVE \E bs \in Seq(Block) : f[i] = [ms[i] EXCEPT !.blocks = bs]
  <2>1. ms[i].blocks \in Seq(Block) /\ ms[i] \in Message
    BY TalkParts, MessageParts
  <2>2. CASE i \in gone
    <3>1. f[i] = [ms[i] EXCEPT !.blocks = Rest(ms[i].blocks)]
      BY <2>2
    <3> QED BY <1>2, <2>1, <3>1
  <2>3. CASE i \notin gone
    <3>1. ms[i] = [ms[i] EXCEPT !.blocks = ms[i].blocks]
      BY <2>1 DEF Message
    <3> QED BY <2>1, <2>3, <3>1
  <2> QED BY <2>2, <2>3
<1>4. f = [i \in DOMAIN ms |-> f[i]]
  OBVIOUS
<1> HIDE DEF f
<1>5. f \in Talk
  BY <1>3, <1>4, OtherBlocks
<1> QED BY <1>1, <1>5, DropEmptyTyped

LEMMA ApplyTyped == ASSUME NEW ms \in Talk, NEW e \in Edit PROVE Apply(ms, e) \in Talk
<1>1. e.keep \in Nat
  BY DEF Edit
<1>2. ClearToolUses(ms, e.keep, e.exclude) \in Talk /\ ClearThinking(ms, e.keep) \in Talk
  BY <1>1, ClearToolUsesTyped, ClearThinkingTyped
<1> QED BY <1>2 DEF Apply

EditChain(f, ms, edits) ==
    /\ f[0] = ms /\ Edited(ms, edits) = f[Len(edits)]
    /\ \A k \in 1 .. Len(edits) : f[k] = Apply(f[k - 1], edits[k])

LEMMA EditSteps ==
    ASSUME NEW ms \in Talk, NEW edits \in Seq(Edit)
    PROVE  \E f \in [0 .. Len(edits) -> Talk] : EditChain(f, ms, edits)
<1> DEFINE n == Len(edits)
           G == [k \in 1 .. n |-> [r \in Talk |-> Apply(r, edits[k])]]
           Step(f) == [i \in 0 .. n |-> IF i = 0 THEN ms ELSE Apply(f[i - 1], edits[i])]
           h == CHOOSE f : f = Step(f)
<1>1. n \in Nat /\ \A k \in 1 .. n : edits[k] \in Edit
  OBVIOUS
<1>2. G \in [1 .. n -> [Talk -> Talk]] /\ \A k \in 1 .. n : \A r \in Talk : G[k][r] = Apply(r, edits[k])
  BY <1>1, ApplyTyped
<1>3. Edited(ms, edits) = h[n]
  BY DEF Edited
<1> HIDE DEF n, G
<1>4. PICK f \in [0 .. n -> Talk] : IsChain(f, ms, n, G)
  <2> HIDE DEF h, Step
  <2> QED BY <1>1, <1>2, ChainExists
<1>5. f[0] = ms /\ \A k \in 1 .. n : f[k] = Apply(f[k - 1], edits[k])
  <2>1. \A k \in 1 .. n : k - 1 \in 0 .. n
    BY <1>1
  <2>2. f[0] = ms /\ \A k \in 1 .. n : f[k] = G[k][f[k - 1]]
    BY <1>4 DEF IsChain
  <2> QED BY <1>2, <1>4, <2>1, <2>2
<1>6. f = Step(f)
  <2>1. ASSUME NEW i \in 0 .. n PROVE f[i] = IF i = 0 THEN ms ELSE Apply(f[i - 1], edits[i])
    <3>1. i # 0 => i \in 1 .. n
      BY <1>1
    <3> QED BY <1>5, <3>1
  <2> QED BY <1>4, <2>1
<1>7. h = Step(h)
  <2> HIDE DEF Step
  <2> QED BY <1>6
<1> HIDE DEF h
<1> DEFINE T == {k \in Nat : k <= n => h[k] = f[k]}
<1>8. 0 \in T
  BY <1>1, <1>5, <1>7
<1>9. ASSUME NEW k \in T PROVE k + 1 \in T
  <2> SUFFICES ASSUME k + 1 <= n PROVE h[k + 1] = f[k + 1]
    OBVIOUS
  <2>1. k \in Nat /\ k + 1 \in 1 .. n /\ k + 1 \in 0 .. n /\ (k + 1) - 1 = k /\ k + 1 # 0
    BY <1>1
  <2>2. h[k] = f[k]
    BY <1>1, <2>1
  <2>3. h[k + 1] = Step(h)[k + 1]
    BY <1>7
  <2>4. Step(h)[k + 1] = Apply(h[k], edits[k + 1])
    BY <2>1
  <2> QED BY <1>5, <2>1, <2>2, <2>3, <2>4
<1>10. \A k \in Nat : k \in T
  <2>1. T \in SUBSET Nat
    OBVIOUS
  <2> HIDE DEF T
  <2> QED BY <1>8, <1>9, <2>1, Induction
<1>11. h[n] = f[n]
  BY <1>1, <1>10
<1>12. EditChain(f, ms, edits)
  BY <1>3, <1>5, <1>11 DEF EditChain, n
<1> QED BY <1>4, <1>12 DEF n

LEMMA EditedTyped ==
    ASSUME NEW ms \in Talk, NEW edits \in Seq(Edit)
    PROVE  Edited(ms, edits) \in Talk
<1>1. PICK f \in [0 .. Len(edits) -> Talk] : EditChain(f, ms, edits)
  BY EditSteps
<1>2. Len(edits) \in 0 .. Len(edits)
  OBVIOUS
<1> QED BY <1>1, <1>2 DEF EditChain

-----------------------------------------------------------------------------
(* Turns. *)

\* A bounded set of naturals has a greatest element.
LEMMA GreatestNat ==
    ASSUME NEW n \in Nat, NEW T \in SUBSET (0 .. n), T # {}
    PROVE  \E m \in T : \A k \in T : k <= m
<1> DEFINE U == {n - k : k \in T}
<1>1. U \in SUBSET Nat /\ U # {}
  <2>1. ASSUME NEW k \in T PROVE n - k \in Nat
    OBVIOUS
  <2> QED BY <2>1
<1>2. PICK u \in U : \A v \in U : u <= v
  BY <1>1, LeastNat
<1>3. PICK m \in T : u = n - m
  OBVIOUS
<1>4. ASSUME NEW k \in T PROVE k <= m
  <2>1. n - m <= n - k
    BY <1>2, <1>3
  <2> QED BY <2>1
<1> QED BY <1>4

LEMMA SubSeqTyped ==
    ASSUME NEW S, NEW s \in Seq(S), NEW i \in 1 .. Len(s) + 1, NEW j \in i - 1 .. Len(s)
    PROVE  /\ SubSeq(s, i, j) \in Seq(S) /\ Len(SubSeq(s, i, j)) = j - i + 1
           /\ \A k \in 1 .. j - i + 1 : SubSeq(s, i, j)[k] = s[i + k - 1]
<1>1. j - i + 1 \in Nat /\ (IF j < i THEN 0 ELSE j - i + 1) = j - i + 1
  OBVIOUS
<1> QED BY <1>1, SubSeqProperties

LEMMA Wider == ASSUME NEW S, NEW T, S \subseteq T, NEW s \in Seq(S) PROVE s \in Seq(T)
OBVIOUS

LEMMA Single == ASSUME NEW S, NEW e \in S PROVE <<e>> \in Seq(S) /\ <<e>> # <<>>
OBVIOUS

\* The conversation that is converted ends with the user, or is empty.
LEMMA UpToUserEnds ==
    ASSUME NEW ms \in Talk
    PROVE  /\ UpToUser(ms) \in Talk /\ Len(UpToUser(ms)) <= Len(ms)
           /\ \A k \in 1 .. Len(UpToUser(ms)) : UpToUser(ms)[k] = ms[k]
           /\ UpToUser(ms) # <<>> => UpToUser(ms)[Len(UpToUser(ms))].role = "user"
           /\ \A j \in Len(UpToUser(ms)) + 1 .. Len(ms) : ms[j].role # "user"
<1> DEFINE n == Len(ms)
           Fits(i) == /\ i > 0 => ms[i].role = "user"
                      /\ \A j \in i + 1 .. n : ms[j].role # "user"
           T == {i \in 0 .. n : i > 0 /\ ms[i].role = "user"}
           c == CHOOSE i \in 0 .. n : Fits(i)
<1>1. n \in Nat /\ ms \in Seq(Message)
  BY TalkParts DEF Talk
<1>2. \E i \in 0 .. n : Fits(i)
  <2>1. CASE T = {}
    <3>1. 0 \in 0 .. n /\ Fits(0)
      BY <1>1, <2>1
    <3> QED BY <3>1
  <2>2. CASE T # {}
    <3>1. PICK m \in T : \A k \in T : k <= m
      <4>1. T \in SUBSET (0 .. n)
        OBVIOUS
      <4> HIDE DEF T, n
      <4> QED BY <1>1, <2>2, <4>1, GreatestNat
    <3>2. ASSUME NEW j \in m + 1 .. n PROVE ms[j].role # "user"
      <4>1. j \in 0 .. n /\ j > 0 /\ ~(j <= m)
        BY <1>1
      <4> QED BY <3>1, <4>1
    <3>3. m \in 0 .. n /\ Fits(m)
      BY <3>1, <3>2
    <3> QED BY <3>3
  <2> QED BY <2>1, <2>2
<1>3. c \in 0 .. n /\ Fits(c)
  <2> HIDE DEF Fits
  <2> QED BY <1>2
<1>4. UpToUser(ms) = SubSeq(ms, 1, c)
  BY DEF UpToUser
<1> HIDE DEF c
<1>5. 1 \in 1 .. n + 1 /\ c \in 1 - 1 .. n /\ c - 1 + 1 = c
  BY <1>1, <1>3
<1>6. /\ UpToUser(ms) \in Seq(Message) /\ Len(UpToUser(ms)) = c
      /\ \A k \in 1 .. c : UpToUser(ms)[k] = ms[1 + k - 1]
  BY <1>1, <1>4, <1>5, SubSeqTyped
<1>7. \A k \in 1 .. c : 1 + k - 1 = k
  BY <1>1, <1>3
<1>8. UpToUser(ms) # <<>> => c # 0
  BY <1>6
<1>9. c # 0 => c \in 1 .. c /\ c > 0
  BY <1>1, <1>3
<1> QED BY <1>1, <1>3, <1>6, <1>7, <1>8, <1>9 DEF Talk

\* What the upstream service asks of one turn.
Whole(t) ==
    /\ t.content = <<>> => t.role = "user" /\ ~t.media /\ t.results # <<>>
    /\ t.media => t.role = "user" /\ (Visible(t.content) \/ t.content = <<"please analyze">>)

Wholes == {t \in TurnRec : Whole(t)}

LEMMA TurnParts ==
    ASSUME NEW t \in TurnRec
    PROVE  /\ t.role \in {"user", "assistant"} /\ t.content \in Seq(Piece)
           /\ t.media \in BOOLEAN /\ t.results \in Seq(Id) /\ t.uses \in Seq(Id)
           /\ t.tools \in SUBSET Name
BY DEF TurnRec

LEMMA TurnTyped ==
    ASSUME NEW role \in {"user", "assistant"}, NEW content \in Seq(Piece), content # <<>>
    PROVE  Turn(role, content) \in Wholes /\ Turn(role, content).role = role
<1>1. /\ Turn(role, content).content = content /\ Turn(role, content).media = FALSE
      /\ Turn(role, content).role = role
  BY DEF Turn
<1>2. Turn(role, content) \in TurnRec
  BY DEF Turn, TurnRec
<1> QED BY <1>1, <1>2 DEF Wholes, Whole

LEMMA FilledTyped ==
    ASSUME NEW text \in Seq(Piece), NEW media \in BOOLEAN, NEW results
    PROVE  /\ Filled(text, media, results) \in Seq(Piece)
           /\ Filled(text, media, results) = <<>> => ~media /\ results # <<>>
           /\ media => \/ Visible(Filled(text, media, results))
                       \/ Filled(text, media, results) = <<"please analyze">>
<1>1. "please analyze" \in Piece /\ " " \in Piece
  BY DEF Piece
<1>2. /\ <<"please analyze">> \in Seq(Piece) /\ <<" ">> \in Seq(Piece)
      /\ <<"please analyze">> # <<>> /\ <<" ">> # <<>>
  BY <1>1, Single
<1>3. Visible(text) => text # <<>>
  BY DEF Visible
<1> QED BY <1>2, <1>3 DEF Filled

LEMMA TextsAreText == ASSUME NEW bs \in Seq(Block) PROVE Texts(bs) \in Seq(Piece)
<1>1. {"w", "_"} \subseteq Piece
  BY DEF Piece
<1> QED BY <1>1, TextsTyped, Wider

LEMMA HasMediaTyped == ASSUME NEW bs PROVE HasMedia(bs) \in BOOLEAN
BY DEF HasMedia

LEMMA UserTurnTyped ==
    ASSUME NEW bs \in Seq(Block), NEW results \in Seq(Id)
    PROVE  /\ UserTurn(bs, results) \in Wholes /\ UserTurn(bs, results).role = "user"
           /\ UserTurn(bs, results).uses = <<>> /\ UserTurn(bs, results).results = results
<1> DEFINE c == Filled(Texts(bs), HasMedia(bs), results)
           m == HasMedia(bs)
           u == UserTurn(bs, results)
<1>1. m \in BOOLEAN /\ Texts(bs) \in Seq(Piece)
  BY TextsAreText, HasMediaTyped
<1>2. /\ c \in Seq(Piece) /\ (c = <<>> => ~m /\ results # <<>>)
      /\ m => Visible(c) \/ c = <<"please analyze">>
  BY <1>1, FilledTyped
<1>3. u = [[role |-> "user", content |-> c, media |-> FALSE, results |-> <<>>,
            uses |-> <<>>, tools |-> {}] EXCEPT !.media = m, !.results = results]
  BY DEF UserTurn, Turn
<1> HIDE DEF c, m, u
<1>4. /\ u.role = "user" /\ u.content = c /\ u.media = m /\ u.results = results
      /\ u.uses = <<>> /\ u.tools = {}
  BY <1>3
<1>5. u \in TurnRec
  <2>1. u = [role |-> "user", content |-> c, media |-> m, results |-> results,
             uses |-> <<>>, tools |-> {}]
    BY <1>3
  <2>2. <<>> \in Seq(Id) /\ {} \in SUBSET Name
    OBVIOUS
  <2> QED BY <1>1, <1>2, <2>1, <2>2 DEF TurnRec
<1>6. u \in Wholes
  BY <1>2, <1>4, <1>5 DEF Wholes, Whole
<1> QED BY <1>4, <1>6 DEF u

LEMMA MergeUsersTyped ==
    ASSUME NEW ms \in Talk
    PROVE  MergeUsers(ms) \in Wholes /\ MergeUsers(ms).role = "user"
<1>1. Blocks(ms) \in Seq(Block)
  BY BlocksTyped
<1>2. Ids(Blocks(ms), "tool_result") \in Seq(Id)
  BY <1>1, IdsTyped
<1> QED BY <1>1, <1>2, UserTurnTyped DEF MergeUsers

LEMMA MergeAssistantsTyped ==
    ASSUME NEW ms \in Talk
    PROVE  MergeAssistants(ms) \in Wholes /\ MergeAssistants(ms).role = "assistant"
<1> DEFINE K == {i \in DOMAIN ms : Visible(Texts(ms[i].blocks))}
           said == IF Len(ms) = 1 THEN Texts(Blocks(ms)) ELSE Texts(Blocks(At(ms, K)))
           c == IF said = <<>> THEN <<" ">> ELSE said
           ids == Ids(Blocks(ms), "tool_use")
           u == MergeAssistants(ms)
<1>1. Blocks(ms) \in Seq(Block) /\ Blocks(At(ms, K)) \in Seq(Block)
  <2>1. At(ms, K) \in Talk
    BY AtTalk
  <2> HIDE DEF K
  <2> QED BY <2>1, BlocksTyped
<1>2. said \in Seq(Piece)
  <2>1. Texts(Blocks(ms)) \in Seq(Piece) /\ Texts(Blocks(At(ms, K))) \in Seq(Piece)
    <3> HIDE DEF K
    <3> QED BY <1>1, TextsAreText
  <2> HIDE DEF K
  <2> QED BY <2>1
<1>3. ids \in Seq(Id)
  BY <1>1, IdsTyped
<1>4. u = [[role |-> "assistant", content |-> c, media |-> FALSE, results |-> <<>>,
            uses |-> <<>>, tools |-> {}] EXCEPT !.uses = ids]
  BY DEF MergeAssistants, Turn
<1> HIDE DEF said, ids, u
<1>5. c \in Seq(Piece) /\ c # <<>>
  <2>1. " " \in Piece
    BY DEF Piece
  <2>2. <<" ">> \in Seq(Piece) /\ <<" ">> # <<>>
    BY <2>1, Single
  <2> QED BY <1>2, <2>2
<1> HIDE DEF c
<1>6. u.role = "assistant" /\ u.content = c /\ u.media = FALSE
  BY <1>4
<1>7. u \in TurnRec
  <2>1. u = [role |-> "assistant", content |-> c, media |-> FALSE, results |-> <<>>,
             uses |-> ids, tools |-> {}]
    BY <1>4
  <2>2. <<>> \in Seq(Id) /\ {} \in SUBSET Name
    OBVIOUS
  <2> QED BY <1>3, <1>5, <2>1, <2>2 DEF TurnRec
<1>8. u \in Wholes
  BY <1>5, <1>6, <1>7 DEF Wholes, Whole
<1> QED BY <1>6, <1>8 DEF u

-----------------------------------------------------------------------------
(* The history. *)

\* Where messages of another role begin, as in History.
StartsAt(ms) == {i \in DOMAIN ms : i = 1 \/ ms[i].role # ms[i - 1].role}
Starts(ms)   == At([i \in DOMAIN ms |-> i], StartsAt(ms))
StreakEnd(ms, k) == IF k < Len(Starts(ms)) THEN Starts(ms)[k + 1] - 1 ELSE Len(ms)

LEMMA StartsPick ==
    ASSUME NEW ms \in Talk
    PROVE  /\ Len(Starts(ms)) \in Nat
           /\ \A k \in 1 .. Len(Starts(ms)) : Starts(ms)[k] \in StartsAt(ms)
           /\ \A i, j \in 1 .. Len(Starts(ms)) : i < j => Starts(ms)[i] < Starts(ms)[j]
           /\ \A i \in StartsAt(ms) : \E k \in 1 .. Len(Starts(ms)) : Starts(ms)[k] = i
<1> DEFINE id == [i \in DOMAIN ms |-> i]
           K == StartsAt(ms)
           r == At(id, K)
<1>1. DOMAIN ms = 1 .. Len(ms) /\ Len(ms) \in Nat
  BY TalkParts
<1>2. id \in Seq(Nat) /\ DOMAIN id = DOMAIN ms /\ \A i \in DOMAIN ms : id[i] = i
  BY <1>1
<1>3. K \in SUBSET (DOMAIN ms)
  BY DEF StartsAt
<1>4. Starts(ms) = r
  BY DEF Starts
<1> HIDE DEF id, K
<1>5. r \in Seq(Nat) /\ \E p : Picks(p, id, K, r)
  BY <1>2, <1>3, AtPicks
<1> HIDE DEF r
<1>6. PICK p : Picks(p, id, K, r)
  BY <1>5
<1>7. Len(r) \in Nat
  BY <1>5
<1>8. \A k \in 1 .. Len(r) : p[k] \in K /\ r[k] = p[k]
  BY <1>2, <1>3, <1>6 DEF Picks
<1>9. \A i, j \in 1 .. Len(r) : i < j => r[i] < r[j]
  BY <1>6, <1>8 DEF Picks
<1>10. \A i \in K : \E k \in 1 .. Len(r) : r[k] = i
  BY <1>6, <1>8 DEF Picks
<1> QED BY <1>4, <1>7, <1>8, <1>9, <1>10 DEF K

LEMMA FirstStart ==
    ASSUME NEW ms \in Talk, Len(ms) > 0
    PROVE  Len(Starts(ms)) > 0 /\ Starts(ms)[1] = 1
<1>1. DOMAIN ms = 1 .. Len(ms) /\ Len(ms) \in Nat
  BY TalkParts
<1>2. 1 \in StartsAt(ms) /\ \A i \in StartsAt(ms) : i \in Nat /\ i >= 1
  BY <1>1 DEF StartsAt
<1> DEFINE r == Starts(ms)
<1>3. PICK k \in 1 .. Len(r) : r[k] = 1
  BY <1>2, StartsPick
<1>4. Len(r) \in Nat /\ 1 \in 1 .. Len(r)
  BY <1>3, StartsPick
<1>5. ASSUME k # 1 PROVE FALSE
  <2>1. r[1] < r[k]
    BY <1>4, <1>5, StartsPick
  <2>2. r[1] \in StartsAt(ms)
    BY <1>4, StartsPick
  <2> HIDE DEF r
  <2> QED BY <1>2, <1>3, <2>1, <2>2
<1> HIDE DEF r
<1>6. Len(r) > 0 /\ r[1] = 1
  BY <1>3, <1>4, <1>5
<1> QED BY <1>6 DEF r

\* A streak is a part of the conversation in which one role speaks.
LEMMA StreakRole ==
    ASSUME NEW ms \in Talk, NEW k \in 1 .. Len(Starts(ms))
    PROVE  /\ Starts(ms)[k] \in 1 .. Len(ms)
           /\ StreakEnd(ms, k) \in Starts(ms)[k] .. Len(ms)
           /\ \A j \in Starts(ms)[k] .. StreakEnd(ms, k) : ms[j].role = ms[Starts(ms)[k]].role
<1> DEFINE r == Starts(ms)
           n == Len(ms)
           e == StreakEnd(ms, k)
           K == StartsAt(ms)
<1>1. DOMAIN ms = 1 .. n /\ n \in Nat
  BY TalkParts
<1>2. /\ Len(r) \in Nat /\ \A i \in 1 .. Len(r) : r[i] \in K
      /\ \A i, j \in 1 .. Len(r) : i < j => r[i] < r[j]
      /\ \A i \in K : \E l \in 1 .. Len(r) : r[l] = i
  BY StartsPick
<1>3. K \in SUBSET (1 .. n) /\ \A i \in 1 .. n : i \notin K => i # 1 /\ ms[i].role = ms[i - 1].role
  BY <1>1 DEF StartsAt
<1>4. e = IF k < Len(r) THEN r[k + 1] - 1 ELSE n
  BY DEF StreakEnd
<1> HIDE DEF r, n, e, K
<1>5. k \in 1 .. Len(r)
  BY DEF r
<1>6. r[k] \in 1 .. n
  BY <1>2, <1>3, <1>5
<1>7. e \in r[k] .. n
  <2>1. CASE k < Len(r)
    <3>1. k + 1 \in 1 .. Len(r) /\ k < k + 1
      BY <1>2, <1>5, <2>1
    <3>2. r[k] < r[k + 1] /\ r[k + 1] \in 1 .. n
      BY <1>2, <1>3, <1>5, <3>1
    <3> QED BY <1>1, <1>4, <1>6, <2>1, <3>2
  <2>2. CASE ~(k < Len(r))
    BY <1>1, <1>4, <1>6, <2>2
  <2> QED BY <2>1, <2>2
<1>8. ASSUME NEW j \in r[k] .. e, ms[j].role # ms[r[k]].role PROVE FALSE
  <2> DEFINE T == {i \in r[k] .. e : ms[i].role # ms[r[k]].role}
  <2>1. T \in SUBSET Nat /\ T # {}
    BY <1>6, <1>7, <1>8
  <2>2. PICK m \in T : \A i \in T : m <= i
    BY <2>1, LeastNat
  <2>3. m \in r[k] .. e /\ ms[m].role # ms[r[k]].role
    BY <2>2
  <2>4. m \in 1 .. n /\ m - 1 \in r[k] .. e /\ r[k] < m
    <3>1. m # r[k]
      BY <2>3
    <3>2. m \in Nat /\ r[k] \in Nat /\ e \in Nat /\ e <= n /\ r[k] <= m /\ m <= e /\ 1 <= r[k]
      BY <1>1, <1>6, <1>7, <2>3
    <3> QED BY <1>1, <3>1, <3>2
  <2>5. m - 1 \notin T
    BY <2>2, <2>4, <1>6, <1>7
  <2>6. ms[m - 1].role = ms[r[k]].role
    BY <2>4, <2>5
  <2>7. m \in K
    BY <1>3, <2>3, <2>4, <2>6
  <2>8. PICK l \in 1 .. Len(r) : r[l] = m
    BY <1>2, <2>7
  <2>9. ~(l <= k)
    <3>1. l < k => r[l] < r[k]
      BY <1>2, <1>5
    <3> QED BY <1>2, <1>5, <1>6, <2>4, <2>8, <3>1
  <2>10. k < Len(r) /\ k + 1 \in 1 .. Len(r) /\ k + 1 <= l
    BY <1>2, <1>5, <2>8, <2>9
  <2>11. r[k + 1] <= r[l]
    <3>1. k + 1 < l => r[k + 1] < r[l]
      BY <1>2, <2>10
    <3>2. r[l] \in Nat /\ r[k + 1] \in Nat
      <4>1. \A i \in 1 .. Len(r) : r[i] \in 1 .. n
        BY <1>2, <1>3
      <4> QED BY <2>8, <2>10, <4>1
    <3>3. l \in Nat /\ k + 1 \in Nat
      BY <1>5, <2>8
    <3> QED BY <2>10, <3>1, <3>2, <3>3
  <2>12. e = r[k + 1] - 1 /\ r[k + 1] \in 1 .. n
    BY <1>2, <1>3, <1>4, <2>10
  <2> QED BY <1>1, <1>7, <2>3, <2>4, <2>8, <2>11, <2>12
<1>9. \A j \in r[k] .. e : ms[j].role = ms[r[k]].role
  BY <1>8
<1> QED BY <1>6, <1>7, <1>9 DEF r, e, n

\* The next streak is the other role's.
LEMMA NextStreak ==
    ASSUME NEW ms \in Talk, NEW k \in 1 .. Len(Starts(ms)) - 1
    PROVE  ms[Starts(ms)[k]].role # ms[Starts(ms)[k + 1]].role
<1> DEFINE r == Starts(ms)
           n == Len(ms)
<1>1. DOMAIN ms = 1 .. n /\ n \in Nat /\ Len(r) \in Nat
  BY TalkParts, StartsPick
<1>2. k \in 1 .. Len(r) /\ k + 1 \in 1 .. Len(r) /\ k < Len(r) /\ k < k + 1
  BY <1>1
<1>3. r[k + 1] \in StartsAt(ms) /\ r[k] < r[k + 1] /\ r[k] \in 1 .. n
  BY <1>2, StartsPick, StreakRole
<1>4. r[k + 1] \in 1 .. n /\ (r[k + 1] = 1 \/ ms[r[k + 1]].role # ms[r[k + 1] - 1].role)
  BY <1>1, <1>3 DEF StartsAt
<1>5. StreakEnd(ms, k) = r[k + 1] - 1
  BY <1>2 DEF StreakEnd
<1>6. \A j \in r[k] .. StreakEnd(ms, k) : ms[j].role = ms[r[k]].role
  BY <1>2, StreakRole
<1> HIDE DEF r, n
<1>7. r[k + 1] - 1 \in r[k] .. StreakEnd(ms, k) /\ r[k + 1] # 1
  BY <1>3, <1>4, <1>5
<1>8. ms[r[k + 1] - 1].role = ms[r[k]].role
  BY <1>6, <1>7
<1>9. ms[r[k]].role # ms[r[k + 1]].role
  BY <1>4, <1>7, <1>8
<1> QED BY <1>9 DEF r

\* The parts of History.
SystemTurns == IF session.system
         THEN <<Turn("user", <<"system">>), Turn("assistant", <<"I will follow">>)>> ELSE <<>>

StreakOf(ms, k) == SubSeq(ms, Starts(ms)[k], StreakEnd(ms, k))

StreakTurns(ms) ==
    [k \in DOMAIN Starts(ms) |-> IF ms[Starts(ms)[k]].role = "user" THEN MergeUsers(StreakOf(ms, k))
                                 ELSE MergeAssistants(StreakOf(ms, k))]

Closing(ms) == IF ms # <<>> /\ ms[Len(ms)].role = "user"
               THEN <<Turn("assistant", <<"OK">>)>> ELSE <<>>

LEMMA HistoryParts == ASSUME NEW ms PROVE History(ms) = SystemTurns \o StreakTurns(ms) \o Closing(ms)
BY DEF History, SystemTurns, StreakTurns, StreakOf, Closing, Starts, StartsAt, StreakEnd

LEMMA StreakTurnsForm ==
    ASSUME NEW ms \in Talk
    PROVE  /\ StreakTurns(ms) \in Seq(Wholes) /\ Len(StreakTurns(ms)) = Len(Starts(ms))
           /\ \A k \in 1 .. Len(Starts(ms)) : StreakTurns(ms)[k].role = ms[Starts(ms)[k]].role
<1> DEFINE f == StreakTurns(ms)
           r == Starts(ms)
<1>1. Len(r) \in Nat /\ DOMAIN r = 1 .. Len(r)
  <2>1. r \in Seq(Nat)
    <3> DEFINE id == [i \in DOMAIN ms |-> i]
               K == StartsAt(ms)
    <3>1. id \in Seq(Nat) /\ DOMAIN id = DOMAIN ms
      BY TalkParts
    <3>2. K \in SUBSET (DOMAIN id)
      BY <3>1 DEF StartsAt
    <3>3. r = At(id, K)
      BY DEF Starts
    <3> HIDE DEF id, K, r
    <3> QED BY <3>1, <3>2, <3>3, AtElements
  <2> QED BY <2>1
<1>2. ASSUME NEW k \in 1 .. Len(r)
      PROVE  f[k] \in Wholes /\ f[k].role = ms[r[k]].role
  <2>1. r[k] \in 1 .. Len(ms) /\ StreakEnd(ms, k) \in r[k] .. Len(ms) /\ Len(ms) \in Nat
    BY StreakRole, TalkParts
  <2>2. StreakOf(ms, k) \in Talk
    <3>1. ms \in Seq(Message)
      BY DEF Talk
    <3>2. r[k] \in 1 .. Len(ms) + 1 /\ StreakEnd(ms, k) \in r[k] - 1 .. Len(ms)
      BY <2>1
    <3> HIDE DEF r
    <3>3. SubSeq(ms, r[k], StreakEnd(ms, k)) \in Seq(Message)
      BY <3>1, <3>2, SubSeqTyped
    <3> QED BY <3>3 DEF r, StreakOf, Talk
  <2>3. ms[r[k]].role \in {"user", "assistant"}
    BY <2>1, TalkParts, MessageParts
  <2>4. f[k] = IF ms[r[k]].role = "user" THEN MergeUsers(StreakOf(ms, k))
               ELSE MergeAssistants(StreakOf(ms, k))
    BY <1>1 DEF StreakTurns
  <2> HIDE DEF f, r
  <2> QED BY <2>2, <2>3, <2>4, MergeUsersTyped, MergeAssistantsTyped
<1>3. f = [k \in 1 .. Len(r) |-> f[k]]
  BY <1>1 DEF StreakTurns
<1> HIDE DEF f, r
<1>4. f \in Seq(Wholes) /\ Len(f) = Len(r)
  BY <1>1, <1>2, <1>3
<1> QED BY <1>2, <1>4 DEF f, r

LEMMA FrontForm ==
    /\ SystemTurns \in Seq(Wholes) /\ (session.system => Len(SystemTurns) = 2) /\ (~session.system => SystemTurns = <<>>)
    /\ session.system => SystemTurns[1].role = "user" /\ SystemTurns[2].role = "assistant"
<1> DEFINE a == Turn("user", <<"system">>)
           b == Turn("assistant", <<"I will follow">>)
<1>1. a \in Wholes /\ a.role = "user" /\ b \in Wholes /\ b.role = "assistant"
  <2>1. "system" \in Piece /\ "I will follow" \in Piece
    BY DEF Piece
  <2>2. /\ <<"system">> \in Seq(Piece) /\ <<"I will follow">> \in Seq(Piece)
        /\ <<"system">> # <<>> /\ <<"I will follow">> # <<>>
    BY <2>1, Single
  <2>3. "user" \in {"user", "assistant"} /\ "assistant" \in {"user", "assistant"}
    OBVIOUS
  <2> QED BY <2>2, <2>3, TurnTyped
<1>2. SystemTurns = IF session.system THEN <<a, b>> ELSE <<>>
  BY DEF SystemTurns
<1> HIDE DEF a, b
<1>3. <<a, b>> \in Seq(Wholes) /\ Len(<<a, b>>) = 2 /\ <<a, b>>[1] = a /\ <<a, b>>[2] = b
  BY <1>1
<1> QED BY <1>1, <1>2, <1>3

LEMMA ClosingForm ==
    ASSUME NEW ms \in Talk
    PROVE  /\ Closing(ms) \in Seq(Wholes)
           /\ Len(Closing(ms)) = (IF Len(ms) > 0 /\ ms[Len(ms)].role = "user" THEN 1 ELSE 0)
           /\ \A i \in 1 .. Len(Closing(ms)) : Closing(ms)[i].role = "assistant"
<1> DEFINE a == Turn("assistant", <<"OK">>)
<1>1. a \in Wholes /\ a.role = "assistant"
  <2>1. "OK" \in Piece
    BY DEF Piece
  <2>2. <<"OK">> \in Seq(Piece) /\ <<"OK">> # <<>>
    BY <2>1, Single
  <2> QED BY <2>2, TurnTyped
<1>2. Closing(ms) = IF ms # <<>> /\ ms[Len(ms)].role = "user" THEN <<a>> ELSE <<>>
  BY DEF Closing
<1>3. ms # <<>> <=> Len(ms) > 0
  BY DEF Talk
<1> HIDE DEF a
<1>4. <<a>> \in Seq(Wholes) /\ Len(<<a>>) = 1 /\ <<a>>[1] = a
  BY <1>1
<1> QED BY <1>1, <1>2, <1>3, <1>4

\* Two neighbours of one role are only the system's reply and what a conversation that
\* begins with the assistant says.
Alternates(h, ms) ==
    \A i \in 1 .. Len(h) - 1 : h[i].role = h[i + 1].role =>
        i = 2 /\ session.system /\ Len(ms) > 0 /\ ms[1].role = "assistant"

LEMMA FrontAndStreaks ==
    ASSUME NEW ms \in Talk
    PROVE  /\ SystemTurns \o StreakTurns(ms) \in Seq(Wholes) /\ Alternates(SystemTurns \o StreakTurns(ms), ms)
           /\ LET h == SystemTurns \o StreakTurns(ms)
              IN  Len(h) > 0 => h[Len(h)].role =
                     IF Len(ms) > 0 THEN ms[Len(ms)].role ELSE "assistant"
<1> DEFINE a == SystemTurns
           b == StreakTurns(ms)
           h == a \o b
           r == Starts(ms)
           n == Len(ms)
<1>1. /\ a \in Seq(Wholes) /\ (session.system => Len(a) = 2) /\ (~session.system => a = <<>>)
      /\ session.system => a[1].role = "user" /\ a[2].role = "assistant"
  BY FrontForm
<1>2. /\ b \in Seq(Wholes) /\ Len(b) = Len(r) /\ Len(r) \in Nat /\ n \in Nat
      /\ \A k \in 1 .. Len(r) : b[k].role = ms[r[k]].role
  BY StreakTurnsForm, StartsPick, TalkParts
<1>3. \A k \in 1 .. Len(r) - 1 : ms[r[k]].role # ms[r[k + 1]].role
  BY NextStreak
<1>4. n > 0 => Len(r) > 0 /\ r[1] = 1
  BY FirstStart
<1>5. n = 0 => Len(r) = 0
  <2>1. \A k \in 1 .. Len(r) : r[k] \in 1 .. n
    BY StreakRole
  <2> HIDE DEF r, n
  <2> QED BY <1>2, <2>1
<1>6. Len(r) > 0 => ms[r[Len(r)]].role = ms[n].role
  <2> SUFFICES ASSUME Len(r) > 0 PROVE ms[r[Len(r)]].role = ms[n].role
    OBVIOUS
  <2>1. Len(r) \in 1 .. Len(r) /\ ~(Len(r) < Len(r))
    BY <1>2
  <2>2. StreakEnd(ms, Len(r)) = n
    BY <2>1 DEF StreakEnd
  <2>3. r[Len(r)] \in 1 .. n /\ n \in r[Len(r)] .. n
    BY <2>1, <2>2, StreakRole
  <2>4. \A j \in r[Len(r)] .. StreakEnd(ms, Len(r)) : ms[j].role = ms[r[Len(r)]].role
    BY <2>1, StreakRole
  <2> HIDE DEF r, n
  <2> QED BY <2>2, <2>3, <2>4
<1> HIDE DEF a, b, r, n
<1>7. /\ h \in Seq(Wholes) /\ Len(h) = Len(a) + Len(b) /\ Len(a) \in Nat /\ Len(b) \in Nat
      /\ \A i \in 1 .. Len(a) : h[i] = a[i] /\ \A j \in 1 .. Len(b) : h[Len(a) + j] = b[j]
  <2>1. a \in Seq(Wholes) /\ b \in Seq(Wholes)
    BY <1>1, <1>2
  <2>2. Len(a) \in Nat /\ Len(b) \in Nat
    BY <2>1
  <2> QED BY <2>1, <2>2, Joined
<1>8. \A j \in 1 .. Len(b) : h[Len(a) + j] = b[j]
  BY <1>7
<1> HIDE DEF h
<1>9. ASSUME NEW i \in 1 .. Len(h) - 1, h[i].role = h[i + 1].role
      PROVE  i = 2 /\ session.system /\ n > 0 /\ ms[1].role = "assistant"
  <2>1. CASE i < Len(a)
    <3>1. i \in 1 .. Len(a) /\ i + 1 \in 1 .. Len(a) /\ Len(a) # 0
      BY <1>7, <2>1
    <3>2. session.system /\ Len(a) = 2 /\ i = 1
      <4>1. ~session.system => Len(a) = 0
        BY <1>1
      <4>2. session.system /\ Len(a) = 2
        BY <1>1, <3>1, <4>1
      <4> QED BY <2>1, <4>2
    <3>3. h[i] = a[1] /\ h[i + 1] = a[2]
      BY <1>7, <3>1, <3>2
    <3> QED BY <1>1, <1>9, <3>2, <3>3
  <2>2. CASE i = Len(a)
    <3>1. session.system /\ Len(a) = 2
      <4>1. ~session.system => Len(a) = 0
        BY <1>1
      <4> QED BY <1>1, <2>2, <4>1
    <3>2. i \in 1 .. Len(a) /\ 1 \in 1 .. Len(b) /\ i + 1 = Len(a) + 1
      BY <1>7, <2>2
    <3>3. h[i].role = "assistant" /\ h[i + 1].role = ms[r[1]].role
      <4>1. h[i] = a[2]
        BY <1>7, <2>2, <3>1, <3>2
      <4>2. h[i + 1] = b[1]
        BY <1>8, <3>2
      <4> QED BY <1>1, <1>2, <3>1, <3>2, <4>1, <4>2
    <3>4. n > 0 /\ r[1] = 1
      BY <1>2, <1>4, <1>5, <3>2
    <3> QED BY <1>9, <2>2, <3>1, <3>3, <3>4
  <2>3. CASE i > Len(a)
    <3> DEFINE j == i - Len(a)
    <3>1. j \in 1 .. Len(b) - 1 /\ j \in 1 .. Len(b) /\ j + 1 \in 1 .. Len(b)
          /\ i = Len(a) + j /\ i + 1 = Len(a) + (j + 1)
      BY <1>7, <2>3
    <3> HIDE DEF j
    <3>2. h[i] = b[j] /\ h[i + 1] = b[j + 1]
      BY <1>8, <3>1
    <3>3. b[j].role # b[j + 1].role
      BY <1>2, <1>3, <3>1
    <3> QED BY <1>9, <3>2, <3>3
  <2>4. i \in Nat
    OBVIOUS
  <2> QED BY <1>7, <2>1, <2>2, <2>3, <2>4
<1>10. Len(h) > 0 => h[Len(h)].role = IF n > 0 THEN ms[n].role ELSE "assistant"
  <2> SUFFICES ASSUME Len(h) > 0 PROVE h[Len(h)].role = IF n > 0 THEN ms[n].role ELSE "assistant"
    OBVIOUS
  <2>1. CASE Len(b) = 0
    <3>1. n = 0 /\ session.system /\ Len(a) = 2 /\ Len(h) = 2
      <4>1. ~session.system => Len(a) = 0
        BY <1>1
      <4> QED BY <1>1, <1>2, <1>4, <1>7, <2>1, <4>1
    <3>2. h[2] = a[2]
      BY <1>7, <3>1
    <3> QED BY <1>1, <3>1, <3>2
  <2>2. CASE Len(b) # 0
    <3>1. Len(b) \in 1 .. Len(b) /\ Len(r) > 0 /\ n > 0
      BY <1>2, <1>5, <1>7, <2>2
    <3>2. h[Len(h)] = b[Len(b)]
      BY <1>7, <1>8, <3>1
    <3> QED BY <1>2, <1>6, <3>1, <3>2
  <2> QED BY <2>1, <2>2
<1> QED BY <1>7, <1>9, <1>10 DEF Alternates, h, a, b, n

\* A history alternates and leaves the word to the user.
LEMMA HistoryForm ==
    ASSUME NEW ms \in Talk
    PROVE  /\ History(ms) \in Seq(Wholes) /\ Alternates(History(ms), ms)
           /\ Len(History(ms)) > 0 => History(ms)[Len(History(ms))].role = "assistant"
<1> DEFINE a == SystemTurns \o StreakTurns(ms)
           b == Closing(ms)
           h == a \o b
           n == Len(ms)
<1>1. /\ a \in Seq(Wholes) /\ Alternates(a, ms)
      /\ Len(a) > 0 => a[Len(a)].role = IF n > 0 THEN ms[n].role ELSE "assistant"
  BY FrontAndStreaks
<1>2. /\ b \in Seq(Wholes) /\ Len(b) = (IF n > 0 /\ ms[n].role = "user" THEN 1 ELSE 0)
      /\ \A i \in 1 .. Len(b) : b[i].role = "assistant"
  BY ClosingForm
<1>3. History(ms) = h
  BY HistoryParts
<1>4. n \in Nat /\ (n > 0 => ms[n].role \in {"user", "assistant"})
  <2>1. n \in Nat /\ (n > 0 => n \in 1 .. n)
    BY TalkParts
  <2>2. n > 0 => ms[n] \in Message
    BY <2>1, TalkParts
  <2> QED BY <2>1, <2>2, MessageParts
<1> HIDE DEF a, b, n
<1>5. /\ h \in Seq(Wholes) /\ Len(h) = Len(a) + Len(b) /\ Len(a) \in Nat
      /\ \A i \in 1 .. Len(a) : h[i] = a[i]
      /\ \A j \in 1 .. Len(b) : h[Len(a) + j] = b[j]
  <2>1. a \in Seq(Wholes) /\ b \in Seq(Wholes)
    BY <1>1, <1>2
  <2>2. Len(a) \in Nat
    BY <2>1
  <2> QED BY <2>1, <2>2, Joined
<1>6. \A j \in 1 .. Len(b) : h[Len(a) + j] = b[j]
  BY <1>5
<1> HIDE DEF h
<1>7. ASSUME NEW i \in 1 .. Len(h) - 1, h[i].role = h[i + 1].role
      PROVE  i = 2 /\ session.system /\ n > 0 /\ ms[1].role = "assistant"
  <2>1. CASE i < Len(a)
    <3>1. i \in 1 .. Len(a) - 1 /\ i \in 1 .. Len(a) /\ i + 1 \in 1 .. Len(a)
      BY <1>5, <2>1
    <3>2. a[i].role = a[i + 1].role
      BY <1>5, <1>7, <3>1
    <3> QED BY <1>1, <3>1, <3>2 DEF Alternates, n
  <2>2. CASE ~(i < Len(a))
    <3>1. Len(b) = 1 /\ i = Len(a) /\ Len(a) > 0 /\ Len(a) \in 1 .. Len(a) /\ n > 0 /\ ms[n].role = "user"
      BY <1>2, <1>4, <1>5, <2>2
    <3>2. h[i] = a[Len(a)] /\ h[i + 1] = b[1]
      BY <1>5, <1>6, <3>1
    <3>3. b[1].role = "assistant"
      BY <1>2, <3>1
    <3> QED BY <1>1, <1>7, <3>1, <3>2, <3>3
  <2> QED BY <2>1, <2>2
<1>8. ASSUME Len(h) > 0 PROVE h[Len(h)].role = "assistant"
  <2>1. CASE Len(b) = 0
    <3>1. Len(a) > 0 /\ Len(h) = Len(a) /\ Len(a) \in 1 .. Len(a) /\ ~(n > 0 /\ ms[n].role = "user")
      BY <1>2, <1>5, <1>8, <2>1
    <3> QED BY <1>1, <1>4, <1>5, <3>1
  <2>2. CASE Len(b) = 1
    <3>1. h[Len(h)] = b[1]
      BY <1>5, <1>6, <2>2
    <3> QED BY <1>2, <2>2, <3>1
  <2> QED BY <1>2, <2>1, <2>2
<1>9. Alternates(h, ms)
  BY <1>7 DEF Alternates, n
<1> QED BY <1>3, <1>5, <1>8, <1>9

-----------------------------------------------------------------------------
(* The repair of tool pairs. *)

LEMMA WholeParts ==
    ASSUME NEW t \in Wholes
    PROVE  t \in TurnRec /\ Whole(t)
BY DEF Wholes

\* The results that are kept answer open uses, each once.
LEMMA ValidResultsForm ==
    ASSUME NEW history, NEW results \in Seq(Id)
    PROVE  LET kept == ValidResults(history, results)
           IN  /\ kept \in Seq(Id) /\ IsInjective(kept)
               /\ ToSet(kept) \subseteq UsesIn(history) \ ResultsIn(history)
<1> DEFINE open == UsesIn(history) \ ResultsIn(history)
           K == {i \in DOMAIN results :
                    results[i] \in open /\ \A j \in 1 .. i - 1 : results[j] # results[i]}
           kept == At(results, K)
<1>1. ValidResults(history, results) = kept
  BY DEF ValidResults
<1>2. /\ K \in SUBSET (DOMAIN results) /\ \A k \in K : results[k] \in open
      /\ \A k \in K : \A j \in 1 .. k - 1 : results[j] # results[k]
  OBVIOUS
<1>3. DOMAIN results = 1 .. Len(results) /\ Len(results) \in Nat
  OBVIOUS
<1> HIDE DEF K, open
<1>4. kept \in Seq(Id) /\ \E p : Picks(p, results, K, kept)
  BY <1>2, AtPicks
<1>5. ToSet(kept) = {results[k] : k \in K}
  BY <1>2, AtElements
<1> HIDE DEF kept
<1>6. PICK p : Picks(p, results, K, kept)
  BY <1>4
<1>7. DOMAIN kept = 1 .. Len(kept) /\ Len(kept) \in Nat
  BY <1>4
<1>8. /\ \A i \in 1 .. Len(kept) : p[i] \in K /\ kept[i] = results[p[i]]
      /\ \A i, j \in 1 .. Len(kept) : i < j => p[i] < p[j]
  BY <1>6 DEF Picks
<1>9. ASSUME NEW i \in 1 .. Len(kept), NEW j \in 1 .. Len(kept), i < j
      PROVE  kept[i] # kept[j]
  <2>1. p[i] \in 1 .. Len(results) /\ p[j] \in K /\ p[j] \in 1 .. Len(results) /\ p[i] < p[j]
    BY <1>2, <1>3, <1>8, <1>9
  <2>2. p[i] \in 1 .. p[j] - 1
    BY <1>3, <2>1
  <2>3. results[p[i]] # results[p[j]]
    BY <1>2, <2>1, <2>2
  <2> QED BY <1>8, <2>3
<1>10. IsInjective(kept)
  <2> SUFFICES ASSUME NEW i \in 1 .. Len(kept), NEW j \in 1 .. Len(kept), kept[i] = kept[j]
               PROVE  i = j
    BY <1>7 DEF IsInjective
  <2>1. ~(i < j) /\ ~(j < i)
    BY <1>9
  <2> QED BY <2>1
<1> QED BY <1>1, <1>2, <1>4, <1>5, <1>10 DEF open

LEMMA UsesOf ==
    ASSUME NEW h, NEW x
    PROVE  /\ x \in UsesIn(h) <=> \E i \in DOMAIN h : x \in ToSet(h[i].uses)
           /\ x \in ResultsIn(h) <=> \E i \in DOMAIN h : x \in ToSet(h[i].results)
BY DEF UsesIn, ResultsIn

LEMMA RemoveOrphanedUsesForm ==
    ASSUME NEW h \in Seq(Wholes), NEW kept
    PROVE  LET g == RemoveOrphanedUses(h, kept)
           IN  /\ g \in Seq(Wholes) /\ Len(g) = Len(h)
               /\ \A i \in DOMAIN h : g[i].role = h[i].role
               /\ ResultsIn(g) = ResultsIn(h)
               /\ UsesIn(g) = UsesIn(h) \cap (ResultsIn(h) \cup ToSet(kept))
<1> DEFINE orphans == (UsesIn(h) \ ResultsIn(h)) \ ToSet(kept)
           U == UsesIn(h) \ orphans
           g == [i \in DOMAIN h |-> [h[i] EXCEPT !.uses = Among(@, U)]]
<1>1. RemoveOrphanedUses(h, kept) = g
  BY DEF RemoveOrphanedUses
<1>2. U = UsesIn(h) \cap (ResultsIn(h) \cup ToSet(kept))
  OBVIOUS
<1> HIDE DEF U
<1>3. ASSUME NEW i \in DOMAIN h
      PROVE  /\ g[i] \in Wholes /\ g[i].role = h[i].role /\ g[i].results = h[i].results
             /\ ToSet(g[i].uses) = ToSet(h[i].uses) \cap U
  <2> DEFINE u == Among(h[i].uses, U)
  <2>1. h[i] \in TurnRec /\ Whole(h[i])
    BY WholeParts
  <2>2. h[i].uses \in Seq(Id)
    BY <2>1, TurnParts
  <2>3. u \in Seq(Id) /\ ToSet(u) = ToSet(h[i].uses) \cap U
    BY <2>2, AmongElements
  <2>4. g[i] = [h[i] EXCEPT !.uses = u]
    OBVIOUS
  <2> HIDE DEF u, g
  <2>5. g[i] \in TurnRec
    BY <2>1, <2>3, <2>4 DEF TurnRec
  <2>6. /\ g[i].uses = u /\ g[i].role = h[i].role /\ g[i].results = h[i].results
        /\ g[i].content = h[i].content /\ g[i].media = h[i].media
    BY <2>1, <2>4 DEF TurnRec
  <2>7. Whole(g[i])
    BY <2>1, <2>6 DEF Whole
  <2> QED BY <2>3, <2>5, <2>6, <2>7 DEF Wholes
<1>4. g = [i \in DOMAIN h |-> g[i]] /\ DOMAIN g = DOMAIN h
  OBVIOUS
<1> HIDE DEF g
<1>5. g \in Seq(Wholes) /\ Len(g) = Len(h)
  BY <1>3, <1>4, MappedSeq
<1>6. \A x : x \in ResultsIn(g) <=> x \in ResultsIn(h)
  BY <1>3, <1>4, UsesOf
<1>7. \A x : x \in UsesIn(g) <=> x \in UsesIn(h) /\ x \in U
  <2> TAKE x
  <2>1. \A i \in DOMAIN h : x \in ToSet(g[i].uses) <=> x \in ToSet(h[i].uses) /\ x \in U
    BY <1>3
  <2>2. x \in UsesIn(g) <=> \E i \in DOMAIN h : x \in ToSet(g[i].uses)
    BY <1>4, UsesOf
  <2>3. x \in UsesIn(h) <=> \E i \in DOMAIN h : x \in ToSet(h[i].uses)
    BY UsesOf
  <2> QED BY <2>1, <2>2, <2>3
<1>8. ResultsIn(g) = ResultsIn(h) /\ UsesIn(g) = U
  BY <1>2, <1>6, <1>7
<1> QED BY <1>1, <1>2, <1>3, <1>5, <1>8

LEMMA RemoveOrphanedResultsForm ==
    ASSUME NEW h \in Seq(Wholes)
    PROVE  LET g == RemoveOrphanedResults(h)
           IN  /\ g \in Seq(Wholes) /\ Len(g) = Len(h)
               /\ \A i \in DOMAIN h : g[i].role = h[i].role
               /\ UsesIn(g) = UsesIn(h) /\ ResultsIn(g) = ResultsIn(h) \cap UsesIn(h)
<1> DEFINE U == UsesIn(h)
           Left(i) == Among(h[i].results, U)
           Blank(i) == /\ h[i].role = "user" /\ ~h[i].media /\ Left(i) = <<>>
                       /\ (h[i].content = <<>> \/ \A j \in DOMAIN h[i].content :
                                                     h[i].content[j] = "_")
           Said(i) == IF Blank(i) THEN <<" ">> ELSE h[i].content
           g == RemoveOrphanedResults(h)
<1>1. g = [i \in DOMAIN h |-> [h[i] EXCEPT !.results = Left(i), !.content = Said(i)]]
  BY DEF RemoveOrphanedResults
<1> HIDE DEF U, g
<1>2. ASSUME NEW i \in DOMAIN h
      PROVE  /\ g[i] \in Wholes /\ g[i].role = h[i].role /\ g[i].uses = h[i].uses
             /\ ToSet(g[i].results) = ToSet(h[i].results) \cap U
  <2>1. h[i] \in TurnRec /\ Whole(h[i])
    BY WholeParts
  <2>2. h[i].results \in Seq(Id) /\ h[i].content \in Seq(Piece)
    BY <2>1, TurnParts
  <2>3. Left(i) \in Seq(Id) /\ ToSet(Left(i)) = ToSet(h[i].results) \cap U
    BY <2>2, AmongElements
  <2>4. <<" ">> \in Seq(Piece) /\ <<" ">> # <<>>
    <3>1. " " \in Piece
      BY DEF Piece
    <3> QED BY <3>1, Single
  <2>5. g[i] = [h[i] EXCEPT !.results = Left(i), !.content = Said(i)]
    BY <1>1
  <2>6. Said(i) \in Seq(Piece)
    <3> HIDE DEF Blank
    <3> QED BY <2>2, <2>4
  <2>7. Said(i) = <<>> => h[i].content = <<>> /\ ~Blank(i)
    <3> HIDE DEF Blank
    <3> QED BY <2>4
  <2>8. h[i].media => Said(i) = h[i].content
    OBVIOUS
  <2>9. h[i].content = <<>> /\ ~Blank(i) => h[i].role # "user" \/ h[i].media \/ Left(i) # <<>>
    <3> HIDE DEF Left
    <3> QED OBVIOUS
  <2> HIDE DEF Left, Said, Blank
  <2>10. g[i] \in TurnRec
    BY <2>1, <2>3, <2>5, <2>6 DEF TurnRec
  <2>11. /\ g[i].uses = h[i].uses /\ g[i].role = h[i].role /\ g[i].results = Left(i)
         /\ g[i].content = Said(i) /\ g[i].media = h[i].media
    BY <2>1, <2>5 DEF TurnRec
  <2>12. Whole(g[i])
    <3>1. h[i].content = <<>> => h[i].role = "user" /\ ~h[i].media
      BY <2>1 DEF Whole
    <3>2. Said(i) = <<>> => h[i].role = "user" /\ ~h[i].media /\ Left(i) # <<>>
      BY <2>7, <2>9, <3>1
    <3>3. h[i].media => h[i].role = "user" /\ (Visible(Said(i)) \/ Said(i) = <<"please analyze">>)
      BY <2>1, <2>8 DEF Whole
    <3> QED BY <2>11, <3>2, <3>3 DEF Whole
  <2> QED BY <2>3, <2>10, <2>11, <2>12 DEF Wholes
<1>3. g = [i \in DOMAIN h |-> g[i]] /\ DOMAIN g = DOMAIN h
  BY <1>1
<1>4. g \in Seq(Wholes) /\ Len(g) = Len(h)
  BY <1>2, <1>3, MappedSeq
<1>5. \A x : x \in UsesIn(g) <=> x \in UsesIn(h)
  BY <1>2, <1>3, UsesOf
<1>6. \A x : x \in ResultsIn(g) <=> x \in ResultsIn(h) /\ x \in U
  <2> TAKE x
  <2>1. \A i \in DOMAIN h : x \in ToSet(g[i].results) <=> x \in ToSet(h[i].results) /\ x \in U
    BY <1>2
  <2>2. x \in ResultsIn(g) <=> \E i \in DOMAIN h : x \in ToSet(g[i].results)
    BY <1>3, UsesOf
  <2>3. x \in ResultsIn(h) <=> \E i \in DOMAIN h : x \in ToSet(h[i].results)
    BY UsesOf
  <2> QED BY <2>1, <2>2, <2>3
<1>7. UsesIn(g) = UsesIn(h) /\ ResultsIn(g) = ResultsIn(h) \cap U
  BY <1>5, <1>6
<1> QED BY <1>2, <1>4, <1>7 DEF g, U

-----------------------------------------------------------------------------
(* The request. *)

\* What ToolsPaired asks of the turns of a request.
PairedTurns(turns) ==
    /\ UsesIn(turns) = ResultsIn(turns)
    /\ IsInjective(Last(turns).results)
    /\ ToSet(Last(turns).results) \cap ResultsIn(SubSeq(turns, 1, Len(turns) - 1)) = {}
    /\ \A t \in UsesIn(turns) : \E n \in Last(turns).tools : Lower[n] = Lower[NameOf[t]]

LEMMA ToolsCover ==
    ASSUME NEW h \in Seq(Wholes)
    PROVE  /\ Tools(h) \in SUBSET Name
           /\ \A t \in UsesIn(h) : \E n \in Tools(h) : Lower[n] = Lower[NameOf[t]]
<1>1. UsesIn(h) \subseteq Id
  <2>1. ASSUME NEW i \in DOMAIN h PROVE ToSet(h[i].uses) \subseteq Id
    <3>1. h[i].uses \in Seq(Id)
      BY WholeParts, TurnParts
    <3> QED BY <3>1 DEF ToSet
  <2> QED BY <2>1, UsesOf
<1>2. ASSUME NEW t \in UsesIn(h) PROVE \E n \in Tools(h) : Lower[n] = Lower[NameOf[t]]
  <2>1. CASE \E d \in Declared : Lower[d] = Lower[NameOf[t]]
    BY <2>1 DEF Tools
  <2>2. CASE \A d \in Declared : Lower[d] # Lower[NameOf[t]]
    <3>1. NameOf[t] \in Tools(h)
      BY <2>2 DEF Tools
    <3> QED BY <3>1
  <2> QED BY <2>1, <2>2
<1>3. Tools(h) \in SUBSET Name
  BY <1>1 DEF Tools, Name
<1> QED BY <1>2, <1>3

LEMMA SameSeq ==
    ASSUME NEW S, NEW s \in Seq(S), NEW t \in Seq(S), Len(s) = Len(t),
           \A i \in 1 .. Len(s) : s[i] = t[i]
    PROVE  s = t
OBVIOUS

\* A last turn without uses adds its results.
LEMMA UsesOfAppended ==
    ASSUME NEW h \in Seq(Wholes), NEW t \in Wholes, t.uses = <<>>
    PROVE  /\ UsesIn(Append(h, t)) = UsesIn(h)
           /\ ResultsIn(Append(h, t)) = ResultsIn(h) \cup ToSet(t.results)
           /\ Last(Append(h, t)) = t
           /\ SubSeq(Append(h, t), 1, Len(Append(h, t)) - 1) = h
<1> DEFINE g == Append(h, t)
           n == Len(h)
<1>1. /\ g \in Seq(Wholes) /\ Len(g) = n + 1 /\ n \in Nat /\ g[n + 1] = t
      /\ \A i \in 1 .. n : g[i] = h[i]
  BY AppendTo
<1>2. DOMAIN g = 1 .. n + 1 /\ DOMAIN h = 1 .. n
  <2>1. DOMAIN g = 1 .. Len(g)
    BY <1>1
  <2> QED BY <1>1, <2>1
<1>3. SubSeq(g, 1, Len(g) - 1) = h
  <2>1. Len(g) - 1 = n /\ 1 \in 1 .. Len(g) + 1 /\ n \in 1 - 1 .. Len(g) /\ n - 1 + 1 = n
    BY <1>1
  <2>2. /\ SubSeq(g, 1, n) \in Seq(Wholes) /\ Len(SubSeq(g, 1, n)) = n
        /\ \A k \in 1 .. n : SubSeq(g, 1, n)[k] = g[1 + k - 1]
    BY <1>1, <2>1, SubSeqTyped
  <2>3. \A k \in 1 .. n : SubSeq(g, 1, n)[k] = h[k]
    <3>1. \A k \in 1 .. n : 1 + k - 1 = k
      BY <1>1
    <3> QED BY <1>1, <2>2, <3>1
  <2> HIDE DEF g
  <2>4. SubSeq(g, 1, n) = h
    BY <2>2, <2>3, SameSeq
  <2> QED BY <2>1, <2>4
<1>4. Last(g) = t
  BY <1>1 DEF Last
<1> HIDE DEF g
<1>5. ToSet(t.uses) = {}
  BY DEF ToSet
<1>6. \A i \in 1 .. n + 1 : i \in 1 .. n \/ i = n + 1
  BY <1>1
<1>7. 1 .. n \subseteq 1 .. n + 1 /\ n + 1 \in 1 .. n + 1
  BY <1>1
<1>8. ASSUME NEW x PROVE x \in UsesIn(g) <=> x \in UsesIn(h)
  <2>1. x \in UsesIn(g) <=> \E i \in 1 .. n + 1 : x \in ToSet(g[i].uses)
    BY <1>2, UsesOf
  <2>2. x \in UsesIn(h) <=> \E i \in 1 .. n : x \in ToSet(h[i].uses)
    BY <1>2, UsesOf
  <2> QED BY <1>1, <1>5, <1>6, <1>7, <2>1, <2>2
<1>9. ASSUME NEW x PROVE x \in ResultsIn(g) <=> x \in ResultsIn(h) \/ x \in ToSet(t.results)
  <2>1. x \in ResultsIn(g) <=> \E i \in 1 .. n + 1 : x \in ToSet(g[i].results)
    BY <1>2, UsesOf
  <2>2. x \in ResultsIn(h) <=> \E i \in 1 .. n : x \in ToSet(h[i].results)
    BY <1>2, UsesOf
  <2> QED BY <1>1, <1>6, <1>7, <2>1, <2>2
<1>10. UsesIn(g) = UsesIn(h)
  BY <1>8
<1>11. ResultsIn(g) = ResultsIn(h) \cup ToSet(t.results)
  BY <1>9
<1> QED BY <1>3, <1>4, <1>10, <1>11 DEF g

LEMMA WithTools ==
    ASSUME NEW t \in Wholes, NEW tools \in SUBSET Name
    PROVE  LET u == [t EXCEPT !.tools = tools]
           IN  u \in Wholes /\ u.role = t.role /\ u.uses = t.uses /\ u.results = t.results
               /\ u.tools = tools
<1> DEFINE u == [t EXCEPT !.tools = tools]
<1>1. t \in TurnRec /\ Whole(t)
  BY WholeParts
<1>2. /\ u \in TurnRec /\ u.role = t.role /\ u.uses = t.uses /\ u.results = t.results
      /\ u.tools = tools /\ u.content = t.content /\ u.media = t.media
  BY <1>1 DEF TurnRec
<1> HIDE DEF u
<1>3. Whole(u)
  BY <1>1, <1>2 DEF Whole
<1> QED BY <1>2, <1>3 DEF Wholes, u

\* What the conversion makes of messages that end with one of the user.
LEMMA ConvertForm ==
    ASSUME NEW ms \in Talk, Len(ms) > 0
    PROVE  LET c == Convert(ms)
           IN  /\ c \in Seq(Wholes) /\ Len(c) > 0 /\ c[Len(c)].role = "user"
               /\ Alternates(c, ms) /\ PairedTurns(c)
<1> DEFINE n == Len(ms)
           old == SubSeq(ms, 1, n - 1)
           raw == History(old)
           ids == Ids(Last(ms).blocks, "tool_result")
           kept == ValidResults(raw, ids)
           used == RemoveOrphanedUses(raw, kept)
           h == RemoveOrphanedResults(used)
           now == UserTurn(Last(ms).blocks, kept)
           t == [now EXCEPT !.tools = Tools(h)]
           c == Append(h, t)
<1>1. n \in Nat /\ n \in 1 .. n /\ ms \in Seq(Message) /\ ms[n] \in Message
  <2>1. n \in Nat /\ ms \in Seq(Message)
    BY TalkParts DEF Talk
  <2>2. n \in 1 .. n
    BY <2>1
  <2> QED BY <2>1, <2>2, TalkParts
<1>2. Convert(ms) = c
  BY DEF Convert
<1>3. Last(ms).blocks \in Seq(Block)
  BY <1>1, MessageParts DEF Last
<1>4. ids \in Seq(Id)
  BY <1>3, IdsTyped
<1>5. /\ old \in Talk /\ Len(old) = n - 1 /\ (n - 1 > 0 => old[1] = ms[1])
  <2>1. 1 \in 1 .. n + 1 /\ n - 1 \in 1 - 1 .. n /\ n - 1 - 1 + 1 = n - 1
    BY <1>1
  <2>2. /\ old \in Seq(Message) /\ Len(old) = n - 1
        /\ \A k \in 1 .. n - 1 : old[k] = ms[1 + k - 1]
    BY <1>1, <2>1, SubSeqTyped
  <2>3. n - 1 > 0 => 1 \in 1 .. n - 1 /\ 1 + 1 - 1 = 1
    BY <1>1
  <2> QED BY <2>2, <2>3 DEF Talk
<1> HIDE DEF old
<1>6. /\ raw \in Seq(Wholes) /\ Alternates(raw, old)
      /\ Len(raw) > 0 => raw[Len(raw)].role = "assistant"
  BY <1>5, HistoryForm
<1> HIDE DEF raw, ids
<1>7. /\ kept \in Seq(Id) /\ IsInjective(kept)
      /\ ToSet(kept) \subseteq UsesIn(raw) \ ResultsIn(raw)
  BY <1>4, ValidResultsForm
<1> HIDE DEF kept
<1>8. /\ used \in Seq(Wholes) /\ Len(used) = Len(raw)
      /\ \A i \in DOMAIN raw : used[i].role = raw[i].role
      /\ ResultsIn(used) = ResultsIn(raw)
      /\ UsesIn(used) = UsesIn(raw) \cap (ResultsIn(raw) \cup ToSet(kept))
  BY <1>6, RemoveOrphanedUsesForm
<1> HIDE DEF used
<1>9. /\ h \in Seq(Wholes) /\ Len(h) = Len(used)
      /\ \A i \in DOMAIN used : h[i].role = used[i].role
      /\ UsesIn(h) = UsesIn(used) /\ ResultsIn(h) = ResultsIn(used) \cap UsesIn(used)
  BY <1>8, RemoveOrphanedResultsForm
<1> HIDE DEF h
<1>10. now \in Wholes /\ now.role = "user" /\ now.uses = <<>> /\ now.results = kept
  BY <1>3, <1>7, UserTurnTyped
<1> HIDE DEF now
<1>11. /\ Tools(h) \in SUBSET Name
       /\ \A x \in UsesIn(h) : \E m \in Tools(h) : Lower[m] = Lower[NameOf[x]]
  BY <1>9, ToolsCover
<1>12. t \in Wholes /\ t.role = "user" /\ t.uses = <<>> /\ t.results = kept /\ t.tools = Tools(h)
  BY <1>10, <1>11, WithTools
<1> HIDE DEF t
<1>13. /\ UsesIn(c) = UsesIn(h) /\ ResultsIn(c) = ResultsIn(h) \cup ToSet(kept)
       /\ Last(c) = t /\ SubSeq(c, 1, Len(c) - 1) = h
  BY <1>9, <1>12, UsesOfAppended
<1>14. /\ c \in Seq(Wholes) /\ Len(c) = Len(h) + 1 /\ Len(h) \in Nat /\ c[Len(h) + 1] = t
       /\ \A i \in 1 .. Len(h) : c[i] = h[i]
  BY <1>9, <1>12, AppendTo
<1> HIDE DEF c
<1>15. PairedTurns(c)
  <2>1. UsesIn(c) = ResultsIn(c)
    BY <1>7, <1>8, <1>9, <1>13
  <2>2. ToSet(kept) \cap ResultsIn(h) = {}
    BY <1>7, <1>8, <1>9
  <2> QED BY <1>7, <1>11, <1>12, <1>13, <2>1, <2>2 DEF PairedTurns
<1>16. \A i \in 1 .. Len(h) : h[i].role = raw[i].role
  <2>1. DOMAIN raw = 1 .. Len(h) /\ DOMAIN used = 1 .. Len(h)
    BY <1>6, <1>8, <1>9
  <2> QED BY <1>8, <1>9, <2>1
<1>17. Alternates(c, ms)
  <2> SUFFICES ASSUME NEW i \in 1 .. Len(c) - 1, c[i].role = c[i + 1].role
               PROVE  i = 2 /\ session.system /\ n > 0 /\ ms[1].role = "assistant"
    BY DEF Alternates, n
  <2>1. CASE i < Len(h)
    <3>1. i \in 1 .. Len(raw) - 1 /\ i \in 1 .. Len(h) /\ i + 1 \in 1 .. Len(h)
      BY <1>8, <1>9, <1>14, <2>1
    <3>2. raw[i].role = raw[i + 1].role
      BY <1>14, <1>16, <3>1
    <3>3. i = 2 /\ session.system /\ Len(old) > 0 /\ old[1].role = "assistant"
      BY <1>6, <3>1, <3>2 DEF Alternates
    <3> QED BY <1>5, <3>3
  <2>2. CASE ~(i < Len(h))
    <3>1. i = Len(h) /\ i \in 1 .. Len(h) /\ Len(raw) > 0 /\ i = Len(raw)
      BY <1>8, <1>9, <1>14, <2>2
    <3>2. c[i].role = "assistant" /\ c[i + 1].role = "user"
      BY <1>6, <1>12, <1>14, <1>16, <3>1
    <3> QED BY <3>2
  <2> QED BY <2>1, <2>2
<1>18. Len(c) > 0 /\ c[Len(c)].role = "user"
  BY <1>12, <1>14
<1> QED BY <1>2, <1>14, <1>15, <1>17, <1>18

-----------------------------------------------------------------------------
(* The theorems. *)

\* The request just made is the conversion of the conversation as it still is, with the
\* edits of the request.
Sent(r) ==
    LET ms == UpToUser(Edited(messages, r.edits))
    IN  r.edits \in EditLists /\ ms # <<>> /\ r.turns = Convert(ms)

ConversationInv == messages \in Talk /\ \A r \in request : Sent(r)

LEMMA EditListsTyped == EditLists \subseteq Seq(Edit)
BY ConversationAssumption DEF Edit

LEMMA ClientMessageTyped == ASSUME NEW m \in ClientMessage PROVE m \in Message
<1>1. UserBlocks \subseteq Seq(Block) /\ AssistantBlocks \subseteq Seq(Block)
  BY ConversationAssumption
<1> QED BY <1>1 DEF ClientMessage, Message

LEMMA InitConversation == ConversationInit => ConversationInv
<1>1. <<>> \in Seq(Message)
  OBVIOUS
<1> QED BY <1>1 DEF ConversationInit, ConversationInv, Talk

LEMMA SayKeeps == ASSUME ConversationInv, Say PROVE ConversationInv'
<1>1. PICK m \in ClientMessage : messages' = Append(messages, m) /\ Quiet
  BY DEF Say
<1>2. m \in Message /\ messages \in Seq(Message)
  BY ClientMessageTyped DEF ConversationInv, Talk
<1>3. messages' \in Talk
  BY <1>1, <1>2 DEF Talk
<1>4. request' = {}
  BY <1>1 DEF Quiet
<1> QED BY <1>3, <1>4 DEF ConversationInv

LEMMA CompactKeeps == ASSUME ConversationInv, Compact PROVE ConversationInv'
<1>1. PICK k \in 1 .. Len(messages) - 1 :
         messages' = SubSeq(messages, k + 1, Len(messages)) /\ Quiet
  BY DEF Compact
<1>2. messages \in Seq(Message) /\ Len(messages) \in Nat
  BY TalkParts DEF ConversationInv, Talk
<1>3. k + 1 \in 1 .. Len(messages) + 1 /\ Len(messages) \in k + 1 - 1 .. Len(messages)
  BY <1>2
<1>4. SubSeq(messages, k + 1, Len(messages)) \in Seq(Message)
  BY <1>2, <1>3, SubSeqTyped
<1>5. request' = {} /\ messages' \in Talk
  BY <1>1, <1>4 DEF Quiet, Talk
<1> QED BY <1>5 DEF ConversationInv

\* The conversion depends on nothing but the messages and the system prompt.
LEMMA HistorySame ==
    ASSUME session' = session, NEW CONSTANT ms PROVE History(ms)' = History(ms)
BY DEF History

LEMMA ConvertSame ==
    ASSUME session' = session, NEW CONSTANT ms PROVE Convert(ms)' = Convert(ms)
<1>1. History(SubSeq(ms, 1, Len(ms) - 1))' = History(SubSeq(ms, 1, Len(ms) - 1))
  BY HistorySame
<1> QED BY <1>1 DEF Convert

LEMMA SendKeeps == ASSUME ConversationInv, Send PROVE ConversationInv'
<1> DEFINE ms(edits) == UpToUser(Edited(messages, edits))
<1>1. PICK edits \in EditLists :
         \/ ms(edits) = <<>> /\ Quiet /\ UNCHANGED messages
         \/ /\ ms(edits) # <<>> /\ UNCHANGED <<messages, session>>
            /\ request' = {[turns |-> Convert(ms(edits)), edits |-> edits, prior |-> before]}
  BY DEF Send
<1>2. CASE ms(edits) = <<>> /\ Quiet /\ UNCHANGED messages
  BY <1>2 DEF Quiet, ConversationInv
<1>3. CASE /\ ms(edits) # <<>> /\ UNCHANGED <<messages, session>>
           /\ request' = {[turns |-> Convert(ms(edits)), edits |-> edits, prior |-> before]}
  <2>1. messages' = messages /\ session' = session
    BY <1>3
  <2>2. ASSUME NEW r \in request' PROVE Sent(r)
    <3>1. r.turns = Convert(ms(edits)) /\ r.edits = edits
      BY <1>3
    <3> QED BY <1>3, <3>1 DEF Sent
  <2>3. \A r \in request' : Sent(r)'
    <3> SUFFICES ASSUME NEW r \in request' PROVE Sent(r)'
      OBVIOUS
    <3> DEFINE sent == UpToUser(Edited(messages, r.edits))
    <3>1. r.edits \in EditLists /\ sent # <<>> /\ r.turns = Convert(sent)
      BY <2>2 DEF Sent
    <3>2. PICK c : c = sent
      OBVIOUS
    <3>3. Convert(c)' = Convert(c)
      BY <2>1, ConvertSame
    <3>4. sent' = c
      BY <2>1, <3>2
    <3> QED BY <3>1, <3>2, <3>3, <3>4 DEF Sent
  <2> QED BY <2>1, <2>3 DEF ConversationInv
<1> QED BY <1>1, <1>2, <1>3

LEMMA StutterKeepsConversation ==
    ASSUME ConversationInv, UNCHANGED conversationVars PROVE ConversationInv'
<1>1. messages' = messages /\ session' = session /\ request' = request
  BY DEF conversationVars
<1>2. ASSUME NEW r \in request PROVE Sent(r)'
  <2> DEFINE sent == UpToUser(Edited(messages, r.edits))
  <2>1. r.edits \in EditLists /\ sent # <<>> /\ r.turns = Convert(sent)
    BY DEF Sent, ConversationInv
  <2>2. PICK c : c = sent
    OBVIOUS
  <2>3. Convert(c)' = Convert(c)
    BY <1>1, ConvertSame
  <2>4. sent' = c
    BY <1>1, <2>2
  <2> QED BY <2>1, <2>2, <2>3, <2>4 DEF Sent
<1> QED BY <1>1, <1>2 DEF ConversationInv

\* The inductive invariant: the conversation is typed, and a request is the conversion
\* (converter.rs convert_request) of what the edits leave of it.
THEOREM ConversationInvariant == ConversationSpec => []ConversationInv
<1>1. ConversationInv /\ [ConversationNext]_conversationVars => ConversationInv'
  BY SayKeeps, CompactKeeps, SendKeeps, StutterKeepsConversation DEF ConversationNext
<1> QED BY <1>1, InitConversation, PTL DEF ConversationSpec

\* What a request is made of.
LEMMA RequestForm ==
    ASSUME ConversationInv, NEW r \in request
    PROVE  /\ r.turns \in Seq(Wholes) /\ Len(r.turns) > 0
           /\ r.turns[Len(r.turns)].role = "user" /\ PairedTurns(r.turns)
           /\ Alternates(r.turns, Edited(messages, r.edits))
<1> DEFINE e == Edited(messages, r.edits)
           ms == UpToUser(e)
<1>1. messages \in Talk /\ r.edits \in Seq(Edit) /\ ms # <<>> /\ r.turns = Convert(ms)
  BY EditListsTyped DEF ConversationInv, Sent
<1>2. e \in Talk
  BY <1>1, EditedTyped
<1> HIDE DEF e
<1>3. ms \in Talk /\ Len(ms) <= Len(e) /\ \A k \in 1 .. Len(ms) : ms[k] = e[k]
  BY <1>2, UpToUserEnds
<1> HIDE DEF ms
<1>4. Len(ms) > 0 /\ Len(e) > 0 /\ 1 \in 1 .. Len(ms)
  <2>1. Len(ms) \in Nat /\ Len(e) \in Nat
    BY <1>2, <1>3, TalkParts
  <2>2. Len(ms) # 0
    BY <1>1, <1>3 DEF Talk
  <2> QED BY <1>3, <2>1, <2>2
<1>5. /\ r.turns \in Seq(Wholes) /\ Len(r.turns) > 0 /\ r.turns[Len(r.turns)].role = "user"
      /\ Alternates(r.turns, ms) /\ PairedTurns(r.turns)
  BY <1>1, <1>3, <1>4, ConvertForm
<1>6. ms[1] = e[1]
  BY <1>3, <1>4
<1>7. Alternates(r.turns, e)
  BY <1>4, <1>5, <1>6 DEF Alternates
<1> QED BY <1>5, <1>7 DEF e

\* Whatever is said, compacted and edited, every request has the form that the upstream
\* service accepts (converter.rs:530-543, 1008-1023).
THEOREM RequestsAreWellFormed == ConversationSpec => []TurnsWellFormed
<1>1. ConversationInv => TurnsWellFormed
  <2> SUFFICES ASSUME ConversationInv, NEW r \in request
      PROVE  LET t == r.turns
             IN  /\ Last(t).role = "user"
                 /\ \A i \in DOMAIN t :
                       /\ t[i].content = <<>> => t[i].role = "user" /\ t[i].results # <<>>
                       /\ t[i].media => \/ Visible(t[i].content)
                                        \/ t[i].content = <<"please analyze">>
                 /\ \A i \in 1 .. Len(t) - 1 :
                       t[i].role = t[i + 1].role =>
                           i = 2 /\ session.system /\ Edited(messages, r.edits)[1].role = "assistant"
    BY DEF TurnsWellFormed
  <2> DEFINE t == r.turns
  <2>1. /\ t \in Seq(Wholes) /\ t[Len(t)].role = "user"
        /\ Alternates(t, Edited(messages, r.edits))
    BY RequestForm
  <2>2. \A i \in DOMAIN t : Whole(t[i])
    <3>1. \A i \in DOMAIN t : t[i] \in Wholes
      BY <2>1
    <3> QED BY <3>1, WholeParts
  <2>3. Last(t).role = "user"
    BY <2>1 DEF Last
  <2>4. \A i \in 1 .. Len(t) - 1 : t[i].role = t[i + 1].role =>
            i = 2 /\ session.system /\ Edited(messages, r.edits)[1].role = "assistant"
    BY <2>1 DEF Alternates
  <2>5. \A i \in DOMAIN t :
           /\ t[i].content = <<>> => t[i].role = "user" /\ t[i].results # <<>>
           /\ t[i].media => Visible(t[i].content) \/ t[i].content = <<"please analyze">>
    BY <2>2 DEF Whole
  <2> QED BY <2>3, <2>4, <2>5
<1> QED BY <1>1, ConversationInvariant, PTL

\* Whatever a client's compaction tore apart, every tool call in a request has its result
\* and every result its call, and every tool called is declared (converter.rs:905-948).
THEOREM RequestsArePaired == ConversationSpec => []ToolsPaired
<1>1. ConversationInv => ToolsPaired
  <2> SUFFICES ASSUME ConversationInv PROVE \A r \in request : PairedTurns(r.turns)
    BY DEF ToolsPaired, PairedTurns
  <2> QED BY RequestForm
<1> QED BY <1>1, ConversationInvariant, PTL

-----------------------------------------------------------------------------
(* One element, and one sequence, after the other. *)

LEMMA AtAppend ==
    ASSUME NEW S, NEW s \in Seq(S), NEW e \in S, NEW K, NEW L,
           \A k \in 1 .. Len(s) : k \in K <=> k \in L
    PROVE  At(Append(s, e), K) = IF Len(s) + 1 \in K THEN Append(At(s, L), e) ELSE At(s, L)
<1> DEFINE t == Append(s, e)
           n == Len(s)
<1>1. /\ t \in Seq(S) /\ Len(t) = n + 1 /\ n \in Nat /\ t[n + 1] = e
      /\ \A i \in 1 .. n : t[i] = s[i]
  BY AppendTo
<1> HIDE DEF t
<1>2. PICK f \in [0 .. n -> Seq(S)] : AtChain(f, s, L)
  BY AtSteps
<1>3. PICK g \in [0 .. Len(t) -> Seq(S)] : AtChain(g, t, K)
  BY <1>1, AtSteps
<1>4. /\ f[0] = <<>> /\ At(s, L) = f[n]
      /\ \A k \in 1 .. n : f[k] = IF k \in L THEN Append(f[k - 1], s[k]) ELSE f[k - 1]
  BY <1>2 DEF AtChain
<1>5. /\ g[0] = <<>> /\ At(t, K) = g[n + 1]
      /\ \A k \in 1 .. n + 1 : g[k] = IF k \in K THEN Append(g[k - 1], t[k]) ELSE g[k - 1]
  BY <1>1, <1>3 DEF AtChain
<1> HIDE DEF n
<1> DEFINE T == {k \in Nat : k <= n => g[k] = f[k]}
<1>6. 0 \in T
  BY <1>4, <1>5
<1>7. ASSUME NEW k \in T PROVE k + 1 \in T
  <2> SUFFICES ASSUME k + 1 <= n PROVE g[k + 1] = f[k + 1]
    OBVIOUS
  <2>1. k \in Nat /\ k + 1 \in 1 .. n /\ k + 1 \in 1 .. n + 1 /\ (k + 1) - 1 = k
    BY <1>1
  <2>2. g[k] = f[k]
    BY <2>1
  <2>3. f[k + 1] = IF k + 1 \in L THEN Append(f[k], s[k + 1]) ELSE f[k]
    BY <1>4, <2>1
  <2>4. g[k + 1] = IF k + 1 \in K THEN Append(g[k], t[k + 1]) ELSE g[k]
    BY <1>5, <2>1
  <2>5. t[k + 1] = s[k + 1] /\ (k + 1 \in K <=> k + 1 \in L)
    BY <1>1, <2>1 DEF n
  <2> QED BY <2>2, <2>3, <2>4, <2>5
<1>8. n \in T
  <2>1. T \in SUBSET Nat
    OBVIOUS
  <2> HIDE DEF T
  <2> QED BY <1>1, <1>6, <1>7, <2>1, Induction
<1>9. g[n] = f[n]
  BY <1>8
<1>10. n + 1 \in 1 .. n + 1 /\ (n + 1) - 1 = n
  BY <1>1
<1>11. g[n + 1] = IF n + 1 \in K THEN Append(g[n], t[n + 1]) ELSE g[n]
  BY <1>5, <1>10
<1> QED BY <1>1, <1>4, <1>5, <1>9, <1>11 DEF t, n

LEMMA AmongAppend ==
    ASSUME NEW S, NEW s \in Seq(S), NEW e \in S, NEW A
    PROVE  Among(Append(s, e), A) = IF e \in A THEN Append(Among(s, A), e) ELSE Among(s, A)
<1> DEFINE t == Append(s, e)
           K == {i \in DOMAIN t : t[i] \in A}
           L == {i \in DOMAIN s : s[i] \in A}
<1>1. /\ t \in Seq(S) /\ Len(t) = Len(s) + 1 /\ Len(s) \in Nat /\ t[Len(s) + 1] = e
      /\ \A i \in 1 .. Len(s) : t[i] = s[i]
  BY AppendTo
<1>2. DOMAIN s = 1 .. Len(s) /\ DOMAIN t = 1 .. Len(s) + 1
  <2>1. DOMAIN t = 1 .. Len(t)
    BY <1>1
  <2> QED BY <1>1, <2>1
<1>3. Among(t, A) = At(t, K) /\ Among(s, A) = At(s, L)
  BY DEF Among
<1> HIDE DEF t
<1>4. \A k \in 1 .. Len(s) : k \in K <=> k \in L
  BY <1>1, <1>2
<1>5. Len(s) + 1 \in K <=> e \in A
  BY <1>1, <1>2
<1> HIDE DEF K, L
<1>6. At(t, K) = IF Len(s) + 1 \in K THEN Append(At(s, L), e) ELSE At(s, L)
  BY <1>4, AtAppend DEF t
<1> QED BY <1>3, <1>5, <1>6 DEF t

LEMMA AmongNone == ASSUME NEW A PROVE Among(<<>>, A) = <<>>
<1>1. <<>> \in Seq({}) /\ Len(<<>>) = 0
  OBVIOUS
<1>2. Among(<<>>, A) \in Seq({})
  BY <1>1, AmongElements
<1> QED BY <1>2

LEMMA FrontAndLast ==
    ASSUME NEW S, NEW s \in Seq(S), NEW n \in Nat, Len(s) = n + 1
    PROVE  /\ SubSeq(s, 1, n) \in Seq(S) /\ Len(SubSeq(s, 1, n)) = n
           /\ \A i \in 1 .. n : SubSeq(s, 1, n)[i] = s[i]
           /\ s[n + 1] \in S /\ s = Append(SubSeq(s, 1, n), s[n + 1])
<1> DEFINE r == SubSeq(s, 1, n)
<1>1. 1 \in 1 .. Len(s) + 1 /\ n \in 1 - 1 .. Len(s) /\ n - 1 + 1 = n
  OBVIOUS
<1>2. r \in Seq(S) /\ Len(r) = n /\ \A k \in 1 .. n : r[k] = s[1 + k - 1]
  BY <1>1, SubSeqTyped
<1>3. \A k \in 1 .. n : r[k] = s[k]
  BY <1>2
<1>4. s[n + 1] \in S
  OBVIOUS
<1> HIDE DEF r
<1>5. s = Append(r, s[n + 1])
  <2> DEFINE e == s[n + 1]
             t == Append(r, e)
  <2>1. e \in S
    BY <1>4
  <2> HIDE DEF e
  <2>2. /\ t \in Seq(S) /\ Len(t) = n + 1 /\ t[n + 1] = e /\ \A i \in 1 .. n : t[i] = r[i]
    BY <1>2, <2>1, AppendTo
  <2>3. \A i \in 1 .. Len(s) : i \in 1 .. n \/ i = n + 1
    OBVIOUS
  <2>4. \A i \in 1 .. Len(s) : s[i] = t[i]
    BY <1>3, <2>2, <2>3 DEF e
  <2> HIDE DEF t
  <2>5. s = t
    BY <2>2, <2>4, SameSeq
  <2> QED BY <2>5 DEF t, e
<1> QED BY <1>2, <1>3, <1>4, <1>5 DEF r

LEMMA JoinAppend ==
    ASSUME NEW S, NEW r \in Seq(S), NEW t \in Seq(S), NEW e \in S
    PROVE  r \o Append(t, e) = Append(r \o t, e)
OBVIOUS

\* What is among a sequence and the next is among the one, and then among the other.
LEMMA AmongJoined ==
    ASSUME NEW S, NEW r \in Seq(S), NEW A, NEW t \in Seq(S)
    PROVE  Among(r \o t, A) = Among(r, A) \o Among(t, A)
<1> DEFINE Fine(u) == Among(r \o u, A) = Among(r, A) \o Among(u, A)
           T == {k \in Nat : \A u \in Seq(S) : Len(u) = k => Fine(u)}
<1>0. Among(r, A) \in Seq(S)
  BY AmongElements
<1>1. 0 \in T
  <2> SUFFICES ASSUME NEW u \in Seq(S), Len(u) = 0 PROVE Fine(u)
    OBVIOUS
  <2>1. u = <<>>
    OBVIOUS
  <2>2. r \o <<>> = r /\ Among(r, A) \o <<>> = Among(r, A)
    BY <1>0, NothingBefore
  <2> QED BY <2>1, <2>2, AmongNone
<1>2. ASSUME NEW k \in T PROVE k + 1 \in T
  <2> SUFFICES ASSUME NEW u \in Seq(S), Len(u) = k + 1 PROVE Fine(u)
    OBVIOUS
  <2>0. k \in Nat
    OBVIOUS
  <2>1. PICK w \in Seq(S), e \in S : Len(w) = k /\ u = Append(w, e)
    <3>1. /\ SubSeq(u, 1, k) \in Seq(S) /\ Len(SubSeq(u, 1, k)) = k /\ u[k + 1] \in S
          /\ u = Append(SubSeq(u, 1, k), u[k + 1])
      BY <2>0, FrontAndLast
    <3> QED BY <3>1
  <2>2. Among(r \o w, A) = Among(r, A) \o Among(w, A)
    BY <2>1
  <2>3. r \o u = Append(r \o w, e) /\ r \o w \in Seq(S)
    BY <2>1, JoinAppend, Joined
  <2>4. Among(r \o u, A) = IF e \in A THEN Append(Among(r \o w, A), e) ELSE Among(r \o w, A)
    <3> DEFINE rw == r \o w
    <3>1. rw \in Seq(S) /\ r \o u = Append(rw, e)
      BY <2>3
    <3> HIDE DEF rw
    <3>2. Among(Append(rw, e), A) = IF e \in A THEN Append(Among(rw, A), e) ELSE Among(rw, A)
      BY <2>1, <3>1, AmongAppend
    <3> QED BY <3>1, <3>2 DEF rw
  <2>5. Among(u, A) = IF e \in A THEN Append(Among(w, A), e) ELSE Among(w, A)
    BY <2>1, AmongAppend
  <2>6. Among(w, A) \in Seq(S)
    BY AmongElements
  <2>7. Among(r, A) \o Append(Among(w, A), e) = Append(Among(r, A) \o Among(w, A), e)
    BY <1>0, <2>6, JoinAppend
  <2> QED BY <2>2, <2>4, <2>5, <2>7
<1>3. Len(t) \in T
  <2>1. T \in SUBSET Nat /\ Len(t) \in Nat
    OBVIOUS
  <2> HIDE DEF T
  <2> QED BY <1>1, <1>2, <2>1, Induction
<1> QED BY <1>3

BlocksOf(type) == {b \in Block : b.type = type}

LEMMA OfTypeAmong == ASSUME NEW bs \in Seq(Block), NEW type PROVE OfType(bs, type) = Among(bs, BlocksOf(type))
<1>1. {i \in DOMAIN bs : bs[i].type = type} = {i \in DOMAIN bs : bs[i] \in BlocksOf(type)}
  BY DEF BlocksOf
<1> QED BY <1>1 DEF OfType, Among

IdType == {"tool_use", "tool_result"}

\* The ids of blocks and of further blocks.
LEMMA IdsJoined ==
    ASSUME NEW b \in Seq(Block), NEW c \in Seq(Block), NEW type \in IdType
    PROVE  Ids(b \o c, type) = Ids(b, type) \o Ids(c, type)
<1> DEFINE o == OfType(b, type)
           p == OfType(c, type)
           q == OfType(b \o c, type)
<1>1. o \in Seq(Block) /\ p \in Seq(Block) /\ b \o c \in Seq(Block)
  BY OfTypeTyped, Joined
<1>2. q \in Seq(Block) /\ q = o \o p
  <2> DEFINE bc == b \o c
  <2>1. bc \in Seq(Block)
    BY <1>1
  <2> HIDE DEF bc
  <2>2. /\ OfType(bc, type) \in Seq(Block) /\ OfType(bc, type) = Among(bc, BlocksOf(type))
        /\ o = Among(b, BlocksOf(type)) /\ p = Among(c, BlocksOf(type))
    BY <2>1, OfTypeTyped, OfTypeAmong
  <2>3. Among(bc, BlocksOf(type)) = Among(b, BlocksOf(type)) \o Among(c, BlocksOf(type))
    <3> DEFINE A == BlocksOf(type)
    <3> HIDE DEF A
    <3>1. Among(b \o c, A) = Among(b, A) \o Among(c, A)
      BY AmongJoined
    <3> QED BY <3>1 DEF A, bc
  <2> QED BY <2>2, <2>3 DEF bc
<1>3. /\ Ids(b, type) = [i \in DOMAIN o |-> o[i].id] /\ Ids(c, type) = [i \in DOMAIN p |-> p[i].id]
      /\ Ids(b \o c, type) = [i \in DOMAIN q |-> q[i].id]
  BY DEF Ids
<1>4. Ids(b, type) \in Seq(Id) /\ Ids(c, type) \in Seq(Id) /\ Ids(b \o c, type) \in Seq(Id)
  BY <1>1, IdsTyped DEF IdType
<1> HIDE DEF o, p, q
<1> DEFINE x == Ids(b, type)
           y == Ids(c, type)
           z == Ids(b \o c, type)
           m == Len(o)
           n == Len(p)
<1>5. m \in Nat /\ n \in Nat /\ DOMAIN o = 1 .. m /\ DOMAIN p = 1 .. n
  BY <1>1
<1>6. /\ Len(q) = m + n /\ \A i \in 1 .. m : q[i] = o[i]
      /\ \A i \in 1 .. n : q[m + i] = p[i]
  BY <1>1, <1>2, Joined
<1>7. DOMAIN q = 1 .. m + n
  BY <1>2, <1>6
<1>8. /\ Len(x) = m /\ Len(y) = n /\ Len(z) = m + n
      /\ \A i \in 1 .. m : x[i] = o[i].id
      /\ \A i \in 1 .. n : y[i] = p[i].id
      /\ \A i \in 1 .. m + n : z[i] = q[i].id
  <2>1. DOMAIN x = 1 .. m /\ DOMAIN y = 1 .. n /\ DOMAIN z = 1 .. m + n
    BY <1>3, <1>5, <1>7
  <2>2. Len(x) = m /\ Len(y) = n /\ Len(z) = m + n
    BY <1>4, <1>5, <2>1
  <2> QED BY <1>3, <1>5, <1>7, <2>2
<1> HIDE DEF x, y, z, m, n
<1>9. /\ x \o y \in Seq(Id) /\ Len(x \o y) = m + n /\ \A i \in 1 .. m : (x \o y)[i] = x[i]
      /\ \A i \in 1 .. n : (x \o y)[m + i] = y[i]
  <2>1. x \in Seq(Id) /\ y \in Seq(Id)
    BY <1>4 DEF x, y
  <2> QED BY <1>8, <2>1, Joined
<1> DEFINE w == x \o y
<1>10. ASSUME NEW i \in 1 .. m + n PROVE z[i] = w[i]
  <2>1. CASE i \in 1 .. m
    BY <1>6, <1>8, <1>9, <2>1
  <2>2. CASE i \notin 1 .. m
    <3>1. i - m \in 1 .. n /\ m + (i - m) = i
      BY <1>5, <2>2
    <3>2. q[i] = p[i - m] /\ w[i] = y[i - m]
      BY <1>6, <1>9, <3>1
    <3> QED BY <1>8, <3>1, <3>2
  <2> QED BY <2>1, <2>2
<1> HIDE DEF w
<1>11. z = w
  <2>1. z \in Seq(Id) /\ w \in Seq(Id) /\ Len(z) = Len(w) /\ \A i \in 1 .. Len(z) : z[i] = w[i]
    BY <1>4, <1>8, <1>9, <1>10 DEF z, w
  <2> QED BY <2>1, SameSeq
<1> QED BY <1>11 DEF w, x, y, z

\* An id is of a type in blocks, if one of them has it.
Bears(bs, type, x) == \E i \in DOMAIN bs : bs[i].type = type /\ bs[i].id = x

LEMMA IdsBear ==
    ASSUME NEW bs \in Seq(Block), NEW type, NEW x
    PROVE  x \in ToSet(Ids(bs, type)) <=> Bears(bs, type, x)
<1> DEFINE K == {i \in DOMAIN bs : bs[i].type = type}
           o == OfType(bs, type)
<1>1. K \in SUBSET (DOMAIN bs) /\ o = At(bs, K)
  BY DEF OfType
<1>2. Ids(bs, type) = [i \in DOMAIN o |-> o[i].id]
  BY DEF Ids
<1> HIDE DEF o
<1>3. ToSet(Ids(bs, type)) = {o[i].id : i \in DOMAIN o}
  BY <1>2 DEF ToSet
<1>4. ToSet(o) = {bs[k] : k \in K}
  BY <1>1, AtElements
<1>5. ToSet(o) = {o[i] : i \in DOMAIN o}
  BY DEF ToSet
<1>6. x \in ToSet(Ids(bs, type)) <=> \E e \in ToSet(o) : e.id = x
  BY <1>3, <1>5
<1>7. (\E e \in ToSet(o) : e.id = x) <=> \E k \in K : bs[k].id = x
  BY <1>4
<1> QED BY <1>6, <1>7 DEF Bears

-----------------------------------------------------------------------------
(* The blocks of a conversation that goes on. *)

LEMMA FlattenAppend ==
    ASSUME NEW S, NEW ss \in Seq(Seq(S)), NEW e \in Seq(S)
    PROVE  FlattenSeq(Append(ss, e)) = FlattenSeq(ss) \o e
<1> DEFINE t == Append(ss, e)
           n == Len(ss)
<1>1. /\ t \in Seq(Seq(S)) /\ Len(t) = n + 1 /\ n \in Nat /\ t[n + 1] = e
      /\ \A i \in 1 .. n : t[i] = ss[i]
  BY AppendTo
<1> HIDE DEF t
<1>2. PICK f \in [0 .. n -> Seq(S)] : FlatChain(f, ss)
  BY FlattenSteps
<1>3. PICK g \in [0 .. Len(t) -> Seq(S)] : FlatChain(g, t)
  BY <1>1, FlattenSteps
<1>4. f[0] = <<>> /\ FlattenSeq(ss) = f[n] /\ \A k \in 1 .. n : f[k] = f[k - 1] \o ss[k]
  BY <1>2 DEF FlatChain
<1>5. g[0] = <<>> /\ FlattenSeq(t) = g[n + 1] /\ \A k \in 1 .. n + 1 : g[k] = g[k - 1] \o t[k]
  BY <1>1, <1>3 DEF FlatChain
<1> DEFINE T == {k \in Nat : k <= n => g[k] = f[k]}
<1>6. 0 \in T
  BY <1>4, <1>5
<1>7. ASSUME NEW k \in T PROVE k + 1 \in T
  <2> SUFFICES ASSUME k + 1 <= n PROVE g[k + 1] = f[k + 1]
    OBVIOUS
  <2>1. k \in Nat /\ k + 1 \in 1 .. n /\ k + 1 \in 1 .. n + 1 /\ (k + 1) - 1 = k
    BY <1>1
  <2>2. g[k] = f[k] /\ t[k + 1] = ss[k + 1]
    BY <1>1, <2>1
  <2>3. f[k + 1] = f[k] \o ss[k + 1] /\ g[k + 1] = g[k] \o t[k + 1]
    BY <1>4, <1>5, <2>1
  <2> QED BY <2>2, <2>3
<1>8. n \in T
  <2>1. T \in SUBSET Nat
    OBVIOUS
  <2> HIDE DEF T
  <2> QED BY <1>1, <1>6, <1>7, <2>1, Induction
<1>9. g[n] = f[n]
  BY <1>1, <1>8
<1>10. n + 1 \in 1 .. n + 1 /\ (n + 1) - 1 = n
  BY <1>1
<1>11. g[n + 1] = g[n] \o t[n + 1]
  BY <1>5, <1>10
<1> QED BY <1>1, <1>4, <1>5, <1>9, <1>11 DEF t

LEMMA BlocksAppend ==
    ASSUME NEW ms \in Talk, NEW m \in Message
    PROVE  Blocks(Append(ms, m)) = Blocks(ms) \o m.blocks
<1> DEFINE t == Append(ms, m)
           f == [i \in DOMAIN ms |-> ms[i].blocks]
           g == [i \in DOMAIN t |-> t[i].blocks]
           n == Len(ms)
<1>0. ms \in Seq(Message)
  BY DEF Talk
<1>1. /\ t \in Seq(Message) /\ Len(t) = n + 1 /\ n \in Nat /\ t[n + 1] = m
      /\ \A i \in 1 .. n : t[i] = ms[i]
  BY <1>0, AppendTo
<1>2. DOMAIN ms = 1 .. n /\ DOMAIN t = 1 .. n + 1
  <2>1. DOMAIN t = 1 .. Len(t)
    BY <1>1
  <2> QED BY <1>0, <1>1, <2>1
<1>3. Blocks(ms) = FlattenSeq(f) /\ Blocks(t) = FlattenSeq(g)
  BY DEF Blocks
<1> HIDE DEF t
<1>4. \A i \in DOMAIN ms : f[i] \in Seq(Block)
  BY TalkParts, MessageParts
<1>5. \A i \in DOMAIN t : g[i] \in Seq(Block)
  <2>1. \A i \in DOMAIN t : t[i] \in Message
    BY <1>1
  <2> QED BY <2>1, MessageParts
<1>6. f \in Seq(Seq(Block)) /\ Len(f) = n
  <2>1. f = [i \in DOMAIN ms |-> f[i]]
    OBVIOUS
  <2> HIDE DEF f
  <2> QED BY <1>0, <1>4, <2>1, MappedSeq
<1>7. g \in Seq(Seq(Block)) /\ Len(g) = n + 1
  <2>1. g = [i \in DOMAIN t |-> g[i]]
    OBVIOUS
  <2> HIDE DEF g
  <2> QED BY <1>1, <1>5, <2>1, MappedSeq
<1>8. /\ \A i \in 1 .. n : f[i] = ms[i].blocks
      /\ \A i \in 1 .. n + 1 : g[i] = t[i].blocks
  BY <1>2
<1>9. m.blocks \in Seq(Block)
  BY MessageParts
<1> HIDE DEF f, g
<1> DEFINE e == m.blocks
           h == Append(f, e)
<1>10. /\ h \in Seq(Seq(Block)) /\ Len(h) = n + 1 /\ h[n + 1] = e /\ \A i \in 1 .. n : h[i] = f[i]
  <2>1. e \in Seq(Block)
    BY <1>9
  <2> HIDE DEF e
  <2> QED BY <1>6, <2>1, AppendTo
<1> HIDE DEF h
<1>11. ASSUME NEW i \in 1 .. n + 1 PROVE g[i] = h[i]
  <2>1. CASE i = n + 1
    BY <1>1, <1>8, <1>10, <2>1
  <2>2. CASE i # n + 1
    <3>1. i \in 1 .. n
      BY <1>1, <2>2
    <3> QED BY <1>1, <1>8, <1>10, <3>1
  <2> QED BY <2>1, <2>2
<1>12. g = h
  <2>1. Len(g) = Len(h) /\ \A i \in 1 .. Len(g) : g[i] = h[i]
    BY <1>7, <1>10, <1>11
  <2> QED BY <1>7, <1>10, <2>1, SameSeq
<1>13. FlattenSeq(h) = FlattenSeq(f) \o e
  <2>1. e \in Seq(Block)
    BY <1>9
  <2> HIDE DEF e
  <2> QED BY <1>6, <2>1, FlattenAppend DEF h
<1> QED BY <1>3, <1>12, <1>13 DEF t

LEMMA BlocksNone == Blocks(<<>>) = <<>>
<1> DEFINE f == [i \in DOMAIN <<>> |-> <<>>[i].blocks]
<1>1. f = <<>>
  OBVIOUS
<1>2. Blocks(<<>>) = FlattenSeq(f)
  BY DEF Blocks
<1> QED BY <1>1, <1>2 DEF FlattenSeq

\* The ids of a conversation are those of its messages.
LEMMA IdsOfTalk ==
    ASSUME NEW ms \in Talk, NEW type \in IdType, NEW x
    PROVE  x \in ToSet(Ids(Blocks(ms), type)) <=> \E i \in DOMAIN ms : x \in ToSet(Ids(ms[i].blocks, type))
<1> DEFINE Fine(t) == x \in ToSet(Ids(Blocks(t), type))
                          <=> \E i \in 1 .. Len(t) : x \in ToSet(Ids(t[i].blocks, type))
           T == {k \in Nat : \A t \in Talk : Len(t) = k => Fine(t)}
<1>1. 0 \in T
  <2> SUFFICES ASSUME NEW t \in Talk, Len(t) = 0 PROVE Fine(t)
    OBVIOUS
  <2>1. t = <<>>
    BY DEF Talk
  <2>2. <<>> \in Seq(Block)
    OBVIOUS
  <2>3. ~Bears(<<>>, type, x)
    BY DEF Bears
  <2>4. x \notin ToSet(Ids(<<>>, type))
    BY <2>2, <2>3, IdsBear
  <2>5. Blocks(t) = <<>>
    BY <2>1, BlocksNone
  <2>6. 1 .. Len(t) = {}
    OBVIOUS
  <2> QED BY <2>4, <2>5, <2>6
<1>2. ASSUME NEW k \in T PROVE k + 1 \in T
  <2> SUFFICES ASSUME NEW t \in Talk, Len(t) = k + 1 PROVE Fine(t)
    OBVIOUS
  <2> DEFINE r == SubSeq(t, 1, k)
             m == t[k + 1]
  <2>1. /\ k \in Nat /\ r \in Talk /\ Len(r) = k /\ \A i \in 1 .. k : r[i] = t[i]
        /\ m \in Message /\ t = Append(r, m)
    BY FrontAndLast DEF Talk
  <2>2. Fine(r)
    BY <2>1
  <2> HIDE DEF r, m
  <2>3. Blocks(t) = Blocks(r) \o m.blocks /\ Blocks(r) \in Seq(Block) /\ m.blocks \in Seq(Block)
    BY <2>1, BlocksAppend, BlocksTyped, MessageParts
  <2> DEFINE u == Ids(Blocks(r), type)
             v == Ids(m.blocks, type)
  <2>4. Ids(Blocks(t), type) = u \o v /\ u \in Seq(Id) /\ v \in Seq(Id)
    BY <2>3, IdsJoined, IdsTyped DEF IdType
  <2> HIDE DEF u, v
  <2>5. x \in ToSet(u \o v) <=> x \in ToSet(u) \/ x \in ToSet(v)
    <3> DEFINE w == u \o v
    <3>1. /\ w \in Seq(Id) /\ Len(w) = Len(u) + Len(v) /\ \A i \in 1 .. Len(u) : w[i] = u[i]
          /\ \A i \in 1 .. Len(v) : w[Len(u) + i] = v[i]
      BY <2>4, Joined
    <3> HIDE DEF w
    <3>2. Len(u) \in Nat /\ Len(v) \in Nat /\ DOMAIN u = 1 .. Len(u) /\ DOMAIN v = 1 .. Len(v)
          /\ DOMAIN w = 1 .. Len(w)
      BY <2>4, <3>1
    <3>3. ASSUME NEW i \in DOMAIN w
          PROVE  (\E j \in DOMAIN u : u[j] = w[i]) \/ (\E j \in DOMAIN v : v[j] = w[i])
      <4>1. CASE i \in 1 .. Len(u)
        BY <3>1, <3>2, <4>1
      <4>2. CASE i \notin 1 .. Len(u)
        <5>1. i - Len(u) \in 1 .. Len(v) /\ Len(u) + (i - Len(u)) = i
          BY <3>1, <3>2, <4>2
        <5> QED BY <3>1, <3>2, <5>1
      <4> QED BY <4>1, <4>2
    <3>4. ASSUME NEW j \in DOMAIN u PROVE \E i \in DOMAIN w : w[i] = u[j]
      BY <3>1, <3>2
    <3>5. ASSUME NEW j \in DOMAIN v PROVE \E i \in DOMAIN w : w[i] = v[j]
      <4>1. Len(u) + j \in DOMAIN w
        BY <3>1, <3>2
      <4> QED BY <3>1, <3>2, <4>1
    <3>6. x \in ToSet(w) <=> \E i \in DOMAIN w : w[i] = x
      BY DEF ToSet
    <3>7. /\ x \in ToSet(u) <=> \E i \in DOMAIN u : u[i] = x
          /\ x \in ToSet(v) <=> \E i \in DOMAIN v : v[i] = x
      BY DEF ToSet
    <3> QED BY <3>3, <3>4, <3>5, <3>6, <3>7 DEF w
  <2>6. \A i \in 1 .. k + 1 : i \in 1 .. k \/ i = k + 1
    BY <2>1
  <2>7. k + 1 \in 1 .. k + 1 /\ 1 .. k \subseteq 1 .. k + 1
    BY <2>1
  <2> QED BY <2>1, <2>2, <2>4, <2>5, <2>6, <2>7 DEF u, v, m
<1>3. Len(ms) \in T
  <2>1. T \in SUBSET Nat /\ Len(ms) \in Nat
    BY TalkParts
  <2> HIDE DEF T
  <2> QED BY <1>1, <1>2, <2>1, Induction
<1> QED BY <1>3, TalkParts

-----------------------------------------------------------------------------
(* What the history calls and answers. *)

\* A turn of one of two lists is a turn of their concatenation, and conversely.
IsJoined(w, r, t) ==
    /\ \A i \in DOMAIN r : \E j \in DOMAIN w : w[j] = r[i]
    /\ \A i \in DOMAIN t : \E j \in DOMAIN w : w[j] = t[i]
    /\ \A j \in DOMAIN w : (\E i \in DOMAIN r : w[j] = r[i]) \/ (\E i \in DOMAIN t : w[j] = t[i])

LEMMA JoinedElements ==
    ASSUME NEW S, NEW r \in Seq(S), NEW t \in Seq(S)
    PROVE  IsJoined(r \o t, r, t)
<1> DEFINE w == r \o t
           m == Len(r)
           n == Len(t)
<1>1. /\ w \in Seq(S) /\ Len(w) = m + n /\ \A i \in 1 .. m : w[i] = r[i]
      /\ \A i \in 1 .. n : w[m + i] = t[i]
  BY Joined
<1> HIDE DEF w
<1>2. /\ m \in Nat /\ n \in Nat /\ DOMAIN r = 1 .. m /\ DOMAIN t = 1 .. n /\ DOMAIN w = 1 .. m + n
  BY <1>1
<1> HIDE DEF m, n
<1>3. \A i \in DOMAIN r : \E j \in DOMAIN w : w[j] = r[i]
  BY <1>1, <1>2
<1>4. ASSUME NEW i \in DOMAIN t PROVE \E j \in DOMAIN w : w[j] = t[i]
  <2>1. m + i \in DOMAIN w
    BY <1>2
  <2> QED BY <1>1, <1>2, <2>1
<1>5. ASSUME NEW j \in DOMAIN w
      PROVE  (\E i \in DOMAIN r : w[j] = r[i]) \/ (\E i \in DOMAIN t : w[j] = t[i])
  <2>1. CASE j \in 1 .. m
    BY <1>1, <1>2, <2>1
  <2>2. CASE j \notin 1 .. m
    <3>1. j - m \in 1 .. n /\ m + (j - m) = j
      BY <1>2, <2>2
    <3> QED BY <1>1, <1>2, <3>1
  <2> QED BY <2>1, <2>2
<1> QED BY <1>3, <1>4, <1>5 DEF w, IsJoined

LEMMA MergedCalls ==
    ASSUME NEW ms \in Talk
    PROVE  /\ MergeUsers(ms).results = Ids(Blocks(ms), "tool_result")
           /\ MergeAssistants(ms).uses = Ids(Blocks(ms), "tool_use")
           /\ MergeAssistants(ms).results = <<>>
<1>1. Blocks(ms) \in Seq(Block)
  BY BlocksTyped
<1>2. Ids(Blocks(ms), "tool_result") \in Seq(Id)
  BY <1>1, IdsTyped
<1>3. MergeUsers(ms).results = Ids(Blocks(ms), "tool_result")
  BY <1>1, <1>2, UserTurnTyped DEF MergeUsers
<1> QED BY <1>3 DEF MergeAssistants, Turn

\* A streak is a part of the conversation.
LEMMA StreakPart ==
    ASSUME NEW ms \in Talk, NEW k \in 1 .. Len(Starts(ms))
    PROVE  /\ StreakOf(ms, k) \in Talk
           /\ \A i \in DOMAIN StreakOf(ms, k) : \E j \in Starts(ms)[k] .. StreakEnd(ms, k) :
                 j \in DOMAIN ms /\ StreakOf(ms, k)[i] = ms[j]
           /\ \A j \in Starts(ms)[k] .. StreakEnd(ms, k) : \E i \in DOMAIN StreakOf(ms, k) :
                 StreakOf(ms, k)[i] = ms[j]
<1> DEFINE a == Starts(ms)[k]
           b == StreakEnd(ms, k)
           s == SubSeq(ms, a, b)
<1>1. a \in 1 .. Len(ms) /\ b \in a .. Len(ms) /\ Len(ms) \in Nat /\ DOMAIN ms = 1 .. Len(ms)
  BY StreakRole, TalkParts
<1>2. StreakOf(ms, k) = s
  BY DEF StreakOf
<1> HIDE DEF a, b
<1>3. a \in 1 .. Len(ms) + 1 /\ b \in a - 1 .. Len(ms)
  BY <1>1
<1>4. /\ s \in Seq(Message) /\ Len(s) = b - a + 1
      /\ \A i \in 1 .. b - a + 1 : s[i] = ms[a + i - 1]
  <2>1. ms \in Seq(Message)
    BY DEF Talk
  <2> QED BY <1>3, <2>1, SubSeqTyped
<1> HIDE DEF s
<1>5. DOMAIN s = 1 .. b - a + 1
  BY <1>4
<1>6. ASSUME NEW i \in DOMAIN s PROVE \E j \in a .. b : j \in DOMAIN ms /\ s[i] = ms[j]
  <2>1. a + i - 1 \in a .. b /\ a + i - 1 \in DOMAIN ms
    BY <1>1, <1>5
  <2> QED BY <1>4, <1>5, <2>1
<1>7. ASSUME NEW j \in a .. b PROVE \E i \in DOMAIN s : s[i] = ms[j]
  <2>1. j - a + 1 \in DOMAIN s /\ a + (j - a + 1) - 1 = j
    BY <1>1, <1>5
  <2> QED BY <1>4, <1>5, <2>1
<1> QED BY <1>2, <1>4, <1>6, <1>7 DEF a, b, Talk

LEMMA StreakTurnIs ==
    ASSUME NEW ms \in Talk, NEW k \in 1 .. Len(Starts(ms))
    PROVE  /\ k \in DOMAIN StreakTurns(ms)
           /\ StreakTurns(ms)[k] = IF ms[Starts(ms)[k]].role = "user" THEN MergeUsers(StreakOf(ms, k))
                                   ELSE MergeAssistants(StreakOf(ms, k))
<1>1. DOMAIN StreakTurns(ms) = 1 .. Len(Starts(ms))
  BY StreakTurnsForm
<1>2. DOMAIN StreakTurns(ms) = DOMAIN Starts(ms)
  BY DEF StreakTurns
<1> QED BY <1>1, <1>2 DEF StreakTurns

LEMMA StreaksOfHistory ==
    ASSUME NEW ms \in Talk
    PROVE  /\ \A k \in DOMAIN StreakTurns(ms) : \E j \in DOMAIN History(ms) :
                 History(ms)[j] = StreakTurns(ms)[k]
           /\ \A j \in DOMAIN History(ms) :
                 \/ History(ms)[j].results = <<>>
                 \/ \E k \in DOMAIN StreakTurns(ms) : History(ms)[j] = StreakTurns(ms)[k]
<1> DEFINE a == SystemTurns
           b == StreakTurns(ms)
           c == Closing(ms)
           ab == a \o b
           h == ab \o c
<1>1. a \in Seq(Wholes) /\ b \in Seq(Wholes) /\ c \in Seq(Wholes)
  BY FrontForm, StreakTurnsForm, ClosingForm
<1>2. \A i \in DOMAIN a : a[i].results = <<>>
  <2> DEFINE u == Turn("user", <<"system">>)
             v == Turn("assistant", <<"I will follow">>)
  <2>1. u.results = <<>> /\ v.results = <<>>
    BY DEF Turn
  <2>2. a = IF session.system THEN <<u, v>> ELSE <<>>
    BY DEF SystemTurns
  <2> HIDE DEF u, v
  <2> QED BY <2>1, <2>2
<1>3. \A i \in DOMAIN c : c[i].results = <<>>
  BY DEF Closing, Turn
<1>4. History(ms) = h
  BY HistoryParts
<1> HIDE DEF a, b, c
<1>5. /\ ab \in Seq(Wholes)
      /\ \A i \in DOMAIN b : \E j \in DOMAIN ab : ab[j] = b[i]
      /\ \A j \in DOMAIN ab : (\E i \in DOMAIN a : ab[j] = a[i]) \/ (\E i \in DOMAIN b : ab[j] = b[i])
  <2>1. ab \in Seq(Wholes)
    BY <1>1, Joined
  <2>2. IsJoined(ab, a, b)
    BY <1>1, JoinedElements
  <2> HIDE DEF ab
  <2> QED BY <2>1, <2>2 DEF IsJoined
<1> HIDE DEF ab
<1>6. /\ \A i \in DOMAIN ab : \E j \in DOMAIN h : h[j] = ab[i]
      /\ \A j \in DOMAIN h : (\E i \in DOMAIN ab : h[j] = ab[i]) \/ (\E i \in DOMAIN c : h[j] = c[i])
  <2>1. IsJoined(h, ab, c)
    BY <1>1, <1>5, JoinedElements
  <2> HIDE DEF h
  <2> QED BY <2>1 DEF IsJoined
<1> HIDE DEF h
<1>7. \A i \in DOMAIN b : \E j \in DOMAIN h : h[j] = b[i]
  BY <1>5, <1>6
<1>8. \A j \in DOMAIN h : h[j].results = <<>> \/ \E i \in DOMAIN b : h[j] = b[i]
  BY <1>2, <1>3, <1>5, <1>6
<1> QED BY <1>4, <1>7, <1>8 DEF b

\* What the last assistant has called is in the history.
LEMMA LastCalls ==
    ASSUME NEW ms \in Talk, Len(ms) > 0, ms[Len(ms)].role = "assistant",
           NEW x \in ToSet(Ids(ms[Len(ms)].blocks, "tool_use"))
    PROVE  x \in UsesIn(History(ms))
<1> DEFINE k == Len(Starts(ms))
           n == Len(ms)
           s == StreakOf(ms, k)
<1>1. k \in Nat /\ k > 0 /\ n \in Nat
  BY StartsPick, FirstStart, TalkParts
<1>2. k \in 1 .. Len(Starts(ms)) /\ ~(k < Len(Starts(ms)))
  BY <1>1
<1>3. StreakEnd(ms, k) = n
  BY <1>2 DEF StreakEnd
<1>4. Starts(ms)[k] \in 1 .. n /\ \A j \in Starts(ms)[k] .. n : ms[j].role = ms[Starts(ms)[k]].role
  BY <1>2, <1>3, StreakRole
<1>5. n \in Starts(ms)[k] .. n
  BY <1>1, <1>4
<1>6. ms[Starts(ms)[k]].role = "assistant"
  BY <1>4, <1>5
<1>7. /\ s \in Talk /\ \A j \in Starts(ms)[k] .. n : \E i \in DOMAIN s : s[i] = ms[j]
  BY <1>2, <1>3, StreakPart
<1>8. PICK i \in DOMAIN s : s[i] = ms[n]
  BY <1>5, <1>7
<1>9. StreakTurns(ms)[k].uses = Ids(Blocks(s), "tool_use") /\ k \in DOMAIN StreakTurns(ms)
  <2>1. StreakTurns(ms)[k] = MergeAssistants(s) /\ k \in DOMAIN StreakTurns(ms)
    BY <1>2, <1>6, StreakTurnIs
  <2> QED BY <1>7, <2>1, MergedCalls
<1> HIDE DEF k, s
<1>10. x \in ToSet(Ids(Blocks(s), "tool_use"))
  <2>1. "tool_use" \in IdType /\ x \in ToSet(Ids(s[i].blocks, "tool_use"))
    BY <1>8 DEF IdType
  <2> QED BY <1>7, <2>1, IdsOfTalk
<1>11. PICK j \in DOMAIN History(ms) : History(ms)[j] = StreakTurns(ms)[k]
  BY <1>9, StreaksOfHistory
<1> QED BY <1>9, <1>10, <1>11, UsesOf

\* What the history answers, one of its users has answered.
LEMMA AnsweredByUser ==
    ASSUME NEW ms \in Talk, NEW x \in ResultsIn(History(ms))
    PROVE  \E i \in DOMAIN ms : ms[i].role = "user" /\ x \in ToSet(Ids(ms[i].blocks, "tool_result"))
<1>1. PICK j \in DOMAIN History(ms) : x \in ToSet(History(ms)[j].results)
  BY UsesOf
<1>2. History(ms)[j].results # <<>>
  BY <1>1 DEF ToSet
<1>3. PICK k \in DOMAIN StreakTurns(ms) : History(ms)[j] = StreakTurns(ms)[k]
  BY <1>2, StreaksOfHistory
<1>4. k \in 1 .. Len(Starts(ms))
  BY StreakTurnsForm
<1> DEFINE s == StreakOf(ms, k)
<1>5. s \in Talk /\ \A i \in DOMAIN s : \E l \in Starts(ms)[k] .. StreakEnd(ms, k) :
                          l \in DOMAIN ms /\ s[i] = ms[l]
  BY <1>4, StreakPart
<1>6. \A l \in Starts(ms)[k] .. StreakEnd(ms, k) : ms[l].role = ms[Starts(ms)[k]].role
  BY <1>4, StreakRole
<1>7. ms[Starts(ms)[k]].role = "user" /\ StreakTurns(ms)[k].results = Ids(Blocks(s), "tool_result")
  <2>1. StreakTurns(ms)[k] = IF ms[Starts(ms)[k]].role = "user" THEN MergeUsers(s) ELSE MergeAssistants(s)
    BY <1>4, StreakTurnIs
  <2>2. MergeUsers(s).results = Ids(Blocks(s), "tool_result") /\ MergeAssistants(s).results = <<>>
    BY <1>5, MergedCalls
  <2> QED BY <1>2, <1>3, <2>1, <2>2
<1> HIDE DEF s
<1>8. PICK i \in DOMAIN s : x \in ToSet(Ids(s[i].blocks, "tool_result"))
  <2>1. "tool_result" \in IdType /\ x \in ToSet(Ids(Blocks(s), "tool_result"))
    BY <1>1, <1>3, <1>7 DEF IdType
  <2> QED BY <1>5, <2>1, IdsOfTalk
<1> QED BY <1>5, <1>6, <1>7, <1>8

-----------------------------------------------------------------------------
(* More about Among. *)

LEMMA AmongSame ==
    ASSUME NEW s, NEW A, NEW B, \A i \in DOMAIN s : s[i] \in A <=> s[i] \in B
    PROVE  Among(s, A) = Among(s, B)
<1>1. {i \in DOMAIN s : s[i] \in A} = {i \in DOMAIN s : s[i] \in B}
  OBVIOUS
<1> QED BY <1>1 DEF Among

\* Among what is among A, what is in B; what is all in A; and how much it is.
LEMMA AmongFacts ==
    ASSUME NEW S, NEW s \in Seq(S), NEW A, NEW B
    PROVE  /\ Among(Among(s, A), B) = Among(s, A \cap B)
           /\ (\A i \in DOMAIN s : s[i] \in A) => Among(s, A) = s
           /\ Len(Among(s, A)) <= Len(s)
<1> DEFINE Fine(u) == /\ Among(Among(u, A), B) = Among(u, A \cap B)
                      /\ (\A i \in DOMAIN u : u[i] \in A) => Among(u, A) = u
                      /\ Len(Among(u, A)) <= Len(u)
           T == {k \in Nat : \A u \in Seq(S) : Len(u) = k => Fine(u)}
<1>1. 0 \in T
  <2> SUFFICES ASSUME NEW u \in Seq(S), Len(u) = 0 PROVE Fine(u)
    OBVIOUS
  <2>1. u = <<>>
    OBVIOUS
  <2> QED BY <2>1, AmongNone
<1>2. ASSUME NEW k \in T PROVE k + 1 \in T
  <2> SUFFICES ASSUME NEW u \in Seq(S), Len(u) = k + 1 PROVE Fine(u)
    <3> HIDE DEF Fine
    <3> QED OBVIOUS
  <2>0. k \in Nat
    OBVIOUS
  <2>1. PICK w \in Seq(S), e \in S :
           Len(w) = k /\ u = Append(w, e) /\ \A i \in 1 .. k : w[i] = u[i]
    <3>1. /\ SubSeq(u, 1, k) \in Seq(S) /\ Len(SubSeq(u, 1, k)) = k /\ u[k + 1] \in S
          /\ u = Append(SubSeq(u, 1, k), u[k + 1])
          /\ \A i \in 1 .. k : SubSeq(u, 1, k)[i] = u[i]
      BY <2>0, FrontAndLast
    <3> QED BY <3>1
  <2>2. /\ Among(Among(w, A), B) = Among(w, A \cap B)
        /\ (\A i \in DOMAIN w : w[i] \in A) => Among(w, A) = w
        /\ Len(Among(w, A)) <= Len(w)
    BY <2>1
  <2>3. Among(u, A) = IF e \in A THEN Append(Among(w, A), e) ELSE Among(w, A)
    BY <2>1, AmongAppend
  <2>4. Among(u, A \cap B) = IF e \in A \cap B THEN Append(Among(w, A \cap B), e) ELSE Among(w, A \cap B)
    <3> DEFINE C == A \cap B
    <3> HIDE DEF C
    <3>1. Among(u, C) = IF e \in C THEN Append(Among(w, C), e) ELSE Among(w, C)
      BY <2>1, AmongAppend
    <3> QED BY <3>1 DEF C
  <2> DEFINE v == Among(w, A)
  <2>5. v \in Seq(S)
    BY AmongElements
  <2> HIDE DEF v
  <2>6. Among(Append(v, e), B) = IF e \in B THEN Append(Among(v, B), e) ELSE Among(v, B)
    BY <2>1, <2>5, AmongAppend
  <2>7. Len(Append(v, e)) = Len(v) + 1 /\ Len(v) \in Nat
    BY <2>1, <2>5, AppendTo
  <2>8. Among(Among(u, A), B) = Among(u, A \cap B)
    <3>1. CASE e \in A
      <4>1. Among(u, A) = Append(v, e)
        BY <2>3, <3>1 DEF v
      <4>2. Among(v, B) = Among(w, A \cap B)
        BY <2>2 DEF v
      <4>3. e \in A \cap B <=> e \in B
        BY <3>1
      <4> QED BY <2>4, <2>6, <4>1, <4>2, <4>3
    <3>2. CASE e \notin A
      <4>1. Among(u, A) = Among(w, A) /\ Among(u, A \cap B) = Among(w, A \cap B)
        BY <2>3, <2>4, <3>2
      <4> QED BY <2>2, <4>1
    <3> QED BY <3>1, <3>2
  <2>9. Len(Among(u, A)) <= Len(u)
    <3>1. Len(Among(u, A)) \in {Len(v), Len(v) + 1}
      BY <2>3, <2>7 DEF v
    <3>2. Len(v) <= k
      BY <2>1, <2>2 DEF v
    <3> HIDE DEF v
    <3> QED BY <2>0, <2>7, <3>1, <3>2
  <2>10. (\A i \in DOMAIN u : u[i] \in A) => Among(u, A) = u
    <3> SUFFICES ASSUME \A i \in DOMAIN u : u[i] \in A PROVE Among(u, A) = u
      OBVIOUS
    <3>1. DOMAIN u = 1 .. k + 1 /\ DOMAIN w = 1 .. k /\ u[k + 1] = e
      BY <2>0, <2>1, AppendTo
    <3>2. \A i \in DOMAIN w : w[i] \in A
      BY <2>0, <2>1, <3>1
    <3>3. e \in A
      BY <2>0, <3>1
    <3> QED BY <2>1, <2>2, <2>3, <3>2, <3>3
  <2> QED BY <2>8, <2>9, <2>10
<1>3. Len(s) \in T
  <2>1. T \in SUBSET Nat /\ Len(s) \in Nat
    OBVIOUS
  <2> HIDE DEF T
  <2> QED BY <1>1, <1>2, <2>1, Induction
<1>4. Fine(s)
  BY <1>3
<1> QED BY <1>4

Full          == {m \in Message : m.blocks # <<>>}
Staying(gone) == {b \in Block : b.type \in IdType => b.id \notin gone}

LEMMA DropEmptyAmong == ASSUME NEW ms \in Talk PROVE DropEmpty(ms) = Among(ms, Full)
<1>1. {i \in DOMAIN ms : ms[i].blocks # <<>>} = {i \in DOMAIN ms : ms[i] \in Full}
  BY TalkParts DEF Full
<1> QED BY <1>1 DEF DropEmpty, Among

LEMMA WithoutAmong ==
    ASSUME NEW bs \in Seq(Block), NEW gone PROVE Without(bs, gone) = Among(bs, Staying(gone))
<1>1. {i \in DOMAIN bs : bs[i].type \in {"tool_use", "tool_result"} => bs[i].id \notin gone}
        = {i \in DOMAIN bs : bs[i] \in Staying(gone)}
  BY DEF Staying, IdType
<1> QED BY <1>1 DEF Without, Among

\* The ids of some of the blocks.
LEMMA IdsOfSome ==
    ASSUME NEW bs \in Seq(Block), NEW A, NEW type \in IdType
    PROVE  /\ ToSet(Ids(Among(bs, A), type)) \subseteq ToSet(Ids(bs, type))
           /\ (\A i \in DOMAIN bs : bs[i].type = type => bs[i] \in A)
                 => Ids(Among(bs, A), type) = Ids(bs, type)
<1> DEFINE r == Among(bs, A)
<1>1. r \in Seq(Block) /\ ToSet(r) = ToSet(bs) \cap A
  BY AmongElements
<1>2. OfType(r, type) = Among(r, BlocksOf(type)) /\ OfType(bs, type) = Among(bs, BlocksOf(type))
  BY <1>1, OfTypeAmong
<1>3. Among(r, BlocksOf(type)) = Among(bs, A \cap BlocksOf(type))
  <2> DEFINE B == BlocksOf(type)
  <2> HIDE DEF B
  <2>1. Among(Among(bs, A), B) = Among(bs, A \cap B)
    BY AmongFacts
  <2> QED BY <2>1 DEF B
<1> HIDE DEF r
<1>4. ASSUME \A i \in DOMAIN bs : bs[i].type = type => bs[i] \in A
      PROVE  Ids(r, type) = Ids(bs, type)
  <2> DEFINE B == BlocksOf(type)
             C == A \cap B
  <2>1. \A i \in DOMAIN bs : bs[i] \in C <=> bs[i] \in B
    BY <1>4 DEF BlocksOf
  <2> HIDE DEF B, C
  <2>2. Among(bs, C) = Among(bs, B)
    BY <2>1, AmongSame
  <2>3. OfType(r, type) = OfType(bs, type)
    BY <1>2, <1>3, <2>2 DEF B, C
  <2> QED BY <2>3 DEF Ids
<1>5. ASSUME NEW x \in ToSet(Ids(r, type)) PROVE x \in ToSet(Ids(bs, type))
  <2>1. Bears(r, type, x)
    BY <1>1, <1>5, IdsBear
  <2>2. PICK i \in DOMAIN r : r[i].type = type /\ r[i].id = x
    BY <2>1 DEF Bears
  <2>3. r[i] \in ToSet(bs)
    BY <1>1, <2>2 DEF ToSet
  <2>4. PICK j \in DOMAIN bs : bs[j] = r[i]
    BY <2>3 DEF ToSet
  <2>5. Bears(bs, type, x)
    BY <2>2, <2>4 DEF Bears
  <2> QED BY <2>5, IdsBear
<1> QED BY <1>4, <1>5 DEF r

-----------------------------------------------------------------------------
(* The question and the call that it answers. *)

Calls(m)   == Ids(m.blocks, "tool_use")
Answers(m) == Ids(m.blocks, "tool_result")

\* A message of the user that answers w.
IsQuestion(q, w) ==
    /\ q \in Message /\ q.role = "user" /\ q.blocks # <<>>
    /\ Calls(q) = <<>> /\ Answers(q) = w

\* Nothing in w is called in f, nor answered by the user.
Apart(f, w) ==
    \A i \in DOMAIN f :
        /\ ToSet(Calls(f[i])) \cap ToSet(w) = {}
        /\ f[i].role = "user" => ToSet(Answers(f[i])) \cap ToSet(w) = {}

\* The conversation ends with q, and what it answers is called by the message before.
Poised(ms, q, w) ==
    IF w = <<>> THEN \E f \in Talk : ms = Append(f, q)
    ELSE \E f \in Talk, a \in Message :
            /\ ms = Append(Append(f, a), q)
            /\ a.role = "assistant" /\ Calls(a) = w /\ Apart(f, w)

\* What an edit may make of a message.
Thinner(m, old) ==
    /\ m \in Message /\ m.role = old.role
    /\ ToSet(Calls(m)) \subseteq ToSet(Calls(old))
    /\ ToSet(Answers(m)) \subseteq ToSet(Answers(old))

LEMMA IdsOfNone == ASSUME NEW type PROVE Ids(<<>>, type) = <<>>
<1>1. <<>> \in Seq(Block)
  OBVIOUS
<1>2. OfType(<<>>, type) = <<>>
  BY <1>1, OfTypeAmong, AmongNone
<1> QED BY <1>2 DEF Ids

LEMMA TalkAppend ==
    ASSUME NEW f \in Talk, NEW m \in Message
    PROVE  /\ Append(f, m) \in Talk /\ Len(Append(f, m)) = Len(f) + 1 /\ Len(f) \in Nat
           /\ Append(f, m)[Len(f) + 1] = m /\ \A i \in 1 .. Len(f) : Append(f, m)[i] = f[i]
<1>1. f \in Seq(Message)
  BY DEF Talk
<1>2. /\ Append(f, m) \in Seq(Message) /\ Len(Append(f, m)) = Len(f) + 1 /\ Len(f) \in Nat
      /\ Append(f, m)[Len(f) + 1] = m /\ \A i \in 1 .. Len(f) : Append(f, m)[i] = f[i]
  BY <1>1, AppendTo
<1> QED BY <1>2 DEF Talk

\* A conversation apart from its last message.
LEMMA TalkFront ==
    ASSUME NEW ms \in Talk, NEW n \in Nat, Len(ms) = n + 1
    PROVE  \E f \in Talk : /\ Len(f) = n /\ ms = Append(f, ms[n + 1]) /\ ms[n + 1] \in Message
                           /\ \A i \in 1 .. n : f[i] = ms[i]
<1>1. ms \in Seq(Message)
  BY DEF Talk
<1>2. /\ SubSeq(ms, 1, n) \in Seq(Message) /\ Len(SubSeq(ms, 1, n)) = n
      /\ \A i \in 1 .. n : SubSeq(ms, 1, n)[i] = ms[i]
      /\ ms[n + 1] \in Message /\ ms = Append(SubSeq(ms, 1, n), ms[n + 1])
  BY <1>1, FrontAndLast
<1> QED BY <1>2 DEF Talk

LEMMA ApartAmong ==
    ASSUME NEW f \in Talk, NEW w, NEW A, Apart(f, w)
    PROVE  Among(f, A) \in Talk /\ Apart(Among(f, A), w)
<1> DEFINE g == Among(f, A)
<1>1. f \in Seq(Message)
  BY DEF Talk
<1>2. g \in Seq(Message) /\ ToSet(g) \subseteq ToSet(f)
  BY <1>1, AmongElements
<1> HIDE DEF g
<1>3. \A i \in DOMAIN g : \E j \in DOMAIN f : g[i] = f[j]
  BY <1>2 DEF ToSet
<1>4. Apart(g, w)
  BY <1>3 DEF Apart
<1> QED BY <1>2, <1>4 DEF Talk, g

\* Messages that keep their blocks stay, the last ones too.
LEMMA DropPoised ==
    ASSUME NEW q, NEW w, IsQuestion(q, w), NEW ms \in Talk, Poised(ms, q, w),
           NEW g, g = [i \in DOMAIN ms |-> g[i]],
           \A i \in DOMAIN ms : Thinner(g[i], ms[i]),
           g[Len(ms)] = q, w # <<>> => Calls(g[Len(ms) - 1]) = w
    PROVE  Poised(DropEmpty(g), q, w)
<1>1. q \in Message /\ q \in Full
  BY DEF IsQuestion, Full
<1>2. ms \in Seq(Message) /\ DOMAIN ms = 1 .. Len(ms) /\ Len(ms) \in Nat
  BY DEF Talk
<1>3. g \in Talk /\ Len(g) = Len(ms) /\ DOMAIN g = DOMAIN ms
  <2>1. \A i \in DOMAIN ms : g[i] \in Message
    BY DEF Thinner
  <2> QED BY <1>2, <2>1, MappedSeq DEF Talk
<1>4. DropEmpty(g) = Among(g, Full)
  BY <1>3, DropEmptyAmong
<1>5. CASE w = <<>>
  <2>1. PICK f \in Talk : ms = Append(f, q)
    BY <1>5 DEF Poised
  <2>2. Len(ms) = Len(f) + 1 /\ Len(f) \in Nat
    BY <1>1, <2>1, TalkAppend
  <2>3. PICK h \in Talk : g = Append(h, g[Len(f) + 1])
    BY <1>3, <2>2, TalkFront
  <2>4. g = Append(h, q) /\ h \in Seq(Message)
    BY <2>2, <2>3 DEF Talk
  <2>5. Among(g, Full) = Append(Among(h, Full), q)
    <3>1. Among(Append(h, q), Full) = IF q \in Full THEN Append(Among(h, Full), q) ELSE Among(h, Full)
      BY <1>1, <2>4, AmongAppend
    <3> QED BY <1>1, <2>4, <3>1
  <2>6. Among(h, Full) \in Talk
    BY <2>4, AmongElements DEF Talk
  <2> QED BY <1>4, <1>5, <2>5, <2>6 DEF Poised
<1>6. CASE w # <<>>
  <2>1. PICK f \in Talk, a \in Message :
           /\ ms = Append(Append(f, a), q)
           /\ a.role = "assistant" /\ Calls(a) = w /\ Apart(f, w)
    BY <1>6 DEF Poised
  <2> DEFINE n == Len(f)
  <2>2. /\ n \in Nat /\ Len(ms) = n + 2 /\ ms[n + 1] = a /\ \A i \in 1 .. n : ms[i] = f[i]
    <3> DEFINE fa == Append(f, a)
    <3>1. /\ fa \in Talk /\ Len(fa) = n + 1 /\ n \in Nat /\ fa[n + 1] = a
          /\ \A i \in 1 .. n : fa[i] = f[i]
      BY TalkAppend
    <3> HIDE DEF fa
    <3>2. Len(Append(fa, q)) = Len(fa) + 1 /\ \A i \in 1 .. Len(fa) : Append(fa, q)[i] = fa[i]
      BY <1>1, <3>1, TalkAppend
    <3>3. ms = Append(fa, q)
      BY <2>1 DEF fa
    <3> QED BY <3>1, <3>2, <3>3
  <2> HIDE DEF n
  <2>3. PICK h \in Talk : Len(h) = n + 1 /\ g = Append(h, q) /\ \A i \in 1 .. n + 1 : h[i] = g[i]
    <3> DEFINE l == n + 1
    <3>1. l \in Nat /\ Len(g) = l + 1 /\ g[l + 1] = q
      BY <1>3, <2>2
    <3> HIDE DEF l
    <3>2. \E h \in Talk : Len(h) = l /\ g = Append(h, g[l + 1]) /\ \A i \in 1 .. l : h[i] = g[i]
      BY <1>3, <3>1, TalkFront
    <3>3. \E h \in Talk : Len(h) = l /\ g = Append(h, q) /\ \A i \in 1 .. l : h[i] = g[i]
      BY <3>1, <3>2
    <3> QED BY <3>3 DEF l
  <2>4. PICK k \in Talk : Len(k) = n /\ h = Append(k, g[n + 1]) /\ \A i \in 1 .. n : k[i] = g[i]
    <3>1. n + 1 \in 1 .. n + 1 /\ \A i \in 1 .. n : i \in 1 .. n + 1
      BY <2>2
    <3>2. PICK k \in Talk : Len(k) = n /\ h = Append(k, h[n + 1]) /\ \A i \in 1 .. n : k[i] = h[i]
      BY <2>2, <2>3, TalkFront
    <3> QED BY <2>3, <3>1, <3>2
  <2> DEFINE b == g[n + 1]
  <2>5. b \in Message /\ b.role = "assistant" /\ Calls(b) = w
    <3>1. n + 1 \in DOMAIN ms /\ Len(ms) - 1 = n + 1
      BY <1>2, <2>2
    <3>2. Thinner(b, a)
      BY <2>2, <3>1
    <3> QED BY <1>6, <2>1, <3>1, <3>2 DEF Thinner
  <2> HIDE DEF b
  <2>6. b \in Full
    <3>1. b.blocks = <<>> => Calls(b) = <<>>
      BY IdsOfNone DEF Calls
    <3> QED BY <1>6, <2>5, <3>1 DEF Full
  <2>7. Apart(k, w)
    <3>1. \A i \in DOMAIN k : i \in 1 .. n /\ i \in DOMAIN f /\ i \in DOMAIN ms
      BY <1>2, <2>2, <2>4 DEF Talk, n
    <3>2. \A i \in DOMAIN k : Thinner(k[i], f[i])
      BY <2>2, <2>4, <3>1
    <3> QED BY <2>1, <3>1, <3>2 DEF Apart, Thinner
  <2>8. Among(h, Full) = Append(Among(k, Full), b)
    <3>1. k \in Seq(Message) /\ h = Append(k, b)
      BY <2>4 DEF Talk, b
    <3> QED BY <2>5, <2>6, <3>1, AmongAppend
  <2>9. Among(g, Full) = Append(Among(h, Full), q)
    <3>1. h \in Seq(Message)
      BY DEF Talk
    <3>2. Among(Append(h, q), Full) = IF q \in Full THEN Append(Among(h, Full), q) ELSE Among(h, Full)
      BY <1>1, <3>1, AmongAppend
    <3> QED BY <1>1, <2>3, <3>2
  <2>10. Among(k, Full) \in Talk /\ Apart(Among(k, Full), w)
    BY <2>7, ApartAmong
  <2> QED BY <1>4, <1>6, <2>5, <2>8, <2>9, <2>10 DEF Poised
<1> QED BY <1>5, <1>6

-----------------------------------------------------------------------------
(* The edits. *)

Pared(m, A) == [m EXCEPT !.blocks = Among(m.blocks, A)]

LEMMA TrimThinner ==
    ASSUME NEW m \in Message, NEW A
    PROVE  /\ Thinner(Pared(m, A), m)
           /\ (\A i \in DOMAIN m.blocks : m.blocks[i].type = "tool_use" => m.blocks[i] \in A)
                 => Calls(Pared(m, A)) = Calls(m)
           /\ (\A i \in DOMAIN m.blocks : m.blocks[i] \in A) => Pared(m, A) = m
<1> DEFINE bs == m.blocks
           r == Among(bs, A)
<1>1. bs \in Seq(Block) /\ m.role \in {"user", "assistant"}
  BY MessageParts
<1>2. r \in Seq(Block) /\ ((\A i \in DOMAIN bs : bs[i] \in A) => r = bs)
  BY <1>1, AmongElements, AmongFacts
<1>3. /\ ToSet(Ids(r, "tool_use")) \subseteq ToSet(Ids(bs, "tool_use"))
      /\ ToSet(Ids(r, "tool_result")) \subseteq ToSet(Ids(bs, "tool_result"))
      /\ (\A i \in DOMAIN bs : bs[i].type = "tool_use" => bs[i] \in A)
            => Ids(r, "tool_use") = Ids(bs, "tool_use")
  BY <1>1, IdsOfSome DEF IdType
<1> HIDE DEF r
<1>4. Pared(m, A) = [m EXCEPT !.blocks = r]
  BY DEF Pared, r
<1>5. /\ [m EXCEPT !.blocks = r] \in Message
      /\ [m EXCEPT !.blocks = r].role = m.role /\ [m EXCEPT !.blocks = r].blocks = r
  BY <1>2 DEF Message
<1>6. [m EXCEPT !.blocks = bs] = m
  BY DEF Message
<1> QED BY <1>2, <1>3, <1>4, <1>5, <1>6 DEF Thinner, Calls, Answers

LEMMA SameThinner == ASSUME NEW m \in Message PROVE Thinner(m, m)
BY DEF Thinner

\* The last messages of a conversation that waits for its question.
LEMMA PoisedParts ==
    ASSUME NEW q, NEW w, IsQuestion(q, w), NEW ms \in Talk, Poised(ms, q, w)
    PROVE  /\ Len(ms) \in Nat /\ Len(ms) \in 1 .. Len(ms) /\ DOMAIN ms = 1 .. Len(ms)
           /\ ms[Len(ms)] = q
           /\ w # <<>> => /\ Len(ms) - 1 \in 1 .. Len(ms)
                          /\ ms[Len(ms) - 1] \in Message /\ Calls(ms[Len(ms) - 1]) = w
<1>1. q \in Message
  BY DEF IsQuestion
<1>2. CASE w = <<>>
  <2>1. PICK f \in Talk : ms = Append(f, q)
    BY <1>2 DEF Poised
  <2>2. Len(ms) = Len(f) + 1 /\ Len(f) \in Nat /\ ms[Len(f) + 1] = q
    BY <1>1, <2>1, TalkAppend
  <2> QED BY <1>2, <2>2, TalkParts
<1>3. CASE w # <<>>
  <2>1. PICK f \in Talk, a \in Message : ms = Append(Append(f, a), q) /\ Calls(a) = w
    BY <1>3 DEF Poised
  <2> DEFINE fa == Append(f, a)
  <2>2. fa \in Talk /\ Len(fa) = Len(f) + 1 /\ Len(f) \in Nat /\ fa[Len(f) + 1] = a
    BY TalkAppend
  <2>3. ms = Append(fa, q)
    BY <2>1
  <2> HIDE DEF fa
  <2>4. Len(ms) = Len(fa) + 1 /\ ms[Len(fa) + 1] = q /\ \A i \in 1 .. Len(fa) : ms[i] = fa[i]
    BY <1>1, <2>2, <2>3, TalkAppend
  <2>5. Len(f) + 1 \in 1 .. Len(fa) /\ Len(ms) - 1 = Len(f) + 1 /\ Len(ms) - 1 \in 1 .. Len(ms)
    BY <2>2, <2>4
  <2>6. ms[Len(ms) - 1] = a
    BY <2>2, <2>4, <2>5
  <2> QED BY <2>1, <2>2, <2>4, <2>5, <2>6, TalkParts
<1> QED BY <1>2, <1>3

\* The uses that are cleared are older than those the question answers.
LEMMA GoneAreOld ==
    ASSUME NEW q, NEW w \in Seq(Id), IsQuestion(q, w), NEW ms \in Talk, Poised(ms, q, w),
           NEW keep \in Nat, keep >= Len(w), NEW exclude,
           NEW i \in 1 .. Len(Clearable(ms, exclude)) - keep
    PROVE  Clearable(ms, exclude)[i] \notin ToSet(w)
<1>1. CASE w = <<>>
  BY <1>1 DEF ToSet
<1>2. CASE w # <<>>
  <2>1. PICK f \in Talk, a \in Message :
           ms = Append(Append(f, a), q) /\ Calls(a) = w /\ Apart(f, w)
    BY <1>2 DEF Poised
  <2> DEFINE fa == Append(f, a)
             u == Ids(Blocks(f), "tool_use")
             C == {t \in DOMAIN NameOf : NameOf[t] \notin exclude}
             ids == Clearable(ms, exclude)
  <2>2. /\ fa \in Talk /\ q \in Message /\ Blocks(f) \in Seq(Block) /\ Blocks(fa) \in Seq(Block)
        /\ a.blocks \in Seq(Block) /\ q.blocks \in Seq(Block)
        /\ u \in Seq(Id)
    <3>1. fa \in Talk /\ q \in Message
      BY TalkAppend DEF IsQuestion
    <3> HIDE DEF fa
    <3> QED BY <3>1, BlocksTyped, MessageParts, IdsTyped
  <2>3. Blocks(fa) = Blocks(f) \o a.blocks
    BY BlocksAppend
  <2>4. Blocks(ms) = Blocks(fa) \o q.blocks
    <3>1. ms = Append(fa, q)
      BY <2>1
    <3> HIDE DEF fa
    <3> QED BY <2>2, <3>1, BlocksAppend
  <2> HIDE DEF fa
  <2>5. Ids(Blocks(fa), "tool_use") = u \o w
    <3>1. Ids(Blocks(f) \o a.blocks, "tool_use") = u \o Ids(a.blocks, "tool_use")
      BY <2>2, IdsJoined DEF IdType
    <3> QED BY <2>1, <2>3, <3>1 DEF Calls
  <2>6. Ids(Blocks(ms), "tool_use") = u \o w
    <3> DEFINE v == u \o w
    <3>1. v \in Seq(Id)
      BY <2>2
    <3>2. Ids(Blocks(fa) \o q.blocks, "tool_use") = Ids(Blocks(fa), "tool_use") \o Ids(q.blocks, "tool_use")
      BY <2>2, IdsJoined DEF IdType
    <3>3. Ids(q.blocks, "tool_use") = <<>>
      BY DEF IsQuestion, Calls
    <3>4. Ids(Blocks(ms), "tool_use") = v \o <<>>
      BY <2>4, <2>5, <3>2, <3>3
    <3> HIDE DEF v
    <3>5. v \o <<>> = v
      BY <3>1, NothingBefore
    <3> QED BY <3>4, <3>5 DEF v
  <2>7. ids = Among(u \o w, C)
    BY <2>6 DEF Clearable
  <2> HIDE DEF C, ids, u
  <2>8. Among(u \o w, C) = Among(u, C) \o Among(w, C)
    BY <2>2, AmongJoined
  <2>9. /\ Among(u, C) \in Seq(Id) /\ ToSet(Among(u, C)) \subseteq ToSet(u)
        /\ Among(w, C) \in Seq(Id) /\ Len(Among(w, C)) <= Len(w)
    <3>1. Among(u, C) \in Seq(Id) /\ ToSet(Among(u, C)) = ToSet(u) \cap C
      BY <2>2, AmongElements
    <3>2. Among(w, C) \in Seq(Id)
      BY AmongElements
    <3>3. Len(Among(w, C)) <= Len(w)
      BY AmongFacts
    <3> QED BY <3>1, <3>2, <3>3
  <2> DEFINE p == Among(u, C)
             r == Among(w, C)
  <2> HIDE DEF p, r
  <2>10. Len(p) \in Nat /\ Len(r) \in Nat /\ Len(w) \in Nat /\ Len(r) <= Len(w)
         /\ p \in Seq(Id) /\ r \in Seq(Id)
    BY <2>9 DEF p, r
  <2>11. ids = p \o r
    BY <2>7, <2>8 DEF p, r
  <2>12. Len(ids) = Len(p) + Len(r) /\ \A j \in 1 .. Len(p) : ids[j] = p[j]
    BY <2>10, <2>11, Joined
  <2>13. i \in 1 .. Len(p)
    <3>1. i \in 1 .. Len(ids) - keep
      BY DEF ids
    <3> QED BY <2>10, <2>12, <3>1
  <2>14. ids[i] \in ToSet(u)
    <3>1. ids[i] = p[i] /\ i \in DOMAIN p
      BY <2>10, <2>12, <2>13
    <3>2. p[i] \in ToSet(p)
      BY <3>1 DEF ToSet
    <3> QED BY <2>9, <3>1, <3>2 DEF p
  <2>15. PICK j \in DOMAIN f : ids[i] \in ToSet(Calls(f[j]))
    <3>1. \E j \in DOMAIN f : ids[i] \in ToSet(Ids(f[j].blocks, "tool_use"))
      BY <2>14, IdsOfTalk DEF u, IdType
    <3> QED BY <3>1 DEF Calls
  <2>16. ids[i] \notin ToSet(w)
    BY <2>1, <2>15 DEF Apart
  <2> QED BY <2>16 DEF ids
<1> QED BY <1>1, <1>2

LEMMA ClearToolUsesPoised ==
    ASSUME NEW q, NEW w \in Seq(Id), IsQuestion(q, w), NEW ms \in Talk, Poised(ms, q, w),
           NEW keep \in Nat, keep >= Len(w), NEW exclude
    PROVE  Poised(ClearToolUses(ms, keep, exclude), q, w)
<1> DEFINE ids  == Clearable(ms, exclude)
           gone == {ids[i] : i \in 1 .. Len(ids) - keep}
           g == [i \in DOMAIN ms |-> [ms[i] EXCEPT !.blocks = Without(@, gone)]]
           A == Staying(gone)
<1>1. ClearToolUses(ms, keep, exclude) = IF gone = {} THEN ms ELSE DropEmpty(g)
  BY DEF ClearToolUses
<1>2. gone \cap ToSet(w) = {}
  BY GoneAreOld
<1> HIDE DEF gone
<1>3. ASSUME NEW i \in DOMAIN ms
      PROVE  g[i] = Pared(ms[i], A) /\ Thinner(g[i], ms[i]) /\ ms[i] \in Message
  <2>1. ms[i] \in Message /\ ms[i].blocks \in Seq(Block)
    BY TalkParts, MessageParts
  <2>2. Without(ms[i].blocks, gone) = Among(ms[i].blocks, A)
    BY <2>1, WithoutAmong
  <2>3. g[i] = Pared(ms[i], A)
    BY <2>2 DEF Pared
  <2> HIDE DEF A, g
  <2> QED BY <2>1, <2>3, TrimThinner
<1>4. g = [i \in DOMAIN ms |-> g[i]]
  OBVIOUS
<1> HIDE DEF g
<1>5. /\ Len(ms) \in DOMAIN ms /\ ms[Len(ms)] = q
      /\ w # <<>> => Len(ms) - 1 \in DOMAIN ms /\ Calls(ms[Len(ms) - 1]) = w
  BY PoisedParts
<1>6. ASSUME NEW bs \in Seq(Block), NEW type \in IdType, ToSet(Ids(bs, type)) \subseteq ToSet(w)
      PROVE  \A i \in DOMAIN bs : bs[i].type = type => bs[i].id \notin gone
  <2> SUFFICES ASSUME NEW i \in DOMAIN bs, bs[i].type = type PROVE bs[i].id \notin gone
    OBVIOUS
  <2> DEFINE x == bs[i].id
  <2>1. Bears(bs, type, x)
    BY DEF Bears
  <2>2. x \in ToSet(Ids(bs, type))
    BY <2>1, IdsBear
  <2> QED BY <1>2, <1>6, <2>2
<1>7. g[Len(ms)] = q
  <2>1. q \in Message /\ q.blocks \in Seq(Block)
    BY MessageParts DEF IsQuestion
  <2>2. ToSet(Ids(q.blocks, "tool_use")) \subseteq ToSet(w) /\ Ids(q.blocks, "tool_result") = w
    BY DEF IsQuestion, Calls, Answers, ToSet
  <2>3. \A i \in DOMAIN q.blocks : q.blocks[i].type \in IdType => q.blocks[i].id \notin gone
    BY <1>6, <2>1, <2>2 DEF IdType
  <2>4. \A i \in DOMAIN q.blocks : q.blocks[i] \in A
    BY <2>1, <2>3 DEF Staying
  <2> HIDE DEF A
  <2>5. Pared(q, A) = q
    BY <2>1, <2>4, TrimThinner
  <2> QED BY <1>3, <1>5, <2>5
<1>8. ASSUME w # <<>> PROVE Calls(g[Len(ms) - 1]) = w
  <2> DEFINE a == ms[Len(ms) - 1]
  <2>1. a \in Message /\ a.blocks \in Seq(Block) /\ Calls(a) = w /\ g[Len(ms) - 1] = Pared(a, A)
    BY <1>3, <1>5, <1>8, MessageParts
  <2> HIDE DEF a
  <2>2. \A i \in DOMAIN a.blocks : a.blocks[i].type = "tool_use" => a.blocks[i].id \notin gone
    BY <1>6, <2>1 DEF IdType, Calls
  <2>3. \A i \in DOMAIN a.blocks : a.blocks[i].type = "tool_use" => a.blocks[i] \in A
    BY <2>1, <2>2 DEF Staying
  <2> HIDE DEF A
  <2> QED BY <2>1, <2>3, TrimThinner
<1>9. Poised(DropEmpty(g), q, w)
  <2> HIDE DEF A
  <2> QED BY <1>3, <1>4, <1>7, <1>8, DropPoised
<1> QED BY <1>1, <1>9

LEMMA ClearThinkingPoised ==
    ASSUME NEW q, NEW w \in Seq(Id), IsQuestion(q, w), NEW ms \in Talk, Poised(ms, q, w),
           NEW keep \in Nat
    PROVE  Poised(ClearThinking(ms, keep), q, w)
<1> DEFINE thinks == {i \in DOMAIN ms : ms[i].role = "assistant"
                                        /\ OfType(ms[i].blocks, "thinking") # <<>>}
           gone   == {i \in thinks : Cardinality({j \in thinks : j > i}) >= keep}
           Rest(bs) == At(bs, {i \in DOMAIN bs : bs[i].type # "thinking"})
           g == [i \in DOMAIN ms |-> IF i \in gone THEN [ms[i] EXCEPT !.blocks = Rest(@)] ELSE ms[i]]
           A == {b \in Block : b.type # "thinking"}
<1>1. ClearThinking(ms, keep) = IF gone = {} THEN ms ELSE DropEmpty(g)
  BY DEF ClearThinking
<1>2. \A i \in gone : ms[i].role = "assistant"
  OBVIOUS
<1> HIDE DEF gone, thinks
<1>3. ASSUME NEW i \in DOMAIN ms
      PROVE  /\ g[i] = IF i \in gone THEN Pared(ms[i], A) ELSE ms[i]
             /\ Thinner(g[i], ms[i]) /\ ms[i] \in Message
  <2>1. ms[i] \in Message /\ ms[i].blocks \in Seq(Block)
    BY TalkParts, MessageParts
  <2>2. Rest(ms[i].blocks) = Among(ms[i].blocks, A)
    <3> DEFINE bs == ms[i].blocks
    <3>1. {k \in DOMAIN bs : bs[k].type # "thinking"} = {k \in DOMAIN bs : bs[k] \in A}
      BY <2>1
    <3> QED BY <3>1 DEF Among
  <2>3. g[i] = IF i \in gone THEN Pared(ms[i], A) ELSE ms[i]
    <3> HIDE DEF Rest, A
    <3> QED BY <2>2 DEF Pared
  <2> HIDE DEF A, g
  <2> QED BY <2>1, <2>3, TrimThinner, SameThinner
<1>4. g = [i \in DOMAIN ms |-> g[i]]
  OBVIOUS
<1> HIDE DEF g
<1>5. /\ Len(ms) \in DOMAIN ms /\ ms[Len(ms)] = q
      /\ w # <<>> => Len(ms) - 1 \in DOMAIN ms /\ Calls(ms[Len(ms) - 1]) = w
  BY PoisedParts
<1>6. g[Len(ms)] = q
  <2>1. Len(ms) \notin gone
    BY <1>2, <1>5 DEF IsQuestion
  <2> QED BY <1>3, <1>5, <2>1
<1>7. ASSUME w # <<>> PROVE Calls(g[Len(ms) - 1]) = w
  <2> DEFINE k == Len(ms) - 1
             a == ms[k]
  <2>1. /\ a \in Message /\ a.blocks \in Seq(Block) /\ Calls(a) = w
        /\ g[k] = IF k \in gone THEN Pared(a, A) ELSE a
    BY <1>3, <1>5, <1>7, MessageParts
  <2> HIDE DEF a, k
  <2>2. \A i \in DOMAIN a.blocks : a.blocks[i].type = "tool_use" => a.blocks[i] \in A
    BY <2>1
  <2> HIDE DEF A
  <2>3. Calls(Pared(a, A)) = w
    BY <2>1, <2>2, TrimThinner
  <2>4. Calls(g[k]) = w
    BY <2>1, <2>3
  <2> QED BY <2>4 DEF k
<1>8. Poised(DropEmpty(g), q, w)
  <2> HIDE DEF A
  <2> QED BY <1>3, <1>4, <1>6, <1>7, DropPoised
<1> QED BY <1>1, <1>8

\* No edit that keeps as many uses as the question answers touches it.
LEMMA EditedPoised ==
    ASSUME NEW q, NEW w \in Seq(Id), IsQuestion(q, w), NEW ms \in Talk, Poised(ms, q, w),
           NEW edits \in Seq(Edit),
           \A i \in DOMAIN edits : edits[i].type = "tools" => edits[i].keep >= Len(w)
    PROVE  Poised(Edited(ms, edits), q, w)
<1> DEFINE n == Len(edits)
<1>1. n \in Nat /\ DOMAIN edits = 1 .. n /\ \A k \in 1 .. n : edits[k] \in Edit
  OBVIOUS
<1>2. PICK f \in [0 .. n -> Talk] : EditChain(f, ms, edits)
  BY EditSteps
<1>3. /\ f[0] = ms /\ Edited(ms, edits) = f[n]
      /\ \A k \in 1 .. n : f[k] = Apply(f[k - 1], edits[k])
  BY <1>2 DEF EditChain
<1> HIDE DEF n
<1> DEFINE T == {k \in Nat : k <= n => Poised(f[k], q, w)}
<1>4. 0 \in T
  BY <1>3
<1>5. ASSUME NEW k \in T PROVE k + 1 \in T
  <2> SUFFICES ASSUME k + 1 <= n PROVE Poised(f[k + 1], q, w)
    OBVIOUS
  <2>1. k \in Nat /\ k + 1 \in 1 .. n /\ k \in 0 .. n /\ (k + 1) - 1 = k /\ k <= n
    BY <1>1
  <2> DEFINE e == edits[k + 1]
             c == f[k]
  <2>2. Poised(c, q, w) /\ c \in Talk /\ e \in Edit /\ (e.type = "tools" => e.keep >= Len(w))
    BY <1>1, <1>2, <2>1
  <2>3. f[k + 1] = Apply(c, e)
    BY <1>3, <2>1
  <2> HIDE DEF e, c
  <2>4. e.keep \in Nat
    BY <2>2 DEF Edit
  <2>5. CASE e.due /\ e.type = "tools"
    <3>1. Poised(ClearToolUses(c, e.keep, e.exclude), q, w)
      BY <2>2, <2>4, <2>5, ClearToolUsesPoised
    <3> QED BY <2>3, <2>5, <3>1 DEF Apply
  <2>6. CASE e.due /\ e.type = "thinking"
    <3>1. Poised(ClearThinking(c, e.keep), q, w)
      BY <2>2, <2>4, ClearThinkingPoised
    <3> QED BY <2>3, <2>6, <3>1 DEF Apply
  <2>7. CASE ~(e.due /\ e.type = "tools") /\ ~(e.due /\ e.type = "thinking")
    <3>1. Apply(c, e) = c
      BY <2>7 DEF Apply
    <3> QED BY <2>2, <2>3, <3>1
  <2> QED BY <2>5, <2>6, <2>7
<1>6. \A k \in Nat : k \in T
  <2>1. T \in SUBSET Nat
    OBVIOUS
  <2> HIDE DEF T
  <2> QED BY <1>4, <1>5, <2>1, Induction
<1>7. Poised(f[n], q, w)
  BY <1>1, <1>6
<1> QED BY <1>3, <1>7

-----------------------------------------------------------------------------
(* The current turn. *)

\* Each id of w once, where it is first.
Firsts(w) == At(w, {i \in DOMAIN w : \A j \in 1 .. i - 1 : w[j] # w[i]})

\* The current turn is made of the question alone, whatever came before the call.
LEMMA CurrentTurn ==
    ASSUME NEW q, NEW w \in Seq(Id), IsQuestion(q, w), NEW ms \in Talk, Poised(ms, q, w)
    PROVE  /\ Canon(Last(Convert(ms))) = Canon(UserTurn(q.blocks, Firsts(w)))
           /\ UpToUser(ms) = ms
<1> DEFINE n == Len(ms)
           old == SubSeq(ms, 1, n - 1)
           raw == History(old)
           kept == ValidResults(raw, w)
           h == RemoveOrphanedResults(RemoveOrphanedUses(raw, kept))
           turn == UserTurn(q.blocks, kept)
           t == [turn EXCEPT !.tools = Tools(h)]
<1>1. /\ n \in Nat /\ n \in 1 .. n /\ DOMAIN ms = 1 .. n /\ ms[n] = q
      /\ q \in Message /\ q.role = "user" /\ q.blocks \in Seq(Block)
  BY PoisedParts, MessageParts DEF IsQuestion
<1>2. Last(ms) = q /\ Ids(q.blocks, "tool_result") = w
  BY <1>1 DEF Last, IsQuestion, Answers
<1>3. Convert(ms) = Append(h, t)
  BY <1>2 DEF Convert
<1>4. UpToUser(ms) = ms
  <2>1. \E k \in 0 .. n : (k > 0 => ms[k].role = "user") /\ \A j \in k + 1 .. n : ms[j].role # "user"
    <3>1. n \in 0 .. n /\ n + 1 .. n = {}
      BY <1>1
    <3> QED BY <1>1, <3>1
  <2>2. \A k \in 0 .. n : (\A j \in k + 1 .. n : ms[j].role # "user") => k = n
    <3> SUFFICES ASSUME NEW k \in 0 .. n, k # n PROVE n \in k + 1 .. n
      BY <1>1
    <3> HIDE DEF n
    <3> QED BY <1>1
  <2> DEFINE c == CHOOSE i \in 0 .. n : /\ i > 0 => ms[i].role = "user"
                                        /\ \A j \in i + 1 .. n : ms[j].role # "user"
  <2>3. c = n
    BY <2>1, <2>2
  <2>4. UpToUser(ms) = SubSeq(ms, 1, c)
    BY DEF UpToUser
  <2> HIDE DEF c
  <2>5. SubSeq(ms, 1, n) = ms
    <3>1. ms \in Seq(Message) /\ 1 \in 1 .. n + 1 /\ n \in 1 - 1 .. n /\ n - 1 + 1 = n
      BY <1>1 DEF Talk
    <3>2. /\ SubSeq(ms, 1, n) \in Seq(Message) /\ Len(SubSeq(ms, 1, n)) = n
          /\ \A k \in 1 .. n : SubSeq(ms, 1, n)[k] = ms[1 + k - 1]
      BY <3>1, SubSeqTyped
    <3>3. \A k \in 1 .. n : 1 + k - 1 = k
      BY <1>1
    <3> DEFINE s == SubSeq(ms, 1, n)
    <3>4. s \in Seq(Message) /\ Len(s) = Len(ms) /\ \A k \in 1 .. Len(s) : s[k] = ms[k]
      BY <3>2, <3>3
    <3> HIDE DEF s
    <3>5. s = ms
      BY <3>1, <3>4, SameSeq
    <3> QED BY <3>5 DEF s
  <2> QED BY <2>3, <2>4, <2>5
<1>5. ASSUME NEW i \in DOMAIN w PROVE w[i] \in UsesIn(raw) \ ResultsIn(raw)
  <2>1. w # <<>> /\ w[i] \in ToSet(w)
    BY DEF ToSet
  <2>2. PICK f \in Talk, a \in Message :
           /\ ms = Append(Append(f, a), q)
           /\ a.role = "assistant" /\ Calls(a) = w /\ Apart(f, w)
    BY <2>1 DEF Poised
  <2> DEFINE fa == Append(f, a)
             l == Len(f)
  <2>3. /\ fa \in Talk /\ Len(fa) = l + 1 /\ l \in Nat /\ fa[l + 1] = a
        /\ \A k \in 1 .. l : fa[k] = f[k]
    BY TalkAppend
  <2>4. ms = Append(fa, q)
    BY <2>2
  <2> HIDE DEF fa, l
  <2>5. old = fa
    <3>1. n = Len(fa) + 1 /\ n - 1 = Len(fa) /\ \A k \in 1 .. Len(fa) : ms[k] = fa[k]
      BY <1>1, <2>3, <2>4, TalkAppend
    <3>2. ms \in Seq(Message) /\ fa \in Seq(Message)
      BY <2>3 DEF Talk
    <3>3. n - 1 \in Nat /\ Len(ms) = (n - 1) + 1
      BY <1>1, <2>3, <3>1
    <3> DEFINE m == n - 1
    <3>4. /\ SubSeq(ms, 1, m) \in Seq(Message) /\ Len(SubSeq(ms, 1, m)) = m
          /\ \A k \in 1 .. m : SubSeq(ms, 1, m)[k] = ms[k]
      <4> HIDE DEF m, n
      <4> QED BY <3>2, <3>3, FrontAndLast DEF m
    <3>5. old \in Seq(Message) /\ Len(old) = Len(fa) /\ \A k \in 1 .. Len(old) : old[k] = fa[k]
      BY <3>1, <3>4
    <3> HIDE DEF old
    <3> QED BY <3>2, <3>5, SameSeq
  <2> DEFINE x == w[i]
  <2>6. x \in UsesIn(raw)
    <3>1. Len(fa) > 0 /\ fa[Len(fa)] = a
      BY <2>3
    <3>2. x \in ToSet(Ids(fa[Len(fa)].blocks, "tool_use"))
      BY <2>1, <2>2, <3>1 DEF Calls
    <3>3. x \in UsesIn(History(fa))
      BY <2>2, <2>3, <3>1, <3>2, LastCalls
    <3> QED BY <2>5, <3>3
  <2>7. x \notin ResultsIn(raw)
    <3> SUFFICES ASSUME x \in ResultsIn(History(fa)) PROVE FALSE
      BY <2>5
    <3>1. PICK j \in DOMAIN fa : fa[j].role = "user" /\ x \in ToSet(Ids(fa[j].blocks, "tool_result"))
      BY <2>3, AnsweredByUser
    <3>2. j \in 1 .. l + 1
      BY <2>3 DEF Talk
    <3>3. j # l + 1
      BY <2>2, <2>3, <3>1
    <3>4. j \in 1 .. l /\ j \in DOMAIN f /\ fa[j] = f[j]
      BY <2>3, <3>2, <3>3 DEF Talk, l
    <3> QED BY <2>1, <2>2, <3>1, <3>4 DEF Apart, Answers
  <2> QED BY <2>6, <2>7
<1> HIDE DEF raw
<1>6. kept = Firsts(w)
  <2> DEFINE open == UsesIn(raw) \ ResultsIn(raw)
  <2>1. {i \in DOMAIN w : w[i] \in open /\ \A j \in 1 .. i - 1 : w[j] # w[i]}
          = {i \in DOMAIN w : \A j \in 1 .. i - 1 : w[j] # w[i]}
    <3>1. \A i \in DOMAIN w : w[i] \in open
      BY <1>5
    <3> HIDE DEF open
    <3> QED BY <3>1
  <2> QED BY <2>1 DEF ValidResults, Firsts
<1>7. Last(Append(h, t)) = t
  <2>1. raw \in Seq(Wholes)
    <3>1. old \in Talk
      <4>1. ms \in Seq(Message) /\ 1 \in 1 .. n + 1 /\ n - 1 \in 1 - 1 .. n
        BY <1>1 DEF Talk
      <4>2. old \in Seq(Message)
        BY <4>1, SubSeqTyped
      <4> QED BY <4>2 DEF Talk
    <3> HIDE DEF old
    <3> QED BY <3>1, HistoryForm DEF raw
  <2>2. kept \in Seq(Id)
    BY ValidResultsForm
  <2> DEFINE used == RemoveOrphanedUses(raw, kept)
  <2> HIDE DEF kept
  <2>3. used \in Seq(Wholes)
    BY <2>1, <2>2, RemoveOrphanedUsesForm
  <2>4. h = RemoveOrphanedResults(used)
    OBVIOUS
  <2> HIDE DEF used, h, t
  <2>5. h \in Seq(Wholes)
    BY <2>3, <2>4, RemoveOrphanedResultsForm
  <2>6. Len(Append(h, t)) = Len(h) + 1 /\ Append(h, t)[Len(h) + 1] = t
    BY <2>5
  <2> QED BY <2>6 DEF Last
<1>8. Canon(t) = Canon(turn)
  <2>1. turn \in TurnRec
    <3>1. kept \in Seq(Id)
      BY ValidResultsForm
    <3> QED BY <1>1, <3>1, UserTurnTyped, WholeParts
  <2> DEFINE X == Tools(h)
  <2> HIDE DEF turn, X
  <2>2. [[turn EXCEPT !.tools = X] EXCEPT !.tools = {}] = [turn EXCEPT !.tools = {}]
    BY <2>1 DEF TurnRec
  <2> QED BY <2>2 DEF Canon, X
<1>9. Canon(Last(Convert(ms))) = Canon(UserTurn(q.blocks, Firsts(w)))
  <2> HIDE DEF h, kept
  <2>1. Last(Convert(ms)) = t
    BY <1>3, <1>7
  <2>2. turn = UserTurn(q.blocks, Firsts(w))
    BY <1>6
  <2> HIDE DEF t, turn
  <2> QED BY <1>8, <2>1, <2>2
<1> QED BY <1>4, <1>9

-----------------------------------------------------------------------------
(* Regular conversations. *)

\* What a user says is not empty and calls no tool.
PlainUsers == \A bs \in UserBlocks : bs # <<>> /\ Ids(bs, "tool_use") = <<>>

\* Roles alternate, a user answers the calls of the message before, and every message has
\* calls of its own.
Ordered(ms) ==
    /\ \A i \in DOMAIN ms : ms[i] \in ClientMessage
    /\ \A i \in DOMAIN ms : ms[i].role = "user" =>
          Answers(ms[i]) = IF i = 1 THEN <<>> ELSE Calls(ms[i - 1])
    /\ \A i \in DOMAIN ms : i > 1 => ms[i].role # ms[i - 1].role
    /\ \A i, j \in DOMAIN ms : i < j => ToSet(Calls(ms[i])) \cap ToSet(Calls(ms[j])) = {}

OrderInv == breaches \in Nat /\ (breaches = 0 => Ordered(messages))

LEMMA ClientParts ==
    ASSUME NEW m \in ClientMessage
    PROVE  /\ m \in Message /\ m.role \in {"user", "assistant"}
           /\ m.role = "user" => m.blocks \in UserBlocks
<1>1. m \in Message
  BY ClientMessageTyped
<1>2. m.role \in {"user", "assistant"} /\ (m.role = "user" => m.blocks \in UserBlocks)
  BY DEF ClientMessage
<1> QED BY <1>1, <1>2

\* A regular conversation goes on.
LEMMA OrderedGoesOn ==
    ASSUME messages \in Talk, Ordered(messages), NEW m \in ClientMessage, Regular(m)
    PROVE  Ordered(Append(messages, m))
<1> DEFINE n == Len(messages)
           ms == Append(messages, m)
<1>1. m \in Message /\ m.role \in {"user", "assistant"}
  BY ClientParts
<1>2. /\ ms \in Talk /\ Len(ms) = n + 1 /\ n \in Nat /\ ms[n + 1] = m
      /\ \A i \in 1 .. n : ms[i] = messages[i]
  BY <1>1, TalkAppend
<1>3. DOMAIN messages = 1 .. n /\ DOMAIN ms = 1 .. n + 1
  BY <1>2, TalkParts
<1>4. /\ n = 0 <=> messages = <<>>
      /\ n > 0 => n \in 1 .. n /\ messages[n] \in ClientMessage /\ messages[n] = Last(messages)
  BY <1>2, <1>3 DEF Ordered, Last, Talk
<1>5. /\ m.role = (IF n = 0 THEN "user" ELSE IF Last(messages).role = "user" THEN "assistant" ELSE "user")
      /\ n # 0 /\ m.role = "user" => Answers(m) = Calls(Last(messages))
      /\ n = 0 => Answers(m) = <<>>
      /\ ToSet(Calls(m)) \cap ToSet(Ids(Blocks(messages), "tool_use")) = {}
  BY <1>4 DEF Regular, Calls, Answers
<1> HIDE DEF ms, n
<1>6. \A i \in DOMAIN ms : i = n + 1 \/ i \in 1 .. n
  BY <1>2, <1>3
<1>7. \A i \in DOMAIN ms : ms[i] \in ClientMessage
  BY <1>2, <1>3, <1>6 DEF Ordered
<1>8. ASSUME NEW i \in DOMAIN ms, ms[i].role = "user"
      PROVE  Answers(ms[i]) = IF i = 1 THEN <<>> ELSE Calls(ms[i - 1])
  <2>1. CASE i = n + 1
    <3>1. CASE n = 0
      BY <1>2, <1>5, <2>1, <3>1
    <3>2. CASE n # 0
      <4>1. i # 1 /\ i - 1 = n /\ n \in 1 .. n
        BY <1>2, <2>1, <3>2
      <4>2. ms[i - 1] = Last(messages) /\ ms[i] = m
        BY <1>2, <1>4, <2>1, <4>1
      <4> QED BY <1>5, <1>8, <3>2, <4>1, <4>2
    <3> QED BY <3>1, <3>2
  <2>2. CASE i \in 1 .. n
    <3>1. ms[i] = messages[i] /\ i \in DOMAIN messages /\ (i # 1 => ms[i - 1] = messages[i - 1])
      <4>1. i # 1 => i - 1 \in 1 .. n
        BY <1>2, <2>2
      <4> QED BY <1>2, <1>3, <2>2, <4>1
    <3> QED BY <1>8, <3>1 DEF Ordered
  <2> QED BY <1>6, <2>1, <2>2
<1>9. ASSUME NEW i \in DOMAIN ms, i > 1 PROVE ms[i].role # ms[i - 1].role
  <2>1. CASE i = n + 1
    <3>1. n # 0 /\ i - 1 = n /\ n \in 1 .. n
      BY <1>2, <1>9, <2>1
    <3>2. ms[i - 1] = Last(messages) /\ ms[i] = m
      BY <1>2, <1>4, <2>1, <3>1
    <3> QED BY <1>5, <3>1, <3>2
  <2>2. CASE i \in 1 .. n
    <3>1. i - 1 \in 1 .. n /\ i \in DOMAIN messages
      BY <1>2, <1>3, <1>9, <2>2
    <3>2. ms[i] = messages[i] /\ ms[i - 1] = messages[i - 1]
      BY <1>2, <2>2, <3>1
    <3> QED BY <1>9, <3>1, <3>2 DEF Ordered
  <2> QED BY <1>6, <2>1, <2>2
<1>10. ASSUME NEW i \in DOMAIN ms, NEW j \in DOMAIN ms, i < j
       PROVE  ToSet(Calls(ms[i])) \cap ToSet(Calls(ms[j])) = {}
  <2>1. i \in 1 .. n /\ i \in DOMAIN messages /\ ms[i] = messages[i]
    BY <1>2, <1>3, <1>10
  <2>2. CASE j = n + 1
    <3>1. ASSUME NEW x \in ToSet(Calls(ms[i])) PROVE x \in ToSet(Ids(Blocks(messages), "tool_use"))
      <4>1. x \in ToSet(Ids(messages[i].blocks, "tool_use"))
        BY <2>1, <3>1 DEF Calls
      <4> QED BY <2>1, <4>1, IdsOfTalk DEF IdType
    <3>2. ms[j] = m
      BY <1>2, <2>2
    <3> QED BY <1>5, <3>1, <3>2
  <2>3. CASE j \in 1 .. n
    <3>1. j \in DOMAIN messages /\ ms[j] = messages[j]
      BY <1>2, <1>3, <2>3
    <3> QED BY <1>10, <2>1, <3>1 DEF Ordered
  <2> QED BY <1>6, <2>2, <2>3
<1> QED BY <1>7, <1>8, <1>9, <1>10 DEF Ordered, ms

\* A regular conversation that ends with the user ends with a question.
LEMMA OrderedIsPoised ==
    ASSUME PlainUsers, NEW ms \in Talk, Ordered(ms), NEW n \in Nat, Len(ms) = n + 1,
           ms[n + 1].role = "user"
    PROVE  /\ IsQuestion(ms[n + 1], Answers(ms[n + 1])) /\ Answers(ms[n + 1]) \in Seq(Id)
           /\ Poised(ms, ms[n + 1], Answers(ms[n + 1]))
           /\ Answers(ms[n + 1]) = IF n = 0 THEN <<>> ELSE Calls(ms[n])
<1> DEFINE q == ms[n + 1]
           w == Answers(q)
<1>1. /\ DOMAIN ms = 1 .. n + 1 /\ n + 1 \in DOMAIN ms /\ n + 1 - 1 = n /\ (n + 1 = 1 <=> n = 0)
      /\ n > 0 => n \in DOMAIN ms
  BY TalkParts
<1>2. /\ q \in ClientMessage /\ w = IF n = 0 THEN <<>> ELSE Calls(ms[n])
  BY <1>1 DEF Ordered
<1>3. q \in Message /\ q.blocks \in UserBlocks /\ q.blocks \in Seq(Block)
  BY <1>2, ClientParts, MessageParts
<1>4. w \in Seq(Id)
  BY <1>3, IdsTyped DEF Answers
<1>5. IsQuestion(q, w)
  BY <1>3 DEF IsQuestion, PlainUsers, Calls
<1>6. PICK h \in Talk : /\ Len(h) = n /\ ms = Append(h, q)
                        /\ \A i \in 1 .. n : h[i] = ms[i]
  BY TalkFront
<1> HIDE DEF w, q
<1>7. Poised(ms, q, w)
  <2>1. CASE w = <<>>
    BY <1>6, <2>1 DEF Poised
  <2>2. CASE w # <<>>
    <3>1. n > 0
      BY <1>2, <2>2
    <3> DEFINE k == n - 1
    <3>2. k \in Nat /\ n = k + 1
      BY <3>1
    <3>3. PICK f \in Talk : /\ Len(f) = k /\ h = Append(f, h[k + 1]) /\ h[k + 1] \in Message
                            /\ \A i \in 1 .. k : f[i] = h[i]
      <4> HIDE DEF k
      <4> QED BY <1>6, <3>2, TalkFront
    <3> HIDE DEF k
    <3> DEFINE a == ms[n]
    <3>4. h[k + 1] = a
      BY <1>6, <3>2
    <3>5. a.role = "assistant" /\ Calls(a) = w /\ a \in Message
      <4>1. a \in ClientMessage /\ Calls(a) = w
        BY <1>1, <1>2, <3>1 DEF Ordered
      <4>2. q.role # a.role
        BY <1>1, <3>1 DEF Ordered, q
      <4>3. q.role = "user"
        BY DEF q
      <4> QED BY <4>1, <4>2, <4>3, ClientParts
    <3>6. ASSUME NEW i \in DOMAIN f
          PROVE  /\ ToSet(Calls(f[i])) \cap ToSet(w) = {}
                 /\ f[i].role = "user" => ToSet(Answers(f[i])) \cap ToSet(w) = {}
      <4>1. i \in 1 .. k /\ f[i] = ms[i] /\ i \in DOMAIN ms /\ n \in DOMAIN ms /\ i < n
        <5>1. DOMAIN f = 1 .. k
          BY <3>3, TalkParts
        <5>2. i \in 1 .. k /\ i \in 1 .. n /\ i < n
          BY <3>2, <5>1
        <5> QED BY <1>1, <1>6, <3>1, <3>3, <5>2
      <4>2. ToSet(Calls(ms[i])) \cap ToSet(Calls(ms[n])) = {}
        BY <4>1 DEF Ordered
      <4>3. ASSUME ms[i].role = "user" PROVE ToSet(Answers(ms[i])) \cap ToSet(w) = {}
        <5>1. CASE i = 1
          <6>1. Answers(ms[i]) = <<>>
            BY <4>1, <4>3, <5>1 DEF Ordered
          <6> QED BY <6>1 DEF ToSet
        <5>2. CASE i # 1
          <6>1. i - 1 \in DOMAIN ms /\ i - 1 < n
            BY <1>1, <3>2, <4>1, <5>2
          <6>2. Answers(ms[i]) = Calls(ms[i - 1])
            BY <4>1, <4>3, <5>2 DEF Ordered
          <6>3. ToSet(Calls(ms[i - 1])) \cap ToSet(Calls(ms[n])) = {}
            BY <4>1, <6>1 DEF Ordered
          <6> QED BY <3>5, <6>2, <6>3
        <5> QED BY <5>1, <5>2
      <4> QED BY <3>5, <4>1, <4>2, <4>3
    <3>7. Apart(f, w)
      BY <3>6 DEF Apart
    <3> HIDE DEF a
    <3> QED BY <1>6, <2>2, <3>3, <3>4, <3>5, <3>7 DEF Poised
  <2> QED BY <2>1, <2>2
<1> QED BY <1>2, <1>4, <1>5, <1>7 DEF q, w

LEMMA OrderStep ==
    ASSUME ConversationInv, OrderInv, [ConversationNext]_conversationVars
    PROVE  OrderInv'
<1>0. messages \in Talk
  BY DEF ConversationInv
<1>1. CASE Say
  <2>1. PICK m \in ClientMessage : /\ messages' = Append(messages, m)
                                   /\ breaches' = breaches + IF Regular(m) THEN 0 ELSE 1
    BY <1>1 DEF Say
  <2>2. CASE Regular(m)
    <3>1. breaches' = breaches
      BY <2>1, <2>2 DEF OrderInv
    <3>2. Ordered(messages) => Ordered(Append(messages, m))
      BY <1>0, <2>2, OrderedGoesOn
    <3>3. Ordered(messages)' <=> Ordered(Append(messages, m))
      BY <2>1 DEF Ordered, ClientMessage
    <3> QED BY <3>1, <3>2, <3>3 DEF OrderInv
  <2>3. CASE ~Regular(m)
    <3>1. breaches' = breaches + 1
      BY <2>1, <2>3
    <3>2. breaches' \in Nat /\ breaches' # 0
      BY <3>1 DEF OrderInv
    <3> QED BY <3>2 DEF OrderInv
  <2> QED BY <2>2, <2>3
<1>2. CASE Compact
  <2>1. breaches' = breaches + 1
    BY <1>2 DEF Compact
  <2>2. breaches' \in Nat /\ breaches' # 0
    BY <2>1 DEF OrderInv
  <2> QED BY <2>2 DEF OrderInv
<1>3. CASE UNCHANGED <<messages, breaches>>
  BY <1>3 DEF OrderInv, Ordered
<1>4. Send => UNCHANGED <<messages, breaches>>
  BY DEF Send
<1>5. UNCHANGED conversationVars => UNCHANGED <<messages, breaches>>
  BY DEF conversationVars
<1> QED BY <1>1, <1>2, <1>3, <1>4, <1>5 DEF ConversationNext

LEMMA InitOrder == ConversationInit => OrderInv
BY DEF ConversationInit, OrderInv, Ordered

LEMMA EditedOfNone == ASSUME NEW edits \in Seq(Edit) PROVE Edited(<<>>, edits) = <<>>
<1> DEFINE n == Len(edits)
           none == <<>>
<1>1. n \in Nat /\ none \in Talk /\ \A k \in 1 .. n : edits[k] \in Edit
  BY DEF Talk
<1>2. PICK f \in [0 .. n -> Talk] : EditChain(f, none, edits)
  <2> HIDE DEF none, n
  <2> QED BY <1>1, EditSteps DEF n
<1>3. /\ f[0] = <<>> /\ Edited(<<>>, edits) = f[n]
      /\ \A k \in 1 .. n : f[k] = Apply(f[k - 1], edits[k])
  BY <1>2 DEF EditChain
<1>4. ASSUME NEW e \in Edit PROVE Apply(<<>>, e) = <<>>
  <2>1. DropEmpty(<<>>) = <<>>
    BY <1>1, DropEmptyAmong, AmongNone
  <2>2. ClearToolUses(<<>>, e.keep, e.exclude) = <<>>
    <3> DEFINE ids == Clearable(<<>>, e.exclude)
               gone == {ids[i] : i \in 1 .. Len(ids) - e.keep}
    <3>1. ClearToolUses(<<>>, e.keep, e.exclude) \in Talk
      BY <1>1, ClearToolUsesTyped DEF Edit
    <3>2. [i \in DOMAIN <<>> |-> [<<>>[i] EXCEPT !.blocks = Without(@, gone)]] = <<>>
      OBVIOUS
    <3> QED BY <2>1, <3>2 DEF ClearToolUses
  <2>3. ClearThinking(<<>>, e.keep) = <<>>
    <3>1. {i \in DOMAIN <<>> : <<>>[i].role = "assistant"
                                  /\ OfType(<<>>[i].blocks, "thinking") # <<>>} = {}
      OBVIOUS
    <3> QED BY <3>1 DEF ClearThinking
  <2> QED BY <2>2, <2>3 DEF Apply
<1> HIDE DEF n
<1> DEFINE T == {k \in Nat : k <= n => f[k] = <<>>}
<1>5. 0 \in T
  BY <1>3
<1>6. ASSUME NEW k \in T PROVE k + 1 \in T
  <2> SUFFICES ASSUME k + 1 <= n PROVE f[k + 1] = <<>>
    OBVIOUS
  <2>1. k \in Nat /\ k + 1 \in 1 .. n /\ (k + 1) - 1 = k /\ k <= n
    BY <1>1
  <2> QED BY <1>1, <1>3, <1>4, <2>1
<1>7. \A k \in Nat : k \in T
  <2>1. T \in SUBSET Nat
    OBVIOUS
  <2> HIDE DEF T
  <2> QED BY <1>5, <1>6, <2>1, Induction
<1> QED BY <1>1, <1>3, <1>7

\* What is asked last is sent as it is, whatever is edited.
LEMMA QuestionIsKept ==
    ASSUME PlainUsers, ConversationInv, OrderInv
    PROVE  EditKeepsQuestion
<1> DEFINE plain == UpToUser(messages)
           pending == IF Len(plain) < 2 THEN 0 ELSE Len(Calls(plain[Len(plain) - 1]))
<1> SUFFICES ASSUME NEW r \in request, breaches = 0, plain = messages,
                    \A i \in DOMAIN r.edits : r.edits[i].type = "tools" => r.edits[i].keep >= pending
             PROVE  Canon(Last(r.turns)) = Canon(Last(Convert(plain)))
  BY DEF EditKeepsQuestion, Calls
<1> DEFINE sent == UpToUser(Edited(messages, r.edits))
           e == Edited(messages, r.edits)
<1>1. /\ messages \in Talk /\ r.edits \in Seq(Edit) /\ sent # <<>> /\ r.turns = Convert(sent)
      /\ Ordered(messages)
  BY EditListsTyped DEF ConversationInv, OrderInv, Sent
<1>2. PICK n \in Nat : Len(messages) = n + 1
  <2>1. Len(messages) \in Nat
    BY <1>1, TalkParts
  <2>2. Len(messages) # 0
    <3> SUFFICES ASSUME Len(messages) = 0 PROVE FALSE
      OBVIOUS
    <3>1. messages = <<>>
      BY <1>1 DEF Talk
    <3>2. e \in Talk /\ e = <<>>
      BY <1>1, <3>1, EditedOfNone, EditedTyped
    <3>3. UpToUser(e) \in Talk /\ Len(UpToUser(e)) <= Len(e)
      BY <3>2, UpToUserEnds
    <3>4. sent = <<>>
      BY <3>2, <3>3 DEF Talk
    <3> QED BY <1>1, <3>4
  <2>3. Len(messages) - 1 \in Nat /\ Len(messages) = (Len(messages) - 1) + 1
    BY <2>1, <2>2
  <2> QED BY <2>3
<1> DEFINE q == messages[n + 1]
           w == Answers(q)
<1>3. q.role = "user"
  <2>1. plain # <<>>
    BY <1>2
  <2>2. plain[Len(plain)].role = "user"
    <3> HIDE DEF plain
    <3> QED BY <1>1, <2>1, UpToUserEnds DEF plain
  <2> QED BY <1>2, <2>2
<1>4. /\ IsQuestion(q, w) /\ w \in Seq(Id) /\ Poised(messages, q, w)
      /\ w = IF n = 0 THEN <<>> ELSE Calls(messages[n])
  BY <1>1, <1>2, <1>3, OrderedIsPoised
<1>5. pending = Len(w)
  <2>1. CASE n = 0
    BY <1>2, <1>4, <2>1
  <2>2. CASE n # 0
    <3>1. Len(plain) = n + 1 /\ ~(n + 1 < 2) /\ (n + 1) - 1 = n
      BY <1>2, <2>2
    <3> QED BY <1>4, <2>2, <3>1
  <2> QED BY <2>1, <2>2
<1> HIDE DEF q, w, plain, pending, e, sent
<1>6. \A i \in DOMAIN r.edits : r.edits[i].type = "tools" => r.edits[i].keep >= Len(w)
  BY <1>5
<1>7. Poised(e, q, w) /\ e \in Talk
  BY <1>1, <1>4, <1>6, EditedPoised, EditedTyped DEF e
<1>8. sent = UpToUser(e)
  BY DEF sent, e
<1>9. Canon(Last(Convert(e))) = Canon(UserTurn(q.blocks, Firsts(w))) /\ UpToUser(e) = e
  BY <1>4, <1>7, CurrentTurn
<1>10. Canon(Last(Convert(messages))) = Canon(UserTurn(q.blocks, Firsts(w)))
  BY <1>1, <1>4, CurrentTurn
<1> QED BY <1>1, <1>8, <1>9, <1>10

\* Where users answer with more than nothing and call no tools, no edit that keeps as many
\* calls as the last answer made changes the current turn (context_management.rs).
THEOREM EditsKeepTheQuestion ==
    ASSUME PlainUsers
    PROVE  ConversationSpec => []EditKeepsQuestion
<1>1. ConversationInv /\ OrderInv => EditKeepsQuestion
  BY QuestionIsKept
<1>2. ConversationInv /\ OrderInv /\ [ConversationNext]_conversationVars => OrderInv'
  BY OrderStep
<1>3. ConversationSpec => []OrderInv
  BY <1>2, ConversationInvariant, InitOrder, PTL DEF ConversationSpec
<1> QED BY <1>1, <1>3, ConversationInvariant, PTL

-----------------------------------------------------------------------------
(* Regular conversations, message by message. *)

\* The turn that a message makes by itself.
PlainTurn(m)   == IF m.role = "user" THEN MergeUsers(<<m>>) ELSE MergeAssistants(<<m>>)
PlainTurns(ms) == [i \in DOMAIN ms |-> PlainTurn(ms[i])]
Told(ms)       == SystemTurns \o PlainTurns(ms)

\* A turn that the repair has no reason to fill.
Settled(t) ==
    /\ t \in Wholes /\ t.tools = {}
    /\ t.role = "user" /\ ~t.media /\ t.results = <<>>
          => t.content # <<>> /\ \E j \in DOMAIN t.content : t.content[j] # "_"

LEMMA BlocksOfOne == ASSUME NEW m \in Message PROVE <<m>> \in Talk /\ Blocks(<<m>>) = m.blocks
<1> DEFINE none == <<>>
<1>1. none \in Talk /\ Append(none, m) = <<m>> /\ <<m>> \in Talk
  BY DEF Talk
<1>2. Blocks(none) = <<>>
  BY BlocksNone
<1> HIDE DEF none
<1>3. Blocks(Append(none, m)) = Blocks(none) \o m.blocks
  BY <1>1, BlocksAppend
<1>4. m.blocks \in Seq(Block)
  BY MessageParts
<1>5. <<>> \o m.blocks = m.blocks
  BY <1>4, NothingBefore
<1> QED BY <1>1, <1>2, <1>3, <1>5

LEMMA AtAll == ASSUME NEW S, NEW s \in Seq(S) PROVE At(s, DOMAIN s) = s
<1>1. \A i \in DOMAIN s : s[i] \in S
  OBVIOUS
<1>2. {i \in DOMAIN s : s[i] \in S} = DOMAIN s
  BY <1>1
<1>3. Among(s, S) = s
  BY <1>1, AmongFacts
<1> QED BY <1>2, <1>3 DEF Among

LEMMA FilledIsSettled ==
    ASSUME NEW text \in Seq(Piece), NEW results
    PROVE  LET c == Filled(text, FALSE, results)
           IN  results = <<>> => c # <<>> /\ \E j \in DOMAIN c : c[j] # "_"
<1> SUFFICES ASSUME results = <<>>
             PROVE  LET c == Filled(text, FALSE, results)
                    IN  c # <<>> /\ \E j \in DOMAIN c : c[j] # "_"
  OBVIOUS
<1>1. CASE Visible(text)
  <2>1. Filled(text, FALSE, results) = text
    BY <1>1 DEF Filled
  <2>2. PICK j \in DOMAIN text : text[j] = "w"
    BY <1>1 DEF Visible
  <2>3. text # <<>> /\ text[j] # "_"
    BY <2>2
  <2> QED BY <2>1, <2>2, <2>3
<1>2. CASE ~Visible(text)
  <2>1. Filled(text, FALSE, results) = <<" ">>
    BY <1>2 DEF Filled
  <2>2. <<" ">> # <<>> /\ 1 \in DOMAIN <<" ">> /\ <<" ">>[1] # "_"
    OBVIOUS
  <2> QED BY <2>1, <2>2
<1> QED BY <1>1, <1>2

LEMMA UserTurnSettled ==
    ASSUME NEW bs \in Seq(Block), NEW results \in Seq(Id)
    PROVE  Settled(UserTurn(bs, results))
<1> DEFINE m == HasMedia(bs)
           text == Texts(bs)
           c == Filled(text, m, results)
           u == UserTurn(bs, results)
<1>1. u \in Wholes /\ u.results = results
  BY UserTurnTyped
<1>2. m \in BOOLEAN /\ text \in Seq(Piece)
  BY TextsAreText, HasMediaTyped
<1>3. u = [[role |-> "user", content |-> c, media |-> FALSE, results |-> <<>>,
            uses |-> <<>>, tools |-> {}] EXCEPT !.media = m, !.results = results]
  BY DEF UserTurn, Turn
<1> HIDE DEF m, text, u
<1>4. ASSUME ~m, results = <<>> PROVE c # <<>> /\ \E j \in DOMAIN c : c[j] # "_"
  <2>1. m = FALSE
    BY <1>2, <1>4
  <2> QED BY <1>2, <1>4, <2>1, FilledIsSettled
<1> HIDE DEF c
<1>5. u.content = c /\ u.media = m /\ u.tools = {}
  BY <1>3
<1> QED BY <1>1, <1>4, <1>5 DEF Settled, u

LEMMA PlainTurnForm ==
    ASSUME NEW m \in Message
    PROVE  /\ Settled(PlainTurn(m)) /\ PlainTurn(m) \in Wholes
           /\ PlainTurn(m).uses = (IF m.role = "user" THEN <<>> ELSE Calls(m))
           /\ PlainTurn(m).results = (IF m.role = "user" THEN Answers(m) ELSE <<>>)
<1> DEFINE one == <<m>>
<1>1. one \in Talk /\ Blocks(one) = m.blocks /\ m.blocks \in Seq(Block)
  BY BlocksOfOne, MessageParts
<1> HIDE DEF one
<1>2. CASE m.role = "user"
  <2>1. PlainTurn(m) = UserTurn(m.blocks, Answers(m))
    BY <1>1, <1>2 DEF PlainTurn, MergeUsers, Answers, one
  <2>2. Answers(m) \in Seq(Id)
    BY <1>1, IdsTyped DEF Answers
  <2> QED BY <1>1, <1>2, <2>1, <2>2, UserTurnTyped, UserTurnSettled
<1>3. CASE m.role # "user"
  <2> DEFINE u == MergeAssistants(one)
  <2>1. PlainTurn(m) = u
    BY <1>3 DEF PlainTurn, one
  <2>2. u \in Wholes /\ u.role = "assistant" /\ u.uses = Calls(m) /\ u.results = <<>>
    BY <1>1, MergeAssistantsTyped, MergedCalls DEF Calls
  <2>3. u.tools = {}
    BY DEF MergeAssistants, Turn
  <2> HIDE DEF u
  <2>4. Settled(u)
    BY <2>2, <2>3 DEF Settled
  <2> QED BY <1>3, <2>1, <2>2, <2>4
<1> QED BY <1>2, <1>3

LEMMA SystemSettled ==
    \A i \in DOMAIN SystemTurns :
        Settled(SystemTurns[i]) /\ SystemTurns[i].uses = <<>> /\ SystemTurns[i].results = <<>>
<1> DEFINE u == Turn("user", <<"system">>)
           v == Turn("assistant", <<"I will follow">>)
<1>1. SystemTurns = IF session.system THEN <<u, v>> ELSE <<>>
  BY DEF SystemTurns
<1>2. SystemTurns \in Seq(Wholes)
  BY FrontForm
<1>3. /\ u.uses = <<>> /\ v.uses = <<>> /\ u.results = <<>> /\ v.results = <<>>
      /\ u.tools = {} /\ v.tools = {} /\ v.role = "assistant"
      /\ u.content = <<"system">>
  BY DEF Turn
<1> HIDE DEF u, v
<1>4. u.content # <<>> /\ \E j \in DOMAIN u.content : u.content[j] # "_"
  <2>1. <<"system">> # <<>> /\ 1 \in DOMAIN <<"system">> /\ <<"system">>[1] # "_"
    OBVIOUS
  <2> QED BY <1>3, <2>1
<1>5. ASSUME session.system PROVE u \in Wholes /\ v \in Wholes
  <2>1. SystemTurns = <<u, v>>
    BY <1>1, <1>5
  <2>2. <<u, v>> \in Seq(Wholes) /\ Len(<<u, v>>) = 2 /\ <<u, v>>[1] = u /\ <<u, v>>[2] = v
    BY <1>2, <2>1
  <2>3. 1 \in DOMAIN <<u, v>> /\ 2 \in DOMAIN <<u, v>>
    OBVIOUS
  <2> QED BY <2>2, <2>3
<1>6. session.system => Settled(u) /\ Settled(v)
  BY <1>3, <1>4, <1>5 DEF Settled
<1> QED BY <1>1, <1>3, <1>6

\* The turns that the messages make: their number, and what they call and answer.
LEMMA ToldForm ==
    ASSUME NEW ms \in Talk
    PROVE  /\ PlainTurns(ms) \in Seq(Wholes) /\ Len(PlainTurns(ms)) = Len(ms)
           /\ Told(ms) \in Seq(Wholes) /\ \A i \in DOMAIN Told(ms) : Settled(Told(ms)[i])
           /\ \A x : x \in UsesIn(Told(ms)) <=>
                 \E i \in DOMAIN ms : ms[i].role # "user" /\ x \in ToSet(Calls(ms[i]))
           /\ \A x : x \in ResultsIn(Told(ms)) <=>
                 \E i \in DOMAIN ms : ms[i].role = "user" /\ x \in ToSet(Answers(ms[i]))
<1> DEFINE a == SystemTurns
           b == PlainTurns(ms)
           h == Told(ms)
<1>1. a \in Seq(Wholes)
  BY FrontForm
<1>2. ASSUME NEW i \in DOMAIN ms
      PROVE  /\ Settled(b[i]) /\ b[i] \in Wholes
             /\ b[i].uses = (IF ms[i].role = "user" THEN <<>> ELSE Calls(ms[i]))
             /\ b[i].results = (IF ms[i].role = "user" THEN Answers(ms[i]) ELSE <<>>)
  <2>1. ms[i] \in Message
    BY TalkParts
  <2>2. b[i] = PlainTurn(ms[i])
    BY DEF PlainTurns
  <2> QED BY <2>1, <2>2, PlainTurnForm
<1>3. b = [i \in DOMAIN ms |-> b[i]]
  BY DEF PlainTurns
<1>4. ms \in Seq(Message)
  BY DEF Talk
<1>5. \A i \in DOMAIN a : Settled(a[i]) /\ a[i].uses = <<>> /\ a[i].results = <<>>
  BY SystemSettled
<1> HIDE DEF a, b
<1>6. b \in Seq(Wholes) /\ Len(b) = Len(ms) /\ DOMAIN b = DOMAIN ms
  BY <1>2, <1>3, <1>4, MappedSeq
<1>7. h = a \o b
  BY DEF Told, a, b
<1> HIDE DEF h
<1>8. h \in Seq(Wholes) /\ IsJoined(h, a, b)
  BY <1>1, <1>6, <1>7, Joined, JoinedElements
<1>9. \A i \in DOMAIN h : Settled(h[i])
  BY <1>2, <1>5, <1>6, <1>8 DEF IsJoined
<1>10. ToSet(<<>>) = {}
  BY DEF ToSet
<1>11. ASSUME NEW x
       PROVE  x \in UsesIn(h) <=> \E i \in DOMAIN ms : ms[i].role # "user" /\ x \in ToSet(Calls(ms[i]))
  <2>1. x \in UsesIn(h) <=> \E i \in DOMAIN h : x \in ToSet(h[i].uses)
    BY UsesOf
  <2>2. (\E i \in DOMAIN h : x \in ToSet(h[i].uses)) <=> \E i \in DOMAIN b : x \in ToSet(b[i].uses)
    <3>1. \A i \in DOMAIN a : x \notin ToSet(a[i].uses)
      BY <1>5, <1>10
    <3> QED BY <1>8, <3>1 DEF IsJoined
  <2>3. \A i \in DOMAIN ms : x \in ToSet(b[i].uses) <=> ms[i].role # "user" /\ x \in ToSet(Calls(ms[i]))
    BY <1>2, <1>10
  <2> QED BY <1>6, <2>1, <2>2, <2>3
<1>12. ASSUME NEW x
       PROVE  x \in ResultsIn(h) <=> \E i \in DOMAIN ms : ms[i].role = "user" /\ x \in ToSet(Answers(ms[i]))
  <2>1. x \in ResultsIn(h) <=> \E i \in DOMAIN h : x \in ToSet(h[i].results)
    BY UsesOf
  <2>2. (\E i \in DOMAIN h : x \in ToSet(h[i].results)) <=> \E i \in DOMAIN b : x \in ToSet(b[i].results)
    <3>1. \A i \in DOMAIN a : x \notin ToSet(a[i].results)
      BY <1>5, <1>10
    <3> QED BY <1>8, <3>1 DEF IsJoined
  <2>3. \A i \in DOMAIN ms : x \in ToSet(b[i].results) <=> ms[i].role = "user" /\ x \in ToSet(Answers(ms[i]))
    BY <1>2, <1>10
  <2> QED BY <1>6, <2>1, <2>2, <2>3
<1> QED BY <1>6, <1>8, <1>9, <1>11, <1>12 DEF b, h

\* Where roles alternate, every message is a streak.
LEMMA EveryMessageStarts ==
    ASSUME NEW ms \in Talk, \A i \in DOMAIN ms : i > 1 => ms[i].role # ms[i - 1].role
    PROVE  Starts(ms) = [i \in DOMAIN ms |-> i] /\ StreakTurns(ms) = PlainTurns(ms)
<1> DEFINE n == Len(ms)
           id == [i \in DOMAIN ms |-> i]
<1>1. DOMAIN ms = 1 .. n /\ n \in Nat
  BY TalkParts
<1>2. StartsAt(ms) = DOMAIN ms
  <2>1. \A i \in DOMAIN ms : i = 1 \/ i > 1
    BY <1>1
  <2> QED BY <2>1 DEF StartsAt
<1>3. id \in Seq(Nat) /\ DOMAIN id = DOMAIN ms /\ Len(id) = n /\ \A i \in 1 .. n : id[i] = i
  BY <1>1
<1>4. Starts(ms) = id
  <2>1. At(id, DOMAIN id) = id
    <3> HIDE DEF id
    <3> QED BY <1>3, AtAll
  <2>2. Starts(ms) = At(id, DOMAIN id)
    BY <1>2, <1>3 DEF Starts
  <2> HIDE DEF id
  <2> QED BY <2>1, <2>2
<1> HIDE DEF id
<1>5. ASSUME NEW k \in 1 .. n PROVE StreakOf(ms, k) = <<ms[k]>>
  <2>1. StreakEnd(ms, k) = k
    <3>1. CASE k < n
      <4>1. k + 1 \in 1 .. n /\ (k + 1) - 1 = k
        BY <1>1, <3>1
      <4>2. id[k + 1] - 1 = k
        BY <1>3, <4>1
      <4> QED BY <1>3, <1>4, <3>1, <4>2 DEF StreakEnd
    <3>2. CASE ~(k < n)
      <4>1. k = n /\ Len(Starts(ms)) = n
        <5>1. k = n
          <6>1. n \in Nat
            BY <1>1
          <6> HIDE DEF n
          <6> QED BY <3>2, <6>1
        <5>2. Len(Starts(ms)) = n
          BY <1>3, <1>4
        <5> QED BY <5>1, <5>2
      <4>2. ~(k < Len(Starts(ms))) /\ Len(ms) = k
        BY <3>2, <4>1
      <4> QED BY <4>2 DEF StreakEnd
    <3> QED BY <3>1, <3>2
  <2>2. Starts(ms)[k] = k
    BY <1>3, <1>4
  <2>3. StreakOf(ms, k) = SubSeq(ms, k, k)
    BY <2>1, <2>2 DEF StreakOf
  <2>4. ms \in Seq(Message) /\ ms[k] \in Message
    BY <1>1, TalkParts DEF Talk
  <2> DEFINE s == SubSeq(ms, k, k)
             one == <<ms[k]>>
  <2>5. s \in Seq(Message) /\ Len(s) = 1 /\ s[1] = ms[k]
    <3>1. k \in 1 .. Len(ms) + 1 /\ k \in k - 1 .. Len(ms) /\ k - k + 1 = 1 /\ k + 1 - 1 = k /\ 1 \in 1 .. 1
      BY <1>1
    <3>2. /\ SubSeq(ms, k, k) \in Seq(Message) /\ Len(SubSeq(ms, k, k)) = k - k + 1
          /\ \A j \in 1 .. k - k + 1 : SubSeq(ms, k, k)[j] = ms[k + j - 1]
      BY <2>4, <3>1, SubSeqTyped
    <3> QED BY <3>1, <3>2
  <2>6. one \in Seq(Message) /\ Len(one) = 1 /\ one[1] = ms[k]
    BY <2>4
  <2> HIDE DEF s, one
  <2>7. s = one
    <3>1. \A j \in 1 .. 1 : j = 1
      OBVIOUS
    <3>2. Len(s) = Len(one) /\ \A j \in 1 .. Len(s) : s[j] = one[j]
      BY <2>5, <2>6, <3>1
    <3> QED BY <2>5, <2>6, <3>2, SameSeq
  <2> QED BY <2>3, <2>7 DEF s, one
<1>6. ASSUME NEW k \in 1 .. n PROVE StreakTurns(ms)[k] = PlainTurn(ms[k])
  <2>1. k \in 1 .. Len(Starts(ms)) /\ Starts(ms)[k] = k
    BY <1>3, <1>4
  <2>2. StreakTurns(ms)[k] = IF ms[Starts(ms)[k]].role = "user" THEN MergeUsers(StreakOf(ms, k))
                             ELSE MergeAssistants(StreakOf(ms, k))
    BY <2>1, StreakTurnIs
  <2> QED BY <1>5, <2>1, <2>2 DEF PlainTurn
<1>7. StreakTurns(ms) = PlainTurns(ms)
  <2> DEFINE b == StreakTurns(ms)
             c == PlainTurns(ms)
  <2>1. b \in Seq(Wholes) /\ Len(b) = n
    BY <1>3, <1>4, StreakTurnsForm
  <2>2. c \in Seq(Wholes) /\ Len(c) = n
    BY ToldForm
  <2>3. \A k \in 1 .. n : c[k] = PlainTurn(ms[k])
    BY <1>1 DEF PlainTurns
  <2>4. \A k \in 1 .. n : b[k] = c[k]
    BY <1>6, <2>3
  <2> HIDE DEF b, c
  <2>5. b = c
    BY <2>1, <2>2, <2>4, SameSeq
  <2> QED BY <2>5 DEF b, c
<1> QED BY <1>4, <1>7 DEF id

LEMMA HistoryOfOrdered ==
    ASSUME NEW ms \in Talk, \A i \in DOMAIN ms : i > 1 => ms[i].role # ms[i - 1].role,
           Len(ms) > 0 => ms[Len(ms)].role # "user"
    PROVE  History(ms) = Told(ms)
<1>1. History(ms) = SystemTurns \o StreakTurns(ms) \o Closing(ms)
  BY HistoryParts
<1>2. StreakTurns(ms) = PlainTurns(ms)
  BY EveryMessageStarts
<1>3. Closing(ms) = <<>>
  <2>1. ms # <<>> => Len(ms) > 0
    BY DEF Talk
  <2> QED BY <2>1 DEF Closing
<1>4. Told(ms) \in Seq(Wholes)
  BY ToldForm
<1> DEFINE h == Told(ms)
<1>5. History(ms) = h \o <<>>
  BY <1>1, <1>2, <1>3 DEF Told
<1> HIDE DEF h
<1>6. h \o <<>> = h
  <2>1. h \in Seq(Wholes)
    BY <1>4 DEF h
  <2> QED BY <2>1, NothingBefore
<1> QED BY <1>5, <1>6 DEF h

\* The calls of an answer have ids of their own.
CallsDiffer == \A bs \in AssistantBlocks : IsInjective(Ids(bs, "tool_use"))

\* Where every call is answered and every result called for, there is nothing to repair.
LEMMA NothingToRepair ==
    ASSUME NEW h \in Seq(Wholes), \A i \in DOMAIN h : Settled(h[i]), NEW kept,
           UsesIn(h) \ ResultsIn(h) \subseteq ToSet(kept), ResultsIn(h) \subseteq UsesIn(h)
    PROVE  RemoveOrphanedResults(RemoveOrphanedUses(h, kept)) = h
<1> DEFINE orphans == (UsesIn(h) \ ResultsIn(h)) \ ToSet(kept)
           U == UsesIn(h)
<1>1. \A i \in DOMAIN h : /\ h[i] \in TurnRec /\ h[i].uses \in Seq(Id) /\ h[i].results \in Seq(Id)
                          /\ Settled(h[i])
  BY WholeParts, TurnParts DEF Wholes
<1>2. orphans = {} /\ U \ orphans = U
  OBVIOUS
<1>3. RemoveOrphanedUses(h, kept) = [i \in DOMAIN h |-> [h[i] EXCEPT !.uses = Among(@, U)]]
  <2> DEFINE V == U \ orphans
  <2>1. RemoveOrphanedUses(h, kept) = [i \in DOMAIN h |-> [h[i] EXCEPT !.uses = Among(@, V)]]
    BY DEF RemoveOrphanedUses
  <2>2. V = U
    BY <1>2
  <2> HIDE DEF V, U
  <2> QED BY <2>1, <2>2
<1>4. ASSUME NEW i \in DOMAIN h PROVE Among(h[i].uses, U) = h[i].uses
  <2>1. \A x \in ToSet(h[i].uses) : x \in U
    BY UsesOf
  <2>2. \A j \in DOMAIN h[i].uses : h[i].uses[j] \in U
    BY <2>1 DEF ToSet
  <2> DEFINE s == h[i].uses
  <2>3. s \in Seq(Id) /\ \A j \in DOMAIN s : s[j] \in U
    BY <1>1, <2>2
  <2> HIDE DEF s, U
  <2>4. Among(s, U) = s
    BY <2>3, AmongFacts
  <2> QED BY <2>4 DEF s
<1>5. ASSUME NEW i \in DOMAIN h PROVE Among(h[i].results, U) = h[i].results
  <2>1. \A x \in ToSet(h[i].results) : x \in U
    BY UsesOf
  <2>2. \A j \in DOMAIN h[i].results : h[i].results[j] \in U
    BY <2>1 DEF ToSet
  <2> DEFINE s == h[i].results
  <2>3. s \in Seq(Id) /\ \A j \in DOMAIN s : s[j] \in U
    BY <1>1, <2>2
  <2> HIDE DEF s, U
  <2>4. Among(s, U) = s
    BY <2>3, AmongFacts
  <2> QED BY <2>4 DEF s
<1>6. h = [i \in DOMAIN h |-> h[i]]
  OBVIOUS
<1> HIDE DEF U, orphans
<1>7. RemoveOrphanedUses(h, kept) = h
  <2> DEFINE g == [i \in DOMAIN h |-> [h[i] EXCEPT !.uses = Among(@, U)]]
  <2>1. ASSUME NEW i \in DOMAIN h PROVE g[i] = h[i]
    <3> DEFINE t == h[i]
    <3>1. t \in TurnRec /\ Among(t.uses, U) = t.uses
      BY <1>1, <1>4
    <3>2. g[i] = [t EXCEPT !.uses = Among(t.uses, U)]
      OBVIOUS
    <3> HIDE DEF t, g
    <3>3. [t EXCEPT !.uses = t.uses] = t
      BY <3>1 DEF TurnRec
    <3> QED BY <3>1, <3>2, <3>3 DEF t
  <2>2. g = [i \in DOMAIN h |-> g[i]]
    OBVIOUS
  <2>3. RemoveOrphanedUses(h, kept) = g
    BY <1>3
  <2> HIDE DEF g
  <2> QED BY <1>6, <2>1, <2>2, <2>3
<1>8. RemoveOrphanedResults(h) = h
  <2> DEFINE Left(i) == Among(h[i].results, U)
             Blank(i) == /\ h[i].role = "user" /\ ~h[i].media /\ Left(i) = <<>>
                         /\ (h[i].content = <<>> \/ \A j \in DOMAIN h[i].content :
                                                       h[i].content[j] = "_")
             Said(i) == IF Blank(i) THEN <<" ">> ELSE h[i].content
             g == RemoveOrphanedResults(h)
  <2>1. g = [i \in DOMAIN h |-> [h[i] EXCEPT !.results = Left(i), !.content = Said(i)]]
    BY DEF RemoveOrphanedResults, U
  <2> HIDE DEF g
  <2>2. ASSUME NEW i \in DOMAIN h PROVE g[i] = h[i]
    <3>1. Left(i) = h[i].results
      BY <1>5
    <3>2. ~Blank(i)
      BY <1>1, <3>1 DEF Settled
    <3>3. Said(i) = h[i].content
      <4> HIDE DEF Blank
      <4> QED BY <3>2
    <3>4. g[i] = [h[i] EXCEPT !.results = Left(i), !.content = Said(i)]
      BY <2>1
    <3> HIDE DEF Left, Said, Blank
    <3> DEFINE t == h[i]
    <3>5. t \in TurnRec
      BY <1>1
    <3>6. g[i] = [t EXCEPT !.results = t.results, !.content = t.content]
      BY <3>1, <3>3, <3>4
    <3> HIDE DEF t
    <3>7. [t EXCEPT !.results = t.results, !.content = t.content] = t
      BY <3>5 DEF TurnRec
    <3> QED BY <3>6, <3>7 DEF t
  <2>3. g = [i \in DOMAIN h |-> g[i]]
    BY <2>1
  <2>4. g = h
    BY <1>6, <2>2, <2>3
  <2> QED BY <2>4 DEF g
<1> QED BY <1>7, <1>8

LEMMA ToldAppend ==
    ASSUME NEW f \in Talk, NEW m \in Message
    PROVE  Told(Append(f, m)) = Append(Told(f), PlainTurn(m))
<1> DEFINE n == Len(f)
           g == Append(f, m)
           b == PlainTurns(f)
           c == PlainTurns(g)
           e == PlainTurn(m)
<1>1. /\ g \in Talk /\ Len(g) = n + 1 /\ n \in Nat /\ g[n + 1] = m
      /\ \A i \in 1 .. n : g[i] = f[i]
  BY TalkAppend
<1>2. DOMAIN g = 1 .. n + 1 /\ DOMAIN f = 1 .. n
  BY <1>1, TalkParts
<1>3. /\ b \in Seq(Wholes) /\ Len(b) = n /\ e \in Wholes
      /\ c \in Seq(Wholes) /\ Len(c) = n + 1
  <2> HIDE DEF g
  <2> QED BY <1>1, ToldForm, PlainTurnForm
<1>4. /\ \A i \in 1 .. n : b[i] = PlainTurn(f[i])
      /\ \A i \in 1 .. n + 1 : c[i] = PlainTurn(g[i])
  <2> HIDE DEF g
  <2> QED BY <1>2 DEF PlainTurns
<1> HIDE DEF g, b, c
<1>5. c = Append(b, e)
  <2> DEFINE d == Append(b, e)
  <2>1. /\ d \in Seq(Wholes) /\ Len(d) = n + 1 /\ d[n + 1] = e /\ \A i \in 1 .. n : d[i] = b[i]
    BY <1>3, AppendTo
  <2> HIDE DEF d, e
  <2>2. ASSUME NEW i \in 1 .. n + 1 PROVE c[i] = d[i]
    <3>1. CASE i = n + 1
      BY <1>1, <1>4, <2>1, <3>1 DEF e
    <3>2. CASE i # n + 1
      <4>1. i \in 1 .. n
        BY <1>1, <3>2
      <4> QED BY <1>1, <1>4, <2>1, <4>1
    <3> QED BY <3>1, <3>2
  <2>3. c = d
    BY <1>3, <2>1, <2>2, SameSeq
  <2> QED BY <2>3 DEF d
<1> DEFINE a == SystemTurns
<1>6. a \in Seq(Wholes)
  BY FrontForm
<1>7. Told(g) = a \o c /\ Told(f) = a \o b
  BY DEF Told, b, c
<1> HIDE DEF a, e
<1>8. a \o Append(b, e) = Append(a \o b, e)
  BY <1>3, <1>6, JoinAppend
<1>9. Told(g) = Append(Told(f), e)
  BY <1>5, <1>7, <1>8
<1> QED BY <1>9 DEF g, e

\* The beginning of a regular conversation.
LEMMA OrderedFront ==
    ASSUME NEW ms, Ordered(ms), NEW f, DOMAIN f \subseteq DOMAIN ms,
           \A i \in DOMAIN f : f[i] = ms[i] /\ (i # 1 => i - 1 \in DOMAIN f)
    PROVE  Ordered(f)
<1>1. \A i \in DOMAIN f : f[i] \in ClientMessage
  BY DEF Ordered
<1>2. ASSUME NEW i \in DOMAIN f, f[i].role = "user"
      PROVE  Answers(f[i]) = IF i = 1 THEN <<>> ELSE Calls(f[i - 1])
  <2>1. Answers(ms[i]) = IF i = 1 THEN <<>> ELSE Calls(ms[i - 1])
    BY <1>2 DEF Ordered
  <2> QED BY <2>1
<1>3. \A i, j \in DOMAIN f : i < j => ToSet(Calls(f[i])) \cap ToSet(Calls(f[j])) = {}
  BY DEF Ordered
<1>4. ASSUME NEW i \in DOMAIN f, i > 1 PROVE f[i].role # f[i - 1].role
  <2>1. ms[i].role # ms[i - 1].role
    BY <1>4 DEF Ordered
  <2>2. i # 1
    BY <1>4
  <2> QED BY <2>1, <2>2
<1> QED BY <1>1, <1>2, <1>3, <1>4 DEF Ordered

\* A regular conversation is converted message by message.
LEMMA ConvertOrdered ==
    ASSUME CallsDiffer, NEW ms \in Talk, Ordered(ms), NEW n \in Nat, Len(ms) = n + 1,
           ms[n + 1].role = "user"
    PROVE  Fingerprints(Convert(ms)) = Told(ms) /\ Len(Convert(ms)) = Len(Told(ms))
<1> DEFINE q == ms[n + 1]
           w == Answers(q)
           old == SubSeq(ms, 1, Len(ms) - 1)
<1>1. DOMAIN ms = 1 .. n + 1
  BY TalkParts
<1>2. ms \in Seq(Message)
  BY DEF Talk
<1>3. Len(ms) - 1 = n
  OBVIOUS
<1>4. /\ old \in Talk /\ Len(old) = n /\ DOMAIN old = 1 .. n
      /\ \A i \in 1 .. n : old[i] = ms[i]
      /\ q \in Message /\ ms = Append(old, q)
  <2>1. /\ SubSeq(ms, 1, n) \in Seq(Message) /\ Len(SubSeq(ms, 1, n)) = n
        /\ \A i \in 1 .. n : SubSeq(ms, 1, n)[i] = ms[i]
        /\ ms[n + 1] \in Message /\ ms = Append(SubSeq(ms, 1, n), ms[n + 1])
    BY <1>2, FrontAndLast
  <2>2. old = SubSeq(ms, 1, n)
    BY <1>3
  <2> HIDE DEF old
  <2>3. old \in Talk /\ Len(old) = n
    BY <2>1, <2>2 DEF Talk
  <2>4. DOMAIN old = 1 .. n
    BY <2>3, TalkParts
  <2> QED BY <2>1, <2>2, <2>3, <2>4
<1> HIDE DEF old
<1>5. ASSUME NEW i \in 1 .. n
      PROVE  /\ i \in DOMAIN ms /\ i + 1 \in DOMAIN ms /\ ms[i] \in ClientMessage
             /\ ms[i].role \in {"user", "assistant"} /\ ms[i + 1].role \in {"user", "assistant"}
             /\ ms[i + 1].role # ms[i].role
             /\ ms[i + 1].role = "user" => Answers(ms[i + 1]) = Calls(ms[i])
  <2>1. i \in DOMAIN ms /\ i + 1 \in DOMAIN ms /\ i + 1 > 1 /\ i + 1 # 1 /\ (i + 1) - 1 = i
    BY <1>1
  <2>2. ms[i] \in ClientMessage /\ ms[i + 1] \in ClientMessage
    BY <2>1 DEF Ordered
  <2>3. ms[i + 1].role # ms[i].role
    BY <2>1 DEF Ordered
  <2>4. ms[i + 1].role = "user" => Answers(ms[i + 1]) = Calls(ms[i])
    BY <2>1 DEF Ordered
  <2> QED BY <2>1, <2>2, <2>3, <2>4, ClientParts
<1>6. /\ \A i \in DOMAIN old : i > 1 => old[i].role # old[i - 1].role
      /\ Len(old) > 0 => old[Len(old)].role # "user"
  <2>1. ASSUME NEW i \in 1 .. n, i > 1 PROVE old[i].role # old[i - 1].role
    <3>1. i - 1 \in 1 .. n /\ (i - 1) + 1 = i
      BY <2>1
    <3> QED BY <1>4, <1>5, <3>1
  <2>2. ASSUME n > 0 PROVE old[n].role # "user"
    <3>1. n \in 1 .. n
      BY <2>2
    <3> QED BY <1>4, <1>5, <3>1
  <2> QED BY <1>4, <2>1, <2>2
<1> DEFINE h == Told(old)
<1>7. History(old) = h
  BY <1>4, <1>6, HistoryOfOrdered
<1>8. /\ h \in Seq(Wholes) /\ \A i \in DOMAIN h : Settled(h[i])
      /\ \A x : x \in UsesIn(h) <=>
            \E i \in DOMAIN old : old[i].role # "user" /\ x \in ToSet(Calls(old[i]))
      /\ \A x : x \in ResultsIn(h) <=>
            \E i \in DOMAIN old : old[i].role = "user" /\ x \in ToSet(Answers(old[i]))
  BY <1>4, ToldForm
<1> HIDE DEF h
<1>9. /\ \A x : x \in UsesIn(h) <=> \E i \in 1 .. n : ms[i].role # "user" /\ x \in ToSet(Calls(ms[i]))
      /\ \A x : x \in ResultsIn(h) <=> \E i \in 1 .. n : ms[i].role = "user" /\ x \in ToSet(Answers(ms[i]))
  BY <1>4, <1>8
<1>10. w \in Seq(Id) /\ Ids(q.blocks, "tool_result") = w /\ q.blocks \in Seq(Block)
  BY <1>4, MessageParts, IdsTyped DEF Answers
<1>11. w = IF n = 0 THEN <<>> ELSE Calls(ms[n])
  <2>1. CASE n = 0
    <3>1. n + 1 \in DOMAIN ms /\ n + 1 = 1
      BY <1>1, <2>1
    <3> QED BY <2>1, <3>1 DEF Ordered
  <2>2. CASE n # 0
    <3>1. n \in 1 .. n
      BY <2>2
    <3> QED BY <1>5, <2>2, <3>1
  <2> QED BY <2>1, <2>2
<1>12. ToSet(<<>>) = {}
  BY DEF ToSet
  \* What a user has answered was called just before.
<1>13. ASSUME NEW i \in 1 .. n, ms[i].role = "user", NEW x \in ToSet(Answers(ms[i]))
       PROVE  /\ i # 1 /\ i - 1 \in 1 .. n /\ ms[i - 1].role # "user" /\ x \in ToSet(Calls(ms[i - 1]))
  <2>1. i # 1
    <3>1. i = 1 => Answers(ms[i]) = <<>>
      BY <1>5, <1>13 DEF Ordered
    <3> QED BY <1>12, <1>13, <3>1
  <2>2. i - 1 \in 1 .. n /\ (i - 1) + 1 = i
    BY <2>1
  <2> QED BY <1>5, <1>13, <2>1, <2>2
<1>14. ResultsIn(h) \subseteq UsesIn(h)
  <2> SUFFICES ASSUME NEW x \in ResultsIn(h) PROVE x \in UsesIn(h)
    OBVIOUS
  <2>1. PICK i \in 1 .. n : ms[i].role = "user" /\ x \in ToSet(Answers(ms[i]))
    BY <1>9
  <2> QED BY <1>9, <1>13, <2>1
<1>15. UsesIn(h) \ ResultsIn(h) \subseteq ToSet(w)
  <2> SUFFICES ASSUME NEW x \in UsesIn(h), x \notin ResultsIn(h) PROVE x \in ToSet(w)
    OBVIOUS
  <2>1. PICK i \in 1 .. n : ms[i].role # "user" /\ x \in ToSet(Calls(ms[i]))
    BY <1>9
  <2>2. ms[i + 1].role = "user" /\ Answers(ms[i + 1]) = Calls(ms[i])
    BY <1>5, <2>1
  <2>3. CASE i = n
    <3>1. n # 0
      BY <2>3
    <3> QED BY <1>11, <2>1, <2>3, <3>1
  <2>4. CASE i # n
    <3>1. i + 1 \in 1 .. n
      BY <2>4
    <3>2. x \in ResultsIn(h)
      BY <1>9, <2>1, <2>2, <3>1
    <3> QED BY <3>2
  <2> QED BY <2>3, <2>4
<1>16. \A i \in DOMAIN w : w[i] \in UsesIn(h) \ ResultsIn(h)
  <2> SUFFICES ASSUME NEW i \in DOMAIN w PROVE w[i] \in UsesIn(h) \ ResultsIn(h)
    OBVIOUS
  <2> DEFINE x == w[i]
  <2>1. x \in ToSet(w)
    BY DEF ToSet
  <2>2. n # 0 /\ w = Calls(ms[n])
    BY <1>11, <1>12, <2>1
  <2>3. n \in 1 .. n /\ ms[n].role # "user"
    <3>1. n \in 1 .. n
      BY <2>2
    <3> QED BY <1>5, <3>1
  <2> HIDE DEF x, w, q
  <2>4. x \in UsesIn(h)
    BY <1>9, <2>1, <2>2, <2>3
  <2>5. ASSUME x \in ResultsIn(h) PROVE FALSE
    <3>1. PICK j \in 1 .. n : ms[j].role = "user" /\ x \in ToSet(Answers(ms[j]))
      BY <1>9, <2>5
    <3>2. j - 1 \in 1 .. n /\ x \in ToSet(Calls(ms[j - 1]))
      BY <1>13, <3>1
    <3>3. j - 1 \in DOMAIN ms /\ n \in DOMAIN ms /\ j - 1 < n
      BY <1>1, <2>3, <3>2
    <3>4. ToSet(Calls(ms[j - 1])) \cap ToSet(Calls(ms[n])) = {}
      BY <3>3 DEF Ordered
    <3> QED BY <2>1, <2>2, <3>2, <3>4
  <2> QED BY <2>4, <2>5 DEF x
<1>17. IsInjective(w)
  <2>1. CASE n = 0
    BY <1>11, <2>1 DEF IsInjective
  <2>2. CASE n # 0
    <3>1. n \in 1 .. n
      BY <2>2
    <3>2. ms[n] \in ClientMessage /\ ms[n].role # "user"
      BY <1>5, <3>1
    <3>3. ms[n].blocks \in AssistantBlocks
      BY <3>2 DEF ClientMessage
    <3>4. IsInjective(Calls(ms[n]))
      BY <3>3 DEF CallsDiffer, Calls
    <3> QED BY <1>11, <2>2, <3>4
  <2> QED BY <2>1, <2>2
<1> HIDE DEF w
<1>18. ValidResults(h, w) = w
  <2> DEFINE open == UsesIn(h) \ ResultsIn(h)
             K == {i \in DOMAIN w : w[i] \in open /\ \A j \in 1 .. i - 1 : w[j] # w[i]}
  <2>1. ValidResults(h, w) = At(w, K)
    BY DEF ValidResults
  <2>2. ASSUME NEW i \in DOMAIN w, NEW j \in 1 .. i - 1 PROVE w[j] # w[i]
    <3>1. DOMAIN w = 1 .. Len(w) /\ Len(w) \in Nat
      BY <1>10
    <3>2. j \in DOMAIN w /\ j # i
      BY <3>1
    <3> QED BY <1>17, <3>2 DEF IsInjective
  <2>3. K = DOMAIN w
    <3> HIDE DEF open
    <3>1. \A i \in DOMAIN w : w[i] \in open
      BY <1>16 DEF open
    <3> QED BY <2>2, <3>1
  <2>4. At(w, DOMAIN w) = w
    BY <1>10, AtAll
  <2> QED BY <2>1, <2>3, <2>4
<1>19. RemoveOrphanedResults(RemoveOrphanedUses(h, w)) = h
  BY <1>8, <1>14, <1>15, NothingToRepair
<1> DEFINE turn == UserTurn(q.blocks, w)
           t == [turn EXCEPT !.tools = Tools(h)]
<1>20. Convert(ms) = Append(h, t)
  <2>1. Last(ms) = q
    BY DEF Last
  <2> QED BY <1>7, <1>10, <1>18, <1>19, <2>1 DEF Convert, old
<1>21. turn = PlainTurn(q) /\ turn \in TurnRec /\ turn.tools = {}
  <2>1. <<q>> \in Talk /\ Blocks(<<q>>) = q.blocks
    BY <1>4, BlocksOfOne
  <2>2. turn = PlainTurn(q)
    BY <1>10, <2>1 DEF PlainTurn, MergeUsers
  <2>3. Settled(turn)
    BY <1>4, <2>2, PlainTurnForm
  <2> QED BY <2>2, <2>3 DEF Settled, Wholes
<1> HIDE DEF turn
<1>22. Canon(t) = turn
  <2> DEFINE X == Tools(h)
  <2> HIDE DEF X
  <2>1. [[turn EXCEPT !.tools = X] EXCEPT !.tools = {}] = turn
    BY <1>21 DEF TurnRec
  <2> QED BY <2>1 DEF Canon, X
<1>23. \A i \in DOMAIN h : Canon(h[i]) = h[i]
  <2> SUFFICES ASSUME NEW i \in DOMAIN h PROVE Canon(h[i]) = h[i]
    OBVIOUS
  <2> DEFINE u == h[i]
  <2>1. u \in TurnRec /\ u.tools = {}
    BY <1>8 DEF Settled, Wholes
  <2> HIDE DEF u
  <2>2. [u EXCEPT !.tools = {}] = u
    BY <2>1 DEF TurnRec
  <2> QED BY <2>2 DEF Canon, u
<1>24. Told(ms) = Append(h, turn)
  BY <1>4, <1>21, ToldAppend DEF h
<1> DEFINE l == Len(h)
           c == Append(h, t)
           d == Append(h, turn)
<1>25. /\ l \in Nat /\ DOMAIN h = 1 .. l
       /\ Len(c) = l + 1 /\ DOMAIN c = 1 .. l + 1 /\ c[l + 1] = t /\ \A i \in 1 .. l : c[i] = h[i]
       /\ Len(d) = l + 1 /\ DOMAIN d = 1 .. l + 1 /\ d[l + 1] = turn /\ \A i \in 1 .. l : d[i] = h[i]
  <2> HIDE DEF t
  <2> QED BY <1>8
<1> HIDE DEF l, t
<1>26. \A i \in 1 .. l + 1 : Canon(c[i]) = d[i]
  <2> HIDE DEF c, d
  <2> SUFFICES ASSUME NEW i \in 1 .. l + 1 PROVE Canon(c[i]) = d[i]
    OBVIOUS
  <2>1. CASE i = l + 1
    BY <1>22, <1>25, <2>1
  <2>2. CASE i # l + 1
    <3>1. i \in 1 .. l
      BY <1>25, <2>2
    <3> QED BY <1>23, <1>25, <3>1
  <2> QED BY <2>1, <2>2
<1>27. Fingerprints(c) = d
  <2>1. d \in Seq(Wholes)
    <3>1. turn \in Wholes
      BY <1>4, <1>21, PlainTurnForm
    <3> QED BY <1>8, <3>1
  <2>2. d = [i \in 1 .. l + 1 |-> d[i]]
    <3>1. d = [i \in DOMAIN d |-> d[i]]
      <4> HIDE DEF d
      <4> QED BY <2>1
    <3> HIDE DEF d
    <3> QED BY <1>25, <3>1
  <2>3. Fingerprints(c) = [i \in 1 .. l + 1 |-> Canon(c[i])]
    <3> HIDE DEF c
    <3> QED BY <1>25 DEF Fingerprints
  <2> HIDE DEF c, d
  <2> QED BY <1>26, <2>2, <2>3
<1>28. Len(c) = Len(d)
  BY <1>25
<1> QED BY <1>20, <1>24, <1>27, <1>28

-----------------------------------------------------------------------------
(* What the last request left in the cache. *)

\* A sequence shares all of itself with what begins with it.
LEMMA PrefixShared ==
    ASSUME NEW p, NEW q, Len(p) \in Nat, Len(q) \in Nat, Len(p) <= Len(q),
           \A i \in 1 .. Len(p) : p[i] = q[i]
    PROVE  CommonPrefix(p, q) = Len(p)
<1> DEFINE short == IF Len(p) < Len(q) THEN Len(p) ELSE Len(q)
           Shared(n) == /\ \A i \in 1 .. n : p[i] = q[i]
                        /\ n < short => p[n + 1] # q[n + 1]
<1>1. short = Len(p)
  OBVIOUS
<1>2. CommonPrefix(p, q) = CHOOSE n \in 0 .. short : Shared(n)
  BY DEF CommonPrefix
<1> HIDE DEF short
<1>3. Len(p) \in 0 .. short /\ Shared(Len(p))
  BY <1>1
<1>4. ASSUME NEW n \in 0 .. short, Shared(n) PROVE n = Len(p)
  <2>1. n < short => n + 1 \in 1 .. Len(p)
    BY <1>1
  <2>2. ~(n < short)
    BY <1>4, <2>1
  <2> QED BY <1>1, <2>2
<1> HIDE DEF Shared
<1> QED BY <1>2, <1>3, <1>4

\* The cache holds, under the id of the last request, a beginning of the conversation up to a
\* message of the user; or there was no request.
Remembered ==
    \/ before.turns = 0 /\ DOMAIN cached = {}
    \/ /\ before.id \in DOMAIN cached
       /\ \E k \in 1 .. Len(messages) :
             /\ messages[k].role = "user"
             /\ cached[before.id] = Told(SubSeq(messages, 1, k))
             /\ before.turns = Len(Told(SubSeq(messages, 1, k)))

HitInv == breaches = 0 /\ before.plain => Remembered

LEMMA PartOfTalk ==
    ASSUME NEW ms \in Talk, NEW k \in 0 .. Len(ms)
    PROVE  /\ SubSeq(ms, 1, k) \in Talk /\ Len(SubSeq(ms, 1, k)) = k
           /\ DOMAIN SubSeq(ms, 1, k) = 1 .. k
           /\ \A i \in 1 .. k : SubSeq(ms, 1, k)[i] = ms[i]
<1>1. ms \in Seq(Message) /\ Len(ms) \in Nat
  BY TalkParts DEF Talk
<1>2. 1 \in 1 .. Len(ms) + 1 /\ k \in 1 - 1 .. Len(ms) /\ k - 1 + 1 = k
  BY <1>1
<1>3. /\ SubSeq(ms, 1, k) \in Seq(Message) /\ Len(SubSeq(ms, 1, k)) = k
      /\ \A i \in 1 .. k : SubSeq(ms, 1, k)[i] = ms[1 + i - 1]
  BY <1>1, <1>2, SubSeqTyped
<1>4. \A i \in 1 .. k : 1 + i - 1 = i
  BY <1>2
<1>5. SubSeq(ms, 1, k) \in Talk
  BY <1>3 DEF Talk
<1> QED BY <1>3, <1>4, <1>5, TalkParts

\* A longer beginning begins with a shorter one.
LEMMA ToldPrefix ==
    ASSUME NEW f \in Talk, NEW g \in Talk, Len(f) <= Len(g), \A i \in 1 .. Len(f) : f[i] = g[i]
    PROVE  /\ Len(Told(f)) \in Nat /\ Len(Told(g)) \in Nat /\ Len(Told(f)) <= Len(Told(g))
           /\ \A i \in 1 .. Len(Told(f)) : Told(f)[i] = Told(g)[i]
<1> DEFINE a == SystemTurns
           b == PlainTurns(f)
           c == PlainTurns(g)
<1>1. a \in Seq(Wholes) /\ b \in Seq(Wholes) /\ c \in Seq(Wholes) /\ Len(b) = Len(f) /\ Len(c) = Len(g)
  BY FrontForm, ToldForm
<1>2. \A i \in 1 .. Len(f) : b[i] = PlainTurn(f[i]) /\ c[i] = PlainTurn(f[i])
  <2>1. DOMAIN f = 1 .. Len(f) /\ DOMAIN g = 1 .. Len(g) /\ Len(f) \in Nat /\ Len(g) \in Nat
    BY TalkParts
  <2>2. \A i \in 1 .. Len(f) : i \in DOMAIN f /\ i \in DOMAIN g
    BY <2>1
  <2> QED BY <2>2 DEF PlainTurns
<1>3. Told(f) = a \o b /\ Told(g) = a \o c
  BY DEF Told
<1> HIDE DEF a, b, c
<1> DEFINE s == a \o b
           t == a \o c
           l == Len(a)
<1>4. /\ Len(s) = l + Len(b) /\ \A i \in 1 .. l : s[i] = a[i]
      /\ \A i \in 1 .. Len(b) : s[l + i] = b[i]
      /\ Len(t) = l + Len(c) /\ \A i \in 1 .. l : t[i] = a[i]
      /\ \A i \in 1 .. Len(c) : t[l + i] = c[i]
  <2>0. a \in Seq(Wholes) /\ b \in Seq(Wholes) /\ c \in Seq(Wholes)
    BY <1>1
  <2>1. /\ Len(a \o b) = Len(a) + Len(b) /\ \A i \in 1 .. Len(a) : (a \o b)[i] = a[i]
        /\ \A i \in 1 .. Len(b) : (a \o b)[Len(a) + i] = b[i]
    BY <2>0, Joined
  <2>2. /\ Len(a \o c) = Len(a) + Len(c) /\ \A i \in 1 .. Len(a) : (a \o c)[i] = a[i]
        /\ \A i \in 1 .. Len(c) : (a \o c)[Len(a) + i] = c[i]
    BY <2>0, Joined
  <2> QED BY <2>1, <2>2
<1>5. l \in Nat /\ Len(b) \in Nat /\ Len(c) \in Nat /\ Len(b) <= Len(c)
  BY <1>1
<1> HIDE DEF s, t, l
<1>6. ASSUME NEW i \in 1 .. Len(s) PROVE s[i] = t[i]
  <2>1. CASE i \in 1 .. l
    BY <1>4, <2>1
  <2>2. CASE i \notin 1 .. l
    <3> DEFINE j == i - l
    <3>1. j \in 1 .. Len(b) /\ j \in 1 .. Len(c) /\ l + j = i
      BY <1>4, <1>5, <2>2
    <3> HIDE DEF j
    <3>2. s[i] = b[j] /\ t[i] = c[j]
      BY <1>4, <3>1
    <3> QED BY <1>1, <1>2, <3>1, <3>2
  <2> QED BY <2>1, <2>2
<1>7. Len(s) \in Nat /\ Len(t) \in Nat /\ Len(s) <= Len(t)
  BY <1>4, <1>5
<1> QED BY <1>3, <1>6, <1>7 DEF s, t

LEMMA NothingEdited == ASSUME NEW ms \in Talk PROVE Edited(ms, <<>>) = ms
<1> DEFINE none == <<>>
<1>1. none \in Seq(Edit) /\ Len(none) = 0
  OBVIOUS
<1>2. <<>> = none
  OBVIOUS
<1> HIDE DEF none
<1>3. PICK f \in [0 .. Len(none) -> Talk] : EditChain(f, ms, none)
  BY <1>1, EditSteps
<1>4. Edited(ms, none) = ms
  BY <1>1, <1>3 DEF EditChain
<1> QED BY <1>2, <1>4

\* What a request without edits sends of a regular conversation.
LEMMA SentOfOrdered ==
    ASSUME CallsDiffer, messages \in Talk, Ordered(messages), UpToUser(messages) # <<>>
    PROVE  LET l == Len(UpToUser(messages))
               c == Convert(UpToUser(messages))
           IN  /\ l \in 1 .. Len(messages) /\ messages[l].role = "user"
               /\ Fingerprints(c) = Told(SubSeq(messages, 1, l))
               /\ Len(c) = Len(Told(SubSeq(messages, 1, l)))
               /\ \A j \in l + 1 .. Len(messages) : messages[j].role # "user"
<1> DEFINE ms == UpToUser(messages)
           l == Len(ms)
           part == SubSeq(messages, 1, l)
<1>1. /\ ms \in Talk /\ l <= Len(messages) /\ \A k \in 1 .. l : ms[k] = messages[k]
      /\ ms[l].role = "user" /\ \A j \in l + 1 .. Len(messages) : messages[j].role # "user"
  BY UpToUserEnds
<1> HIDE DEF ms
<1>2. l \in Nat /\ Len(messages) \in Nat /\ DOMAIN ms = 1 .. l /\ DOMAIN messages = 1 .. Len(messages)
  BY <1>1, TalkParts
<1>3. l # 0
  <2>1. ms # <<>>
    BY DEF ms
  <2> QED BY <1>1, <2>1 DEF Talk
<1>4. l \in 1 .. Len(messages) /\ l \in 0 .. Len(messages) /\ l \in 1 .. l
  BY <1>1, <1>2, <1>3
<1>5. messages[l].role = "user"
  BY <1>1, <1>4
<1>6. ms = part
  <2>1. part \in Talk /\ Len(part) = l /\ \A i \in 1 .. l : part[i] = messages[i]
    BY <1>4, PartOfTalk
  <2>2. ms \in Seq(Message) /\ part \in Seq(Message) /\ Len(ms) = Len(part)
    BY <1>1, <2>1 DEF Talk
  <2>3. \A i \in 1 .. Len(ms) : ms[i] = part[i]
    BY <1>1, <2>1
  <2> HIDE DEF part
  <2> QED BY <2>2, <2>3, SameSeq
<1>7. Ordered(ms)
  <2>1. DOMAIN ms \subseteq DOMAIN messages
    BY <1>1, <1>2
  <2>2. \A i \in DOMAIN ms : ms[i] = messages[i] /\ (i # 1 => i - 1 \in DOMAIN ms)
    BY <1>1, <1>2
  <2> QED BY <2>1, <2>2, OrderedFront
<1>8. Fingerprints(Convert(ms)) = Told(ms) /\ Len(Convert(ms)) = Len(Told(ms))
  <2> DEFINE n == l - 1
  <2>1. n \in Nat /\ Len(ms) = n + 1 /\ ms[n + 1].role = "user"
    BY <1>1, <1>2, <1>3
  <2> HIDE DEF n
  <2> QED BY <1>1, <1>7, <2>1, ConvertOrdered
<1>9. Fingerprints(Convert(ms)) = Told(part) /\ Len(Convert(ms)) = Len(Told(part))
  BY <1>6, <1>8
<1> QED BY <1>1, <1>4, <1>5, <1>9 DEF ms

\* The conversation goes on, and the cache stays.
LEMMA RememberedGoesOn ==
    ASSUME messages \in Talk, NEW m \in Message, Remembered,
           messages' = Append(messages, m), UNCHANGED <<before, cached, session>>
    PROVE  Remembered'
<1> DEFINE n == Len(messages)
           new == Append(messages, m)
<1>1. new \in Talk /\ Len(new) = n + 1 /\ n \in Nat /\ \A i \in 1 .. n : new[i] = messages[i]
  BY TalkAppend
<1> HIDE DEF new
<1>2. ASSUME NEW k \in 1 .. n PROVE SubSeq(new, 1, k) = SubSeq(messages, 1, k) /\ k \in 1 .. Len(new)
  <2>1. k \in 0 .. n /\ k \in 0 .. Len(new) /\ k \in 1 .. Len(new) /\ \A i \in 1 .. k : i \in 1 .. n
    BY <1>1
  <2> DEFINE s == SubSeq(new, 1, k)
             t == SubSeq(messages, 1, k)
  <2>2. s \in Talk /\ Len(s) = k /\ \A i \in 1 .. k : s[i] = new[i]
    BY <1>1, <2>1, PartOfTalk
  <2>3. t \in Talk /\ Len(t) = k /\ \A i \in 1 .. k : t[i] = messages[i]
    BY <2>1, PartOfTalk
  <2> HIDE DEF s, t
  <2>4. s \in Seq(Message) /\ t \in Seq(Message) /\ Len(s) = Len(t) /\ \A i \in 1 .. Len(s) : s[i] = t[i]
    BY <1>1, <2>1, <2>2, <2>3 DEF Talk
  <2>5. s = t
    BY <2>4, SameSeq
  <2> QED BY <2>1, <2>5 DEF s, t
<1>3. messages' = new
  BY DEF new
<1>4. CASE before.turns = 0 /\ DOMAIN cached = {}
  BY <1>4 DEF Remembered
<1>5. CASE ~(before.turns = 0 /\ DOMAIN cached = {})
  <2>1. PICK k \in 1 .. n :
             /\ before.id \in DOMAIN cached /\ messages[k].role = "user"
             /\ cached[before.id] = Told(SubSeq(messages, 1, k))
             /\ before.turns = Len(Told(SubSeq(messages, 1, k)))
    BY <1>5 DEF Remembered
  <2>2. PICK t : t = SubSeq(messages, 1, k)
    OBVIOUS
  <2>3. Told(t)' = Told(t)
    BY DEF Told, SystemTurns
  <2>4. SubSeq(new, 1, k) = t /\ k \in 1 .. Len(new) /\ new[k].role = "user"
    BY <1>1, <1>2, <2>1, <2>2
  <2>5. SubSeq(messages, 1, k)' = t
    BY <1>3, <2>4
  <2>6. Told(SubSeq(messages, 1, k))' = Told(t)
    BY <2>3, <2>5
  <2>7. /\ k \in 1 .. Len(messages') /\ messages'[k].role = "user"
        /\ cached[before.id]' = Told(t) /\ before'.turns = Len(Told(t)) /\ before'.id \in DOMAIN cached'
    BY <1>3, <2>1, <2>2, <2>4
  <2> QED BY <2>6, <2>7 DEF Remembered
<1> QED BY <1>4, <1>5

LEMMA SayRemembers == ASSUME ConversationInv, OrderInv, HitInv, Say PROVE HitInv' /\ HitCoversLastTurn'
<1>1. PICK m \in ClientMessage : /\ messages' = Append(messages, m)
                                 /\ breaches' = breaches + IF Regular(m) THEN 0 ELSE 1
                                 /\ Quiet
  BY DEF Say
<1>2. request' = {} /\ UNCHANGED <<session, cached, before>>
  BY <1>1 DEF Quiet
<1>3. messages \in Talk /\ m \in Message /\ breaches \in Nat
  BY ClientMessageTyped DEF ConversationInv, OrderInv
<1>4. ASSUME breaches' = 0, before'.plain PROVE Remembered'
  <2>1. breaches = 0
    <3>1. breaches' = breaches \/ breaches' = breaches + 1
      BY <1>1, <1>3
    <3> QED BY <1>3, <1>4, <3>1
  <2>2. Remembered
    BY <1>2, <1>4, <2>1 DEF HitInv
  <2> QED BY <1>1, <1>2, <1>3, <2>2, RememberedGoesOn
<1>5. HitCoversLastTurn'
  BY <1>2 DEF HitCoversLastTurn
<1> QED BY <1>4, <1>5 DEF HitInv

LEMMA CompactRemembers == ASSUME OrderInv, Compact PROVE HitInv' /\ HitCoversLastTurn'
<1>1. breaches' = breaches + 1 /\ request' = {}
  BY DEF Compact, Quiet
<1>2. breaches' # 0
  BY <1>1 DEF OrderInv
<1>3. HitCoversLastTurn'
  BY <1>1 DEF HitCoversLastTurn
<1> QED BY <1>2, <1>3 DEF HitInv

LEMMA StutterRemembers ==
    ASSUME HitInv, HitCoversLastTurn, UNCHANGED conversationVars
    PROVE  HitInv' /\ HitCoversLastTurn'
<1>1. UNCHANGED <<messages, session, breaches, request, cached, hit, before>>
  BY DEF conversationVars
<1>2. HitCoversLastTurn'
  BY <1>1 DEF HitCoversLastTurn
<1>3. Remembered => Remembered'
  <2> SUFFICES ASSUME Remembered PROVE Remembered'
    OBVIOUS
  <2>1. CASE before.turns = 0 /\ DOMAIN cached = {}
    BY <1>1, <2>1 DEF Remembered
  <2>2. CASE ~(before.turns = 0 /\ DOMAIN cached = {})
    <3>1. PICK k \in 1 .. Len(messages) :
             /\ before.id \in DOMAIN cached /\ messages[k].role = "user"
             /\ cached[before.id] = Told(SubSeq(messages, 1, k))
             /\ before.turns = Len(Told(SubSeq(messages, 1, k)))
      BY <2>2 DEF Remembered
    <3>2. PICK t : t = SubSeq(messages, 1, k)
      OBVIOUS
    <3>3. Told(t)' = Told(t)
      BY <1>1 DEF Told, SystemTurns
    <3>4. SubSeq(messages, 1, k)' = t
      BY <1>1, <3>2
    <3> QED BY <1>1, <3>1, <3>2, <3>3, <3>4 DEF Remembered
  <2> QED BY <2>1, <2>2
<1> QED BY <1>1, <1>2, <1>3 DEF HitInv

LEMMA SendRemembers ==
    ASSUME CallsDiffer, ConversationInv, OrderInv, HitInv, HitCoversLastTurn, Send
    PROVE  HitInv' /\ HitCoversLastTurn'
<1>1. PICK edits \in EditLists :
         LET ms    == UpToUser(Edited(messages, edits))
             turns == Convert(ms)
             id    == ConversationId(ms)
         IN  IF ms = <<>> THEN messages # <<>> /\ Quiet /\ UNCHANGED <<messages, breaches>>
             ELSE /\ request' = {[turns |-> turns, edits |-> edits, prior |-> before]}
                  /\ hit' = IF id \in DOMAIN cached
                            THEN CommonPrefix(cached[id], Fingerprints(turns)) ELSE 0
                  /\ cached' = [i \in DOMAIN cached \cup {id} |->
                                   IF i = id THEN Fingerprints(turns) ELSE cached[i]]
                  /\ before' = [turns |-> Len(turns), plain |-> edits = <<>>, id |-> id]
                  /\ UNCHANGED <<messages, session, breaches>>
  BY DEF Send
<1> DEFINE ms    == UpToUser(Edited(messages, edits))
           turns == Convert(ms)
           id    == ConversationId(ms)
<1>2. CASE ms = <<>>
  <2>1. request' = {} /\ UNCHANGED <<messages, breaches, session, cached, before>>
    BY <1>1, <1>2 DEF Quiet
  <2>2. HitCoversLastTurn'
    BY <2>1 DEF HitCoversLastTurn
  <2>3. Remembered => Remembered'
    <3> SUFFICES ASSUME Remembered PROVE Remembered'
      OBVIOUS
    <3>1. CASE before.turns = 0 /\ DOMAIN cached = {}
      BY <2>1, <3>1 DEF Remembered
    <3>2. CASE ~(before.turns = 0 /\ DOMAIN cached = {})
      <4>1. PICK k \in 1 .. Len(messages) :
               /\ before.id \in DOMAIN cached /\ messages[k].role = "user"
               /\ cached[before.id] = Told(SubSeq(messages, 1, k))
               /\ before.turns = Len(Told(SubSeq(messages, 1, k)))
        BY <3>2 DEF Remembered
      <4>2. PICK t : t = SubSeq(messages, 1, k)
        OBVIOUS
      <4>3. Told(t)' = Told(t)
        BY <2>1 DEF Told, SystemTurns
      <4>4. SubSeq(messages, 1, k)' = t
        BY <2>1, <4>2
      <4> QED BY <2>1, <4>1, <4>2, <4>3, <4>4 DEF Remembered
    <3> QED BY <3>1, <3>2
  <2> QED BY <2>1, <2>2, <2>3 DEF HitInv
<1>3. CASE ms # <<>>
  <2>1. /\ request' = {[turns |-> turns, edits |-> edits, prior |-> before]}
        /\ hit' = IF id \in DOMAIN cached
                  THEN CommonPrefix(cached[id], Fingerprints(turns)) ELSE 0
        /\ cached' = [i \in DOMAIN cached \cup {id} |->
                         IF i = id THEN Fingerprints(turns) ELSE cached[i]]
        /\ before' = [turns |-> Len(turns), plain |-> edits = <<>>, id |-> id]
        /\ messages' = messages /\ session' = session /\ breaches' = breaches
    BY <1>1, <1>3
  <2>2. messages \in Talk /\ (breaches = 0 => Ordered(messages))
    BY DEF ConversationInv, OrderInv
  <2> DEFINE l == Len(UpToUser(messages))
             told == Told(SubSeq(messages, 1, l))
  <2> HIDE DEF ms, id
  \* What is sent without edits of a regular conversation.
  <2>3. ASSUME breaches = 0, edits = <<>>
        PROVE  /\ l \in 1 .. Len(messages) /\ messages[l].role = "user"
               /\ Fingerprints(turns) = told /\ Len(turns) = Len(told)
               /\ \A j \in l + 1 .. Len(messages) : messages[j].role # "user"
    <3>1. ms = UpToUser(messages)
      BY <2>2, <2>3, NothingEdited DEF ms
    <3> HIDE DEF l
    <3> QED BY <1>3, <2>2, <2>3, <3>1, SentOfOrdered DEF l
  <2> HIDE DEF l, turns
  <2>4. ASSUME breaches' = 0, before'.plain PROVE Remembered'
    <3>1. breaches = 0 /\ edits = <<>>
      BY <2>1, <2>4
    <3>2. PICK t : t = SubSeq(messages, 1, l)
      OBVIOUS
    <3>3. Told(t)' = Told(t)
      BY <2>1 DEF Told, SystemTurns
    <3>4. PICK k : k = l
      OBVIOUS
    <3>5. SubSeq(messages, 1, k)' = t
      BY <2>1, <3>2, <3>4
    <3>6. /\ before'.id = id /\ before'.turns = Len(turns) /\ id \in DOMAIN cached'
          /\ cached'[id] = Fingerprints(turns)
      BY <2>1
    <3>7. /\ k \in 1 .. Len(messages') /\ messages'[k].role = "user"
          /\ cached'[before'.id] = Told(t) /\ before'.turns = Len(Told(t))
          /\ before'.id \in DOMAIN cached'
      BY <2>1, <2>3, <3>1, <3>2, <3>4, <3>6
    <3>8. Told(SubSeq(messages, 1, k))' = Told(t)
      BY <3>3, <3>5
    <3> QED BY <3>7, <3>8 DEF Remembered
  <2>5. ASSUME NEW r \in request', breaches' = 0, r.prior.plain, r.edits = <<>>,
               r.prior.id = before'.id
        PROVE  hit' = r.prior.turns
    <3>1. r.prior = before /\ edits = <<>> /\ breaches = 0 /\ before.plain /\ before.id = id
      BY <2>1, <2>5
    <3>2. Remembered
      BY <3>1 DEF HitInv
    <3>3. CASE before.turns = 0 /\ DOMAIN cached = {}
      BY <2>1, <3>1, <3>3
    <3>4. CASE ~(before.turns = 0 /\ DOMAIN cached = {})
      <4>1. PICK k \in 1 .. Len(messages) :
               /\ before.id \in DOMAIN cached /\ messages[k].role = "user"
               /\ cached[before.id] = Told(SubSeq(messages, 1, k))
               /\ before.turns = Len(Told(SubSeq(messages, 1, k)))
        BY <3>2, <3>4 DEF Remembered
      <4> DEFINE f == SubSeq(messages, 1, k)
                 g == SubSeq(messages, 1, l)
      <4>2. /\ l \in 1 .. Len(messages) /\ Fingerprints(turns) = Told(g)
            /\ \A j \in l + 1 .. Len(messages) : messages[j].role # "user"
        BY <2>3, <3>1
      <4>3. k <= l
        <5>1. Len(messages) \in Nat
          BY <2>2, TalkParts
        <5>2. k \notin l + 1 .. Len(messages)
          BY <4>1, <4>2
        <5> QED BY <4>1, <4>2, <5>1, <5>2
      <4>4. k \in 0 .. Len(messages) /\ l \in 0 .. Len(messages) /\ \A i \in 1 .. k : i \in 1 .. l
        <5>1. Len(messages) \in Nat
          BY <2>2, TalkParts
        <5> QED BY <4>1, <4>2, <4>3, <5>1
      <4>5. f \in Talk /\ Len(f) = k /\ \A i \in 1 .. k : f[i] = messages[i]
        BY <2>2, <4>4, PartOfTalk
      <4>6. g \in Talk /\ Len(g) = l /\ \A i \in 1 .. l : g[i] = messages[i]
        BY <2>2, <4>4, PartOfTalk
      <4> HIDE DEF f, g
      <4>7. Len(f) <= Len(g) /\ \A i \in 1 .. Len(f) : f[i] = g[i]
        BY <4>3, <4>4, <4>5, <4>6
      <4>8. /\ Len(Told(f)) \in Nat /\ Len(Told(g)) \in Nat /\ Len(Told(f)) <= Len(Told(g))
            /\ \A i \in 1 .. Len(Told(f)) : Told(f)[i] = Told(g)[i]
        BY <4>5, <4>6, <4>7, ToldPrefix
      <4>9. CommonPrefix(Told(f), Told(g)) = Len(Told(f))
        <5> DEFINE p == Told(f)
                   q == Told(g)
        <5>1. /\ Len(p) \in Nat /\ Len(q) \in Nat /\ Len(p) <= Len(q)
              /\ \A i \in 1 .. Len(p) : p[i] = q[i]
          BY <4>8
        <5> HIDE DEF p, q
        <5>2. CommonPrefix(p, q) = Len(p)
          BY <5>1, PrefixShared
        <5> QED BY <5>2 DEF p, q
      <4>10. cached[id] = Told(f) /\ id \in DOMAIN cached /\ before.turns = Len(Told(f))
        BY <3>1, <4>1 DEF f
      <4>11. Fingerprints(turns) = Told(g)
        BY <4>2 DEF g
      <4>12. hit' = CommonPrefix(Told(f), Told(g))
        BY <2>1, <4>10, <4>11
      <4> QED BY <3>1, <4>9, <4>10, <4>12
    <3> QED BY <3>3, <3>4
  <2>6. HitCoversLastTurn'
    BY <2>5 DEF HitCoversLastTurn
  <2> QED BY <2>4, <2>6 DEF HitInv
<1> QED BY <1>2, <1>3

LEMMA InitRemembers == ConversationInit => HitInv /\ HitCoversLastTurn
BY DEF ConversationInit, HitInv, Remembered, HitCoversLastTurn

\* Where the calls of one answer have different ids, everything that was sent with the last
\* request of a regular conversation is found again in the cache (cache_sim.rs:247-257).
THEOREM ConversationsAreHit ==
    ASSUME CallsDiffer
    PROVE  ConversationSpec => []HitCoversLastTurn
<1> DEFINE Inv == HitInv /\ HitCoversLastTurn
<1>1. ConversationInv /\ OrderInv /\ Inv /\ [ConversationNext]_conversationVars => Inv'
  <2> SUFFICES ASSUME ConversationInv, OrderInv, HitInv, HitCoversLastTurn,
                      [ConversationNext]_conversationVars
               PROVE  HitInv' /\ HitCoversLastTurn'
    OBVIOUS
  <2> QED BY SayRemembers, CompactRemembers, SendRemembers, StutterRemembers DEF ConversationNext
<1>2. ConversationInit => Inv
  BY InitRemembers
<1>3. ConversationInv /\ OrderInv /\ [ConversationNext]_conversationVars => OrderInv'
  BY OrderStep
<1>4. ConversationSpec => []OrderInv
  BY <1>3, ConversationInvariant, InitOrder, PTL DEF ConversationSpec
<1>5. Inv => HitCoversLastTurn
  OBVIOUS
<1> HIDE DEF Inv
<1> QED BY <1>1, <1>2, <1>4, <1>5, ConversationInvariant, PTL DEF ConversationSpec

-----------------------------------------------------------------------------
(* The cache: what two sequences share. *)

\* What two sequences share is well defined: the place before their first difference.
LEMMA CommonPrefixNat ==
    ASSUME NEW S, NEW p \in Seq(S), NEW q \in Seq(S)
    PROVE  /\ CommonPrefix(p, q) \in Nat
           /\ CommonPrefix(p, q) <= Len(p) /\ CommonPrefix(p, q) <= Len(q)
           /\ \A i \in 1 .. CommonPrefix(p, q) : p[i] = q[i]
<1> DEFINE short == IF Len(p) < Len(q) THEN Len(p) ELSE Len(q)
           differ == {i \in 1 .. short : p[i] # q[i]}
           Shared(n) == /\ \A i \in 1 .. n : p[i] = q[i]
                        /\ n < short => p[n + 1] # q[n + 1]
<1>1. short \in Nat /\ short <= Len(p) /\ short <= Len(q)
  OBVIOUS
<1> HIDE DEF short
<1>2. \E n \in 0 .. short : Shared(n)
  <2>1. CASE differ = {}
    <3>1. Shared(short) /\ short \in 0 .. short
      BY <1>1, <2>1
    <3> QED BY <3>1
  <2>2. CASE differ # {}
    <3>1. differ \subseteq Nat
      BY <1>1
    <3>2. PICK m \in differ : \A k \in differ : m <= k
      BY <2>2, <3>1, LeastNat
    <3>3. m \in 1 .. short /\ p[m] # q[m] /\ \A i \in 1 .. m - 1 : p[i] = q[i]
      BY <1>1, <3>2
    <3>4. m - 1 \in 0 .. short /\ (m - 1) + 1 = m
      BY <1>1, <3>3
    <3>5. Shared(m - 1)
      BY <3>3, <3>4
    <3> QED BY <3>4, <3>5
  <2> QED BY <2>1, <2>2
<1> HIDE DEF Shared
<1>3. CommonPrefix(p, q) = CHOOSE n \in 0 .. short : Shared(n)
  BY DEF CommonPrefix, Shared, short
<1>4. CommonPrefix(p, q) \in 0 .. short /\ Shared(CommonPrefix(p, q))
  BY <1>2, <1>3
<1> QED BY <1>1, <1>4 DEF Shared

\* The fingerprints that the conversation's cache holds are those of turns.
CachedTyped == \A id \in DOMAIN cached : cached[id] \in Seq(TurnRec)

Tallies ==
    /\ session \in [system : BOOLEAN, named : BOOLEAN]
    /\ {breaches, requests, hit, before.turns} \subseteq Nat /\ before.plain \in BOOLEAN

LEMMA FingerprintsTyped ==
    ASSUME NEW turns \in Seq(TurnRec) PROVE Fingerprints(turns) \in Seq(TurnRec)
<1>1. ASSUME NEW t \in TurnRec PROVE Canon(t) \in TurnRec
  BY DEF Canon, TurnRec
<1>2. DOMAIN turns = 1 .. Len(turns) /\ Len(turns) \in Nat
  OBVIOUS
<1>3. Fingerprints(turns) \in [1 .. Len(turns) -> TurnRec]
  <2>1. \A i \in 1 .. Len(turns) : turns[i] \in TurnRec
    OBVIOUS
  <2> QED BY <1>1, <1>2, <2>1 DEF Fingerprints
<1> QED BY <1>2, <1>3

LEMMA SendTyped ==
    ASSUME ConversationInv, CachedTyped, Tallies, Send PROVE CachedTyped' /\ Tallies'
<1> DEFINE ms(edits) == UpToUser(Edited(messages, edits))
           turns(edits) == Convert(ms(edits))
           id(edits) == ConversationId(ms(edits))
<1>1. PICK edits \in EditLists :
         \/ ms(edits) = <<>> /\ Quiet /\ UNCHANGED <<messages, breaches>>
         \/ /\ ms(edits) # <<>>
            /\ requests' = requests + 1
            /\ hit' = IF id(edits) \in DOMAIN cached
                      THEN CommonPrefix(cached[id(edits)], Fingerprints(turns(edits))) ELSE 0
            /\ cached' = [i \in DOMAIN cached \cup {id(edits)} |->
                             IF i = id(edits) THEN Fingerprints(turns(edits)) ELSE cached[i]]
            /\ before' = [turns |-> Len(turns(edits)), plain |-> edits = <<>>, id |-> id(edits)]
            /\ UNCHANGED <<messages, session, breaches>>
  BY DEF Send
<1>2. CASE Quiet /\ UNCHANGED <<messages, breaches>>
  BY <1>2 DEF Quiet, CachedTyped, Tallies
<1>3. CASE /\ ms(edits) # <<>>
           /\ requests' = requests + 1
           /\ hit' = IF id(edits) \in DOMAIN cached
                     THEN CommonPrefix(cached[id(edits)], Fingerprints(turns(edits))) ELSE 0
           /\ cached' = [i \in DOMAIN cached \cup {id(edits)} |->
                            IF i = id(edits) THEN Fingerprints(turns(edits)) ELSE cached[i]]
           /\ before' = [turns |-> Len(turns(edits)), plain |-> edits = <<>>, id |-> id(edits)]
           /\ UNCHANGED <<messages, session, breaches>>
  <2>1. Edited(messages, edits) \in Talk
    BY EditListsTyped, EditedTyped DEF ConversationInv
  <2>2. ms(edits) \in Talk
    BY <2>1, UpToUserEnds
  <2>3. Len(ms(edits)) > 0
    BY <1>3, <2>2, TalkParts DEF Talk
  <2>4. turns(edits) \in Seq(Wholes)
    BY <2>2, <2>3, ConvertForm
  <2> HIDE DEF ms, turns, id
  <2>5. turns(edits) \in Seq(TurnRec) /\ Len(turns(edits)) \in Nat
    BY <2>4 DEF Wholes
  <2>6. Fingerprints(turns(edits)) \in Seq(TurnRec)
    BY <2>5, FingerprintsTyped
  <2>7. hit' \in Nat
    BY <1>3, <2>6, CommonPrefixNat DEF CachedTyped
  <2>8. CachedTyped'
    BY <1>3, <2>6 DEF CachedTyped
  <2>9. before'.turns \in Nat /\ before'.plain \in BOOLEAN
    BY <1>3, <2>5
  <2> QED BY <1>3, <2>7, <2>8, <2>9 DEF Tallies
<1> QED BY <1>1, <1>2, <1>3

\* No message, edit or request takes the conversation out of its types.
THEOREM ConversationTypeCorrect == ConversationSpec => []ConversationTypeOK
<1>1. ConversationInit => CachedTyped /\ Tallies
  BY DEF ConversationInit, CachedTyped, Tallies
<1>2. ASSUME ConversationInv, CachedTyped /\ Tallies, [ConversationNext]_conversationVars
      PROVE  (CachedTyped /\ Tallies)'
  <2>1. CASE Say
    <3>1. PICK m : breaches' = breaches + (IF Regular(m) THEN 0 ELSE 1) /\ Quiet
      BY <2>1 DEF Say
    <3> QED BY <1>2, <3>1 DEF Quiet, CachedTyped, Tallies
  <2>2. CASE Compact
    <3>1. breaches' = breaches + 1 /\ Quiet
      BY <2>2 DEF Compact
    <3> QED BY <1>2, <3>1 DEF Quiet, CachedTyped, Tallies
  <2>3. CASE Send
    BY <1>2, <2>3, SendTyped
  <2>4. CASE UNCHANGED conversationVars
    BY <1>2, <2>4 DEF conversationVars, CachedTyped, Tallies
  <2> QED BY <1>2, <2>1, <2>2, <2>3, <2>4 DEF ConversationNext
<1>3. ConversationInv /\ CachedTyped /\ Tallies => ConversationTypeOK
  <2> SUFFICES ASSUME ConversationInv, CachedTyped, Tallies PROVE ConversationTypeOK
    OBVIOUS
  <2>1. \A r \in request : r.edits \in EditLists /\ r.turns \in Seq(TurnRec)
    <3> SUFFICES ASSUME NEW r \in request
                 PROVE  r.edits \in EditLists /\ r.turns \in Seq(TurnRec)
      OBVIOUS
    <3>1. r.turns \in Seq(Wholes)
      BY RequestForm
    <3>2. Seq(Wholes) \subseteq Seq(TurnRec)
      BY DEF Wholes
    <3> QED BY <3>1, <3>2 DEF ConversationInv, Sent
  <2> QED BY <2>1 DEF ConversationInv, CachedTyped, Tallies, ConversationTypeOK, Talk
<1>4. ConversationSpec => [](CachedTyped /\ Tallies)
  BY <1>1, <1>2, ConversationInvariant, PTL DEF ConversationSpec
<1> QED BY <1>3, <1>4, ConversationInvariant, PTL

-----------------------------------------------------------------------------

LEMMA Bounds == MaxClock \in Nat /\ Ttls \subseteq Nat /\ Caps \subseteq Nat
BY CacheAssumption, Zenon

LEMMA Names == IsFiniteSet(Session) /\ "" \notin Model
BY CacheAssumption, Zenon

LEMMA PrintsTyped == Prints \subseteq Seq(Nat)
BY CacheAssumption, Zenon

CacheEntry == [model : Model, prints : Prints, seen : 0 .. MaxClock]

Progress == [at : {"idle", "timed", "halfway", "ready"}, now : 0 .. MaxClock,
             ttl : Nat, cap : Nat]

CacheTypes ==
    /\ last \in [Session -> CacheEntry \cup {Absent}]
    /\ store \in [Session -> CacheEntry \cup {Absent}]
    /\ latest \in [Session -> 0 .. MaxClock]
    /\ clock \in 0 .. MaxClock
    /\ ttl \in Nat \ {0} /\ cap \in Nat \ {0}
    /\ least \in [ttl : Nat, cap : Nat] /\ least.ttl <= ttl /\ least.cap <= cap
    /\ work \in [Observer -> Progress]

\* What a request read is neither of the future nor below the least limits.
ReadBefore(w) ==
    /\ w.now <= clock
    /\ w.at \in {"halfway", "ready"} => w.ttl >= least.ttl
    /\ w.at = "ready" => w.cap >= least.cap

ReadsAreSound == \A o \in Observer : ReadBefore(work[o])

\* The table holds a session's last entry or nothing.
HoldsTheLast ==
    \A s \in Session : /\ store[s] \in {Absent, last[s]}
                       /\ last[s] # Absent => last[s].seen <= latest[s]

\* The other sessions seen since s.
Around(s) == {x \in Session \ {s} : last[x] # Absent /\ latest[x] >= last[s].seen}

\* What left the table had expired, or enough sessions came after it, under the least limits.
Missing(s) ==
    \/ clock > last[s].seen + least.ttl
    \/ Cardinality(Around(s)) >= least.cap

OnlyOldOnesLeave == \A s \in Session : last[s] # Absent => store[s] = last[s] \/ Missing(s)

CacheIInv == CacheTypes /\ ReadsAreSound /\ HoldsTheLast /\ OnlyOldOnesLeave

LEMMA AroundFinite ==
    ASSUME NEW S \in SUBSET Session, NEW T \in SUBSET S
    PROVE  /\ Cardinality(S) \in Nat /\ Cardinality(T) \in Nat
           /\ Cardinality(T) <= Cardinality(S)
BY Names, FS_Subset, FS_CardinalityType

LEMMA EntryIsNotAbsent == ASSUME NEW e \in CacheEntry PROVE e # Absent
<1>1. e.model # ""
  BY Names DEF CacheEntry
<1>2. Absent.model = ""
  BY DEF Absent
<1> QED BY <1>1, <1>2

LEMMA InitCache == CacheInit => CacheIInv
<1> SUFFICES ASSUME CacheInit PROVE CacheIInv
  OBVIOUS
<1>1. CacheTypes
  <2>1. last \in [Session -> CacheEntry \cup {Absent}] /\ store \in [Session -> CacheEntry \cup {Absent}]
    BY DEF CacheInit
  <2>2. clock \in 0 .. MaxClock /\ latest \in [Session -> 0 .. MaxClock]
    <3>1. clock = 0 /\ latest = [s \in Session |-> 0]
      BY DEF CacheInit
    <3>2. 0 \in 0 .. MaxClock
      BY Bounds
    <3> QED BY <3>1, <3>2
  <2>3. /\ ttl \in Nat \ {0} /\ cap \in Nat \ {0}
        /\ least \in [ttl : Nat, cap : Nat] /\ least.ttl <= ttl /\ least.cap <= cap
    <3>1. ttl = 1 /\ cap = 2 /\ least = [ttl |-> ttl, cap |-> cap]
      BY DEF CacheInit
    <3> QED BY <3>1
  <2>4. work \in [Observer -> Progress]
    <3>1. Waiting \in Progress
      BY Bounds DEF Waiting, Progress
    <3> QED BY <3>1 DEF CacheInit
  <2> QED BY <2>1, <2>2, <2>3, <2>4 DEF CacheTypes
<1>2. \A s \in Session : last[s] = Absent /\ store[s] = Absent
  BY DEF CacheInit
<1>3. ReadsAreSound
  <2> SUFFICES ASSUME NEW o \in Observer PROVE ReadBefore(work[o])
    BY DEF ReadsAreSound
  <2>1. clock = 0 /\ work[o] = Waiting
    BY DEF CacheInit
  <2>2. Waiting.now = 0 /\ Waiting.at = "idle"
    BY DEF Waiting
  <2> QED BY <2>1, <2>2 DEF ReadBefore
<1> QED BY <1>1, <1>2, <1>3 DEF CacheIInv, HoldsTheLast, OnlyOldOnesLeave

LEMMA TimePassesKeeps == ASSUME CacheIInv, TimePasses PROVE CacheIInv'
<1>1. CacheTypes /\ ReadsAreSound /\ HoldsTheLast /\ OnlyOldOnesLeave
  BY DEF CacheIInv
<1>2. /\ clock < MaxClock /\ clock' = clock + 1 /\ store' = store /\ ttl' = ttl /\ cap' = cap
      /\ latest' = latest /\ last' = last /\ least' = least /\ work' = work
  BY DEF TimePasses
<1>3. CacheTypes'
  BY <1>1, <1>2, Bounds DEF CacheTypes
<1>4. HoldsTheLast'
  BY <1>1, <1>2 DEF HoldsTheLast
<1>5. ASSUME NEW s \in Session, last'[s] # Absent, store'[s] # last'[s] PROVE Missing(s)'
  <2>1. last[s] \in CacheEntry /\ Missing(s)
    BY <1>1, <1>2, <1>5 DEF OnlyOldOnesLeave, CacheTypes
  <2>2. last[s].seen \in Nat /\ least.ttl \in Nat /\ clock \in Nat
    BY <1>1, <2>1, Bounds DEF CacheTypes, CacheEntry
  <2>3. CASE clock > last[s].seen + least.ttl
    BY <1>2, <2>2, <2>3 DEF Missing
  <2>4. CASE Cardinality(Around(s)) >= least.cap
    BY <1>2, <2>4 DEF Missing, Around
  <2> QED BY <2>1, <2>3, <2>4 DEF Missing
<1>6. ReadsAreSound'
  <2> SUFFICES ASSUME NEW o \in Observer PROVE ReadBefore(work[o])'
    BY DEF ReadsAreSound
  <2>1. ReadBefore(work[o]) /\ work[o] \in Progress /\ clock \in Nat
    BY <1>1, Bounds DEF ReadsAreSound, CacheTypes
  <2> QED BY <1>2, <2>1, Bounds DEF ReadBefore, Progress
<1> QED BY <1>3, <1>4, <1>5, <1>6 DEF CacheIInv, OnlyOldOnesLeave

LEMMA SetLimitsKeep ==
    ASSUME CacheIInv, (\E t \in Ttls : SetTtl(t)) \/ (\E c \in Caps : SetCap(c)) PROVE CacheIInv'
<1>1. CacheTypes /\ ReadsAreSound /\ HoldsTheLast /\ OnlyOldOnesLeave
  BY DEF CacheIInv
<1>2. UNCHANGED <<store, clock, work, latest, last>>
  BY DEF SetTtl, SetCap
<1>3. /\ ttl' \in Nat \ {0} /\ cap' \in Nat \ {0}
      /\ least' \in [ttl : Nat, cap : Nat] /\ least'.ttl <= ttl' /\ least'.cap <= cap'
      /\ least'.ttl <= least.ttl /\ least'.cap <= least.cap
  <2>1. /\ least \in [ttl : Nat, cap : Nat] /\ least.ttl <= ttl /\ least.cap <= cap
        /\ ttl \in Nat \ {0} /\ cap \in Nat \ {0}
    BY <1>1 DEF CacheTypes
  <2>2. CASE \E t \in Ttls : SetTtl(t)
    <3>1. PICK t \in Ttls : SetTtl(t)
      BY <2>2
    <3>2. ttl' \in Nat \ {0}
      BY <3>1, Bounds DEF SetTtl, AtLeastOne
    <3>3. cap' = cap /\ least' = [least EXCEPT !.ttl = IF ttl' < @ THEN ttl' ELSE @]
      BY <3>1 DEF SetTtl
    <3> QED BY <2>1, <3>2, <3>3
  <2>3. CASE \E c \in Caps : SetCap(c)
    <3>1. PICK c \in Caps : SetCap(c)
      BY <2>3
    <3>2. cap' \in Nat \ {0}
      BY <3>1, Bounds DEF SetCap, AtLeastOne
    <3>3. ttl' = ttl /\ least' = [least EXCEPT !.cap = IF cap' < @ THEN cap' ELSE @]
      BY <3>1 DEF SetCap
    <3> QED BY <2>1, <3>2, <3>3
  <2> QED BY <2>2, <2>3
<1>4. least.ttl \in Nat /\ least.cap \in Nat
  BY <1>1 DEF CacheTypes
<1>5. CacheTypes'
  BY <1>1, <1>2, <1>3 DEF CacheTypes
<1>6. HoldsTheLast'
  BY <1>1, <1>2 DEF HoldsTheLast
<1>7. ASSUME NEW s \in Session, last'[s] # Absent, store'[s] # last'[s] PROVE Missing(s)'
  <2>1. last[s] \in CacheEntry /\ Missing(s)
    BY <1>1, <1>2, <1>7 DEF OnlyOldOnesLeave, CacheTypes
  <2>2. last[s].seen \in Nat /\ clock \in Nat
    BY <1>1, <2>1, Bounds DEF CacheTypes, CacheEntry
  <2>3. CASE clock > last[s].seen + least.ttl
    BY <1>2, <1>3, <1>4, <2>2, <2>3 DEF Missing
  <2>4. CASE Cardinality(Around(s)) >= least.cap
    <3>1. Cardinality(Around(s)) \in Nat /\ Around(s)' = Around(s)
      BY <1>2, AroundFinite DEF Around
    <3> QED BY <1>3, <1>4, <2>4, <3>1 DEF Missing
  <2> QED BY <2>1, <2>3, <2>4 DEF Missing
<1>8. ReadsAreSound'
  <2> SUFFICES ASSUME NEW o \in Observer PROVE ReadBefore(work[o])'
    BY DEF ReadsAreSound
  <2>1. ReadBefore(work[o]) /\ work[o] \in Progress
    BY <1>1 DEF ReadsAreSound, CacheTypes
  <2> QED BY <1>2, <1>3, <1>4, <2>1 DEF ReadBefore, Progress
<1> QED BY <1>5, <1>6, <1>7, <1>8 DEF CacheIInv, OnlyOldOnesLeave

-----------------------------------------------------------------------------
(* What a request reads before it takes the lock. *)

LEMMA ReadingKeeps ==
    ASSUME CacheIInv, NEW o \in Observer, ReadTime(o) \/ LoadTtl(o) \/ LoadCap(o) PROVE CacheIInv'
<1>1. CacheTypes /\ ReadsAreSound /\ HoldsTheLast /\ OnlyOldOnesLeave
  BY DEF CacheIInv
<1>2. UNCHANGED <<store, clock, ttl, cap, latest, last, least>>
  BY DEF ReadTime, LoadTtl, LoadCap
<1>3. /\ clock \in 0 .. MaxClock /\ clock \in Nat /\ ttl \in Nat /\ cap \in Nat
      /\ least.ttl \in Nat /\ least.cap \in Nat /\ least.ttl <= ttl /\ least.cap <= cap
      /\ work[o] \in Progress /\ ReadBefore(work[o])
  BY <1>1, Bounds DEF CacheTypes, ReadsAreSound
<1>4. PICK w \in Progress : work' = [work EXCEPT ![o] = w] /\ ReadBefore(w)
  <2>1. CASE ReadTime(o)
    <3> DEFINE w == [Waiting EXCEPT !.at = "timed", !.now = clock]
    <3>1. Waiting \in Progress
      BY Bounds DEF Waiting, Progress
    <3>2. w \in Progress /\ w.now = clock /\ w.at = "timed"
      BY <1>3, <3>1 DEF Progress
    <3>3. work' = [work EXCEPT ![o] = w]
      BY <2>1 DEF ReadTime
    <3> HIDE DEF w
    <3>4. ReadBefore(w)
      BY <1>3, <3>2 DEF ReadBefore
    <3> QED BY <3>2, <3>3, <3>4
  <2>2. CASE LoadTtl(o)
    <3> DEFINE w == [work[o] EXCEPT !.at = "halfway", !.ttl = ttl]
    <3>1. w \in Progress /\ ReadBefore(w)
      BY <1>3 DEF Progress, ReadBefore
    <3>2. work' = [work EXCEPT ![o] = w]
      BY <2>2 DEF LoadTtl
    <3> QED BY <3>1, <3>2
  <2>3. CASE LoadCap(o)
    <3> DEFINE w == [work[o] EXCEPT !.at = "ready", !.cap = cap]
    <3>1. w \in Progress /\ ReadBefore(w)
      BY <1>3, <2>3 DEF Progress, ReadBefore, LoadCap
    <3>2. work' = [work EXCEPT ![o] = w]
      BY <2>3 DEF LoadCap
    <3> QED BY <3>1, <3>2
  <2> QED BY <2>1, <2>2, <2>3
<1>5. CacheTypes'
  BY <1>1, <1>2, <1>4 DEF CacheTypes
<1>6. ReadsAreSound'
  <2> SUFFICES ASSUME NEW p \in Observer PROVE ReadBefore(work[p])'
    BY DEF ReadsAreSound
  <2>1. work'[p] = IF p = o THEN w ELSE work[p]
    BY <1>1, <1>4 DEF CacheTypes
  <2>2. ReadBefore(work'[p])
    BY <1>1, <1>4, <2>1 DEF ReadsAreSound
  <2> QED BY <1>2, <2>2 DEF ReadBefore
<1>7. HoldsTheLast' /\ OnlyOldOnesLeave'
  BY <1>1, <1>2 DEF HoldsTheLast, OnlyOldOnesLeave, Missing, Around
<1> QED BY <1>5, <1>6, <1>7 DEF CacheIInv

-----------------------------------------------------------------------------
(* An observation. *)

LEMMA Surviving ==
    ASSUME NEW table, NEW w \in Progress, NEW kept \in Survivors(table, w),
           \A s \in Held(table) : table[s].seen \in Nat
    PROVE  /\ kept \subseteq Held(table) /\ Cardinality(kept) <= w.cap
           /\ \A s \in Held(table) \ kept :
                 \/ w.now > table[s].seen + w.ttl
                 \/ Cardinality(kept) = w.cap /\ \A x \in kept : table[x].seen >= table[s].seen
<1>1. Fresh(table, w) \subseteq Held(table)
  BY DEF Fresh
<1>2. CASE Cardinality(Held(table)) <= w.cap
  BY <1>2 DEF Survivors
<1>3. \A s \in Held(table) \ Fresh(table, w) : w.now > table[s].seen + w.ttl
  <2>1. w.now \in Nat /\ w.ttl \in Nat
    BY Bounds DEF Progress
  <2> QED BY <2>1 DEF Fresh
<1>4. CASE ~(Cardinality(Held(table)) <= w.cap) /\ Cardinality(Fresh(table, w)) <= w.cap
  <2>1. kept = Fresh(table, w)
    BY <1>4 DEF Survivors
  <2> QED BY <1>1, <1>3, <1>4, <2>1
<1>5. CASE ~(Cardinality(Held(table)) <= w.cap) /\ ~(Cardinality(Fresh(table, w)) <= w.cap)
  <2>1. /\ kept \subseteq Fresh(table, w) /\ Cardinality(kept) = w.cap
        /\ \A x \in kept, y \in Fresh(table, w) \ kept : table[y].seen <= table[x].seen
    BY <1>5 DEF Survivors
  <2>2. ASSUME NEW s \in Fresh(table, w) \ kept, NEW x \in kept
        PROVE  table[x].seen >= table[s].seen
    <3>1. table[x].seen \in Nat /\ table[s].seen \in Nat
      BY <1>1, <2>1
    <3> QED BY <2>1, <3>1
  <2>3. Cardinality(kept) <= w.cap
    BY <2>1 DEF Progress
  <2> QED BY <1>1, <1>3, <2>1, <2>2, <2>3
<1> QED BY <1>2, <1>4, <1>5

LEMMA ObserveKeeps ==
    ASSUME CacheIInv, NEW o \in Observer, NEW s \in Session, NEW model \in Model,
           NEW prints \in Prints, Observe(o, s, model, prints)
    PROVE  CacheIInv' /\ Cardinality(Held(store')) <= work[o].cap
<1> DEFINE w == work[o]
           entry == [model |-> model, prints |-> prints, seen |-> w.now]
           table == [store EXCEPT ![s] = entry]
<1>1. CacheTypes /\ ReadsAreSound /\ HoldsTheLast /\ OnlyOldOnesLeave
  BY DEF CacheIInv
<1>2. /\ last' = [last EXCEPT ![s] = entry]
      /\ latest' = [latest EXCEPT ![s] = IF w.now > @ THEN w.now ELSE @]
      /\ work' = [work EXCEPT ![o] = Waiting]
      /\ UNCHANGED <<clock, ttl, cap, least>>
  BY DEF Observe
<1>3. PICK kept \in Survivors(table, w) :
        store' = [x \in Session |-> IF x \in kept THEN table[x] ELSE Absent]
  BY DEF Observe
<1>4. /\ w \in Progress /\ w.now \in Nat /\ w.now \in 0 .. MaxClock /\ clock \in Nat
      /\ w.now <= clock /\ w.ttl \in Nat /\ w.cap \in Nat
      /\ w.ttl >= least.ttl /\ w.cap >= least.cap
  <2>1. w \in Progress /\ ReadBefore(w) /\ w.at = "ready"
    BY <1>1 DEF CacheTypes, ReadsAreSound, Observe
  <2> QED BY <1>1, <2>1, Bounds DEF CacheTypes, Progress, ReadBefore
<1> HIDE DEF w
<1>5. entry \in CacheEntry /\ entry # Absent /\ entry.seen = w.now
  BY <1>4, EntryIsNotAbsent DEF CacheEntry
<1> HIDE DEF entry
<1>6. /\ table \in [Session -> CacheEntry \cup {Absent}] /\ table[s] = entry
      /\ \A x \in Session \ {s} : table[x] = store[x]
  BY <1>1, <1>5 DEF CacheTypes
<1>7. /\ last' \in [Session -> CacheEntry \cup {Absent}] /\ last'[s] = entry
      /\ \A x \in Session \ {s} : last'[x] = last[x] /\ latest'[x] = latest[x]
  BY <1>1, <1>2, <1>5 DEF CacheTypes
<1>8. latest' \in [Session -> 0 .. MaxClock] /\ latest'[s] >= w.now /\ latest'[s] >= latest[s]
  <2>1. latest[s] \in Nat
    BY <1>1, Bounds DEF CacheTypes
  <2> QED BY <1>1, <1>2, <1>4, <2>1, Bounds DEF CacheTypes
<1>9. \A x \in Session : table[x] # Absent => table[x] = last'[x]
  BY <1>1, <1>6, <1>7 DEF HoldsTheLast
<1>10. \A x \in Session : last'[x] # Absent => last'[x].seen <= latest'[x] /\ last'[x] \in CacheEntry
  <2>1. CASE w.now <= latest'[s]
    BY <1>1, <1>5, <1>7, <2>1 DEF HoldsTheLast
  <2> QED BY <1>4, <1>8, <2>1, Bounds
<1> HIDE DEF table
<1>11. /\ kept \subseteq Held(table) /\ Cardinality(kept) <= w.cap
       /\ \A x \in Held(table) \ kept :
             \/ w.now > table[x].seen + w.ttl
             \/ Cardinality(kept) = w.cap /\ \A y \in kept : table[y].seen >= table[x].seen
  <2>1. \A x \in Held(table) : table[x].seen \in Nat
    BY <1>6, Bounds DEF Held, CacheEntry
  <2> QED BY <1>3, <1>4, <2>1, Surviving
<1>12. Held(store') = kept
  BY <1>3, <1>11 DEF Held
<1>13. store' \in [Session -> CacheEntry \cup {Absent}] /\ \A x \in Session : store'[x] \in {Absent, last'[x]}
  BY <1>3, <1>6, <1>9
<1>14. CacheTypes' /\ ReadsAreSound'
  <2>1. Waiting \in Progress /\ ReadBefore(Waiting)
    BY <1>4, Bounds DEF Waiting, Progress, ReadBefore
  <2>2. work' \in [Observer -> Progress] /\ \A p \in Observer : ReadBefore(work'[p])
    BY <1>1, <1>2, <2>1 DEF CacheTypes, ReadsAreSound
  <2>3. ReadsAreSound'
    BY <1>2, <2>2 DEF ReadsAreSound, ReadBefore
  <2> QED BY <1>1, <1>2, <1>7, <1>8, <1>13, <2>2, <2>3 DEF CacheTypes
<1>15. HoldsTheLast'
  BY <1>10, <1>13 DEF HoldsTheLast
<1>16. ASSUME NEW x \in Session, last'[x] # Absent, store'[x] # last'[x] PROVE Missing(x)'
  <2>1. last'[x].seen \in Nat /\ least'.ttl \in Nat /\ least'.cap \in Nat
        /\ least'.ttl <= w.ttl /\ least'.cap <= w.cap /\ w.ttl \in Nat /\ w.cap \in Nat
    BY <1>1, <1>2, <1>4, <1>10, <1>16, Bounds DEF CacheTypes, CacheEntry
  <2>2. Around(x)' \in SUBSET Session
    BY DEF Around
  <2>3. CASE table[x] = Absent
    <3>1. x # s /\ last[x] # Absent /\ store[x] # last[x] /\ last'[x] = last[x]
      BY <1>5, <1>6, <1>7, <1>16, <2>3
    <3>2. Missing(x)
      BY <1>1, <3>1 DEF OnlyOldOnesLeave
    <3>3. CASE clock > last[x].seen + least.ttl
      BY <1>2, <3>1, <3>3 DEF Missing
    <3>4. CASE Cardinality(Around(x)) >= least.cap
      <4>1. \A y \in Around(x) : y \in Around(x)'
        <5> SUFFICES ASSUME NEW y \in Around(x) PROVE y \in Around(x)'
          OBVIOUS
        <5>1. y \in Session \ {x} /\ last[y] # Absent /\ latest[y] >= last[x].seen
          BY DEF Around
        <5>2. last'[y] # Absent
          BY <1>5, <1>7, <5>1
        <5>3. latest'[y] >= latest[y] /\ latest'[y] \in Nat /\ latest[y] \in Nat
          BY <1>1, <1>7, <1>8, <5>1, Bounds DEF CacheTypes
        <5>4. latest'[y] >= last'[x].seen
          BY <2>1, <3>1, <5>1, <5>3
        <5> QED BY <5>1, <5>2, <5>4 DEF Around
      <4>2. Around(x) \in SUBSET Around(x)'
        BY <4>1
      <4>3. /\ Cardinality(Around(x)') \in Nat /\ Cardinality(Around(x)) \in Nat
            /\ Cardinality(Around(x)) <= Cardinality(Around(x)')
        BY <2>2, <4>2, AroundFinite
      <4> QED BY <1>2, <2>1, <3>4, <4>3 DEF Missing
    <3> QED BY <3>2, <3>3, <3>4 DEF Missing
  <2>4. CASE table[x] # Absent
    <3>1. x \in Held(table) \ kept /\ table[x] = last'[x]
      BY <1>3, <1>9, <1>16, <2>4 DEF Held
    <3>2. CASE w.now > table[x].seen + w.ttl
      BY <1>2, <1>4, <2>1, <3>1, <3>2 DEF Missing
    <3>3. CASE Cardinality(kept) = w.cap /\ \A y \in kept : table[y].seen >= table[x].seen
      <4>1. ASSUME NEW y \in kept PROVE y \in Around(x)'
        <5>1. y \in Session /\ y # x /\ table[y] # Absent /\ table[y] = last'[y]
          BY <1>9, <1>11, <3>1 DEF Held
        <5>2. last'[y].seen <= latest'[y] /\ last'[y].seen >= last'[x].seen
          BY <1>10, <3>1, <3>3, <5>1
        <5>3. last'[y].seen \in Nat /\ latest'[y] \in Nat
          BY <1>8, <1>10, <5>1, Bounds DEF CacheEntry
        <5>4. latest'[y] >= last'[x].seen
          BY <2>1, <5>2, <5>3
        <5> QED BY <5>1, <5>4 DEF Around
      <4>2. Cardinality(kept) <= Cardinality(Around(x)') /\ Cardinality(Around(x)') \in Nat
        BY <2>2, <4>1, AroundFinite
      <4> QED BY <1>2, <2>1, <3>3, <4>2 DEF Missing
    <3> QED BY <1>11, <3>1, <3>2, <3>3
  <2> QED BY <2>3, <2>4
<1> QED BY <1>11, <1>12, <1>14, <1>15, <1>16 DEF CacheIInv, OnlyOldOnesLeave, w

-----------------------------------------------------------------------------

LEMMA CacheStep == ASSUME CacheIInv, [CacheNext]_cacheVars PROVE CacheIInv'
<1>1. CASE \E o \in Observer : ReadTime(o) \/ LoadTtl(o) \/ LoadCap(o)
  BY <1>1, ReadingKeeps
<1>2. CASE \E o \in Observer, s \in Session, model \in Model, prints \in Prints :
             Observe(o, s, model, prints)
  BY <1>2, ObserveKeeps
<1>3. CASE TimePasses
  BY <1>3, TimePassesKeeps
<1>4. CASE (\E t \in Ttls : SetTtl(t)) \/ (\E c \in Caps : SetCap(c))
  BY <1>4, SetLimitsKeep
<1>5. CASE UNCHANGED cacheVars
  BY <1>5 DEF cacheVars, CacheIInv, CacheTypes, ReadsAreSound, ReadBefore, HoldsTheLast,
              OnlyOldOnesLeave, Missing, Around
<1> QED BY <1>1, <1>2, <1>3, <1>4, <1>5 DEF CacheNext

\* What an observation is told, by what the session last sent.
LEMMA ToldWhatIsShared ==
    ASSUME CacheIInv, NEW o \in Observer, NEW s \in Session, NEW model \in Model,
           NEW prints \in Prints, Observe(o, s, model, prints)
    PROVE  LET known  == last[s] # Absent /\ last[s].model = reported'.model
               shared == IF known THEN CommonPrefix(last[s].prints, reported'.prints) ELSE 0
               recent == /\ clock <= last[s].seen + least.ttl
                         /\ Cardinality({x \in Session \ {s} :
                                last[x] # Absent /\ latest[x] >= last[s].seen}) < least.cap
           IN  /\ reported'.session = s
               /\ reported'.hit <= shared
               /\ recent => reported'.hit = shared
<1> DEFINE known  == last[s] # Absent /\ last[s].model = model
           shared == IF known THEN CommonPrefix(last[s].prints, prints) ELSE 0
           w      == work[o]
           valid  == /\ store[s] # Absent /\ store[s].model = model
                     /\ w.now <= store[s].seen + w.ttl
<1>1. CacheTypes /\ ReadsAreSound /\ HoldsTheLast /\ OnlyOldOnesLeave
  BY DEF CacheIInv
<1>2. reported' = [session |-> s, model |-> model, prints |-> prints,
                   hit |-> IF valid THEN CommonPrefix(store[s].prints, prints) ELSE 0]
  BY DEF Observe
<1>3. valid => known /\ store[s] = last[s]
  BY <1>1 DEF HoldsTheLast
<1>4. known => /\ CommonPrefix(last[s].prints, prints) \in Nat
               /\ last[s].seen \in Nat
  <2> SUFFICES ASSUME known PROVE CommonPrefix(last[s].prints, prints) \in Nat /\ last[s].seen \in Nat
    OBVIOUS
  <2>1. last[s] \in CacheEntry
    BY <1>1 DEF CacheTypes
  <2>2. last[s].prints \in Seq(Nat) /\ prints \in Seq(Nat)
    BY <2>1, PrintsTyped DEF CacheEntry
  <2> QED BY <2>1, <2>2, CommonPrefixNat, Bounds DEF CacheEntry
<1>5. /\ clock \in Nat /\ w.now \in Nat /\ w.now <= clock /\ w.ttl \in Nat /\ least.ttl \in Nat
      /\ least.cap \in Nat /\ least.ttl <= w.ttl
  <2>1. w \in Progress /\ ReadBefore(w) /\ w.at = "ready"
    BY <1>1 DEF CacheTypes, ReadsAreSound, Observe
  <2> QED BY <1>1, <2>1, Bounds DEF CacheTypes, Progress, ReadBefore
<1> HIDE DEF w
<1>6. known /\ clock <= last[s].seen + least.ttl /\ Cardinality(Around(s)) < least.cap => valid
  <2> SUFFICES ASSUME known, clock <= last[s].seen + least.ttl, Cardinality(Around(s)) < least.cap
               PROVE  valid
    OBVIOUS
  <2>1. Cardinality(Around(s)) \in Nat
    BY AroundFinite DEF Around
  <2>2. ~Missing(s)
    BY <1>4, <1>5, <2>1 DEF Missing
  <2>3. store[s] = last[s]
    BY <1>1, <2>2 DEF OnlyOldOnesLeave
  <2> QED BY <1>4, <1>5, <2>3
<1> HIDE DEF valid
<1>7. reported'.hit <= shared
  BY <1>2, <1>3, <1>4
<1>8. ASSUME clock <= last[s].seen + least.ttl, Cardinality(Around(s)) < least.cap
      PROVE  reported'.hit = shared
  BY <1>2, <1>3, <1>6, <1>8
<1> QED BY <1>2, <1>7, <1>8 DEF Around

\* The cache keeps a session's last request or what let it go, in every run.
THEOREM CacheInvariant == CacheSpec => []CacheIInv
BY InitCache, CacheStep, PTL DEF CacheSpec

\* The types of the cache's variables (kiro/cache_sim.rs).
THEOREM CacheTypeCorrect == CacheSpec => []CacheTypeOK
<1>1. CacheIInv => CacheTypeOK
  <2> SUFFICES ASSUME CacheIInv PROVE CacheTypeOK
    OBVIOUS
  <2>1. CacheTypes
    BY DEF CacheIInv
  <2>2. \A s \in Held(store) : store[s].model \in Model /\ store[s].prints \in Prints
    BY <2>1 DEF CacheTypes, Held, CacheEntry
  <2> QED BY <2>1, <2>2 DEF CacheTypes, CacheTypeOK, Progress
<1> QED BY <1>1, CacheInvariant, PTL

\* A request finds exactly what it shares with its session's last one while that is recent
\* under the least limits so far, and never more; it leaves at most as many sessions as the
\* capacity was when it loaded it, before the lock.  For every time to live and capacity an
\* operator may set, in any order, and any number of requests between the reading of the
\* time and of the limits and the lock (cache_sim.rs:11-19, 36-42, 179-182).
THEOREM RecentSessionsAreHit == CacheSpec => RecentSessionsHit
<1>1. ASSUME CacheIInv, [CacheNext]_cacheVars, NEW o \in Observer,
             work[o].at = "ready", work'[o].at = "idle"
      PROVE  FindsItsShare(o)
  <2>1. work \in [Observer -> Progress]
    BY <1>1 DEF CacheIInv, CacheTypes
  <2>2. \A p \in Observer : ~(ReadTime(p) \/ LoadTtl(p) \/ LoadCap(p))
    <3> SUFFICES ASSUME NEW p \in Observer, ReadTime(p) \/ LoadTtl(p) \/ LoadCap(p) PROVE FALSE
      OBVIOUS
    <3>1. work'[o] = work[o] \/ p = o
      BY <2>1 DEF ReadTime, LoadTtl, LoadCap
    <3>2. p = o => work'[o].at # "idle"
      BY <2>1 DEF ReadTime, LoadTtl, LoadCap, Waiting, Progress
    <3> QED BY <1>1, <3>1, <3>2
  <2>3. ~TimePasses /\ ~(\E t \in Ttls : SetTtl(t)) /\ ~(\E c \in Caps : SetCap(c))
    BY <1>1 DEF TimePasses, SetTtl, SetCap
  <2>4. PICK p \in Observer, s \in Session, model \in Model, prints \in Prints :
           Observe(p, s, model, prints)
    BY <1>1, <2>2, <2>3 DEF CacheNext, cacheVars
  <2>5. p = o
    BY <1>1, <2>1, <2>4 DEF Observe
  <2> QED BY <1>1, <2>4, <2>5, ObserveKeeps, ToldWhatIsShared DEF FindsItsShare
<1>2. CacheIInv /\ [CacheNext]_cacheVars =>
        \A o \in Observer : work[o].at = "ready" /\ work'[o].at = "idle" => FindsItsShare(o)
  BY <1>1
<1> QED BY <1>2, CacheInvariant, PTL DEF CacheSpec, RecentSessionsHit
=============================================================================
