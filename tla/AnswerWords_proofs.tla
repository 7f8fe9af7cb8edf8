------------------------- MODULE AnswerWords_proofs -------------------------
(***************************************************************************)
(* Proofs about the words of an answer in AnswerStream, on top of those    *)
(* about its form. First their number: each operator of the translation    *)
(* says a letter or keeps it in thinking_buffer (Pours), so what the       *)
(* client has, what it is owed and what is held back add up to what was    *)
(* said upstream (Settled), and whenever the client will be shown the      *)
(* block of a tool call, it will have what was said before the call (Due). *)
(* Then their order and their role: thinking_buffer is the rest of the     *)
(* text from where the scan stands (Along), and the letters before that    *)
(* place are with the client or owed to it, as thinking what is between    *)
(* the tags and as text what is outside (OrderInv).                        *)
(***************************************************************************)
EXTENDS AnswerStream_proofs

-----------------------------------------------------------------------------
(* Letters: how often a character is in a text, and in the texts of a list. *)

LEMMA CountNone == ASSUME NEW c PROVE Count(c, <<>>) = 0
<1>1. {i \in DOMAIN <<>> : <<>>[i] = c} = {}
  OBVIOUS
<1> QED BY <1>1, FS_EmptySet DEF Count

LEMMA CountIs ==
    ASSUME NEW S, NEW s \in Seq(S), NEW c
    PROVE  /\ Count(c, s) \in Nat /\ IsFiniteSet({i \in DOMAIN s : s[i] = c})
           /\ (\A i \in DOMAIN s : s[i] # c) => Count(c, s) = 0
<1> DEFINE K == {i \in DOMAIN s : s[i] = c}
<1>1. DOMAIN s = 1 .. Len(s) /\ Len(s) \in Nat
  OBVIOUS
<1>2. IsFiniteSet(1 .. Len(s))
  <2>1. 1 \in Int /\ Len(s) \in Int
    BY <1>1
  <2> QED BY <2>1, FS_Interval
<1>3. IsFiniteSet(K)
  <2>1. K \subseteq 1 .. Len(s)
    BY <1>1
  <2> QED BY <1>2, <2>1, FS_Subset
<1>4. Count(c, s) = Cardinality(K)
  BY DEF Count
<1>5. Count(c, s) \in Nat
  BY <1>3, <1>4, FS_CardinalityType
<1>6. ASSUME \A i \in DOMAIN s : s[i] # c PROVE Count(c, s) = 0
  <2>1. K = {}
    BY <1>6
  <2> QED BY <1>4, <2>1, FS_EmptySet
<1> QED BY <1>3, <1>5, <1>6

LEMMA CountAppend ==
    ASSUME NEW S, NEW s \in Seq(S), NEW e \in S, NEW c
    PROVE  Count(c, Append(s, e)) = Count(c, s) + (IF e = c THEN 1 ELSE 0)
<1> DEFINE n == Len(s)
           more == Append(s, e)
           K == {i \in DOMAIN s : s[i] = c}
           L == {i \in DOMAIN more : more[i] = c}
<1>1. /\ n \in Nat /\ DOMAIN s = 1 .. n /\ DOMAIN more = 1 .. n + 1 /\ more[n + 1] = e
      /\ \A k \in 1 .. n : more[k] = s[k]
  OBVIOUS
<1>2. IsFiniteSet(K) /\ Count(c, s) = Cardinality(K) /\ Count(c, more) = Cardinality(L)
  BY CountIs DEF Count
<1>3. Cardinality(K) \in Nat
  BY <1>2, FS_CardinalityType
<1> HIDE DEF more, n
<1>4. n + 1 \notin 1 .. n /\ 1 .. n + 1 = (1 .. n) \cup {n + 1}
  BY <1>1
<1>5. CASE e = c
  <2>1. L = K \cup {n + 1} /\ n + 1 \notin K
    BY <1>1, <1>4, <1>5
  <2> HIDE DEF K, L
  <2>2. Cardinality(L) = Cardinality(K) + 1
    BY <1>2, <2>1, FS_AddElement
  <2> QED BY <1>2, <1>5, <2>2 DEF more
<1>6. CASE e # c
  <2>1. L = K
    BY <1>1, <1>4, <1>6
  <2> HIDE DEF K, L
  <2> QED BY <1>2, <1>3, <1>6, <2>1 DEF more
<1> QED BY <1>5, <1>6

LEMMA OneLonger ==
    ASSUME NEW S, NEW s \in Seq(S), NEW t \in Seq(S), NEW k \in Nat, k + 1 <= Len(t)
    PROVE  /\ t[k + 1] \in S /\ s \o SubSeq(t, 1, k) \in Seq(S)
           /\ SubSeq(t, 1, k) \in Seq(S)
           /\ SubSeq(t, 1, k + 1) = Append(SubSeq(t, 1, k), t[k + 1])
           /\ s \o SubSeq(t, 1, k + 1) = Append(s \o SubSeq(t, 1, k), t[k + 1])
<1> DEFINE a == SubSeq(t, 1, k)
           b == SubSeq(t, 1, k + 1)
           e == t[k + 1]
<1>1. a \in Seq(S) /\ Len(a) = k /\ \A i \in 1 .. k : a[i] = t[i]
  OBVIOUS
<1>2. b \in Seq(S) /\ Len(b) = k + 1 /\ \A i \in 1 .. k + 1 : b[i] = t[i]
  OBVIOUS
<1>3. e \in S
  OBVIOUS
<1> HIDE DEF a, b, e
<1>4. /\ Append(a, e) \in Seq(S) /\ Len(Append(a, e)) = k + 1 /\ Append(a, e)[k + 1] = e
      /\ \A i \in 1 .. k : Append(a, e)[i] = a[i]
  BY <1>1, <1>3
<1>5. b = Append(a, e)
  <2>1. \A i \in 1 .. k + 1 : i = k + 1 \/ i \in 1 .. k
    OBVIOUS
  <2>2. b[k + 1] = e
    <3>1. k + 1 \in 1 .. k + 1
      OBVIOUS
    <3> QED BY <1>2, <3>1 DEF e
  <2>3. \A i \in 1 .. k + 1 : b[i] = Append(a, e)[i]
    BY <1>1, <1>2, <1>4, <2>1, <2>2
  <2> QED BY <1>2, <1>4, <2>3, SameSeq
<1>6. s \o Append(a, e) = Append(s \o a, e)
  BY <1>1, <1>3
<1>7. s \o a \in Seq(S)
  BY <1>1
<1> QED BY <1>1, <1>3, <1>5, <1>6, <1>7 DEF a, b, e

LEMMA CountJoin ==
    ASSUME NEW S, NEW s \in Seq(S), NEW t \in Seq(S), NEW c
    PROVE  Count(c, s \o t) = Count(c, s) + Count(c, t)
<1> DEFINE n == Len(t)
           R(k) == Count(c, s \o SubSeq(t, 1, k)) = Count(c, s) + Count(c, SubSeq(t, 1, k))
           T == {k \in Nat : k <= n => R(k)}
<1>1. 0 \in T
  <2>1. SubSeq(t, 1, 0) = <<>> /\ s \o <<>> = s
    OBVIOUS
  <2>2. Count(c, s) \in Nat
    BY CountIs
  <2>3. R(0)
    <3>1. Count(c, s) = Count(c, s) + Count(c, <<>>)
      BY <2>2, CountNone
    <3> QED BY <2>1, <3>1
  <2> QED BY <2>3
<1>2. ASSUME NEW k \in T PROVE k + 1 \in T
  <2> SUFFICES ASSUME k + 1 <= n PROVE R(k + 1)
    OBVIOUS
  <2> DEFINE a == SubSeq(t, 1, k)
             e == t[k + 1]
             d == IF e = c THEN 1 ELSE 0
  <2>1. k \in Nat /\ k <= n /\ R(k) /\ n \in Nat
    OBVIOUS
  <2>2. /\ e \in S /\ s \o a \in Seq(S) /\ a \in Seq(S) /\ SubSeq(t, 1, k + 1) = Append(a, e)
        /\ s \o SubSeq(t, 1, k + 1) = Append(s \o a, e)
    BY <2>1, OneLonger
  <2> HIDE DEF a, e
  <2>3. Count(c, Append(s \o a, e)) = Count(c, s \o a) + d
    BY <2>2, CountAppend
  <2>4. Count(c, Append(a, e)) = Count(c, a) + d
    BY <2>2, CountAppend
  <2>5. Count(c, s) \in Nat /\ Count(c, a) \in Nat
    BY <2>2, CountIs
  <2>6. Count(c, s \o a) = Count(c, s) + Count(c, a)
    BY <2>1 DEF a
  <2>7. d \in Nat
    OBVIOUS
  <2> HIDE DEF d
  <2>8. Count(c, s \o a) + d = Count(c, s) + (Count(c, a) + d)
    BY <2>5, <2>6, <2>7
  <2> QED BY <2>2, <2>3, <2>4, <2>8
<1>3. T \in SUBSET Nat /\ n \in Nat
  OBVIOUS
<1> HIDE DEF R
<1>4. n \in T
  <2> HIDE DEF T, n
  <2> QED BY <1>1, <1>2, <1>3, Induction
<1>5. R(n)
  BY <1>3, <1>4
<1>6. SubSeq(t, 1, n) = t
  OBVIOUS
<1> QED BY <1>5, <1>6 DEF R

LEMMA CountCut ==
    ASSUME NEW S, NEW s \in Seq(S), NEW p \in 0 .. Len(s), NEW c
    PROVE  /\ Count(c, s) = Count(c, SubSeq(s, 1, p)) + Count(c, From(s, p + 1))
           /\ Count(c, SubSeq(s, 1, p)) \in Nat /\ Count(c, From(s, p + 1)) \in Nat
<1> DEFINE a == SubSeq(s, 1, p)
           b == SubSeq(s, p + 1, Len(s))
<1>1. a \in Seq(S) /\ b \in Seq(S) /\ s = a \o b
  BY BeyondIs DEF Beyond
<1> HIDE DEF a, b
<1>2. Count(c, a) \in Nat /\ Count(c, b) \in Nat /\ Count(c, a \o b) = Count(c, a) + Count(c, b)
  BY <1>1, CountIs, CountJoin
<1> QED BY <1>1, <1>2 DEF a, b, From

\* How often c is in the texts of a list.
Total(c, ss) == Count(c, FlattenSeq(ss))

FlattenChain(f, ss) ==
    /\ f[0] = <<>> /\ FlattenSeq(ss) = f[Len(ss)]
    /\ \A k \in 1 .. Len(ss) : f[k] = f[k - 1] \o ss[k]

\* Texts are joined one by one.
LEMMA FlattenSteps ==
    ASSUME NEW S, NEW ss \in Seq(Seq(S))
    PROVE  \E f \in [0 .. Len(ss) -> Seq(S)] : FlattenChain(f, ss)
<1> DEFINE n == Len(ss)
           V == Seq(S)
           G == [k \in 1 .. n |-> [r \in V |-> r \o ss[k]]]
           Step(f) == [k \in 1 .. n |-> IF k = 1 THEN ss[k] ELSE f[k - 1] \o ss[k]]
           h == CHOOSE f : f = Step(f)
<1>1. n \in Nat /\ <<>> \in V /\ \A k \in 1 .. n : ss[k] \in V
  OBVIOUS
<1>2. G \in [1 .. n -> [V -> V]] /\ \A k \in 1 .. n : \A r \in V : G[k][r] = r \o ss[k]
  <2>1. ASSUME NEW k \in 1 .. n, NEW r \in V PROVE r \o ss[k] \in V
    BY <1>1
  <2> HIDE DEF V, n
  <2> QED BY <2>1
<1>3. FlattenSeq(ss) = IF n = 0 THEN ss ELSE h[n]
  BY DEF FlattenSeq
<1> HIDE DEF G, h, n
<1>4. PICK f \in [0 .. n -> V] : IsChain(f, <<>>, n, G)
  <2> HIDE DEF V
  <2> QED BY <1>1, <1>2, ChainExists
<1>5. f[0] = <<>> /\ \A k \in 1 .. n : k - 1 \in 0 .. n /\ f[k - 1] \in V
  BY <1>1, <1>4 DEF IsChain
<1>6. \A k \in 1 .. n : f[k] = f[k - 1] \o ss[k]
  <2> HIDE DEF V
  <2> QED BY <1>2, <1>4, <1>5 DEF IsChain
<1> DEFINE b == [k \in 1 .. n |-> f[k]]
<1>7. b = Step(b)
  <2>1. ASSUME NEW k \in 1 .. n PROVE b[k] = Step(b)[k]
    <3>1. CASE k = 1
      <4>1. k - 1 = 0 /\ ss[k] \in V
        BY <1>1, <3>1
      <4>2. f[k] = <<>> \o ss[k]
        BY <1>5, <1>6, <4>1
      <4> QED BY <3>1, <4>1, <4>2
    <3>2. CASE k # 1
      <4>1. k - 1 \in 1 .. n
        BY <1>1, <3>2
      <4> QED BY <1>6, <3>2, <4>1
    <3> QED BY <3>1, <3>2
  <2>2. Step(b) = [k \in 1 .. n |-> Step(b)[k]]
    OBVIOUS
  <2> HIDE DEF Step
  <2> QED BY <2>1, <2>2
<1>8. h = Step(h)
  <2> HIDE DEF Step, b
  <2> QED BY <1>7 DEF h
<1> DEFINE T == {k \in Nat : k + 1 <= n => h[k + 1] = f[k + 1]}
<1>9. \A k \in Nat : k \in T
  <2>1. 0 \in T
    <3> SUFFICES ASSUME 1 <= n PROVE h[1] = f[1]
      OBVIOUS
    <3>1. 1 \in 1 .. n /\ 1 - 1 = 0
      BY <1>1
    <3>2. h[1] = ss[1]
      BY <1>8, <3>1
    <3>3. ss[1] \in V /\ f[1] = <<>> \o ss[1]
      BY <1>1, <1>5, <1>6, <3>1
    <3> QED BY <3>2, <3>3
  <2>2. ASSUME NEW k \in T PROVE k + 1 \in T
    <3> SUFFICES ASSUME (k + 1) + 1 <= n PROVE h[(k + 1) + 1] = f[(k + 1) + 1]
      OBVIOUS
    <3> DEFINE m == (k + 1) + 1
    <3>1. m \in 1 .. n /\ m # 1 /\ m - 1 = k + 1 /\ h[k + 1] = f[k + 1]
      BY <1>1
    <3> HIDE DEF m
    <3>2. h[m] = h[m - 1] \o ss[m]
      BY <1>8, <3>1
    <3>3. h[m] = f[m]
      BY <1>6, <3>1, <3>2
    <3> QED BY <3>3 DEF m
  <2>3. T \in SUBSET Nat
    OBVIOUS
  <2> HIDE DEF T
  <2> QED BY <2>1, <2>2, <2>3, Induction
<1>10. FlattenSeq(ss) = f[n]
  <2>1. CASE n = 0
    <3>1. ss = <<>>
      BY <2>1 DEF n
    <3> QED BY <1>3, <1>5, <2>1, <3>1
  <2>2. CASE n # 0
    <3>1. n - 1 \in Nat /\ (n - 1) + 1 = n
      BY <1>1, <2>2
    <3>2. n - 1 \in T
      <4> HIDE DEF T
      <4> QED BY <1>9, <3>1
    <3>3. h[n] = f[n]
      BY <1>1, <3>1, <3>2
    <3> QED BY <1>3, <2>2, <3>3
  <2> QED BY <2>1, <2>2
<1>11. FlattenChain(f, ss)
  BY <1>5, <1>6, <1>10 DEF FlattenChain, n
<1> QED BY <1>4, <1>11 DEF n, V

TotalChain(g, c, ss) ==
    /\ g[0] = 0 /\ Total(c, ss) = g[Len(ss)]
    /\ \A k \in 1 .. Len(ss) : g[k] = g[k - 1] + Count(c, ss[k])

LEMMA TotalSteps ==
    ASSUME NEW S, NEW ss \in Seq(Seq(S)), NEW c
    PROVE  \E g \in [0 .. Len(ss) -> Nat] : TotalChain(g, c, ss)
<1> DEFINE n == Len(ss)
<1>1. PICK f \in [0 .. n -> Seq(S)] : FlattenChain(f, ss)
  BY FlattenSteps
<1> DEFINE g == [k \in 0 .. n |-> Count(c, f[k])]
<1>2. n \in Nat /\ \A k \in 1 .. n : ss[k] \in Seq(S)
  OBVIOUS
<1>3. /\ f[0] = <<>> /\ FlattenSeq(ss) = f[n]
      /\ \A k \in 1 .. n : f[k] = f[k - 1] \o ss[k]
  BY <1>1 DEF FlattenChain
<1> HIDE DEF n
<1>4. \A k \in 1 .. n : k \in 0 .. n /\ k - 1 \in 0 .. n
  BY <1>2
<1>5. g \in [0 .. n -> Nat]
  BY <1>1, CountIs
<1>6. ASSUME NEW k \in 1 .. n PROVE g[k] = g[k - 1] + Count(c, ss[k])
  <2>1. f[k - 1] \in Seq(S) /\ ss[k] \in Seq(S) /\ f[k] = f[k - 1] \o ss[k]
    BY <1>1, <1>2, <1>3, <1>4
  <2>2. Count(c, f[k]) = Count(c, f[k - 1]) + Count(c, ss[k])
    BY <2>1, CountJoin
  <2> QED BY <1>4, <2>2
<1>7. g[0] = 0 /\ g[n] = Total(c, ss)
  <2>1. 0 \in 0 .. n /\ n \in 0 .. n
    BY <1>2
  <2> QED BY <1>3, <2>1, CountNone DEF Total
<1> HIDE DEF g
<1>8. TotalChain(g, c, ss)
  BY <1>6, <1>7 DEF TotalChain, n
<1> QED BY <1>5, <1>8 DEF n

LEMMA TotalIs ==
    ASSUME NEW S, NEW ss \in Seq(Seq(S)), NEW c
    PROVE  Total(c, ss) \in Nat /\ Total(c, <<>>) = 0
<1>1. Total(c, ss) \in Nat
  <2>1. PICK g \in [0 .. Len(ss) -> Nat] : TotalChain(g, c, ss)
    BY TotalSteps
  <2>2. Len(ss) \in 0 .. Len(ss)
    OBVIOUS
  <2> QED BY <2>1, <2>2 DEF TotalChain
<1>2. FlattenSeq(<<>>) = <<>>
  BY DEF FlattenSeq
<1> QED BY <1>1, <1>2, CountNone DEF Total

\* Lists one behind the other.
LEMMA TotalJoin ==
    ASSUME NEW S, NEW ss \in Seq(Seq(S)), NEW tt \in Seq(Seq(S)), NEW c
    PROVE  Total(c, ss \o tt) = Total(c, ss) + Total(c, tt)
<1> DEFINE m == Len(ss)
           n == Len(tt)
           uu == ss \o tt
<1>1. /\ m \in Nat /\ n \in Nat /\ uu \in Seq(Seq(S)) /\ Len(uu) = m + n
      /\ \A i \in 1 .. m : uu[i] = ss[i]
      /\ \A i \in 1 .. n : uu[m + i] = tt[i]
  BY Joined
<1>2. PICK f \in [0 .. m -> Nat] : TotalChain(f, c, ss)
  BY TotalSteps
<1>3. PICK g \in [0 .. n -> Nat] : TotalChain(g, c, tt)
  BY TotalSteps
<1>4. PICK h \in [0 .. m + n -> Nat] : TotalChain(h, c, uu)
  BY <1>1, TotalSteps
<1>5. /\ f[0] = 0 /\ Total(c, ss) = f[m] /\ \A k \in 1 .. m : f[k] = f[k - 1] + Count(c, ss[k])
      /\ g[0] = 0 /\ Total(c, tt) = g[n] /\ \A k \in 1 .. n : g[k] = g[k - 1] + Count(c, tt[k])
  BY <1>2, <1>3 DEF TotalChain
<1>6. /\ h[0] = 0 /\ Total(c, uu) = h[m + n]
      /\ \A k \in 1 .. m + n : h[k] = h[k - 1] + Count(c, uu[k])
  BY <1>1, <1>4 DEF TotalChain
<1> HIDE DEF m, n, uu
<1> DEFINE T == {k \in Nat : k <= m => h[k] = f[k]}
           U == {k \in Nat : k <= n => h[m + k] = f[m] + g[k]}
<1>7. m \in T
  <2>1. 0 \in T
    BY <1>5, <1>6
  <2>2. ASSUME NEW k \in T PROVE k + 1 \in T
    <3> SUFFICES ASSUME k + 1 <= m PROVE h[k + 1] = f[k + 1]
      OBVIOUS
    <3>1. k + 1 \in 1 .. m /\ k + 1 \in 1 .. m + n /\ (k + 1) - 1 = k /\ h[k] = f[k]
      BY <1>1
    <3>2. h[k + 1] = h[k] + Count(c, uu[k + 1]) /\ f[k + 1] = f[k] + Count(c, ss[k + 1])
      BY <1>5, <1>6, <3>1
    <3> QED BY <1>1, <3>1, <3>2
  <2>3. T \in SUBSET Nat
    OBVIOUS
  <2> HIDE DEF T
  <2> QED BY <1>1, <2>1, <2>2, <2>3, Induction
<1>8. n \in U
  <2>1. 0 \in U
    <3>1. h[m] = f[m] /\ m + 0 = m /\ f[m] \in Nat
      BY <1>1, <1>2, <1>7
    <3> QED BY <1>5, <3>1
  <2>2. ASSUME NEW k \in U PROVE k + 1 \in U
    <3> SUFFICES ASSUME k + 1 <= n PROVE h[m + (k + 1)] = f[m] + g[k + 1]
      OBVIOUS
    <3> DEFINE q == m + (k + 1)
    <3>1. /\ k + 1 \in 1 .. n /\ q \in 1 .. m + n /\ q - 1 = m + k /\ (k + 1) - 1 = k
          /\ h[m + k] = f[m] + g[k]
      BY <1>1
    <3>2. uu[q] = tt[k + 1]
      BY <1>1, <3>1
    <3>3. f[m] \in Nat /\ g[k] \in Nat
      BY <1>1, <1>2, <1>3, <3>1
    <3> HIDE DEF q
    <3>4. h[q] = h[q - 1] + Count(c, uu[q]) /\ g[k + 1] = g[(k + 1) - 1] + Count(c, tt[k + 1])
      BY <1>5, <1>6, <3>1
    <3>5. Count(c, tt[k + 1]) \in Nat
      <4>1. tt \in Seq(Seq(S)) /\ k + 1 \in 1 .. Len(tt)
        BY <3>1 DEF n
      <4>2. tt[k + 1] \in Seq(S)
        BY <4>1
      <4> QED BY <4>2, CountIs
    <3>6. h[q] = (f[m] + g[k]) + Count(c, tt[k + 1]) /\ g[k + 1] = g[k] + Count(c, tt[k + 1])
      BY <3>1, <3>2, <3>4
    <3>7. h[q] = f[m] + g[k + 1]
      BY <3>3, <3>5, <3>6
    <3> QED BY <3>7 DEF q
  <2>3. U \in SUBSET Nat
    OBVIOUS
  <2> HIDE DEF U
  <2> QED BY <1>1, <2>1, <2>2, <2>3, Induction
<1>9. Total(c, uu) = f[m] + g[n]
  BY <1>1, <1>6, <1>8
<1> QED BY <1>5, <1>9 DEF uu

LEMMA TotalOne ==
    ASSUME NEW S, NEW s \in Seq(S), NEW c
    PROVE  Total(c, <<s>>) = Count(c, s) /\ <<s>> \in Seq(Seq(S))
<1> DEFINE ss == <<s>>
<1>1. ss \in Seq(Seq(S)) /\ Len(ss) = 1 /\ ss[1] = s
  OBVIOUS
<1> HIDE DEF ss
<1>2. PICK g \in [0 .. 1 -> Nat] : TotalChain(g, c, ss)
  BY <1>1, TotalSteps
<1>3. g[0] = 0 /\ Total(c, ss) = g[1] /\ g[1] = g[1 - 1] + Count(c, s)
  BY <1>1, <1>2 DEF TotalChain
<1>4. Count(c, s) \in Nat /\ 1 - 1 = 0
  BY CountIs
<1>5. Total(c, ss) = Count(c, s)
  BY <1>3, <1>4
<1> QED BY <1>1, <1>5 DEF ss

LEMMA TotalAppend ==
    ASSUME NEW S, NEW ss \in Seq(Seq(S)), NEW s \in Seq(S), NEW c
    PROVE  Total(c, Append(ss, s)) = Total(c, ss) + Count(c, s)
<1>1. Append(ss, s) = ss \o <<s>>
  OBVIOUS
<1> QED BY <1>1, TotalOne, TotalJoin

\* The text at i is longer by t.
Longer(S, ss, tt, i, t) ==
    /\ ss \in Seq(Seq(S)) /\ tt \in Seq(Seq(S)) /\ t \in Seq(S)
    /\ Len(tt) = Len(ss) /\ i \in 1 .. Len(ss) /\ tt[i] = ss[i] \o t
    /\ \A k \in 1 .. Len(ss) : k # i => tt[k] = ss[k]

LEMMA TotalGrows ==
    ASSUME NEW S, NEW ss, NEW tt, NEW i, NEW t, Longer(S, ss, tt, i, t), NEW c
    PROVE  Total(c, tt) = Total(c, ss) + Count(c, t)
<1>0. /\ ss \in Seq(Seq(S)) /\ tt \in Seq(Seq(S)) /\ t \in Seq(S)
      /\ Len(tt) = Len(ss) /\ i \in 1 .. Len(ss) /\ tt[i] = ss[i] \o t
      /\ \A k \in 1 .. Len(ss) : k # i => tt[k] = ss[k]
  BY DEF Longer
<1> DEFINE n == Len(ss)
           d == Count(c, t)
<1>1. n \in Nat /\ i \in 1 .. n /\ d \in Nat /\ \A k \in 1 .. n : ss[k] \in Seq(S)
  <2>1. d \in Nat
    BY <1>0, CountIs
  <2> HIDE DEF d
  <2> QED BY <1>0, <2>1
<1>2. PICK f \in [0 .. n -> Nat] : TotalChain(f, c, ss)
  BY <1>0, TotalSteps
<1>3. PICK g \in [0 .. n -> Nat] : TotalChain(g, c, tt)
  <2>1. tt \in Seq(Seq(S)) /\ Len(tt) = n
    BY <1>0
  <2> QED BY <2>1, TotalSteps
<1>4. /\ f[0] = 0 /\ Total(c, ss) = f[n] /\ \A k \in 1 .. n : f[k] = f[k - 1] + Count(c, ss[k])
      /\ g[0] = 0 /\ Total(c, tt) = g[n] /\ \A k \in 1 .. n : g[k] = g[k - 1] + Count(c, tt[k])
  BY <1>0, <1>2, <1>3 DEF TotalChain
<1>5. Count(c, tt[i]) = Count(c, ss[i]) + d /\ \A k \in 1 .. n : Count(c, ss[k]) \in Nat
  <2>1. ss[i] \in Seq(S)
    BY <1>1
  <2>2. Count(c, ss[i] \o t) = Count(c, ss[i]) + Count(c, t)
    BY <1>0, <2>1, CountJoin
  <2>3. \A k \in 1 .. n : Count(c, ss[k]) \in Nat
    BY <1>1, CountIs
  <2> QED BY <1>0, <2>2, <2>3
<1>6. \A k \in 1 .. n : k # i => Count(c, tt[k]) = Count(c, ss[k])
  BY <1>0
<1> HIDE DEF n, d
<1> DEFINE T == {k \in Nat : k <= n => g[k] = IF i <= k THEN f[k] + d ELSE f[k]}
<1>7. 0 \in T
  BY <1>1, <1>4
<1>8. ASSUME NEW k \in T PROVE k + 1 \in T
  <2> SUFFICES ASSUME k + 1 <= n PROVE g[k + 1] = IF i <= k + 1 THEN f[k + 1] + d ELSE f[k + 1]
    OBVIOUS
  <2> DEFINE q == k + 1
             a == Count(c, ss[q])
             b == Count(c, tt[q])
  <2>1. /\ k \in Nat /\ q \in 1 .. n /\ q - 1 = k /\ k <= n /\ k \in 0 .. n
        /\ g[k] = IF i <= k THEN f[k] + d ELSE f[k]
    BY <1>1
  <2>2. a \in Nat /\ b = IF q = i THEN a + d ELSE a
    BY <1>5, <1>6, <2>1
  <2>3. f[q] = f[k] + a /\ g[q] = g[k] + b /\ f[k] \in Nat
    BY <1>2, <1>4, <2>1
  <2> HIDE DEF a, b
  <2>4. CASE q = i
    <3>1. ~(i <= k) /\ i <= q
      BY <2>1, <2>4
    <3> QED BY <1>1, <2>1, <2>2, <2>3, <2>4, <3>1
  <2>5. CASE q # i
    <3>1. i \in Nat /\ (i <= q => i <= k) /\ (i <= k => i <= q)
      <4>1. i \in Nat /\ k \in Nat
        BY <1>1, <2>1
      <4>2. k + 1 # i
        BY <2>5
      <4> QED BY <4>1, <4>2
    <3>2. f[q] = f[k] + a /\ g[q] = g[k] + a
      BY <2>2, <2>3, <2>5
    <3> HIDE DEF q
    <3>3. CASE i <= k
      <4>1. g[k] = f[k] + d
        BY <2>1, <3>3
      <4>2. g[q] = f[q] + d
        BY <1>1, <2>2, <2>3, <3>2, <4>1
      <4> QED BY <3>1, <3>3, <4>2 DEF q
    <3>4. CASE ~(i <= k)
      <4>1. g[k] = f[k]
        BY <2>1, <3>4
      <4>2. g[q] = f[q]
        BY <3>2, <4>1
      <4> QED BY <3>1, <3>4, <4>2 DEF q
    <3> QED BY <3>3, <3>4
  <2> QED BY <2>4, <2>5
<1>9. n \in T
  <2>1. T \in SUBSET Nat
    OBVIOUS
  <2> HIDE DEF T
  <2> QED BY <1>1, <1>7, <1>8, <2>1, Induction
<1>10. g[n] = f[n] + d
  BY <1>1, <1>9
<1> QED BY <1>4, <1>10 DEF d

-----------------------------------------------------------------------------
(* What the translation has said of the texts it was given.                *)

Speaking == {"text", "thinking"}
Speech(item) == IF item.ev \in Speaking THEN item.text ELSE <<>>

\* The texts of the events of a list, and how often c is in them.
Speeches(queue) == [i \in DOMAIN queue |-> Speech(queue[i])]
Spoken(c, queue) == Total(c, Speeches(queue))

\* A list of events whose texts are texts.
Talk(queue) == (\E S : queue \in Seq(S)) /\ Speeches(queue) \in Seq(Seq(Char))

LEMMA NoTalk == Talk(<<>>) /\ \A c : Spoken(c, <<>>) = 0
<1>1. Speeches(<<>>) = <<>> /\ <<>> \in Seq(Seq(Char)) /\ <<>> \in Seq({})
  BY DEF Speeches
<1> QED BY <1>1, TotalIs DEF Talk, Spoken

LEMMA TalkJoin ==
    ASSUME NEW queue, NEW more, Talk(queue), Talk(more)
    PROVE  /\ Talk(queue \o more)
           /\ \A c : /\ Spoken(c, queue \o more) = Spoken(c, queue) + Spoken(c, more)
                     /\ Spoken(c, queue) \in Nat
<1> DEFINE all == queue \o more
<1>1. PICK S, T : queue \in Seq(S) /\ more \in Seq(T)
  BY DEF Talk
<1>2. queue \in Seq(S \cup T) /\ more \in Seq(S \cup T)
  BY <1>1
<1>3. /\ all \in Seq(S \cup T) /\ Len(queue) \in Nat /\ Len(more) \in Nat
      /\ Len(all) = Len(queue) + Len(more)
      /\ \A i \in 1 .. Len(queue) : all[i] = queue[i]
      /\ \A i \in 1 .. Len(more) : all[Len(queue) + i] = more[i]
      /\ DOMAIN all = 1 .. Len(all) /\ DOMAIN queue = 1 .. Len(queue) /\ DOMAIN more = 1 .. Len(more)
  BY <1>2, Joined
<1>4. Speeches(queue) \in Seq(Seq(Char)) /\ Speeches(more) \in Seq(Seq(Char))
  BY DEF Talk
<1> DEFINE a == Speeches(queue)
           b == Speeches(more)
           d == Speeches(all)
<1>5. /\ a = [i \in 1 .. Len(queue) |-> Speech(queue[i])]
      /\ b = [i \in 1 .. Len(more) |-> Speech(more[i])]
      /\ d = [i \in 1 .. Len(queue) + Len(more) |-> Speech(all[i])]
  BY <1>3 DEF Speeches
<1>6. a \in Seq(Seq(Char)) /\ b \in Seq(Seq(Char))
  BY <1>4
<1> HIDE DEF a, b, d, all
<1>7. Len(a) = Len(queue) /\ Len(b) = Len(more)
  <2>1. DOMAIN a = 1 .. Len(queue) /\ DOMAIN b = 1 .. Len(more)
    BY <1>5
  <2>2. DOMAIN a = 1 .. Len(a) /\ DOMAIN b = 1 .. Len(b) /\ Len(a) \in Nat /\ Len(b) \in Nat
    BY <1>6
  <2> QED BY <1>3, <2>1, <2>2
<1>8. /\ a \o b \in Seq(Seq(Char)) /\ Len(a \o b) = Len(queue) + Len(more)
      /\ \A i \in 1 .. Len(queue) : (a \o b)[i] = a[i]
      /\ \A i \in 1 .. Len(more) : (a \o b)[Len(queue) + i] = b[i]
  <2>1. /\ a \o b \in Seq(Seq(Char)) /\ Len(a \o b) = Len(a) + Len(b)
        /\ \A i \in 1 .. Len(a) : (a \o b)[i] = a[i]
        /\ \A i \in 1 .. Len(b) : (a \o b)[Len(a) + i] = b[i]
    BY <1>6, Joined
  <2> QED BY <1>7, <2>1
<1>9. d = a \o b
  <2>1. ASSUME NEW i \in 1 .. Len(queue) + Len(more) PROVE d[i] = (a \o b)[i]
    <3>1. CASE i \in 1 .. Len(queue)
      BY <1>3, <1>5, <1>8, <3>1
    <3>2. CASE i \notin 1 .. Len(queue)
      <4>1. i - Len(queue) \in 1 .. Len(more) /\ Len(queue) + (i - Len(queue)) = i
        BY <1>3, <3>2
      <4> DEFINE j == i - Len(queue)
      <4>2. j \in 1 .. Len(more) /\ Len(queue) + j = i
        BY <4>1
      <4> HIDE DEF j
      <4>3. all[i] = more[j] /\ (a \o b)[i] = b[j]
        BY <1>3, <1>8, <4>2
      <4> QED BY <1>5, <4>2, <4>3
    <3> QED BY <3>1, <3>2
  <2>2. d \in [1 .. Len(queue) + Len(more) -> Seq(Char)]
    <3>1. \A i \in 1 .. Len(queue) + Len(more) : (a \o b)[i] \in Seq(Char)
      BY <1>8
    <3> QED BY <1>5, <2>1, <3>1
  <2>3. d \in Seq(Seq(Char)) /\ Len(d) = Len(queue) + Len(more)
    <3>1. Len(queue) + Len(more) \in Nat
      BY <1>3
    <3> QED BY <2>2, <3>1
  <2> QED BY <1>8, <2>1, <2>3, SameSeq
<1>10. \A c : Total(c, a \o b) = Total(c, a) + Total(c, b) /\ Total(c, a) \in Nat
  BY <1>6, TotalJoin, TotalIs
<1>11. Talk(all)
  BY <1>3, <1>8, <1>9 DEF Talk, d
<1> QED BY <1>9, <1>10, <1>11 DEF a, b, d, all, Spoken

LEMMA TalkOne ==
    ASSUME NEW item, item.ev \in Speaking => item.text \in Seq(Char)
    PROVE  /\ Talk(<<item>>)
           /\ \A c : /\ Spoken(c, <<item>>) =
                           IF item.ev \in Speaking THEN Count(c, item.text) ELSE 0
                     /\ Spoken(c, <<item>>) \in Nat
<1>1. Speech(item) \in Seq(Char)
  BY NoText DEF Speech
<1>2. Speeches(<<item>>) = <<Speech(item)>>
  BY DEF Speeches
<1>3. <<item>> \in Seq({item})
  OBVIOUS
<1>4. /\ <<Speech(item)>> \in Seq(Seq(Char))
      /\ \A c : Total(c, <<Speech(item)>>) = Count(c, Speech(item))
  BY <1>1, TotalOne
<1>5. \A c : Count(c, Speech(item)) \in Nat
  BY <1>1, CountIs
<1>6. \A c : Count(c, Speech(item)) = IF item.ev \in Speaking THEN Count(c, item.text) ELSE 0
  BY CountNone DEF Speech
<1> QED BY <1>2, <1>3, <1>4, <1>5, <1>6 DEF Talk, Spoken

LEMMA TalkAppend ==
    ASSUME NEW queue, Talk(queue), NEW item, item.ev \in Speaking => item.text \in Seq(Char)
    PROVE  /\ Talk(Append(queue, item))
           /\ \A c : Spoken(c, Append(queue, item)) =
                        Spoken(c, queue) + (IF item.ev \in Speaking THEN Count(c, item.text) ELSE 0)
<1>1. Append(queue, item) = queue \o <<item>>
  <2>1. PICK S : queue \in Seq(S)
    BY DEF Talk
  <2> QED BY <2>1
<1> QED BY <1>1, TalkOne, TalkJoin

\* The first event of a list is said, and then the others.
LEMMA TalkFirst ==
    ASSUME NEW queue \in Seq(Item), queue # <<>>
    PROVE  /\ Talk(queue) /\ Talk(Tail(queue)) /\ Head(queue) \in Item
           /\ \A c : Spoken(c, queue) = Spoken(c, <<Head(queue)>>) + Spoken(c, Tail(queue))
<1>1. queue = <<Head(queue)>> \o Tail(queue) /\ Tail(queue) \in Seq(Item) /\ Head(queue) \in Item
  BY HeadTailProperties, EmptySeq
<1>2. Talk(Tail(queue)) /\ Talk(<<Head(queue)>>)
  <2>1. Head(queue).text \in Seq(Char)
    BY <1>1 DEF Item
  <2>2. \A i \in DOMAIN Tail(queue) : Speech(Tail(queue)[i]) \in Seq(Char)
    <3>1. ASSUME NEW item \in Item PROVE Speech(item) \in Seq(Char)
      BY NoText DEF Speech, Item
    <3>2. \A i \in DOMAIN Tail(queue) : Tail(queue)[i] \in Item
      BY <1>1
    <3> QED BY <3>1, <3>2
  <2>3. Speeches(Tail(queue)) \in Seq(Seq(Char))
    BY <1>1, <2>2 DEF Speeches
  <2> QED BY <1>1, <2>1, <2>3, TalkOne DEF Talk
<1> QED BY <1>1, <1>2, TalkJoin

-----------------------------------------------------------------------------
(* What each operator of the translation says.                             *)

Carries(x) ==
    /\ DOMAIN x = Fields /\ Talk(x.out)
    /\ x.buffer \in Seq(Char) /\ x.blocks \in Seq(BlockState)

\* The scan for tags is where it was.
AsIs(x, y) ==
    /\ y.thinking = x.thinking /\ y.inside = x.inside /\ y.extracted = x.extracted
    /\ y.native = x.native /\ y.buffer = x.buffer

Mute(x, y) ==
    Carries(x) => /\ Carries(y) /\ AsIs(x, y)
                  /\ \A c : Spoken(c, y.out) = Spoken(c, x.out)

Says(x, y, text) ==
    Carries(x) => /\ Carries(y) /\ AsIs(x, y)
                  /\ \A c \in Letter : Spoken(c, y.out) = Spoken(c, x.out) + Count(c, text)

LEMMA MuteTwice ==
    ASSUME NEW x, NEW y, NEW z, Mute(x, y), Mute(y, z)
    PROVE  Mute(x, z)
BY DEF Mute, AsIs

LEMMA MuteSays ==
    ASSUME NEW x, NEW y, NEW z, NEW text
    PROVE  /\ Mute(x, y) /\ Says(y, z, text) => Says(x, z, text)
           /\ Says(x, y, text) /\ Mute(y, z) => Says(x, z, text)
BY DEF Mute, Says, AsIs

LEMMA MuteFields ==
    ASSUME NEW x, NEW u
    PROVE  /\ Mute(x, x) /\ Mute(x, [x EXCEPT !.textAt = u])
           /\ Mute(x, [x EXCEPT !.thinkAt = u]) /\ Mute(x, [x EXCEPT !.tools = u])
           /\ Mute(x, [x EXCEPT !.hasTool = u]) /\ Mute(x, [x EXCEPT !.produced = u])
           /\ Mute(x, [x EXCEPT !.reason = u]) /\ Mute(x, [x EXCEPT !.failure = u])
           /\ Mute(x, [x EXCEPT !.signature = u]) /\ Mute(x, [x EXCEPT !.started = u])
           /\ u \in Seq(BlockState) => Mute(x, [x EXCEPT !.blocks = u])
BY DEF Mute, Carries, AsIs, Fields

LEMMA EmitSays ==
    ASSUME NEW x, NEW ev, NEW at, NEW tag, NEW text, ev \in Speaking => text \in Seq(Char)
    PROVE  /\ ev \notin Speaking => Mute(x, Emit(x, ev, at, tag, text))
           /\ ev \in Speaking => Says(x, Emit(x, ev, at, tag, text), text)
<1> DEFINE item == [ev |-> ev, at |-> at, tag |-> tag, text |-> text]
           y == Emit(x, ev, at, tag, text)
<1> SUFFICES ASSUME Carries(x)
             PROVE  /\ Carries(y) /\ AsIs(x, y)
                    /\ \A c : Spoken(c, y.out) = Spoken(c, x.out) +
                                 (IF ev \in Speaking THEN Count(c, text) ELSE 0)
                    /\ \A c : Spoken(c, x.out) \in Nat
  BY DEF Mute, Says
<1>1. item.ev = ev /\ item.text = text
  OBVIOUS
<1> HIDE DEF item
<1>2. y = [x EXCEPT !.out = Append(x.out, item)]
  BY DEF Emit, Carries, Fields, item
<1> HIDE DEF y
<1>3. y.out = Append(x.out, item) /\ DOMAIN y = Fields /\ y.blocks = x.blocks /\ AsIs(x, y)
  BY <1>2 DEF Carries, Fields, AsIs
<1>4. /\ Talk(Append(x.out, item))
      /\ \A c : Spoken(c, Append(x.out, item)) =
                   Spoken(c, x.out) + (IF ev \in Speaking THEN Count(c, text) ELSE 0)
  <2>1. Talk(x.out) /\ (item.ev \in Speaking => item.text \in Seq(Char))
    BY <1>1 DEF Carries
  <2> QED BY <1>1, <2>1, TalkAppend
<1>5. \A c : Spoken(c, x.out) \in Nat
  BY NoTalk, TalkJoin DEF Carries
<1>6. Carries(y)
  BY <1>3, <1>4 DEF Carries, AsIs
<1> QED BY <1>3, <1>4, <1>5, <1>6

LEMMA StopMute ==
    ASSUME NEW x, NEW B, NEW i
    PROVE  Mute(x, Stop(x, B)) /\ Mute(x, StopBlock(x, i)) /\ Mute(x, SignAndStopAll(x))
<1>1. ASSUME NEW K PROVE Mute(x, Stopped(x, K))
  <2> DEFINE u == [j \in DOMAIN x.blocks |->
                      [type |-> x.blocks[j].type, stopped |-> x.blocks[j].stopped \/ j \in K]]
  <2>1. ASSUME x.blocks \in Seq(BlockState) PROVE u \in Seq(BlockState)
    <3>1. DOMAIN x.blocks = 1 .. Len(x.blocks) /\ Len(x.blocks) \in Nat
          /\ \A j \in 1 .. Len(x.blocks) : x.blocks[j] \in BlockState
      BY <2>1
    <3>2. \A j \in 1 .. Len(x.blocks) :
             [type |-> x.blocks[j].type, stopped |-> x.blocks[j].stopped \/ j \in K] \in BlockState
      BY <3>1 DEF BlockState
    <3>3. u = [j \in 1 .. Len(x.blocks) |->
                  [type |-> x.blocks[j].type, stopped |-> x.blocks[j].stopped \/ j \in K]]
      BY <3>1
    <3> QED BY <3>1, <3>2, <3>3
  <2> SUFFICES ASSUME Carries(x) PROVE Mute(x, Stopped(x, K))
    BY DEF Mute
  <2>2. Stopped(x, K) = [x EXCEPT !.blocks = u]
    BY DEF Stopped
  <2> HIDE DEF u
  <2>3. u \in Seq(BlockState)
    BY <2>1 DEF Carries
  <2>4. Mute(x, [x EXCEPT !.blocks = u])
    BY <2>3, MuteFields
  <2> QED BY <2>2, <2>4
<1>2. ASSUME NEW K, NEW tag PROVE Mute(x, Emit(Stopped(x, K), "stop", K, tag, <<>>))
  <2>1. Mute(Stopped(x, K), Emit(Stopped(x, K), "stop", K, tag, <<>>))
    BY EmitSays DEF Speaking
  <2> QED BY <1>1, <2>1, MuteTwice
<1>3. \A K : Mute(x, Stop(x, K))
  BY <1>2, MuteFields DEF Stop
<1>4. Mute(x, SignAndStopAll(x))
  BY <1>2, MuteFields DEF SignAndStopAll
<1> QED BY <1>3, <1>4 DEF StopBlock

LEMMA StartMute ==
    ASSUME NEW x, NEW type \in BlockType
    PROVE  Mute(x, StartBlock(x, type))
<1> DEFINE u == Append(x.blocks, [type |-> type, stopped |-> FALSE])
           y == [x EXCEPT !.blocks = u]
<1>1. x.blocks \in Seq(BlockState) => u \in Seq(BlockState)
  <2>1. [type |-> type, stopped |-> FALSE] \in BlockState
    BY DEF BlockState
  <2> QED BY <2>1
<1>2. StartBlock(x, type) = Emit([x EXCEPT !.blocks = Append(@, [type |-> type, stopped |-> FALSE])],
                                 "start", {Len(x.blocks) + 1}, type, <<>>)
  BY DEF StartBlock
<1> SUFFICES ASSUME Carries(x) PROVE Mute(x, StartBlock(x, type))
  BY DEF Mute
<1>3. [x EXCEPT !.blocks = Append(@, [type |-> type, stopped |-> FALSE])] = y
  BY DEF Carries, Fields
<1> HIDE DEF u
<1>4. Mute(x, y)
  BY <1>1, MuteFields DEF Carries
<1> HIDE DEF y
<1>5. Mute(y, Emit(y, "start", {Len(x.blocks) + 1}, type, <<>>))
  BY EmitSays DEF Speaking
<1> QED BY <1>2, <1>3, <1>4, <1>5, MuteTwice

LEMMA TextSays ==
    ASSUME NEW x, NEW text \in Seq(Char)
    PROVE  Says(x, TextDelta(x, text), text)
<1> SUFFICES ASSUME Carries(x) PROVE Says(x, TextDelta(x, text), text)
  BY DEF Says
<1>1. ASSUME NEW y, y.textAt \in OpenBlocks(y)
      PROVE  Says(y, Delta(y, y.textAt, "text", text), text)
  BY <1>1, EmitSays DEF Delta, Speaking
<1>2. CASE x.textAt \in OpenText(x)
  BY <1>1, <1>2 DEF TextDelta, TextDeltaTo, OpenText
<1>3. CASE x.textAt \notin OpenText(x)
  <2> DEFINE m == Len(x.blocks) + 1
             b == [type |-> "text", stopped |-> FALSE]
             u == [x EXCEPT !.textAt = m]
             y == StartBlock(u, "text")
  <2>1. Mute(x, u) /\ Mute(u, y)
    BY MuteFields, StartMute DEF BlockType
  <2>2. u.blocks = x.blocks /\ u.textAt = m /\ DOMAIN u = Fields
    BY DEF Carries, Fields
  <2>3. TextDelta(x, text) = Delta(y, y.textAt, "text", text)
    BY <1>3 DEF TextDelta, TextDeltaTo
  <2> HIDE DEF u
  <2>4. y.blocks = Append(x.blocks, b) /\ y.textAt = m
    BY <2>2 DEF StartBlock, Emit, Fields
  <2>5. x.blocks \in Seq(BlockState) /\ b \in BlockState
    <3>1. "text" \in BlockType /\ FALSE \in BOOLEAN
      BY DEF BlockType
    <3> QED BY <3>1 DEF Carries, BlockState
  <2> HIDE DEF y, b
  <2>6. m \in DOMAIN y.blocks /\ y.blocks[m] = b
    BY <2>4, <2>5
  <2>7. y.textAt \in OpenBlocks(y)
    BY <2>4, <2>6 DEF OpenBlocks, b
  <2>8. Mute(x, y)
    BY <2>1, MuteTwice
  <2>9. Says(y, Delta(y, y.textAt, "text", text), text)
    BY <1>1, <2>7
  <2> QED BY <2>3, <2>8, <2>9, MuteSays
<1> QED BY <1>2, <1>3

LEMMA ThinkingSays ==
    ASSUME NEW x, NEW text \in Seq(Char)
    PROVE  Says(x, ThinkingDelta(x, text), text) /\ Says(x, SomeThinking(x, text), text)
<1>1. Says(x, ThinkingDelta(x, text), text)
  BY EmitSays DEF ThinkingDelta, Speaking
<1>2. ASSUME text = <<>> PROVE Says(x, x, text)
  <2> SUFFICES ASSUME Carries(x) PROVE Says(x, x, text)
    BY DEF Says
  <2>1. \A c : Spoken(c, x.out) \in Nat
    BY NoTalk, TalkJoin DEF Carries
  <2>2. \A c : Count(c, text) = 0
    BY <1>2, CountNone
  <2>3. \A c : Spoken(c, x.out) = Spoken(c, x.out) + Count(c, text)
    BY <2>1, <2>2
  <2> QED BY <2>3 DEF Says, AsIs
<1> QED BY <1>1, <1>2 DEF SomeThinking

LEMMA CloseMute ==
    ASSUME NEW x
    PROVE  Mute(x, CloseFakeThinking(x)) /\ Mute(x, CloseReasoning(x))
<1>1. ASSUME NEW tag, NEW i
      PROVE  Mute(x, StopBlock(Emit(x, "signature", {x.thinkAt}, tag, <<>>), i))
  <2>1. Mute(x, Emit(x, "signature", {x.thinkAt}, tag, <<>>))
    BY EmitSays DEF Speaking
  <2> QED BY <2>1, StopMute, MuteTwice
<1>2. ASSUME NEW y PROVE Mute(y, [y EXCEPT !.reasoning = FALSE, !.signature = FALSE])
  BY DEF Mute, Carries, AsIs, Fields
<1>3. Mute(x, CloseFakeThinking(x))
  BY <1>1 DEF CloseFakeThinking
<1>4. Mute(x, CloseReasoning(x))
  BY <1>1, <1>2, MuteFields, MuteTwice DEF CloseReasoning
<1> QED BY <1>3, <1>4

LEMMA StartToolMute ==
    ASSUME NEW x, NEW t
    PROVE  Mute(x, StartTool(x, t))
<1> DEFINE h == [x EXCEPT !.hasTool = TRUE]
           y == Stop(h, OpenText(x))
           u == [y EXCEPT !.tools[t] = Len(y.blocks) + 1]
<1>1. StartTool(x, t) = IF y.tools[t] # 0 THEN y ELSE StartBlock(u, "tool_use")
  BY DEF StartTool
<1>2. Mute(x, y)
  BY MuteFields, StopMute, MuteTwice
<1> HIDE DEF y
<1>3. Mute(y, u)
  BY DEF Mute, Carries, AsIs, Fields
<1> HIDE DEF u
<1>4. Mute(u, StartBlock(u, "tool_use"))
  BY StartMute DEF BlockType
<1> QED BY <1>1, <1>2, <1>3, <1>4, MuteTwice

-----------------------------------------------------------------------------
(* What a text loses when tags and white space are cut out of it.          *)

\* The characters of s from p to before q are no letters.
Plain(s, p, q) == \A k \in p .. q - 1 : s[k] \notin Letter

LEMMA PlainCount ==
    ASSUME NEW s \in Seq(Char), Plain(s, 1, Len(s) + 1), NEW c \in Letter
    PROVE  Count(c, s) = 0
<1>1. DOMAIN s = 1 .. (Len(s) + 1) - 1
  <2>1. Len(s) \in Nat /\ DOMAIN s = 1 .. Len(s)
    OBVIOUS
  <2>2. (Len(s) + 1) - 1 = Len(s)
    BY <2>1
  <2> QED BY <2>1, <2>2
<1>2. \A k \in DOMAIN s : s[k] # c
  BY <1>1 DEF Plain
<1> QED BY <1>2, CountIs

LEMMA BlankCount ==
    ASSUME NEW s \in Seq(Char), Blank(s), NEW c \in Letter
    PROVE  Count(c, s) = 0
<1>1. \A k \in DOMAIN s : s[k] # c
  BY DEF Blank, White, Letter
<1> QED BY <1>1, CountIs

LEMMA CutOut ==
    ASSUME NEW s \in Seq(Char), NEW p \in Nat \ {0}, NEW q \in Nat, p <= q, q <= Len(s) + 1,
           Plain(s, p, q), NEW c \in Letter
    PROVE  /\ Count(c, s) = Count(c, SubSeq(s, 1, p - 1)) + Count(c, From(s, q))
           /\ Count(c, SubSeq(s, 1, p - 1)) \in Nat /\ Count(c, From(s, q)) \in Nat
<1> DEFINE n == Len(s)
           a == SubSeq(s, 1, p - 1)
           u == SubSeq(s, p, n)
           m == q - p
           v == SubSeq(u, 1, m)
           w == SubSeq(u, m + 1, Len(u))
<1>1. n \in Nat /\ p - 1 \in 0 .. n /\ (p - 1) + 1 = p /\ m \in Nat
  <2>1. Len(s) \in Nat
    OBVIOUS
  <2> QED BY <2>1
<1>2. /\ u \in Seq(Char) /\ Len(u) = n - (p - 1)
      /\ \A i \in 1 .. n - (p - 1) : u[i] = s[(p - 1) + i]
  <2>1. u = Beyond(s, p - 1)
    BY <1>1 DEF Beyond
  <2> HIDE DEF u, m, n
  <2> QED BY <1>1, <2>1, BeyondIs DEF n
<1>3. Count(c, s) = Count(c, a) + Count(c, u) /\ Count(c, a) \in Nat /\ Count(c, u) \in Nat
  <2>1. From(s, (p - 1) + 1) = u
    BY <1>1 DEF From
  <2> HIDE DEF u
  <2> QED BY <1>1, <2>1, CountCut
<1> HIDE DEF u
<1>4. m \in 0 .. Len(u)
  <2>1. Len(s) \in Nat /\ Len(u) = Len(s) - (p - 1)
    BY <1>2
  <2> QED BY <2>1
<1>5. /\ w \in Seq(Char) /\ Len(w) = Len(u) - m
      /\ \A i \in 1 .. Len(u) - m : w[i] = u[m + i]
      /\ v \in Seq(Char) /\ Len(v) = m
      /\ \A i \in 1 .. m : v[i] = u[i]
  <2>1. w = Beyond(u, m)
    BY DEF Beyond
  <2> HIDE DEF w, m
  <2> QED BY <1>2, <1>4, <2>1, BeyondIs DEF v
<1>6. Count(c, u) = Count(c, v) + Count(c, w) /\ Count(c, v) \in Nat /\ Count(c, w) \in Nat
  <2> HIDE DEF m
  <2>1. w = From(u, m + 1)
    BY DEF From
  <2> QED BY <1>2, <1>4, <2>1, CountCut
<1>7. Count(c, v) = 0
  <2>1. ASSUME NEW i \in 1 .. m PROVE v[i] \notin Letter
    <3>1. (p - 1) + i \in p .. q - 1 /\ i \in 1 .. n - (p - 1) /\ i \in 1 .. m
      <4>1. Len(s) \in Nat /\ i \in Nat /\ 1 <= i /\ i <= q - p
        OBVIOUS
      <4> QED BY <4>1
    <3> HIDE DEF m, v
    <3>2. v[i] = s[(p - 1) + i]
      BY <1>2, <1>5, <3>1
    <3> QED BY <3>1, <3>2 DEF Plain
  <2>2. Plain(v, 1, Len(v) + 1)
    <3> HIDE DEF v, m
    <3>1. (Len(v) + 1) - 1 = m
      BY <1>1, <1>5
    <3> QED BY <2>1, <3>1 DEF Plain
  <2> HIDE DEF v
  <2> QED BY <1>5, <2>2, PlainCount
<1>8. w = From(s, q)
  <2> DEFINE f == From(s, q)
  <2>1. /\ f \in Seq(Char) /\ Len(f) = n - (q - 1)
        /\ \A i \in 1 .. n - (q - 1) : f[i] = s[(q - 1) + i]
    <3>1. q - 1 \in 0 .. Len(s) /\ (q - 1) + 1 = q
      <4>1. Len(s) \in Nat
        OBVIOUS
      <4> QED BY <4>1
    <3>2. f = Beyond(s, q - 1)
      BY <3>1 DEF From, Beyond
    <3>3. /\ Beyond(s, q - 1) \in Seq(Char) /\ Len(Beyond(s, q - 1)) = Len(s) - (q - 1)
          /\ \A i \in 1 .. Len(s) - (q - 1) : Beyond(s, q - 1)[i] = s[(q - 1) + i]
      <4> DEFINE r == q - 1
      <4>1. r \in 0 .. Len(s)
        BY <3>1
      <4> HIDE DEF r, f
      <4>2. /\ Beyond(s, r) \in Seq(Char) /\ Len(Beyond(s, r)) = Len(s) - r
            /\ \A i \in 1 .. Len(s) - r : Beyond(s, r)[i] = s[r + i]
        BY <4>1, BeyondIs
      <4> QED BY <4>2 DEF r
    <3> HIDE DEF f
    <3> QED BY <3>2, <3>3
  <2> HIDE DEF f
  <2>2. Len(u) - m = n - (q - 1)
    <3>1. Len(s) \in Nat /\ Len(u) = Len(s) - (p - 1)
      BY <1>2
    <3> QED BY <3>1
  <2>3. ASSUME NEW i \in 1 .. n - (q - 1) PROVE w[i] = f[i]
    <3>1. /\ i \in 1 .. Len(u) - m /\ m + i \in 1 .. n - (p - 1)
          /\ (p - 1) + (m + i) = (q - 1) + i
      <4>1. Len(s) \in Nat /\ i \in Nat /\ 1 <= i /\ i <= Len(s) - (q - 1)
        OBVIOUS
      <4>2. i \in 1 .. Len(u) - m
        BY <2>2
      <4> QED BY <4>1, <4>2
    <3> HIDE DEF w, m
    <3> QED BY <1>2, <1>5, <2>1, <3>1
  <2> HIDE DEF w
  <2>4. w = f
    BY <1>5, <2>1, <2>2, <2>3, SameSeq
  <2> QED BY <2>4 DEF f
<1> HIDE DEF v, w, a
<1>9. Count(c, s) = Count(c, a) + Count(c, w)
  BY <1>3, <1>6, <1>7
<1> QED BY <1>3, <1>6, <1>8, <1>9 DEF a

\* A tag that was found is there.
LEMMA FoundIn ==
    ASSUME NEW n \in Nat, NEW T \in SUBSET (1 .. n), Least(T) # 0
    PROVE  Least(T) \in T
<1>1. T # {}
  BY DEF Least
<1>2. PICK m \in T : \A k \in T : m <= k
  <2>1. T \in SUBSET Nat
    OBVIOUS
  <2> QED BY <1>1, <2>1, LeastNat
<1> QED BY <1>1, <1>2 DEF Least

LEMMA TagAt ==
    ASSUME NEW s \in Seq(Char), NEW one, NEW two, NEW p \in 1 .. Len(s) - 1,
           SubSeq(s, p, p + 1) = <<one, two>>
    PROVE  p \in Nat \ {0} /\ p + 1 <= Len(s) /\ s[p] = one /\ s[p + 1] = two
<1>1. Len(s) \in Nat /\ p \in Nat /\ 1 <= p /\ p + 1 <= Len(s)
  OBVIOUS
<1> DEFINE n == p - 1
           u == SubSeq(s, p, p + 1)
<1>2. p \in 1 .. Len(s) /\ p + 1 \in 1 .. Len(s)
  BY <1>1
<1>3. u[1] = s[p] /\ u[2] = s[p + 1]
  <2>1. \A i \in p .. p + 1 : s[i] \in Char
    BY <1>1
  <2>2. \A i \in 1 .. (p + 1) - p + 1 : u[i] = s[p + i - 1]
    BY <1>1, <2>1, SubSeqProperties
  <2>3. /\ 1 \in 1 .. (p + 1) - p + 1 /\ p + 1 - 1 = p
        /\ 2 \in 1 .. (p + 1) - p + 1 /\ p + 2 - 1 = p + 1
    BY <1>1
  <2> HIDE DEF u
  <2>4. u[1] = s[p + 1 - 1] /\ u[2] = s[p + 2 - 1]
    BY <2>2, <2>3
  <2> QED BY <2>3, <2>4
<1>4. u[1] = one /\ u[2] = two
  <2>1. u = <<one, two>>
    OBVIOUS
  <2>2. <<one, two>>[1] = one /\ <<one, two>>[2] = two
    OBVIOUS
  <2> HIDE DEF u
  <2> QED BY <2>1, <2>2
<1> HIDE DEF u
<1> QED BY <1>1, <1>3, <1>4

LEMMA StartTagIs ==
    ASSUME NEW s \in Seq(Char), StartTag(s) # 0
    PROVE  /\ StartTag(s) \in Nat \ {0} /\ StartTag(s) + 2 <= Len(s) + 1
           /\ Plain(s, StartTag(s), StartTag(s) + 2)
<1> DEFINE T == {i \in 1 .. Len(s) - 1 : Unquoted(s, i, OpenTag)}
           p == StartTag(s)
<1>1. Len(s) \in Nat /\ T \in SUBSET (1 .. Len(s))
  OBVIOUS
<1>2. p \in T
  <2>1. p = Least(T)
    BY DEF StartTag
  <2> HIDE DEF T, p
  <2> QED BY <1>1, <2>1, FoundIn DEF p
<1> HIDE DEF p
<1>3. p \in 1 .. Len(s) - 1 /\ SubSeq(s, p, p + 1) = <<"o", "O">>
  BY <1>2 DEF Unquoted, OpenTag
<1>4. p \in Nat \ {0} /\ p + 1 <= Len(s) /\ s[p] = "o" /\ s[p + 1] = "O"
  BY <1>3, TagAt
<1>5. \A k \in p .. (p + 2) - 1 : k = p \/ k = p + 1
  BY <1>4
<1> QED BY <1>1, <1>4, <1>5 DEF p, Plain, Letter

LEMMA EndTagIs ==
    ASSUME NEW s \in Seq(Char), EndTag(s) # 0
    PROVE  /\ EndTag(s) \in Nat \ {0} /\ EndTag(s) + 4 <= Len(s) + 1
           /\ Plain(s, EndTag(s), EndTag(s) + 4)
<1> DEFINE T == {i \in 1 .. Len(s) - 1 : Unquoted(s, i, CloseTag) /\ Newlines(s, i + 2)}
           p == EndTag(s)
<1>1. Len(s) \in Nat /\ T \in SUBSET (1 .. Len(s))
  OBVIOUS
<1>2. p \in T
  <2>1. p = Least(T)
    BY DEF EndTag
  <2> HIDE DEF T, p
  <2> QED BY <1>1, <2>1, FoundIn DEF p
<1> HIDE DEF p
<1>3. p \in 1 .. Len(s) - 1 /\ SubSeq(s, p, p + 1) = <<"c", "C">> /\ Newlines(s, p + 2)
  BY <1>2 DEF Unquoted, CloseTag
<1>4. p \in Nat \ {0} /\ p + 1 <= Len(s) /\ s[p] = "c" /\ s[p + 1] = "C"
  BY <1>3, TagAt
<1>5. p + 3 <= Len(s) /\ s[p + 2] = "n" /\ s[p + 3] = "n"
  <2>1. (p + 2) + 1 = p + 3
    BY <1>4
  <2> QED BY <1>3, <2>1 DEF Newlines
<1>6. \A k \in p .. (p + 4) - 1 : k = p \/ k = p + 1 \/ k = p + 2 \/ k = p + 3
  BY <1>4
<1>7. p + 4 <= Len(s) + 1
  BY <1>1, <1>4, <1>5
<1> QED BY <1>4, <1>5, <1>6, <1>7 DEF p, Plain, Letter

LEMMA EndTagAtBufferEndIs ==
    ASSUME NEW s \in Seq(Char), EndTagAtBufferEnd(s) # 0
    PROVE  /\ EndTagAtBufferEnd(s) \in Nat \ {0} /\ EndTagAtBufferEnd(s) <= Len(s)
           /\ Plain(s, EndTagAtBufferEnd(s), Len(s) + 1)
           /\ TrimStart(From(s, EndTagAtBufferEnd(s) + 2)) = <<>>
<1> DEFINE T == {i \in 1 .. Len(s) - 1 : Unquoted(s, i, CloseTag) /\ Blank(From(s, i + 2))}
           p == EndTagAtBufferEnd(s)
<1>1. Len(s) \in Nat /\ T \in SUBSET (1 .. Len(s))
  OBVIOUS
<1>2. p \in T
  <2>1. p = Least(T)
    BY DEF EndTagAtBufferEnd
  <2> HIDE DEF T, p
  <2> QED BY <1>1, <2>1, FoundIn DEF p
<1> HIDE DEF p
<1> DEFINE u == From(s, p + 2)
<1>3. p \in 1 .. Len(s) - 1 /\ SubSeq(s, p, p + 1) = <<"c", "C">> /\ Blank(u)
  BY <1>2 DEF Unquoted, CloseTag
<1>4. p \in Nat \ {0} /\ p + 1 <= Len(s) /\ s[p] = "c" /\ s[p + 1] = "C"
  BY <1>3, TagAt
<1>5. /\ u \in Seq(Char) /\ Len(u) = Len(s) - (p + 1)
      /\ \A i \in 1 .. Len(s) - (p + 1) : u[i] = s[(p + 1) + i]
  <2>1. p + 1 \in 0 .. Len(s) /\ (p + 1) + 1 = p + 2
    BY <1>1, <1>4
  <2>2. u = Beyond(s, p + 1)
    BY <2>1 DEF From, Beyond
  <2>3. /\ Beyond(s, p + 1) \in Seq(Char) /\ Len(Beyond(s, p + 1)) = Len(s) - (p + 1)
        /\ \A i \in 1 .. Len(s) - (p + 1) : Beyond(s, p + 1)[i] = s[(p + 1) + i]
    BY <2>1, BeyondIs
  <2> HIDE DEF u
  <2> QED BY <2>2, <2>3
<1> HIDE DEF u
<1>6. DOMAIN u = 1 .. Len(s) - (p + 1)
  BY <1>5
<1>7. ASSUME NEW k \in p .. (Len(s) + 1) - 1 PROVE s[k] \notin Letter
  <2>1. k = p \/ k = p + 1 \/ k - (p + 1) \in 1 .. Len(s) - (p + 1)
    BY <1>1, <1>4
  <2>2. (p + 1) + (k - (p + 1)) = k
    BY <1>1, <1>4
  <2>3. ASSUME k - (p + 1) \in 1 .. Len(s) - (p + 1) PROVE s[k] \notin Letter
    <3>1. u[k - (p + 1)] = s[k]
      BY <1>5, <2>2, <2>3
    <3>2. u[k - (p + 1)] \in White
      BY <1>3, <1>6, <2>3 DEF Blank
    <3> QED BY <3>1, <3>2 DEF White, Letter
  <2> QED BY <1>4, <2>1, <2>3 DEF Letter
<1>8. TrimStart(u) = <<>>
  <2>1. {i \in DOMAIN u : u[i] \notin White} = {}
    BY <1>3 DEF Blank
  <2> QED BY <2>1 DEF TrimStart, Least
<1>9. p <= Len(s)
  BY <1>1, <1>4
<1> QED BY <1>4, <1>7, <1>8, <1>9 DEF p, u, Plain

\* What a tag divides, and what is released of a text that is held back.
LEMMA TagsCount ==
    ASSUME NEW s \in Seq(Char), NEW c \in Letter
    PROVE  /\ LET p == StartTag(s) IN p # 0 =>
                 /\ Count(c, s) = Count(c, SubSeq(s, 1, p - 1)) + Count(c, From(s, p + 2))
                 /\ Count(c, SubSeq(s, 1, p - 1)) \in Nat /\ Count(c, From(s, p + 2)) \in Nat
           /\ LET p == EndTag(s) IN p # 0 =>
                 /\ Count(c, s) = Count(c, SubSeq(s, 1, p - 1)) + Count(c, From(s, p + 4))
                 /\ Count(c, SubSeq(s, 1, p - 1)) \in Nat /\ Count(c, From(s, p + 4)) \in Nat
           /\ LET p == EndTagAtBufferEnd(s) IN p # 0 =>
                 /\ Count(c, s) = Count(c, SubSeq(s, 1, p - 1))
<1>1. Len(s) \in Nat
  OBVIOUS
<1>2. ASSUME StartTag(s) # 0
      PROVE  LET p == StartTag(s) IN
               /\ Count(c, s) = Count(c, SubSeq(s, 1, p - 1)) + Count(c, From(s, p + 2))
               /\ Count(c, SubSeq(s, 1, p - 1)) \in Nat /\ Count(c, From(s, p + 2)) \in Nat
  <2>1. StartTag(s) \in Nat \ {0} /\ StartTag(s) + 2 \in Nat /\ StartTag(s) <= StartTag(s) + 2
        /\ StartTag(s) + 2 <= Len(s) + 1 /\ Plain(s, StartTag(s), StartTag(s) + 2)
    BY <1>2, StartTagIs
  <2> QED BY <2>1, CutOut
<1>3. ASSUME EndTag(s) # 0
      PROVE  LET p == EndTag(s) IN
               /\ Count(c, s) = Count(c, SubSeq(s, 1, p - 1)) + Count(c, From(s, p + 4))
               /\ Count(c, SubSeq(s, 1, p - 1)) \in Nat /\ Count(c, From(s, p + 4)) \in Nat
  <2>1. EndTag(s) \in Nat \ {0} /\ EndTag(s) + 4 \in Nat /\ EndTag(s) <= EndTag(s) + 4
        /\ EndTag(s) + 4 <= Len(s) + 1 /\ Plain(s, EndTag(s), EndTag(s) + 4)
    BY <1>3, EndTagIs
  <2> QED BY <2>1, CutOut
<1>4. ASSUME EndTagAtBufferEnd(s) # 0
      PROVE  Count(c, s) = Count(c, SubSeq(s, 1, EndTagAtBufferEnd(s) - 1))
  <2> DEFINE p == EndTagAtBufferEnd(s)
             q == Len(s) + 1
  <2>1. p \in Nat \ {0} /\ q \in Nat /\ p <= q /\ q <= Len(s) + 1 /\ Plain(s, p, q)
    BY <1>1, <1>4, EndTagAtBufferEndIs
  <2>2. From(s, q) = <<>>
    BY DEF From
  <2> HIDE DEF p, q
  <2>3. /\ Count(c, s) = Count(c, SubSeq(s, 1, p - 1)) + Count(c, From(s, q))
        /\ Count(c, SubSeq(s, 1, p - 1)) \in Nat
    BY <2>1, CutOut
  <2>4. Count(c, s) = Count(c, SubSeq(s, 1, p - 1))
    BY <2>2, <2>3, CountNone
  <2> QED BY <2>4 DEF p
<1> QED BY <1>2, <1>3, <1>4

LEMMA ReleaseCount ==
    ASSUME NEW s \in Seq(Char), NEW k \in Nat, NEW c \in Letter
    PROVE  Count(c, s) = Count(c, Releasable(s, k)) + Count(c, From(s, Len(Releasable(s, k)) + 1))
<1> DEFINE m == Len(s) - k
           a == SubSeq(s, 1, m)
<1>1. Len(s) \in Nat /\ Releasable(s, k) = a
  BY DEF Releasable
<1>2. CASE m \in 0 .. Len(s)
  <2> HIDE DEF m
  <2>1. Len(a) = m
    BY <1>2, BeyondIs
  <2>2. Count(c, s) = Count(c, a) + Count(c, From(s, m + 1))
    BY <1>2, CountCut
  <2> QED BY <1>1, <2>1, <2>2
<1>3. CASE m \notin 0 .. Len(s)
  <2>1. m < 1 /\ m \in Int
    BY <1>1, <1>3
  <2>2. a = <<>>
    <3> HIDE DEF m
    <3> QED BY <2>1
  <2>3. From(s, 1) = s
    BY DEF From
  <2>4. Count(c, s) = Count(c, <<>>) + Count(c, s)
    <3>1. Count(c, s) \in Nat
      BY CountIs
    <3> QED BY <3>1, CountNone
  <2>5. Len(<<>>) + 1 = 1
    OBVIOUS
  <2> HIDE DEF a
  <2>6. From(s, Len(a) + 1) = s
    BY <2>2, <2>3, <2>5
  <2> QED BY <1>1, <2>2, <2>4, <2>6
<1> QED BY <1>2, <1>3

LEMMA StripCount ==
    ASSUME NEW s \in Seq(Char), NEW c \in Letter
    PROVE  Count(c, StripNewline(s)) = Count(c, s)
<1>1. CASE s # <<>> /\ Head(s) = "n"
  <2>1. s = <<"n">> \o Tail(s) /\ Tail(s) \in Seq(Char)
    BY <1>1, HeadTailProperties
  <2>2. <<"n">> \in Seq(Char) /\ Blank(<<"n">>)
    BY DEF Char, Blank, White
  <2>3. Count(c, <<"n">>) = 0 /\ Count(c, Tail(s)) \in Nat
    BY <2>1, <2>2, BlankCount, CountIs
  <2>4. Count(c, <<"n">> \o Tail(s)) = Count(c, <<"n">>) + Count(c, Tail(s))
    BY <2>1, <2>2, CountJoin
  <2>5. StripNewline(s) = Tail(s)
    BY <1>1 DEF StripNewline
  <2> DEFINE u == <<"n">> \o Tail(s)
             a == Count(c, <<"n">>)
             b == Count(c, Tail(s))
  <2>6. s = u /\ Count(c, u) = a + b /\ a = 0 /\ b \in Nat
    BY <2>1, <2>3, <2>4
  <2> HIDE DEF u, a
  <2>7. Count(c, s) = b
    <3> HIDE DEF b
    <3> QED BY <2>6
  <2> QED BY <2>5, <2>7
<1>2. CASE ~(s # <<>> /\ Head(s) = "n")
  BY <1>2 DEF StripNewline
<1> QED BY <1>1, <1>2

-----------------------------------------------------------------------------
(* The scan for tags moves letters from the buffer to what is said.        *)

\* The letters of s are those of text and of b.
Divides(s, text, b) ==
    /\ s \in Seq(Char) /\ text \in Seq(Char) /\ b \in Seq(Char)
    /\ \A c \in Letter : Count(c, s) = Count(c, text) + Count(c, b)

Within(c, x) == Spoken(c, x.out) + Count(c, x.buffer)

Pours(x, y) ==
    Carries(x) => /\ Carries(y) /\ y.thinking = x.thinking /\ y.native = x.native
                  /\ \A c \in Letter : /\ Within(c, y) = Within(c, x)
                                       /\ Count(c, y.buffer) <= Count(c, x.buffer)

LEMMA CarriesCounts ==
    ASSUME NEW x, Carries(x), NEW c
    PROVE  Spoken(c, x.out) \in Nat /\ Count(c, x.buffer) \in Nat /\ Within(c, x) \in Nat
<1>1. Spoken(c, x.out) \in Nat
  BY NoTalk, TalkJoin DEF Carries
<1>2. Count(c, x.buffer) \in Nat
  BY CountIs DEF Carries
<1> QED BY <1>1, <1>2 DEF Within

LEMMA PoursTwice ==
    ASSUME NEW x, NEW y, NEW z, Pours(x, y), Pours(y, z)
    PROVE  Pours(x, z)
<1> SUFFICES ASSUME Carries(x) PROVE Pours(x, z)
  BY DEF Pours
<1>1. Carries(y) /\ Carries(z) /\ z.thinking = x.thinking /\ z.native = x.native
  BY DEF Pours
<1>2. ASSUME NEW c \in Letter
      PROVE  Within(c, z) = Within(c, x) /\ Count(c, z.buffer) <= Count(c, x.buffer)
  <2>1. /\ Within(c, y) = Within(c, x) /\ Count(c, y.buffer) <= Count(c, x.buffer)
        /\ Within(c, z) = Within(c, y) /\ Count(c, z.buffer) <= Count(c, y.buffer)
    BY <1>1 DEF Pours
  <2>2. Count(c, x.buffer) \in Nat /\ Count(c, y.buffer) \in Nat /\ Count(c, z.buffer) \in Nat
    BY <1>1, CarriesCounts
  <2> QED BY <2>1, <2>2
<1> QED BY <1>1, <1>2 DEF Pours

LEMMA MutePours == ASSUME NEW x, NEW y, Mute(x, y) PROVE Pours(x, y)
<1> SUFFICES ASSUME Carries(x) PROVE Pours(x, y)
  BY DEF Pours
<1>1. \A c \in Letter : Count(c, x.buffer) \in Nat
  BY CarriesCounts
<1>2. \A c \in Letter : Count(c, x.buffer) <= Count(c, x.buffer)
  BY <1>1
<1> QED BY <1>2 DEF Mute, Pours, AsIs, Within

\* Some of the buffer is said, and then taken from the buffer.
LEMMA PourOut ==
    ASSUME NEW x, Carries(x), NEW text, NEW b, Divides(x.buffer, text, b),
           NEW y, Says(x, y, text), NEW z, DOMAIN z = Fields, z.out = y.out, z.blocks = y.blocks,
           z.thinking = y.thinking, z.native = y.native, z.buffer = b
    PROVE  Pours(x, z)
<1>1. Carries(y) /\ AsIs(x, y) /\ \A c \in Letter : Spoken(c, y.out) = Spoken(c, x.out) + Count(c, text)
  BY DEF Says
<1>2. Carries(z) /\ z.thinking = x.thinking /\ z.native = x.native
  BY <1>1 DEF Carries, AsIs, Divides
<1>3. ASSUME NEW c \in Letter
      PROVE  Within(c, z) = Within(c, x) /\ Count(c, z.buffer) <= Count(c, x.buffer)
  <2>1. Spoken(c, z.out) = Spoken(c, x.out) + Count(c, text)
    BY <1>1
  <2>2. Count(c, x.buffer) = Count(c, text) + Count(c, z.buffer)
    BY DEF Divides
  <2>3. Spoken(c, x.out) \in Nat /\ Count(c, z.buffer) \in Nat
    BY <1>2, CarriesCounts
  <2>4. Count(c, text) \in Nat
    BY CountIs DEF Divides
  <2> QED BY <2>1, <2>2, <2>3, <2>4 DEF Within
<1> QED BY <1>2, <1>3 DEF Pours

\* Some of the buffer is taken from the buffer, and then said.
LEMMA PourIn ==
    ASSUME NEW x, Carries(x), NEW text, NEW b, Divides(x.buffer, text, b),
           NEW w, DOMAIN w = Fields, w.out = x.out, w.blocks = x.blocks,
           w.thinking = x.thinking, w.native = x.native, w.buffer = b,
           NEW y, Says(w, y, text)
    PROVE  Pours(x, y)
<1>1. Carries(w)
  BY DEF Carries, Divides
<1>2. Carries(y) /\ AsIs(w, y) /\ \A c \in Letter : Spoken(c, y.out) = Spoken(c, w.out) + Count(c, text)
  BY <1>1 DEF Says
<1>3. y.thinking = x.thinking /\ y.native = x.native /\ y.buffer = b
  BY <1>2 DEF AsIs
<1>4. ASSUME NEW c \in Letter
      PROVE  Within(c, y) = Within(c, x) /\ Count(c, y.buffer) <= Count(c, x.buffer)
  <2>1. Spoken(c, y.out) = Spoken(c, x.out) + Count(c, text)
    BY <1>2
  <2>2. Count(c, x.buffer) = Count(c, text) + Count(c, y.buffer)
    BY <1>3 DEF Divides
  <2>3. Spoken(c, x.out) \in Nat /\ Count(c, y.buffer) \in Nat
    BY <1>2, CarriesCounts
  <2>4. Count(c, text) \in Nat
    BY CountIs DEF Divides
  <2> QED BY <2>1, <2>2, <2>3, <2>4 DEF Within
<1> QED BY <1>2, <1>3, <1>4 DEF Pours

LEMMA DividesText ==
    ASSUME NEW s \in Seq(Char)
    PROVE  /\ Divides(s, s, <<>>)
           /\ LET p == StartTag(s) IN p # 0 => Divides(s, SubSeq(s, 1, p - 1), From(s, p + 2))
           /\ LET p == EndTag(s) IN p # 0 => Divides(s, SubSeq(s, 1, p - 1), From(s, p + 4))
           /\ LET p == EndTagAtBufferEnd(s) IN p # 0 => Divides(s, SubSeq(s, 1, p - 1), <<>>)
           /\ \A k \in Nat :
                 Divides(s, Releasable(s, k), From(s, Len(Releasable(s, k)) + 1))
<1>1. <<>> \in Seq(Char) /\ \A c : Count(c, <<>>) = 0
  BY NoText, CountNone
<1>2. \A c : Count(c, s) \in Nat
  BY CountIs
<1>3. Divides(s, s, <<>>)
  <2>1. \A c : Count(c, s) = Count(c, s) + Count(c, <<>>)
    BY <1>1, <1>2
  <2> QED BY <1>1, <2>1 DEF Divides
<1>4. ASSUME NEW p \in Nat, p # 0, p <= Len(s)
      PROVE  /\ SubSeq(s, 1, p - 1) \in Seq(Char)
             /\ From(s, p + 2) \in Seq(Char) /\ From(s, p + 4) \in Seq(Char)
  <2>1. p + 2 \in Nat /\ p + 2 # 0 /\ p + 4 \in Nat /\ p + 4 # 0
    OBVIOUS
  <2> QED BY <1>4, <2>1, Pieces
<1>5. ASSUME StartTag(s) # 0
      PROVE  Divides(s, SubSeq(s, 1, StartTag(s) - 1), From(s, StartTag(s) + 2))
  BY <1>4, <1>5, Positions, TagsCount DEF Divides
<1>6. ASSUME EndTag(s) # 0
      PROVE  Divides(s, SubSeq(s, 1, EndTag(s) - 1), From(s, EndTag(s) + 4))
  BY <1>4, <1>6, Positions, TagsCount DEF Divides
<1>7. ASSUME EndTagAtBufferEnd(s) # 0
      PROVE  Divides(s, SubSeq(s, 1, EndTagAtBufferEnd(s) - 1), <<>>)
  <2> DEFINE a == SubSeq(s, 1, EndTagAtBufferEnd(s) - 1)
  <2>1. a \in Seq(Char) /\ \A c \in Letter : Count(c, s) = Count(c, a)
    BY <1>4, <1>7, Positions, TagsCount
  <2> HIDE DEF a
  <2>2. \A c \in Letter : Count(c, s) = Count(c, a) + Count(c, <<>>)
    BY <1>1, <1>2, <2>1
  <2> QED BY <1>1, <2>1, <2>2 DEF Divides, a
<1>8. ASSUME NEW k \in Nat
      PROVE  Divides(s, Releasable(s, k), From(s, Len(Releasable(s, k)) + 1))
  <2>1. Releasable(s, k) \in Seq(Char)
    BY Pieces
  <2>2. Len(Releasable(s, k)) + 1 \in Nat /\ Len(Releasable(s, k)) + 1 # 0
    BY <2>1
  <2>3. From(s, Len(Releasable(s, k)) + 1) \in Seq(Char)
    BY <2>2, Pieces
  <2> QED BY <2>1, <2>3, ReleaseCount DEF Divides
<1> QED BY <1>3, <1>5, <1>6, <1>7, <1>8

LEMMA BlankSays ==
    ASSUME NEW x, NEW text \in Seq(Char), Blank(text)
    PROVE  Says(x, x, text)
<1> SUFFICES ASSUME Carries(x) PROVE Says(x, x, text)
  BY DEF Says
<1>1. \A c \in Letter : Spoken(c, x.out) \in Nat /\ Count(c, text) = 0
  BY CarriesCounts, BlankCount
<1>2. \A c \in Letter : Spoken(c, x.out) = Spoken(c, x.out) + Count(c, text)
  BY <1>1
<1> QED BY <1>2 DEF Says, AsIs

LEMMA BeforeTagPours ==
    ASSUME NEW x, Carries(x)
    PROVE  /\ Pours(x, BeforeTag(x)) /\ BeforeTag(x).extracted = x.extracted
           /\ x.inside \/ x.extracted => BeforeTag(x) = x
<1> DEFINE s      == x.buffer
           p      == StartTag(s)
           before == SubSeq(s, 1, p - 1)
           safe   == Releasable(s, Len(OpenTag))
           y      == IF Blank(before) THEN x ELSE TextDelta(x, before)
           rest   == From(y.buffer, p + 2)
           at     == Len(y.blocks) + 1
           u      == [y EXCEPT !.inside = TRUE, !.strip = TRUE, !.buffer = rest, !.thinkAt = at]
           left   == From(s, Len(safe) + 1)
           w      == [x EXCEPT !.buffer = left]
<1>1. s \in Seq(Char) /\ DOMAIN x = Fields
  BY DEF Carries
<1>2. CASE x.inside \/ x.extracted
  BY <1>2, MuteFields, MutePours DEF BeforeTag
<1>3. CASE ~(x.inside \/ x.extracted) /\ p # 0
  <2>1. BeforeTag(x) = StartBlock(u, "thinking")
    BY <1>3 DEF BeforeTag
  <2>2. Divides(s, before, From(s, p + 2))
    BY <1>1, <1>3, DividesText
  <2>3. before \in Seq(Char)
    BY <2>2 DEF Divides
  <2> HIDE DEF before
  <2>4. Says(x, y, before)
    BY <2>3, BlankSays, TextSays
  <2> HIDE DEF y
  <2>5. Carries(y) /\ AsIs(x, y)
    BY <2>4 DEF Says
  <2>6. rest = From(s, p + 2)
    BY <2>5 DEF AsIs
  <2> HIDE DEF rest, at
  <2>7. /\ DOMAIN u = Fields /\ u.out = y.out /\ u.blocks = y.blocks /\ u.thinking = y.thinking
        /\ u.native = y.native /\ u.buffer = rest /\ u.extracted = y.extracted
    BY <2>5 DEF Carries, Fields
  <2> HIDE DEF u
  <2>8. Divides(s, before, rest)
    BY <2>2, <2>6
  <2>9. Pours(x, u)
    BY <2>4, <2>7, <2>8, PourOut
  <2>10. Mute(u, StartBlock(u, "thinking"))
    BY StartMute DEF BlockType
  <2>11. Pours(x, StartBlock(u, "thinking"))
    BY <2>9, <2>10, MutePours, PoursTwice
  <2>12. StartBlock(u, "thinking").extracted = x.extracted
    BY <2>5, <2>7, <2>9, <2>10 DEF Mute, AsIs, Pours
  <2> QED BY <1>3, <2>1, <2>11, <2>12
<1>4. CASE ~(x.inside \/ x.extracted) /\ p = 0
  <2>1. BeforeTag(x) = IF Blank(safe) THEN x ELSE TextDelta(w, safe)
    BY <1>4 DEF BeforeTag
  <2>2. Divides(s, safe, left)
    <3>1. Len(OpenTag) \in Nat
      BY DEF OpenTag
    <3> QED BY <1>1, <3>1, DividesText
  <2>3. safe \in Seq(Char)
    BY <2>2 DEF Divides
  <2> HIDE DEF safe, left
  <2>4. Says(w, TextDelta(w, safe), safe)
    BY <2>3, TextSays
  <2>5. /\ DOMAIN w = Fields /\ w.out = x.out /\ w.blocks = x.blocks /\ w.thinking = x.thinking
        /\ w.native = x.native /\ w.buffer = left /\ w.extracted = x.extracted
    BY <1>1 DEF Fields
  <2> HIDE DEF w
  <2>6. Pours(x, TextDelta(w, safe))
    BY <2>2, <2>4, <2>5, PourIn
  <2>7. Carries(w)
    BY <2>2, <2>5 DEF Carries, Divides
  <2>8. TextDelta(w, safe).extracted = x.extracted
    BY <2>4, <2>5, <2>7 DEF Says, AsIs
  <2>9. Pours(x, x)
    BY MuteFields, MutePours
  <2> QED BY <1>4, <2>1, <2>6, <2>8, <2>9
<1> QED BY <1>2, <1>3, <1>4

LEMMA InsideTagPours ==
    ASSUME NEW x, Carries(x)
    PROVE  LET y == InsideTag(x)
           IN  /\ Pours(x, y)
               /\ ~x.inside => y = x
               /\ \/ y.inside = x.inside /\ y.extracted = x.extracted
                  \/ y.inside = FALSE /\ y.extracted = TRUE
<1> DEFINE kept == Len(CloseTag) + 2
           b    == IF x.strip THEN StripNewline(x.buffer) ELSE x.buffer
           st   == x.strip /\ x.buffer = <<>>
           y    == [x EXCEPT !.buffer = b, !.strip = st]
           p    == EndTag(b)
           safe == Releasable(b, kept)
           text == SubSeq(b, 1, p - 1)
           c    == CloseFakeThinking(SomeThinking(y, text))
           rest == From(c.buffer, p + 4)
           u    == [c EXCEPT !.inside = FALSE, !.extracted = TRUE, !.buffer = rest]
           left == From(b, Len(safe) + 1)
           w    == [y EXCEPT !.buffer = left]
<1>1. x.buffer \in Seq(Char) /\ DOMAIN x = Fields /\ kept \in Nat
  BY DEF Carries, CloseTag
<1>2. b \in Seq(Char) /\ \A d \in Letter : Count(d, b) = Count(d, x.buffer)
  BY <1>1, Pieces, StripCount
<1>3. /\ DOMAIN y = Fields /\ y.out = x.out /\ y.blocks = x.blocks /\ y.thinking = x.thinking
      /\ y.native = x.native /\ y.buffer = b /\ y.extracted = x.extracted /\ y.inside = x.inside
  <2> HIDE DEF b, st
  <2> QED BY <1>1 DEF Fields
<1>4. /\ ~x.inside => InsideTag(x) = x
      /\ x.inside /\ p # 0 => InsideTag(x) = u
      /\ x.inside /\ p = 0 => InsideTag(x) = SomeThinking(w, safe)
  <2>1. [x EXCEPT !.buffer = b, !.strip = @ /\ x.buffer = <<>>] = y
    BY <1>1 DEF Fields
  <2>2. y.buffer = b
    BY <1>3
  <2> HIDE DEF b, st, y
  <2> QED BY <2>1, <2>2 DEF InsideTag, InsideTagHolding, b
<1> HIDE DEF b, y
<1>5. Carries(y)
  BY <1>2, <1>3 DEF Carries
<1>6. Pours(x, y)
  <2>1. \A d \in Letter : Count(d, x.buffer) \in Nat /\ Count(d, y.buffer) \in Nat
    BY <1>5, CarriesCounts
  <2>2. \A d \in Letter : Count(d, y.buffer) <= Count(d, x.buffer)
    BY <1>2, <1>3, <2>1
  <2> QED BY <1>2, <1>3, <1>5, <2>2 DEF Pours, Within
<1>7. CASE ~x.inside
  <2>1. Pours(x, x)
    BY MuteFields, MutePours
  <2> QED BY <1>4, <1>7, <2>1
<1>8. CASE x.inside /\ p # 0
  <2>1. Divides(b, text, From(b, p + 4))
    BY <1>2, <1>8, DividesText
  <2>2. text \in Seq(Char)
    BY <2>1 DEF Divides
  <2> HIDE DEF text
  <2>3. Says(y, c, text)
    BY <2>2, ThinkingSays, CloseMute, MuteSays
  <2> HIDE DEF c
  <2>4. Carries(c) /\ AsIs(y, c)
    BY <1>5, <2>3 DEF Says
  <2>5. rest = From(b, p + 4)
    BY <1>3, <2>4 DEF AsIs
  <2> HIDE DEF rest
  <2>6. /\ DOMAIN u = Fields /\ u.out = c.out /\ u.blocks = c.blocks /\ u.thinking = c.thinking
        /\ u.native = c.native /\ u.buffer = rest /\ u.inside = FALSE /\ u.extracted = TRUE
    BY <2>4 DEF Carries, Fields
  <2> HIDE DEF u
  <2>7. Divides(y.buffer, text, rest)
    BY <1>3, <2>1, <2>5
  <2>8. Pours(y, u)
    BY <1>5, <2>3, <2>6, <2>7, PourOut
  <2>9. Pours(x, u)
    BY <1>6, <2>8, PoursTwice
  <2> QED BY <1>4, <1>8, <2>6, <2>9
<1>9. CASE x.inside /\ p = 0
  <2>1. Divides(b, safe, left)
    BY <1>1, <1>2, DividesText
  <2>2. safe \in Seq(Char)
    BY <2>1 DEF Divides
  <2> HIDE DEF safe, left
  <2>3. /\ DOMAIN w = Fields /\ w.out = y.out /\ w.blocks = y.blocks /\ w.thinking = y.thinking
        /\ w.native = y.native /\ w.buffer = left /\ w.extracted = y.extracted /\ w.inside = y.inside
    BY <1>3 DEF Fields
  <2> HIDE DEF w
  <2>4. Divides(y.buffer, safe, left)
    BY <1>3, <2>1
  <2>5. Says(w, SomeThinking(w, safe), safe)
    BY <2>2, ThinkingSays
  <2>6. Pours(y, SomeThinking(w, safe))
    BY <1>5, <2>3, <2>4, <2>5, PourIn
  <2>7. Pours(x, SomeThinking(w, safe))
    BY <1>6, <2>6, PoursTwice
  <2>8. Carries(w)
    BY <1>5, <2>1, <2>3 DEF Carries, Divides
  <2>9. SomeThinking(w, safe).inside = x.inside /\ SomeThinking(w, safe).extracted = x.extracted
    BY <1>3, <2>3, <2>5, <2>8 DEF Says, AsIs
  <2> QED BY <1>4, <1>9, <2>7, <2>9
<1> QED BY <1>7, <1>8, <1>9

LEMMA AfterTagPours ==
    ASSUME NEW x, Carries(x)
    PROVE  LET y == AfterTag(x)
           IN  /\ Pours(x, y) /\ y.inside = x.inside /\ y.extracted = x.extracted
               /\ x.extracted /\ ~x.inside => y.buffer = <<>>
<1> DEFINE w == [x EXCEPT !.buffer = <<>>]
           s == x.buffer
<1>1. s \in Seq(Char) /\ DOMAIN x = Fields
  BY DEF Carries
<1>2. /\ DOMAIN w = Fields /\ w.out = x.out /\ w.blocks = x.blocks /\ w.thinking = x.thinking
      /\ w.native = x.native /\ w.buffer = <<>> /\ w.extracted = x.extracted /\ w.inside = x.inside
  BY <1>1 DEF Fields
<1>3. CASE x.extracted /\ ~x.inside /\ s # <<>>
  <2>1. AfterTag(x) = TextDelta(w, s)
    BY <1>3 DEF AfterTag
  <2> HIDE DEF w
  <2>2. Divides(s, s, <<>>)
    BY <1>1, DividesText
  <2>3. Says(w, TextDelta(w, s), s)
    BY <1>1, TextSays
  <2>4. Pours(x, TextDelta(w, s))
    BY <1>2, <2>2, <2>3, PourIn
  <2>5. Carries(w)
    BY <1>2, NoText DEF Carries
  <2>6. AsIs(w, TextDelta(w, s))
    BY <2>3, <2>5 DEF Says
  <2> QED BY <1>2, <2>1, <2>4, <2>6 DEF AsIs
<1>4. CASE ~(x.extracted /\ ~x.inside /\ s # <<>>)
  <2>1. AfterTag(x) = x
    BY <1>4 DEF AfterTag
  <2> QED BY <1>4, <2>1, MuteFields, MutePours
<1> QED BY <1>3, <1>4

LEMMA ContextCarries == ASSUME NEW x \in Context PROVE Carries(x)
<1>1. x.out \in Seq(Item) /\ x.buffer \in Seq(Char) /\ x.blocks \in Seq(BlockState)
  BY DEF Context
<1>2. Talk(x.out)
  BY <1>1, TalkFirst, NoTalk
<1> QED BY <1>1, <1>2, ContextFields DEF Carries

LEMMA ScanPours ==
    ASSUME NEW x, Carries(x)
    PROVE  LET y == Scan(x)
           IN  /\ Pours(x, y)
               /\ y.inside \/ y.buffer = <<>> \/ ~(x.inside \/ x.extracted)
               /\ y.extracted /\ ~y.inside => y.buffer = <<>>
<1> DEFINE a == BeforeTag(x)
           b == InsideTag(a)
           y == AfterTag(b)
<1>1. Pours(x, a) /\ a.extracted = x.extracted /\ (x.inside \/ x.extracted => a = x)
  BY BeforeTagPours
<1> HIDE DEF a
<1>2. Carries(a)
  BY <1>1 DEF Pours
<1>3. /\ Pours(a, b)
      /\ \/ b.inside = a.inside /\ b.extracted = a.extracted
         \/ b.inside = FALSE /\ b.extracted = TRUE
  BY <1>2, InsideTagPours
<1> HIDE DEF b
<1>4. Carries(b)
  BY <1>2, <1>3 DEF Pours
<1>5. /\ Pours(b, y) /\ y.inside = b.inside /\ y.extracted = b.extracted
      /\ b.extracted /\ ~b.inside => y.buffer = <<>>
  BY <1>4, AfterTagPours
<1>6. Scan(x) = y
  BY DEF Scan, a, b
<1> HIDE DEF y
<1>7. Pours(x, y)
  BY <1>1, <1>3, <1>5, PoursTwice
<1>8. y.extracted /\ ~y.inside => y.buffer = <<>>
  BY <1>5
<1>9. y.inside \/ y.buffer = <<>> \/ ~(x.inside \/ x.extracted)
  <2> SUFFICES ASSUME x.inside \/ x.extracted, ~y.inside PROVE y.extracted
    BY <1>8
  <2>1. a = x /\ ~b.inside
    BY <1>1, <1>5
  <2>2. CASE b.inside = a.inside /\ b.extracted = a.extracted
    BY <1>5, <2>1, <2>2
  <2>3. CASE b.inside = FALSE /\ b.extracted = TRUE
    BY <1>5, <2>3
  <2> QED BY <1>3, <2>2, <2>3
<1> QED BY <1>6, <1>7, <1>8, <1>9

LEMMA EndAtTagPours ==
    ASSUME NEW x, Carries(x), EndTagAtBufferEnd(x.buffer) # 0
    PROVE  LET y == EndAtTag(x, EndTagAtBufferEnd(x.buffer))
           IN  Pours(x, y) /\ y.buffer = <<>> /\ y.inside = FALSE /\ y.extracted = TRUE
<1> DEFINE s == x.buffer
           p == EndTagAtBufferEnd(s)
           text == SubSeq(s, 1, p - 1)
           y == CloseFakeThinking(SomeThinking(x, text))
           z == [y EXCEPT !.inside = FALSE, !.extracted = TRUE, !.buffer = <<>>]
<1>1. s \in Seq(Char)
  BY DEF Carries
<1>2. EndAtTag(x, p) = z
  <2>1. TrimStart(From(s, p + 2)) = <<>>
    BY <1>1, EndTagAtBufferEndIs
  <2> QED BY <2>1 DEF EndAtTag
<1>3. Divides(s, text, <<>>)
  BY <1>1, DividesText
<1>4. text \in Seq(Char)
  BY <1>3 DEF Divides
<1> HIDE DEF text
<1>5. Says(x, y, text)
  BY <1>4, ThinkingSays, CloseMute, MuteSays
<1> HIDE DEF y
<1>6. Carries(y)
  BY <1>5 DEF Says
<1>7. /\ DOMAIN z = Fields /\ z.out = y.out /\ z.blocks = y.blocks /\ z.thinking = y.thinking
      /\ z.native = y.native /\ z.buffer = <<>> /\ z.inside = FALSE /\ z.extracted = TRUE
  BY <1>6 DEF Carries, Fields
<1> HIDE DEF z
<1>8. Pours(x, z)
  BY <1>3, <1>5, <1>7, PourOut
<1> QED BY <1>2, <1>7, <1>8

\* Outside of thinking the buffer waits for a tag, or is empty.
Drained(x) ==
    /\ x.inside => x.thinking
    /\ ~x.inside => x.buffer = <<>> \/ (x.thinking /\ ~x.extracted)

LEMMA FlushBeforeToolPours ==
    ASSUME NEW x, Carries(x)
    PROVE  LET y == FlushBeforeTool(x)
           IN  /\ Pours(x, y)
               /\ Drained(x) => Drained(y) /\ (y.inside \/ y.buffer = <<>>)
<1> DEFINE p == EndTagAtBufferEnd(x.buffer)
           y == IF x.thinking /\ x.inside /\ p # 0 THEN EndAtTag(x, p) ELSE x
           s == y.buffer
           w == [y EXCEPT !.buffer = <<>>]
           z == TextDelta(w, s)
<1>1. Pours(x, y) /\ (y = x \/ (y.buffer = <<>> /\ y.inside = FALSE /\ y.extracted = TRUE))
  BY EndAtTagPours, MuteFields, MutePours
<1>2. FlushBeforeTool(x) = IF y.thinking /\ ~y.inside /\ ~y.extracted /\ y.buffer # <<>> THEN z ELSE y
  BY DEF FlushBeforeTool
<1> HIDE DEF y
<1>3. Carries(y)
  BY <1>1 DEF Pours
<1>4. Drained(x) => Drained(y)
  BY <1>1 DEF Drained
<1>5. CASE ~(y.thinking /\ ~y.inside /\ ~y.extracted /\ y.buffer # <<>>)
  <2>1. Drained(y) => (y.inside \/ y.buffer = <<>>)
    BY <1>5 DEF Drained
  <2> QED BY <1>1, <1>2, <1>4, <1>5, <2>1
<1>6. CASE y.thinking /\ ~y.inside /\ ~y.extracted /\ y.buffer # <<>>
  <2>1. s \in Seq(Char) /\ DOMAIN y = Fields
    BY <1>3 DEF Carries
  <2>2. /\ DOMAIN w = Fields /\ w.out = y.out /\ w.blocks = y.blocks /\ w.thinking = y.thinking
        /\ w.native = y.native /\ w.buffer = <<>> /\ w.inside = y.inside
        /\ w.extracted = y.extracted
    BY <2>1 DEF Fields
  <2> HIDE DEF w
  <2>3. Divides(s, s, <<>>)
    BY <2>1, DividesText
  <2>4. Says(w, z, s)
    BY <2>1, TextSays
  <2> HIDE DEF z
  <2>5. Pours(y, z)
    BY <1>3, <2>2, <2>3, <2>4, PourIn
  <2>6. Carries(w)
    BY <1>3, <2>2, NoText DEF Carries
  <2>7. z.buffer = <<>> /\ z.inside = y.inside
    BY <2>2, <2>4, <2>6 DEF Says, AsIs
  <2>8. Drained(z) /\ z.buffer = <<>>
    BY <1>6, <2>7 DEF Drained
  <2>9. Pours(x, z)
    BY <1>1, <2>5, PoursTwice
  <2> QED BY <1>2, <1>6, <2>8, <2>9
<1> QED BY <1>5, <1>6

LEMMA MuteDrained == ASSUME NEW x, NEW y, Carries(x), Mute(x, y) PROVE Drained(x) => Drained(y)
BY DEF Mute, AsIs, Drained

LEMMA ToolUsePours ==
    ASSUME NEW x, Carries(x), NEW t, NEW input, NEW stop
    PROVE  LET y == ToolUse(x, t, input, stop)
           IN  /\ Pours(x, y)
               /\ Drained(x) => Drained(y) /\ (y.inside \/ y.buffer = <<>>)
<1> DEFINE r == CloseReasoning(x)
           h == [r EXCEPT !.hasTool = TRUE]
           f == FlushBeforeTool(h)
           y == StartTool(f, t)
           q == [y EXCEPT !.produced = TRUE]
           z == IF input THEN Delta(q, y.tools[t], "json", <<>>) ELSE y
           e == IF stop THEN StopBlock(z, z.tools[t]) ELSE z
<1>1. ToolUse(x, t, input, stop) = e
  BY DEF ToolUse
<1>2. Mute(x, h)
  BY CloseMute, MuteFields, MuteTwice
<1> HIDE DEF r, h
<1>3. Carries(h) /\ Pours(x, h) /\ (Drained(x) => Drained(h))
  BY <1>2, MutePours, MuteDrained DEF Mute
<1>4. /\ Pours(h, f)
      /\ Drained(h) => Drained(f) /\ (f.inside \/ f.buffer = <<>>)
  BY <1>3, FlushBeforeToolPours
<1> HIDE DEF f
<1>5. Mute(f, y)
  BY StartToolMute
<1> HIDE DEF y
<1>6. Mute(y, q)
  BY MuteFields
<1> HIDE DEF q
<1>7. Mute(q, Delta(q, y.tools[t], "json", <<>>))
  BY EmitSays, MuteFields DEF Delta, Speaking
<1>8. Mute(y, z)
  BY <1>6, <1>7, MuteTwice, MuteFields
<1> HIDE DEF z
<1>9. Mute(z, e)
  BY StopMute, MuteFields
<1> HIDE DEF e
<1>10. Mute(f, e)
  BY <1>5, <1>8, <1>9, MuteTwice
<1>11. Carries(f)
  BY <1>3, <1>4 DEF Pours
<1>12. Drained(f) => Drained(e)
  BY <1>10, <1>11, MuteDrained
<1>13. e.inside = f.inside /\ e.buffer = f.buffer
  BY <1>10, <1>11 DEF Mute, AsIs
<1>14. Pours(x, e)
  BY <1>3, <1>4, <1>10, MutePours, PoursTwice
<1>15. Drained(x) => Drained(e) /\ (e.inside \/ e.buffer = <<>>)
  BY <1>3, <1>4, <1>12, <1>13
<1> QED BY <1>1, <1>14, <1>15

-----------------------------------------------------------------------------
(* What was said upstream.                                                 *)

Saying(e) == IF e.kind = "text" THEN e.text ELSE <<>>
Sayings(events) == [i \in DOMAIN events |-> Saying(events[i])]
Words(c, events) == Count(c, TextOf(events))

LEMMA WordsAre ==
    ASSUME NEW events \in Seq(UpstreamEvent), NEW c
    PROVE  /\ Sayings(events) \in Seq(Seq(Char)) /\ Len(Sayings(events)) = Len(events)
           /\ Words(c, events) = Total(c, Sayings(events)) /\ Words(c, events) \in Nat
<1>1. ASSUME NEW e \in UpstreamEvent PROVE Saying(e) \in Seq(Char)
  BY NoText DEF Saying, UpstreamEvent
<1>2. Len(events) \in Nat /\ DOMAIN events = 1 .. Len(events)
      /\ \A i \in 1 .. Len(events) : events[i] \in UpstreamEvent
  OBVIOUS
<1>3. Sayings(events) = [i \in 1 .. Len(events) |-> Saying(events[i])]
  BY <1>2 DEF Sayings
<1>4. \A i \in 1 .. Len(events) : Saying(events[i]) \in Seq(Char)
  BY <1>1, <1>2
<1>5. Sayings(events) \in Seq(Seq(Char)) /\ Len(Sayings(events)) = Len(events)
  BY <1>2, <1>3, <1>4
<1>6. TextOf(events) = FlattenSeq(Sayings(events))
  BY DEF TextOf, Sayings, Saying
<1>7. Words(c, events) = Total(c, Sayings(events))
  BY <1>6 DEF Words, Total
<1> QED BY <1>5, <1>7, TotalIs

LEMMA WordsAppend ==
    ASSUME NEW events \in Seq(UpstreamEvent), NEW e \in UpstreamEvent, NEW c
    PROVE  /\ Words(c, Append(events, e)) = Words(c, events) + Count(c, Saying(e))
           /\ Count(c, Saying(e)) \in Nat
<1> DEFINE more == Append(events, e)
           n == Len(events)
           one == Saying(e)
<1>1. /\ more \in Seq(UpstreamEvent) /\ n \in Nat /\ Len(more) = n + 1
      /\ DOMAIN more = 1 .. n + 1 /\ DOMAIN events = 1 .. n
      /\ more[n + 1] = e /\ \A i \in 1 .. n : more[i] = events[i]
  OBVIOUS
<1>2. one \in Seq(Char)
  BY NoText DEF Saying, UpstreamEvent
<1> DEFINE s == Sayings(events)
           t == Sayings(more)
<1> HIDE DEF more, one
<1>3. s = [i \in 1 .. n |-> Saying(events[i])] /\ t = [i \in 1 .. n + 1 |-> Saying(more[i])]
  BY <1>1 DEF Sayings
<1>4. /\ s \in Seq(Seq(Char)) /\ Len(s) = n /\ Words(c, events) = Total(c, s)
      /\ t \in Seq(Seq(Char)) /\ Len(t) = n + 1 /\ Words(c, more) = Total(c, t)
  BY <1>1, WordsAre
<1> HIDE DEF s, t, n
<1>5. t = Append(s, one)
  <2>1. /\ Append(s, one) \in Seq(Seq(Char)) /\ Len(Append(s, one)) = n + 1
        /\ Append(s, one)[n + 1] = one /\ \A i \in 1 .. n : Append(s, one)[i] = s[i]
    BY <1>2, <1>4, Appended
  <2>2. ASSUME NEW i \in 1 .. n + 1 PROVE t[i] = Append(s, one)[i]
    <3>1. CASE i \in 1 .. n
      BY <1>1, <1>3, <2>1, <3>1
    <3>2. CASE i \notin 1 .. n
      <4>1. i = n + 1
        BY <1>1, <3>2
      <4> QED BY <1>1, <1>3, <2>1, <4>1 DEF one
    <3> QED BY <3>1, <3>2
  <2> QED BY <1>4, <2>1, <2>2, SameSeq
<1>6. Total(c, Append(s, one)) = Total(c, s) + Count(c, one)
  BY <1>2, <1>4, TotalAppend
<1>7. Count(c, one) \in Nat
  BY <1>2, CountIs
<1> QED BY <1>4, <1>5, <1>6, <1>7 DEF more, one

\* What was said first was said.
LEMMA WordsPrefix ==
    ASSUME NEW events \in Seq(UpstreamEvent), NEW k \in 0 .. Len(events), NEW c
    PROVE  /\ SubSeq(events, 1, k) \in Seq(UpstreamEvent)
           /\ Words(c, SubSeq(events, 1, k)) <= Words(c, events)
           /\ Words(c, SubSeq(events, 1, k)) \in Nat
<1> DEFINE first == SubSeq(events, 1, k)
           n == Len(events)
           s == Sayings(events)
           a == Sayings(first)
           rest == Beyond(s, k)
<1>1. /\ first \in Seq(UpstreamEvent) /\ Len(first) = k /\ \A i \in 1 .. k : first[i] = events[i]
      /\ n \in Nat /\ k \in Nat /\ k <= n /\ DOMAIN events = 1 .. n
  <2>1. Len(events) \in Nat /\ DOMAIN events = 1 .. Len(events)
    OBVIOUS
  <2> QED BY <2>1, BeyondIs
<1> HIDE DEF first
<1>2. DOMAIN first = 1 .. k
  BY <1>1
<1>3. s = [i \in 1 .. n |-> Saying(events[i])] /\ a = [i \in 1 .. k |-> Saying(first[i])]
  BY <1>1, <1>2 DEF Sayings
<1>4. /\ s \in Seq(Seq(Char)) /\ Len(s) = n /\ Words(c, events) = Total(c, s)
      /\ a \in Seq(Seq(Char)) /\ Len(a) = k /\ Words(c, first) = Total(c, a)
  BY <1>1, WordsAre
<1> HIDE DEF s, a, n
<1>5. /\ rest \in Seq(Seq(Char)) /\ SubSeq(s, 1, k) \in Seq(Seq(Char)) /\ Len(SubSeq(s, 1, k)) = k
      /\ \A i \in 1 .. k : SubSeq(s, 1, k)[i] = s[i]
      /\ s = SubSeq(s, 1, k) \o rest
  <2>1. k \in 0 .. Len(s)
    BY <1>1, <1>4
  <2>2. rest = Beyond(s, k)
    OBVIOUS
  <2>3. s \in Seq(Seq(Char))
    BY <1>4
  <2> HIDE DEF rest
  <2>4. /\ Beyond(s, k) \in Seq(Seq(Char)) /\ SubSeq(s, 1, k) \in Seq(Seq(Char))
        /\ Len(SubSeq(s, 1, k)) = k /\ \A i \in 1 .. k : SubSeq(s, 1, k)[i] = s[i]
        /\ s = SubSeq(s, 1, k) \o Beyond(s, k)
    BY <2>1, <2>3, BeyondIs
  <2> QED BY <2>2, <2>4
<1>6. a = SubSeq(s, 1, k)
  <2> DEFINE f == SubSeq(s, 1, k)
  <2>1. \A i \in 1 .. k : a[i] = f[i]
    <3>1. \A i \in 1 .. k : i \in 1 .. n
      BY <1>1
    <3> QED BY <1>1, <1>3, <1>5, <3>1
  <2>2. f \in Seq(Seq(Char)) /\ Len(f) = k
    BY <1>5
  <2> HIDE DEF f
  <2>3. a = f
    BY <1>4, <2>1, <2>2, SameSeq
  <2> QED BY <2>3 DEF f
<1> HIDE DEF rest
<1>7. s = a \o rest
  BY <1>5, <1>6
<1>8. Total(c, a \o rest) = Total(c, a) + Total(c, rest)
  BY <1>4, <1>5, TotalJoin
<1>9. Total(c, a) \in Nat /\ Total(c, rest) \in Nat
  BY <1>4, <1>5, TotalIs
<1>10. Total(c, s) = Total(c, a) + Total(c, rest)
  BY <1>7, <1>8
<1>11. Words(c, first) <= Words(c, events) /\ Words(c, first) \in Nat
  BY <1>4, <1>9, <1>10
<1> QED BY <1>1, <1>11 DEF first

\* One event more: what was said before, and now.
LEMMA OneMore ==
    ASSUME NEW events \in Seq(UpstreamEvent), NEW e \in UpstreamEvent
    PROVE  LET more == Append(events, e)
               n    == Len(events)
           IN  /\ more \in Seq(UpstreamEvent) /\ n \in Nat
               /\ DOMAIN more = 1 .. n + 1 /\ DOMAIN events = 1 .. n
               /\ more[n + 1] = e /\ SubSeq(more, 1, n + 1) = more
               /\ \A i \in 1 .. n : more[i] = events[i] /\ SubSeq(more, 1, i) = SubSeq(events, 1, i)
<1> DEFINE more == Append(events, e)
           n == Len(events)
<1>1. /\ more \in Seq(UpstreamEvent) /\ n \in Nat /\ Len(more) = n + 1
      /\ DOMAIN more = 1 .. n + 1 /\ DOMAIN events = 1 .. n
      /\ more[n + 1] = e /\ \A i \in 1 .. n : more[i] = events[i]
  OBVIOUS
<1> HIDE DEF more
<1>2. SubSeq(more, 1, n + 1) = more
  <2>1. SubSeq(more, 1, Len(more)) = more
    BY <1>1
  <2> QED BY <1>1, <2>1
<1>3. ASSUME NEW i \in 1 .. n PROVE SubSeq(more, 1, i) = SubSeq(events, 1, i)
  <2>1. i \in 0 .. Len(more) /\ i \in 0 .. Len(events) /\ \A k \in 1 .. i : k \in 1 .. n
    BY <1>1
  <2> DEFINE a == SubSeq(more, 1, i)
             b == SubSeq(events, 1, i)
  <2>2. /\ a \in Seq(UpstreamEvent) /\ Len(a) = i /\ \A k \in 1 .. i : a[k] = more[k]
        /\ b \in Seq(UpstreamEvent) /\ Len(b) = i /\ \A k \in 1 .. i : b[k] = events[k]
    BY <1>1, <2>1, BeyondIs
  <2> HIDE DEF a, b
  <2>3. \A k \in 1 .. i : a[k] = b[k]
    BY <1>1, <2>1, <2>2
  <2>4. a = b
    BY <2>2, <2>3, SameSeq
  <2> QED BY <2>4 DEF a, b
<1> QED BY <1>1, <1>2, <1>3 DEF more

-----------------------------------------------------------------------------
(* What has been said upstream is with the client, on its way or held back. *)

\* b: what the client has, and what it is owed.
Settled(x, events, b) == \A c \in Letter : b[c] + Within(c, x) = Words(c, events)

Reasoned(events) == \E i \in DOMAIN events : events[i].kind = "reasoning"

\* Native reasoning drops what is held back; without it nothing is lost.
Poured(x, events, b) ==
    /\ x.native => x.thinking /\ Reasoned(events)
    /\ ~x.native => Drained(x) /\ Settled(x, events, b)

LEMMA ReasonedMore ==
    ASSUME NEW events \in Seq(UpstreamEvent), NEW e \in UpstreamEvent
    PROVE  Reasoned(events) \/ e.kind = "reasoning" => Reasoned(Append(events, e))
<1> DEFINE more == Append(events, e)
           n == Len(events)
<1>1. /\ n \in Nat /\ DOMAIN more = 1 .. n + 1 /\ DOMAIN events = 1 .. n
      /\ more[n + 1] = e /\ \A i \in 1 .. n : more[i] = events[i]
  BY OneMore
<1> HIDE DEF more, n
<1>2. n + 1 \in 1 .. n + 1 /\ \A i \in 1 .. n : i \in 1 .. n + 1
  BY <1>1
<1>3. e.kind = "reasoning" => Reasoned(more)
  BY <1>1, <1>2 DEF Reasoned
<1>4. Reasoned(events) => Reasoned(more)
  BY <1>1, <1>2 DEF Reasoned
<1> QED BY <1>3, <1>4 DEF more

\* An event whose text is held back or said.
LEMMA PouredMore ==
    ASSUME NEW x, Carries(x), NEW events \in Seq(UpstreamEvent), NEW e \in UpstreamEvent,
           NEW b \in [Letter -> Nat], Poured(x, events, b), NEW y, Carries(y),
           y.thinking = x.thinking, y.native = x.native,
           \A c \in Letter : Within(c, y) = Within(c, x) + Count(c, Saying(e)),
           ~x.native => Drained(y)
    PROVE  Poured(y, Append(events, e), b)
<1> DEFINE more == Append(events, e)
<1>1. ASSUME NEW c \in Letter
      PROVE  /\ Words(c, more) = Words(c, events) + Count(c, Saying(e))
             /\ Count(c, Saying(e)) \in Nat /\ Words(c, events) \in Nat
             /\ Within(c, x) \in Nat /\ b[c] \in Nat
  BY WordsAppend, WordsAre, CarriesCounts
<1>2. y.native => y.thinking /\ Reasoned(more)
  BY ReasonedMore DEF Poured
<1> HIDE DEF more
<1>3. ASSUME ~y.native PROVE Drained(y) /\ Settled(y, more, b)
  <2>1. Settled(x, events, b) /\ Drained(y)
    BY <1>3 DEF Poured
  <2>2. ASSUME NEW c \in Letter PROVE b[c] + Within(c, y) = Words(c, more)
    <3>1. b[c] + Within(c, x) = Words(c, events)
      BY <2>1 DEF Settled
    <3>2. Within(c, y) = Within(c, x) + Count(c, Saying(e))
      OBVIOUS
    <3> QED BY <1>1, <3>1, <3>2
  <2> QED BY <2>1, <2>2 DEF Settled
<1>4. Poured(y, more, b)
  BY <1>2, <1>3 DEF Poured
<1> QED BY <1>4 DEF more

LEMMA MutePoured ==
    ASSUME NEW x, Carries(x), NEW events \in Seq(UpstreamEvent), NEW e \in UpstreamEvent,
           NEW b \in [Letter -> Nat], Poured(x, events, b), NEW y, Mute(x, y),
           e.kind \notin {"text", "tool"} \/ (e.kind = "text" /\ e.text = <<>>)
    PROVE  Poured(y, Append(events, e), b)
<1>1. Carries(y) /\ AsIs(x, y) /\ \A c : Spoken(c, y.out) = Spoken(c, x.out)
  BY DEF Mute
<1>2. Saying(e) = <<>>
  BY DEF Saying
<1>3. ASSUME NEW c \in Letter PROVE Within(c, y) = Within(c, x) + Count(c, Saying(e))
  <2>1. Count(c, Saying(e)) = 0 /\ Within(c, x) \in Nat
    BY <1>2, CountNone, CarriesCounts
  <2>2. Within(c, y) = Within(c, x)
    BY <1>1 DEF Within, AsIs
  <2> QED BY <2>1, <2>2
<1>4. ~x.native => Drained(y)
  BY MuteDrained DEF Poured
<1>5. y.thinking = x.thinking /\ y.native = x.native
  BY <1>1 DEF AsIs
<1> QED BY <1>1, <1>3, <1>4, <1>5, PouredMore

LEMMA ToolPoured ==
    ASSUME NEW x, Carries(x), NEW events \in Seq(UpstreamEvent), NEW e \in UpstreamEvent,
           NEW b \in [Letter -> Nat], Poured(x, events, b), e.kind = "tool"
    PROVE  Poured(ToolUse(x, e.tool, e.input, e.stop), Append(events, e), b)
<1> DEFINE y == ToolUse(x, e.tool, e.input, e.stop)
<1>1. Pours(x, y) /\ (Drained(x) => Drained(y) /\ (y.inside \/ y.buffer = <<>>))
  BY ToolUsePours
<1> HIDE DEF y
<1>2. /\ Carries(y) /\ y.thinking = x.thinking /\ y.native = x.native
      /\ \A c \in Letter : Within(c, y) = Within(c, x)
  BY <1>1 DEF Pours
<1>3. ASSUME NEW c \in Letter PROVE Within(c, y) = Within(c, x) + Count(c, Saying(e))
  <2>1. Count(c, Saying(e)) = 0
    <3>1. Saying(e) = <<>>
      BY DEF Saying
    <3> QED BY <3>1, CountNone
  <2>2. Within(c, x) \in Nat /\ Within(c, y) = Within(c, x)
    BY <1>2, CarriesCounts
  <2> QED BY <2>1, <2>2
<1>4. ~x.native => Drained(y)
  BY <1>1 DEF Poured
<1>5. Poured(y, Append(events, e), b)
  BY <1>2, <1>3, <1>4, PouredMore
<1> QED BY <1>5 DEF y

LEMMA TextPoured ==
    ASSUME NEW x, Carries(x), NEW events \in Seq(UpstreamEvent), NEW e \in UpstreamEvent,
           NEW b \in [Letter -> Nat], Poured(x, events, b), e.kind = "text"
    PROVE  Poured(AssistantResponse(x, e.text), Append(events, e), b)
<1> DEFINE text == e.text
           p == [x EXCEPT !.produced = TRUE]
           r == CloseReasoning(p)
           z == [r EXCEPT !.buffer = @ \o text]
           s == Scan(z)
           d == TextDelta(r, text)
<1>1. text \in Seq(Char) /\ Saying(e) = text
  BY DEF UpstreamEvent, Saying
<1>2. CASE text = <<>>
  <2>1. AssistantResponse(x, text) = x
    BY <1>2 DEF AssistantResponse
  <2>2. Mute(x, x)
    BY MuteFields
  <2> QED BY <1>2, <2>1, <2>2, MutePoured
<1>3. CASE text # <<>>
  <2>1. AssistantResponse(x, text) = IF r.thinking /\ ~r.native THEN s ELSE d
    BY <1>3 DEF AssistantResponse
  <2> HIDE DEF text
  <2>2. Mute(x, r)
    BY CloseMute, MuteFields, MuteTwice
  <2> HIDE DEF p, r
  <2>3. /\ Carries(r) /\ AsIs(x, r) /\ \A c : Spoken(c, r.out) = Spoken(c, x.out)
    BY <2>2 DEF Mute
  <2>4. ASSUME NEW c \in Letter
        PROVE  /\ Within(c, r) = Within(c, x) /\ Count(c, r.buffer) = Count(c, x.buffer)
               /\ Within(c, x) \in Nat /\ Count(c, x.buffer) \in Nat /\ Count(c, text) \in Nat
               /\ Spoken(c, r.out) \in Nat
    BY <1>1, <2>3, CarriesCounts, CountIs DEF Within, AsIs
  <2>5. CASE r.thinking /\ ~r.native
    <3>1. /\ DOMAIN z = Fields /\ z.out = r.out /\ z.blocks = r.blocks /\ z.thinking = r.thinking
          /\ z.native = r.native /\ z.buffer = r.buffer \o text /\ z.inside = r.inside
          /\ z.extracted = r.extracted
      BY <2>3 DEF Carries, Fields
    <3> HIDE DEF z
    <3>2. r.buffer \in Seq(Char) /\ z.buffer \in Seq(Char)
      BY <1>1, <2>3, <3>1 DEF Carries
    <3>3. Carries(z)
      BY <2>3, <3>1, <3>2 DEF Carries
    <3>4. ASSUME NEW c \in Letter
          PROVE  /\ Count(c, z.buffer) = Count(c, x.buffer) + Count(c, text)
                 /\ Within(c, z) = Within(c, x) + Count(c, text)
      <4>1. Count(c, r.buffer \o text) = Count(c, r.buffer) + Count(c, text)
        BY <1>1, <3>2, CountJoin
      <4>2. Count(c, z.buffer) = Count(c, r.buffer) + Count(c, text) /\ Spoken(c, z.out) = Spoken(c, r.out)
        BY <3>1, <4>1
      <4>3. Count(c, r.buffer) \in Nat /\ Spoken(c, r.out) \in Nat /\ Count(c, text) \in Nat
        BY <2>4
      <4>4. Within(c, z) = Within(c, r) + Count(c, text)
        BY <4>2, <4>3 DEF Within
      <4> QED BY <2>4, <4>2, <4>4
    <3>5. /\ Pours(z, s)
          /\ s.inside \/ s.buffer = <<>> \/ ~(z.inside \/ z.extracted)
          /\ s.extracted /\ ~s.inside => s.buffer = <<>>
      BY <3>3, ScanPours
    <3> HIDE DEF s
    <3>6. Carries(s) /\ s.thinking = z.thinking /\ s.native = z.native
      BY <3>3, <3>5 DEF Pours
    <3>7. ASSUME NEW c \in Letter PROVE Within(c, s) = Within(c, x) + Count(c, Saying(e))
      <4>1. Within(c, s) = Within(c, z)
        BY <3>3, <3>5 DEF Pours
      <4> QED BY <1>1, <3>4, <4>1
    <3>8. s.thinking = x.thinking /\ s.native = x.native
      BY <2>3, <3>1, <3>6 DEF AsIs
    <3>9. s.thinking
      BY <2>5, <3>1, <3>6
    <3>10. Drained(s)
      BY <3>5, <3>9 DEF Drained
    <3>11. Poured(s, Append(events, e), b)
      BY <3>6, <3>7, <3>8, <3>10, PouredMore
    <3> QED BY <2>1, <2>5, <3>11 DEF text
  <2>6. CASE ~(r.thinking /\ ~r.native)
    <3>1. Says(r, d, text)
      BY <1>1, TextSays
    <3> HIDE DEF d
    <3>2. Carries(d) /\ AsIs(r, d) /\ \A c \in Letter : Spoken(c, d.out) = Spoken(c, r.out) + Count(c, text)
      BY <2>3, <3>1 DEF Says
    <3>3. ASSUME NEW c \in Letter PROVE Within(c, d) = Within(c, x) + Count(c, Saying(e))
      <4>1. Spoken(c, d.out) = Spoken(c, r.out) + Count(c, text) /\ Count(c, d.buffer) = Count(c, r.buffer)
        BY <3>2 DEF AsIs
      <4>2. Within(c, d) = Within(c, r) + Count(c, text)
        BY <2>4, <4>1 DEF Within
      <4> QED BY <1>1, <2>4, <4>1, <4>2
    <3>4. AsIs(x, d)
      BY <2>3, <3>2 DEF AsIs
    <3>5. d.thinking = x.thinking /\ d.native = x.native
      BY <3>4 DEF AsIs
    <3>6. ~x.native => Drained(d)
      BY <3>4 DEF Poured, Drained, AsIs
    <3>7. Poured(d, Append(events, e), b)
      BY <3>2, <3>3, <3>5, <3>6, PouredMore
    <3> QED BY <2>1, <2>6, <3>7 DEF text
  <2> QED BY <2>5, <2>6
<1> QED BY <1>2, <1>3

\* Native reasoning is left out, or ends the scan for tags.
LEMMA ReasoningSays ==
    ASSUME NEW x, Carries(x), NEW text \in Seq(Char), NEW signed
    PROVE  LET y == ReasoningContent(x, text, signed)
           IN  \/ Mute(x, y)
               \/ Carries(y) /\ y.native /\ y.thinking
<1> DEFINE sg == x.signature \/ signed
           y == [x EXCEPT !.signature = sg]
           f == [y EXCEPT !.native = TRUE, !.buffer = <<>>, !.inside = FALSE, !.extracted = FALSE]
           z == IF y.native THEN y ELSE f
           at == Len(z.blocks) + 1
           u == [z EXCEPT !.thinkAt = at, !.reasoning = TRUE]
           w == IF z.reasoning THEN z ELSE StartBlock(u, "thinking")
           p == [w EXCEPT !.produced = TRUE]
           e == ThinkingDelta(p, text)
<1>1. ReasoningContent(x, text, signed) =
         IF text = <<>> \/ ~x.thinking \/ (x.textAt # 0 /\ ~x.reasoning) THEN y ELSE e
  <2>1. y = [x EXCEPT !.signature = @ \/ signed]
    BY DEF Carries, Fields
  <2> HIDE DEF y
  <2> QED BY <2>1 DEF ReasoningContent
<1>2. Mute(x, y)
  <2> HIDE DEF sg
  <2> QED BY MuteFields
<1> HIDE DEF y
<1>3. Carries(y) /\ y.thinking = x.thinking
  BY <1>2 DEF Mute, AsIs
<1>4. Carries(f) /\ f.native = TRUE /\ f.thinking = y.thinking
  <2>1. /\ DOMAIN f = Fields /\ f.out = y.out /\ f.blocks = y.blocks /\ f.buffer = <<>>
        /\ f.native = TRUE /\ f.thinking = y.thinking
    BY <1>3 DEF Carries, Fields
  <2> HIDE DEF f
  <2> QED BY <1>3, <2>1, NoText DEF Carries
<1> HIDE DEF f
<1>5. Carries(z) /\ z.native /\ z.thinking = x.thinking
  BY <1>3, <1>4
<1> HIDE DEF z, at
<1>6. Carries(u) /\ u.native = z.native /\ u.thinking = z.thinking
  <2>1. /\ DOMAIN u = Fields /\ u.out = z.out /\ u.blocks = z.blocks /\ u.buffer = z.buffer
        /\ u.native = z.native /\ u.thinking = z.thinking
    BY <1>5 DEF Carries, Fields
  <2> HIDE DEF u
  <2> QED BY <1>5, <2>1 DEF Carries
<1> HIDE DEF u
<1>7. Mute(u, StartBlock(u, "thinking"))
  BY StartMute DEF BlockType
<1>8. Carries(w) /\ w.native = z.native /\ w.thinking = z.thinking
  BY <1>5, <1>6, <1>7 DEF Mute, AsIs
<1> HIDE DEF w
<1>9. Mute(w, p)
  BY MuteFields
<1> HIDE DEF p
<1>10. Says(p, e, text)
  BY ThinkingSays
<1>11. Carries(e) /\ e.native = w.native /\ e.thinking = w.thinking
  BY <1>8, <1>9, <1>10 DEF Mute, Says, AsIs
<1> HIDE DEF e
<1>12. CASE text = <<>> \/ ~x.thinking \/ (x.textAt # 0 /\ ~x.reasoning)
  BY <1>1, <1>2, <1>12
<1>13. CASE ~(text = <<>> \/ ~x.thinking \/ (x.textAt # 0 /\ ~x.reasoning))
  <2>1. x.thinking
    BY <1>13
  <2>2. e.native /\ e.thinking
    BY <1>5, <1>8, <1>11, <2>1
  <2> QED BY <1>1, <1>11, <1>13, <2>2
<1> QED BY <1>12, <1>13

LEMMA FailureMute ==
    ASSUME NEW x, NEW kind
    PROVE  Mute(x, MarkFailure(x, kind))
BY MuteFields DEF MarkFailure

LEMMA OnEventPoured ==
    ASSUME NEW x, Carries(x), NEW events \in Seq(UpstreamEvent), NEW e \in UpstreamEvent,
           NEW b \in [Letter -> Nat], Poured(x, events, b)
    PROVE  Poured(OnEvent(x, e), Append(events, e), b)
<1> DEFINE y == OnEvent(x, e)
<1>1. CASE e.kind = "text"
  BY <1>1, TextPoured DEF OnEvent
<1>2. CASE e.kind = "reasoning"
  <2>1. e.text \in Seq(Char) /\ e.signed \in BOOLEAN
    BY <1>2 DEF UpstreamEvent
  <2>2. y = ReasoningContent(x, e.text, e.signed)
    BY <1>2 DEF OnEvent
  <2> HIDE DEF y
  <2>3. Mute(x, y) \/ (Carries(y) /\ y.native /\ y.thinking)
    BY <2>1, <2>2, ReasoningSays
  <2>4. CASE Mute(x, y)
    <3>1. Poured(y, Append(events, e), b)
      BY <1>2, <2>4, MutePoured
    <3> QED BY <3>1 DEF y
  <2>5. CASE Carries(y) /\ y.native /\ y.thinking
    <3>1. Reasoned(Append(events, e))
      BY <1>2, ReasonedMore
    <3>2. Poured(y, Append(events, e), b)
      BY <2>5, <3>1 DEF Poured
    <3> QED BY <3>2 DEF y
  <2> QED BY <2>3, <2>4, <2>5
<1>3. CASE e.kind = "tool"
  BY <1>3, ToolPoured DEF OnEvent
<1>4. CASE e.kind \notin {"text", "reasoning", "tool"}
  <2>1. Mute(x, y)
    BY <1>4, FailureMute, MuteFields DEF OnEvent, ContextUsage, Exception, Ignored
  <2> HIDE DEF y
  <2>2. Poured(y, Append(events, e), b)
    BY <1>4, <2>1, MutePoured
  <2> QED BY <2>2 DEF y
<1> QED BY <1>1, <1>2, <1>3, <1>4

-----------------------------------------------------------------------------
(* The last events of an answer.                                           *)

\* What is said without an event.
LEMMA PoursStays ==
    ASSUME NEW x, Carries(x), NEW events \in Seq(UpstreamEvent), NEW b, Poured(x, events, b),
           NEW y, Pours(x, y), ~x.native => Drained(y)
    PROVE  Poured(y, events, b)
<1>1. /\ y.thinking = x.thinking /\ y.native = x.native
      /\ \A c \in Letter : Within(c, y) = Within(c, x)
  BY DEF Pours
<1>2. ASSUME ~x.native PROVE Drained(y) /\ Settled(y, events, b)
  BY <1>1, <1>2 DEF Poured, Settled
<1> QED BY <1>1, <1>2 DEF Poured

LEMMA MuteStays ==
    ASSUME NEW x, Carries(x), NEW events \in Seq(UpstreamEvent), NEW b, Poured(x, events, b),
           NEW y, Mute(x, y)
    PROVE  Poured(y, events, b) /\ Carries(y) /\ AsIs(x, y)
<1>1. Carries(y) /\ AsIs(x, y) /\ Pours(x, y)
  BY MutePours DEF Mute
<1>2. ~x.native => Drained(y)
  BY MuteDrained DEF Poured
<1> QED BY <1>1, <1>2, PoursStays

LEMMA SaysBlank ==
    ASSUME NEW x, Carries(x), NEW text \in Seq(Char), Blank(text), NEW y, Says(x, y, text)
    PROVE  Pours(x, y) /\ AsIs(x, y)
<1>1. Carries(y) /\ AsIs(x, y) /\ \A c \in Letter : Spoken(c, y.out) = Spoken(c, x.out) + Count(c, text)
  BY DEF Says
<1>2. ASSUME NEW c \in Letter
      PROVE  Within(c, y) = Within(c, x) /\ Count(c, y.buffer) <= Count(c, x.buffer)
  <2>1. Count(c, text) = 0 /\ Spoken(c, x.out) \in Nat /\ Count(c, x.buffer) \in Nat
    BY BlankCount, CarriesCounts
  <2>2. Spoken(c, y.out) = Spoken(c, x.out) + Count(c, text) /\ y.buffer = x.buffer
    BY <1>1 DEF AsIs
  <2>3. Spoken(c, y.out) = Spoken(c, x.out)
    BY <2>1, <2>2
  <2> QED BY <2>1, <2>2, <2>3 DEF Within
<1>3. y.thinking = x.thinking /\ y.native = x.native
  BY <1>1 DEF AsIs
<1> QED BY <1>1, <1>2, <1>3 DEF Pours

LEMMA FlushAtEndPours ==
    ASSUME NEW x, Carries(x)
    PROVE  LET y == FlushAtEnd(x)
           IN  Pours(x, y) /\ (Drained(x) => Drained(y) /\ y.buffer = <<>>)
<1> DEFINE s == x.buffer
           p == EndTagAtBufferEnd(s)
           c == CloseFakeThinking(ThinkingDelta(x, s))
           t == TextDelta(x, s)
<1>1. s \in Seq(Char) /\ Divides(s, s, <<>>)
  BY DividesText DEF Carries
<1>2. CASE ~x.thinking \/ s = <<>>
  <2>1. FlushAtEnd(x) = x
    BY <1>2 DEF FlushAtEnd
  <2> QED BY <1>2, <2>1, MuteFields, MutePours DEF Drained
<1>3. CASE x.thinking /\ s # <<>> /\ x.inside /\ p # 0
  <2>1. FlushAtEnd(x) = EndAtTag(x, p)
    BY <1>3 DEF FlushAtEnd
  <2> DEFINE y == EndAtTag(x, p)
  <2>2. Pours(x, y) /\ y.buffer = <<>> /\ y.inside = FALSE
    BY <1>3, EndAtTagPours
  <2> HIDE DEF y
  <2>3. Drained(y)
    BY <2>2 DEF Drained
  <2> QED BY <2>1, <2>2, <2>3 DEF y
<1>4. ASSUME x.thinking, NEW y, Says(x, y, s)
      PROVE  LET z == [y EXCEPT !.buffer = <<>>]
             IN  Pours(x, z) /\ Drained(z) /\ z.buffer = <<>>
  <2> DEFINE z == [y EXCEPT !.buffer = <<>>]
  <2>1. Carries(y) /\ AsIs(x, y)
    BY <1>4 DEF Says
  <2>2. /\ DOMAIN z = Fields /\ z.out = y.out /\ z.blocks = y.blocks /\ z.thinking = y.thinking
        /\ z.native = y.native /\ z.buffer = <<>>
    BY <2>1 DEF Carries, Fields
  <2> HIDE DEF z
  <2>3. Pours(x, z)
    BY <1>1, <1>4, <2>2, PourOut
  <2>4. z.thinking
    BY <1>4, <2>1, <2>2 DEF AsIs
  <2>5. Drained(z)
    BY <2>2, <2>4 DEF Drained
  <2> QED BY <2>2, <2>3, <2>5 DEF z
<1>5. CASE x.thinking /\ s # <<>> /\ x.inside /\ p = 0
  <2>1. FlushAtEnd(x) = [c EXCEPT !.buffer = <<>>]
    BY <1>5 DEF FlushAtEnd
  <2>2. Says(x, c, s)
    BY <1>1, ThinkingSays, CloseMute, MuteSays
  <2> HIDE DEF c
  <2> QED BY <1>4, <1>5, <2>1, <2>2
<1>6. CASE x.thinking /\ s # <<>> /\ ~x.inside
  <2>1. FlushAtEnd(x) = [t EXCEPT !.buffer = <<>>]
    BY <1>6 DEF FlushAtEnd
  <2>2. Says(x, t, s)
    BY <1>1, TextSays
  <2> HIDE DEF t
  <2> QED BY <1>4, <1>6, <2>1, <2>2
<1> QED BY <1>2, <1>3, <1>5, <1>6

LEMMA FinalPoured ==
    ASSUME NEW v \in View, NEW x \in Steady(v), NEW events \in Seq(UpstreamEvent), NEW b,
           Poured(x, events, b)
    PROVE  LET z == Final(x)
           IN  /\ Poured(z, events, b)
               /\ z.failure = "none" /\ ~z.native => z.buffer = <<>>
<1> DEFINE y == IF ProducedAnyContent(x) THEN x ELSE MarkFailure(x, "empty_response")
           c == CloseReasoning(y)
           f == FlushAtEnd(c)
           h == [f EXCEPT !.reason = "max_tokens"]
           d == TextDelta(h, <<"s">>)
           t == TextAfterThinking(f)
<1>1. Carries(x)
  BY SteadyIs, ContextCarries
<1>2. y \in Steady(v) /\ Mute(x, y)
  <2>1. "empty_response" \in Failure
    BY DEF Failure
  <2> QED BY <2>1, MarkFailureKeeps, FailureMute, MuteFields
<1>3. Final(x) = IF y.failure # "none" THEN EndInError(y) ELSE EndMessage(t)
  BY DEF Final
<1> HIDE DEF y
<1>4. Poured(y, events, b) /\ Carries(y)
  BY <1>1, <1>2, MuteStays
<1>5. CASE y.failure # "none"
  <2> DEFINE s == SignAndStopAll(CloseReasoning(y))
             e == Emit(s, "error", {}, y.failure, <<>>)
  <2>1. EndInError(y) = e
    BY DEF EndInError
  <2>2. Mute(y, s)
    BY CloseMute, StopMute, MuteTwice
  <2> HIDE DEF s
  <2>3. Mute(s, e)
    BY EmitSays DEF Speaking
  <2>4. Mute(y, e)
    BY <2>2, <2>3, MuteTwice
  <2>5. e.failure # "none"
    BY <1>2, <1>5, <2>1, EndInErrorKeeps
  <2>6. Poured(e, events, b)
    BY <1>4, <2>4, MuteStays
  <2> QED BY <1>3, <1>5, <2>1, <2>5, <2>6
<1>6. CASE y.failure = "none"
  <2>1. Mute(y, c)
    BY CloseMute
  <2> HIDE DEF c
  <2>2. Poured(c, events, b) /\ Carries(c)
    BY <1>4, <2>1, MuteStays
  <2>3. Pours(c, f) /\ (Drained(c) => Drained(f) /\ f.buffer = <<>>)
    BY <2>2, FlushAtEndPours
  <2> HIDE DEF f
  <2>4. Carries(f) /\ f.native = c.native
    BY <2>2, <2>3 DEF Pours
  <2>5. ~f.native => Drained(f) /\ f.buffer = <<>>
    BY <2>2, <2>3, <2>4 DEF Poured
  <2>6. Poured(f, events, b)
    BY <2>2, <2>3, <2>4, <2>5, PoursStays
  <2>7. Mute(f, h)
    BY MuteFields
  <2> HIDE DEF h
  <2>8. Poured(h, events, b) /\ Carries(h) /\ AsIs(f, h)
    BY <2>4, <2>6, <2>7, MuteStays
  <2>9. <<"s">> \in Seq(Char) /\ Blank(<<"s">>)
    BY DEF Char, Blank, White
  <2>10. Says(h, d, <<"s">>)
    BY <2>9, TextSays
  <2>11. Pours(h, d) /\ AsIs(h, d)
    BY <2>8, <2>9, <2>10, SaysBlank
  <2> HIDE DEF d
  <2>12. Carries(d) /\ AsIs(f, d)
    BY <2>8, <2>11 DEF AsIs, Pours
  <2>13. Drained(h) => Drained(d)
    BY <2>11 DEF AsIs, Drained
  <2>14. Poured(d, events, b)
    <3>1. ~h.native => Drained(d)
      BY <2>8, <2>13 DEF Poured
    <3> QED BY <2>8, <2>11, <3>1, PoursStays
  <2>15. t = d \/ t = f
    BY DEF TextAfterThinking, d, h
  <2> HIDE DEF t
  <2>16. Poured(t, events, b) /\ Carries(t) /\ AsIs(f, t)
    <3>1. AsIs(f, f)
      BY DEF AsIs
    <3> QED BY <2>4, <2>6, <2>12, <2>14, <2>15, <3>1
  <2> DEFINE s == Stop(t, OpenBlocks(t))
             m == Emit(s, "message_delta", {}, StopReason(t), <<>>)
             e == Emit(m, "message_stop", {}, "", <<>>)
  <2>17. EndMessage(t) = e
    BY DEF EndMessage
  <2>18. Mute(t, s)
    BY StopMute
  <2> HIDE DEF s
  <2>19. Mute(s, m)
    BY EmitSays DEF Speaking
  <2> HIDE DEF m
  <2>20. Mute(m, e)
    BY EmitSays DEF Speaking
  <2> HIDE DEF e
  <2>21. Mute(t, e)
    BY <2>18, <2>19, <2>20, MuteTwice
  <2>22. Poured(e, events, b) /\ AsIs(t, e)
    BY <2>16, <2>21, MuteStays
  <2>23. e.native = f.native /\ e.buffer = f.buffer
    BY <2>16, <2>22 DEF AsIs
  <2>24. ~e.native => e.buffer = <<>>
    BY <2>5, <2>23
  <2> QED BY <1>3, <1>6, <2>17, <2>22, <2>24
<1> QED BY <1>5, <1>6

-----------------------------------------------------------------------------
(* What the client has been told.                                          *)

Writ(b, type) == IF b.type = type THEN b.text ELSE <<>>
Page(c, type) == [i \in DOMAIN c.blocks |-> Writ(c.blocks[i], type)]

\* How often l is in the client's message, spoken or thought.
Heard(l, c) == Total(l, Page(c, "text")) + Total(l, Page(c, "thinking"))

LEMMA ReceivedIs == \A l : Received(l) = Heard(l, client)
BY DEF Received, Shown, Heard, Page, Writ, Total

LEMMA PageIs ==
    ASSUME NEW c \in Client, NEW type
    PROVE  /\ Page(c, type) \in Seq(Seq(Char)) /\ Len(Page(c, type)) = Len(c.blocks)
           /\ Len(c.blocks) \in Nat
           /\ \A i \in 1 .. Len(c.blocks) : Page(c, type)[i] = Writ(c.blocks[i], type)
<1>1. /\ Len(c.blocks) \in Nat /\ DOMAIN c.blocks = 1 .. Len(c.blocks)
      /\ \A i \in DOMAIN c.blocks : c.blocks[i] \in ClientBlock
  BY ViewIs
<1>2. ASSUME NEW b \in ClientBlock PROVE Writ(b, type) \in Seq(Char)
  BY NoText DEF Writ, ClientBlock
<1> DEFINE n == Len(c.blocks)
           s == Page(c, type)
<1>3. n \in Nat /\ s = [i \in 1 .. n |-> Writ(c.blocks[i], type)]
  BY <1>1 DEF Page
<1>4. \A i \in 1 .. n : Writ(c.blocks[i], type) \in Seq(Char)
  BY <1>1, <1>2
<1> HIDE DEF n, s
<1>5. s \in Seq(Seq(Char)) /\ Len(s) = n /\ \A i \in 1 .. n : s[i] = Writ(c.blocks[i], type)
  BY <1>3, <1>4
<1> QED BY <1>3, <1>5 DEF n, s

LEMMA HeardIs == ASSUME NEW c \in Client, NEW l PROVE Heard(l, c) \in Nat
<1>1. Page(c, "text") \in Seq(Seq(Char)) /\ Page(c, "thinking") \in Seq(Seq(Char))
  BY PageIs
<1> DEFINE s == Page(c, "text")
           t == Page(c, "thinking")
<1> HIDE DEF s, t
<1>2. s \in Seq(Seq(Char)) /\ t \in Seq(Seq(Char))
  BY <1>1 DEF s, t
<1>3. Total(l, s) \in Nat /\ Total(l, t) \in Nat
  BY <1>2, TotalIs
<1>4. Heard(l, c) = Total(l, s) + Total(l, t)
  BY DEF Heard, s, t
<1> QED BY <1>3, <1>4

\* The blocks of d are those of c, but that the text of the block i is longer by t.
Filled(c, d, i, t) ==
    /\ i \in DOMAIN c.blocks /\ t \in Seq(Char) /\ Len(d.blocks) = Len(c.blocks)
    /\ d.blocks[i].type = c.blocks[i].type /\ d.blocks[i].text = c.blocks[i].text \o t
    /\ \A k \in 1 .. Len(c.blocks) : k # i => d.blocks[k] = c.blocks[k]

\* The text of one block grows.
LEMMA PageGrows ==
    ASSUME NEW c \in Client, NEW d \in Client, NEW i, NEW t, Filled(c, d, i, t), NEW type, NEW l
    PROVE  Total(l, Page(d, type)) =
              Total(l, Page(c, type)) + (IF c.blocks[i].type = type THEN Count(l, t) ELSE 0)
<1> DEFINE o == c.blocks[i]
           b == d.blocks[i]
           ss == Page(c, type)
           tt == Page(d, type)
           n == Len(c.blocks)
           u == IF b.type = type THEN t ELSE <<>>
<1>1. /\ i \in DOMAIN c.blocks /\ b.type = o.type /\ b.text = o.text \o t /\ t \in Seq(Char)
      /\ Len(d.blocks) = n /\ \A k \in 1 .. n : k # i => d.blocks[k] = c.blocks[k]
  BY DEF Filled
<1>0. o \in ClientBlock /\ i \in 1 .. n
  BY <1>1, ViewIs
<1>2. /\ ss \in Seq(Seq(Char)) /\ Len(ss) = n /\ n \in Nat
      /\ \A k \in 1 .. n : ss[k] = Writ(c.blocks[k], type)
  BY PageIs
<1>3. /\ tt \in Seq(Seq(Char)) /\ Len(tt) = n
      /\ \A k \in 1 .. n : tt[k] = Writ(d.blocks[k], type)
  <2>1. /\ Page(d, type) \in Seq(Seq(Char)) /\ Len(Page(d, type)) = Len(d.blocks)
        /\ \A k \in 1 .. Len(d.blocks) : Page(d, type)[k] = Writ(d.blocks[k], type)
    BY PageIs
  <2> QED BY <1>1, <2>1
<1>4. o.text \in Seq(Char) /\ u \in Seq(Char)
  BY <1>0, <1>1, NoText DEF ClientBlock
<1>5. Count(l, u) = IF b.type = type THEN Count(l, t) ELSE 0
  BY CountNone
<1> HIDE DEF ss, tt, u, n
<1>6. tt[i] = ss[i] \o u
  <2>1. tt[i] = Writ(b, type) /\ ss[i] = Writ(o, type)
    BY <1>0, <1>2, <1>3
  <2>2. CASE b.type = type
    <3>1. Writ(b, type) = o.text \o t /\ Writ(o, type) = o.text /\ u = t
      BY <1>1, <2>2 DEF Writ, u
    <3> QED BY <2>1, <3>1
  <2>3. CASE b.type # type
    <3>1. Writ(b, type) = <<>> /\ Writ(o, type) = <<>> /\ u = <<>>
      BY <1>1, <2>3 DEF Writ, u
    <3>2. <<>> \o <<>> = <<>>
      OBVIOUS
    <3> QED BY <2>1, <3>1, <3>2
  <2> QED BY <2>2, <2>3
<1>7. \A k \in 1 .. Len(ss) : k # i => tt[k] = ss[k]
  BY <1>1, <1>2, <1>3
<1>8. Len(tt) = Len(ss) /\ i \in 1 .. Len(ss)
  BY <1>0, <1>2, <1>3
<1>9. Total(l, tt) = Total(l, ss) + Count(l, u)
  <2>1. Longer(Char, ss, tt, i, u)
    BY <1>2, <1>3, <1>4, <1>6, <1>7, <1>8 DEF Longer
  <2> QED BY <2>1, TotalGrows
<1> QED BY <1>1, <1>5, <1>9 DEF ss, tt

\* d is c with the block b at i, whose text is longer by t.
Put(c, d, i, b, t) ==
    /\ i \in DOMAIN c.blocks /\ b \in ClientBlock /\ t \in Seq(Char)
    /\ b.type = c.blocks[i].type /\ b.text = c.blocks[i].text \o t
    /\ d = [c EXCEPT !.blocks = [c.blocks EXCEPT ![i] = b]]

LEMMA BlockHeard ==
    ASSUME NEW c \in Client, NEW d, NEW i, NEW b, NEW t, Put(c, d, i, b, t), NEW l
    PROVE  Heard(l, d) = Heard(l, c) + (IF b.type \in Speaking THEN Count(l, t) ELSE 0)
<1>0. /\ i \in DOMAIN c.blocks /\ b \in ClientBlock /\ t \in Seq(Char)
      /\ b.type = c.blocks[i].type /\ b.text = c.blocks[i].text \o t
      /\ d = [c EXCEPT !.blocks = [c.blocks EXCEPT ![i] = b]]
  BY DEF Put
<1>1. d \in Client
  BY <1>0, BlockSet
<1>2. c.blocks \in Seq(ClientBlock) /\ i \in 1 .. Len(c.blocks)
  BY <1>0, ViewIs DEF Client
<1> DEFINE s == [c.blocks EXCEPT ![i] = b]
<1>3. Len(s) = Len(c.blocks) /\ \A k \in 1 .. Len(c.blocks) : s[k] = IF k = i THEN b ELSE c.blocks[k]
  BY <1>0, <1>2, ExceptSeq
<1>4. d.blocks = s
  BY <1>0 DEF Client
<1> HIDE DEF s
<1>5. /\ Len(d.blocks) = Len(c.blocks) /\ d.blocks[i] = b
      /\ \A k \in 1 .. Len(c.blocks) : k # i => d.blocks[k] = c.blocks[k]
  BY <1>2, <1>3, <1>4
<1>6. \A type : Total(l, Page(d, type)) =
                   Total(l, Page(c, type)) + (IF b.type = type THEN Count(l, t) ELSE 0)
  <2>1. Filled(c, d, i, t)
    BY <1>0, <1>5 DEF Filled
  <2> QED BY <1>0, <1>1, <2>1, PageGrows
<1> DEFINE x == Total(l, Page(c, "text"))
           y == Total(l, Page(c, "thinking"))
           m == Count(l, t)
<1>7. x \in Nat /\ y \in Nat /\ m \in Nat
  <2>1. Page(c, "text") \in Seq(Seq(Char)) /\ Page(c, "thinking") \in Seq(Seq(Char))
    BY PageIs
  <2>2. \A ss \in Seq(Seq(Char)) : Total(l, ss) \in Nat
    BY TotalIs
  <2> QED BY <1>0, <2>1, <2>2, CountIs
<1>8. /\ Heard(l, d) = (x + (IF b.type = "text" THEN m ELSE 0))
                       + (y + (IF b.type = "thinking" THEN m ELSE 0))
      /\ Heard(l, c) = x + y
  BY <1>6 DEF Heard
<1> HIDE DEF x, y, m
<1>9. Heard(l, d) = Heard(l, c) + (IF b.type \in Speaking THEN m ELSE 0)
  <2>1. CASE b.type = "text"
    BY <1>7, <1>8, <2>1 DEF Speaking
  <2>2. CASE b.type = "thinking"
    BY <1>7, <1>8, <2>2 DEF Speaking
  <2>3. CASE b.type \notin Speaking
    BY <1>7, <1>8, <2>3 DEF Speaking
  <2> QED BY <2>1, <2>2, <2>3 DEF Speaking
<1> QED BY <1>9 DEF m

\* An event other than a delta tells no words.
LEMMA ReceiveMute ==
    ASSUME NEW c \in Client, NEW item, item.ev \in {"signature", "stop"}, NEW i \in DOMAIN c.blocks,
           item.at = {i}, NEW l
    PROVE  Heard(l, Receive(c, item)) = Heard(l, c)
<1> DEFINE o == c.blocks[i]
<1>1. o \in ClientBlock /\ (CHOOSE k \in item.at : TRUE) = i
  BY ViewIs
<1>2. PICK b \in ClientBlock :
         /\ Receive(c, item) = [c EXCEPT !.blocks = [c.blocks EXCEPT ![i] = b]]
         /\ b.type = o.type /\ b.text = o.text
  <2>1. CASE item.ev = "signature"
    <3> DEFINE b == [o EXCEPT !.signatures = o.signatures + 1]
    <3>1. b \in ClientBlock /\ b.type = o.type /\ b.text = o.text
      BY <1>1 DEF ClientBlock
    <3>2. Receive(c, item) = [c EXCEPT !.blocks = [c.blocks EXCEPT ![i] = b]]
      BY <1>1, <2>1 DEF Receive, Client
    <3> QED BY <3>1, <3>2
  <2>2. CASE item.ev = "stop"
    <3> DEFINE b == [o EXCEPT !.open = FALSE]
    <3>1. b \in ClientBlock /\ b.type = o.type /\ b.text = o.text
      BY <1>1 DEF ClientBlock
    <3>2. Receive(c, item) = [c EXCEPT !.blocks = [c.blocks EXCEPT ![i] = b]]
      BY <1>1, <2>2 DEF Receive, Client
    <3> QED BY <3>1, <3>2
  <2> QED BY <2>1, <2>2
<1>3. o.text \in Seq(Char)
  BY <1>1 DEF ClientBlock
<1>4. b.text = o.text \o <<>>
  BY <1>2, <1>3
<1> DEFINE d == Receive(c, item)
<1>5. d = [c EXCEPT !.blocks = [c.blocks EXCEPT ![i] = b]]
  BY <1>2
<1> HIDE DEF d
<1>6. Heard(l, d) = Heard(l, c) + (IF b.type \in Speaking THEN Count(l, <<>>) ELSE 0)
  <2>1. Put(c, d, i, b, <<>>)
    BY <1>2, <1>4, <1>5, NoText DEF Put
  <2> QED BY <2>1, BlockHeard
<1>7. Heard(l, d) = Heard(l, c) + 0
  BY <1>6, CountNone
<1>8. Heard(l, d) = Heard(l, c)
  BY <1>7, HeardIs
<1> QED BY <1>8 DEF d

LEMMA ReceiveDelta ==
    ASSUME NEW c \in Client, NEW item \in Item, item.ev \in {"text", "thinking", "json"},
           Legal(ViewOf(c), item), NEW l
    PROVE  Heard(l, Receive(c, item)) =
              Heard(l, c) + (IF item.ev \in Speaking THEN Count(l, item.text) ELSE 0)
<1> DEFINE v == ViewOf(c)
<1>1. PICK i \in DOMAIN v.blocks : Fills(v, item, i, {Takes(item.ev)})
  BY DEF Legal
<1> DEFINE o == c.blocks[i]
<1>2. i \in DOMAIN c.blocks /\ o \in ClientBlock /\ v.blocks[i] = PartOf(o)
  BY ViewIs
<1>3. item.at = {i} /\ v.blocks[i].type = Takes(item.ev)
  BY <1>1 DEF Fills, OpenParts
<1>4. o.type = Takes(item.ev) /\ (CHOOSE k \in item.at : TRUE) = i
  BY <1>2, <1>3 DEF PartOf
<1> DEFINE b == [o EXCEPT !.text = o.text \o item.text]
           d == Receive(c, item)
<1>5. o.text \in Seq(Char) /\ item.text \in Seq(Char) /\ o.text \o item.text \in Seq(Char)
  BY <1>2 DEF ClientBlock, Item
<1>6. b \in ClientBlock /\ b.text = o.text \o item.text /\ b.type = o.type
  BY <1>2, <1>5 DEF ClientBlock
<1>7. d = [c EXCEPT !.blocks = [c.blocks EXCEPT ![i] = b]]
  BY <1>4 DEF Receive, Client
<1> HIDE DEF d, b
<1>8. Heard(l, d) = Heard(l, c) + (IF b.type \in Speaking THEN Count(l, item.text) ELSE 0)
  <2> DEFINE t == item.text
  <2>1. t \in Seq(Char) /\ b.text = o.text \o t
    BY <1>5, <1>6
  <2> HIDE DEF t
  <2>2. Put(c, d, i, b, t)
    BY <1>2, <1>6, <1>7, <2>1 DEF Put
  <2> QED BY <2>2, BlockHeard DEF t
<1>9. b.type \in Speaking <=> item.ev \in Speaking
  BY <1>4, <1>6 DEF Takes, Speaking
<1> QED BY <1>8, <1>9 DEF d

LEMMA ReceiveOpens ==
    ASSUME NEW c \in Client, NEW item \in Item, item.ev = "start", Legal(ViewOf(c), item), NEW l
    PROVE  Heard(l, Receive(c, item)) = Heard(l, c)
<1> DEFINE b == Grammar!Block(item.tag)
           s == Append(c.blocks, b)
           d == Receive(c, item)
           n == Len(c.blocks)
<1>1. b \in ClientBlock /\ b.text = <<>>
  BY NoText DEF Legal, Grammar!Block, ClientBlock
<1>2. d = [c EXCEPT !.blocks = s]
  BY DEF Receive, Client
<1> HIDE DEF b
<1>3. c.blocks \in Seq(ClientBlock)
  BY DEF Client
<1>4. /\ s \in Seq(ClientBlock) /\ Len(s) = n + 1 /\ s[n + 1] = b /\ n \in Nat
      /\ \A i \in 1 .. n : s[i] = c.blocks[i]
  BY <1>1, <1>3, Appended
<1> HIDE DEF s, d
<1>5. d \in Client /\ d.blocks = s
  BY <1>2, <1>4 DEF Client
<1>6. ASSUME NEW type PROVE Total(l, Page(d, type)) = Total(l, Page(c, type))
  <2> DEFINE ss == Page(c, type)
             tt == Page(d, type)
  <2>1. /\ ss \in Seq(Seq(Char)) /\ Len(ss) = n
        /\ \A i \in 1 .. n : ss[i] = Writ(c.blocks[i], type)
    BY PageIs
  <2>2. /\ tt \in Seq(Seq(Char)) /\ Len(tt) = Len(d.blocks)
        /\ \A i \in 1 .. Len(d.blocks) : tt[i] = Writ(d.blocks[i], type)
    BY <1>5, PageIs
  <2>3. Len(tt) = n + 1 /\ \A i \in 1 .. n + 1 : tt[i] = Writ(s[i], type)
    BY <1>4, <1>5, <2>2
  <2>4. Writ(b, type) = <<>>
    BY <1>1 DEF Writ
  <2> HIDE DEF ss, tt, n
  <2>5. /\ Append(ss, <<>>) \in Seq(Seq(Char)) /\ Len(Append(ss, <<>>)) = n + 1
        /\ Append(ss, <<>>)[n + 1] = <<>> /\ \A i \in 1 .. n : Append(ss, <<>>)[i] = ss[i]
    <3>1. <<>> \in Seq(Char)
      BY NoText
    <3>2. /\ Append(ss, <<>>) \in Seq(Seq(Char)) /\ Len(Append(ss, <<>>)) = Len(ss) + 1
          /\ Append(ss, <<>>)[Len(ss) + 1] = <<>> /\ \A i \in 1 .. Len(ss) : Append(ss, <<>>)[i] = ss[i]
      BY <2>1, <3>1, Appended
    <3> QED BY <2>1, <3>2
  <2>6. ASSUME NEW i \in 1 .. n + 1 PROVE tt[i] = Append(ss, <<>>)[i]
    <3>1. CASE i = n + 1
      BY <1>4, <2>3, <2>4, <2>5, <3>1
    <3>2. CASE i # n + 1
      <4>1. i \in 1 .. n
        BY <1>4, <3>2
      <4> QED BY <1>4, <2>1, <2>3, <2>5, <4>1
    <3> QED BY <3>1, <3>2
  <2>7. tt = Append(ss, <<>>)
    BY <2>2, <2>3, <2>5, <2>6, SameSeq
  <2>8. Total(l, Append(ss, <<>>)) = Total(l, ss) + Count(l, <<>>) /\ Total(l, ss) \in Nat
    BY <2>1, NoText, TotalAppend, TotalIs
  <2>9. Total(l, tt) = Total(l, ss)
    BY <2>7, <2>8, CountNone
  <2> QED BY <2>9 DEF ss, tt
<1>7. Heard(l, d) = Heard(l, c)
  BY <1>6 DEF Heard
<1> QED BY <1>7 DEF d

\* What an event says is what the client hears.
LEMMA ReceiveHears ==
    ASSUME NEW c \in Client, NEW item \in Item, Legal(ViewOf(c), item), item.ev # "stop", NEW l
    PROVE  Heard(l, Receive(c, item)) = Heard(l, c) + Spoken(l, <<item>>)
<1> DEFINE d == Receive(c, item)
           m == IF item.ev \in Speaking THEN Count(l, item.text) ELSE 0
<1>1. item.text \in Seq(Char)
  BY DEF Item
<1>2. Spoken(l, <<item>>) = m
  BY <1>1, TalkOne
<1>3. CASE item.ev \in {"text", "thinking", "json"}
  BY <1>2, <1>3, ReceiveDelta
<1>4. CASE item.ev = "signature"
  <2>1. PICK i \in DOMAIN ViewOf(c).blocks : Fills(ViewOf(c), item, i, {"thinking"})
    BY <1>4 DEF Legal
  <2>2. i \in DOMAIN c.blocks /\ item.at = {i}
    BY <2>1, ViewIs DEF Fills
  <2>3. Heard(l, d) = Heard(l, c)
    BY <1>4, <2>2, ReceiveMute
  <2>4. m = 0
    BY <1>4 DEF Speaking
  <2> QED BY <1>2, <2>3, <2>4, HeardIs
<1>5. CASE item.ev = "start"
  <2>1. Heard(l, d) = Heard(l, c)
    BY <1>5, ReceiveOpens
  <2>2. m = 0
    BY <1>5 DEF Speaking
  <2> QED BY <1>2, <2>1, <2>2, HeardIs
<1>6. CASE item.ev \in {"message_start", "message_delta", "message_stop", "error"}
  <2>1. d.blocks = c.blocks
    BY <1>6 DEF Receive, Client
  <2>2. m = 0
    BY <1>6 DEF Speaking
  <2> HIDE DEF d
  <2>3. Heard(l, d) = Heard(l, c)
    BY <2>1 DEF Heard, Page
  <2> QED BY <1>2, <2>2, <2>3, HeardIs DEF d
<1>7. item.ev \in Event
  BY DEF Item
<1> QED BY <1>3, <1>4, <1>5, <1>6, <1>7 DEF Event

-----------------------------------------------------------------------------
(* The client has been told, or will be, all but what is held back.        *)

\* What the message c says when the events of a list have been taken.
Reached(c, queue) == [l \in Letter |-> Heard(l, c) + Spoken(l, queue)]

WordsRight ==
    /\ Poured(ctx, seen, Reached(client, pending))
    /\ finished /\ ctx.failure = "none" /\ ~ctx.native => ctx.buffer = <<>>

WordsInv ==
    /\ StreamInv /\ seen \in Seq(UpstreamEvent)
    /\ IF client.phase = "gone" THEN seen = <<>> ELSE WordsRight

LEMMA ReachedIs ==
    ASSUME NEW c \in Client, NEW queue \in Seq(Item)
    PROVE  Reached(c, queue) \in [Letter -> Nat]
<1>1. ASSUME NEW l PROVE Heard(l, c) + Spoken(l, queue) \in Nat
  <2>1. Talk(queue)
    BY NoTalk, TalkFirst
  <2>2. Spoken(l, queue) \in Nat
    BY <2>1, TalkJoin
  <2>3. Heard(l, c) \in Nat
    BY HeardIs
  <2> QED BY <2>2, <2>3
<1> QED BY <1>1 DEF Reached

LEMMA StopFirst ==
    ASSUME NEW queue \in Seq(Item), NEW item, item.ev = "stop"
    PROVE  \A l : Spoken(l, <<item>> \o queue) = Spoken(l, queue)
<1>1. Talk(queue)
  BY NoTalk, TalkFirst
<1>2. Talk(<<item>>) /\ \A l : Spoken(l, <<item>>) = 0
  BY TalkOne DEF Speaking
<1>3. \A l : Spoken(l, <<item>> \o queue) = Spoken(l, <<item>>) + Spoken(l, queue)
  BY <1>1, <1>2, TalkJoin
<1>4. \A l : Spoken(l, queue) \in Nat
  BY <1>1, TalkJoin
<1> QED BY <1>2, <1>3, <1>4

\* What the client takes moves words from the list to the message.
LEMMA TakingHears ==
    ASSUME client \in Client, NEW queue \in Seq(Item), NEW w \in View, queue # <<>>,
           Flow(ViewOf(client), queue, w), NEW rest, TakesFirst(queue, rest), NEW l
    PROVE  Heard(l, client') + Spoken(l, rest) = Heard(l, client) + Spoken(l, queue)
<1> DEFINE v == ViewOf(client)
           item == Head(queue)
           tail == Tail(queue)
           One(ev, i) == [ev |-> ev, at |-> {i}, tag |-> "", text |-> <<>>]
<1>1. v \in View
  BY ViewIs
<1>2. Legal(v, item) /\ item \in Item /\ tail \in Seq(Item)
  BY <1>1, FlowHead
<1>3. /\ Spoken(l, queue) = Spoken(l, <<item>>) + Spoken(l, tail)
      /\ Spoken(l, <<item>>) \in Nat /\ Spoken(l, tail) \in Nat
  <2>1. Spoken(l, queue) = Spoken(l, <<item>>) + Spoken(l, tail) /\ Talk(tail)
    BY TalkFirst
  <2>2. item.text \in Seq(Char)
    BY <1>2 DEF Item
  <2>3. Talk(<<item>>)
    BY <2>2, TalkOne
  <2> QED BY <2>1, <2>3, TalkJoin
<1>4. Heard(l, client) \in Nat
  BY HeardIs
<1>5. CASE item.ev # "stop"
  <2>1. client' = Receive(client, item) /\ rest = tail
    BY <1>5 DEF TakesFirst
  <2> HIDE DEF item, tail, v
  <2>2. Heard(l, client') = Heard(l, client) + Spoken(l, <<item>>)
    BY <1>2, <1>5, <2>1, ReceiveHears DEF v
  <2> QED BY <1>3, <1>4, <2>1, <2>2
<1>6. CASE item.ev = "stop"
  <2>1. PICK i \in item.at :
           \/ /\ client' = Receive(client, One("signature", i))
              /\ rest = <<One("stop", i)>> \o Left(item, i, queue)
           \/ client' = Receive(client, One("stop", i)) /\ rest = Left(item, i, queue)
    BY <1>6 DEF TakesFirst
  <2> DEFINE left == Left(item, i, queue)
  <2>2. i \in Nat /\ i \in DOMAIN client.blocks
    <3>1. i \in OpenParts(v, BlockType)
      BY <1>2, <1>6 DEF Legal
    <3>2. i \in DOMAIN v.blocks
      BY <3>1 DEF OpenParts
    <3>3. i \in DOMAIN client.blocks
      BY <3>2, ViewIs
    <3> QED BY <1>2, <3>3 DEF Item
  <2>3. left \in Seq(Item) /\ Spoken(l, left) = Spoken(l, tail)
    <3> DEFINE less == [item EXCEPT !.at = item.at \ {i}]
    <3>1. less \in Item /\ less.ev = "stop"
      BY <1>2, <1>6 DEF Item
    <3>2. left = IF item.at = {i} THEN tail ELSE <<less>> \o tail
      BY DEF Left
    <3> HIDE DEF less, left
    <3>3. Spoken(l, <<less>> \o tail) = Spoken(l, tail) /\ <<less>> \o tail \in Seq(Item)
      <4>1. <<less>> \in Seq(Item)
        BY <3>1
      <4>2. <<less>> \o tail \in Seq(Item)
        BY <1>2, <4>1
      <4>3. Spoken(l, <<less>> \o tail) = Spoken(l, tail)
        BY <1>2, <3>1, StopFirst
      <4> QED BY <4>2, <4>3
    <3> QED BY <1>2, <3>2, <3>3
  <2>4. \/ client' = Receive(client, One("signature", i)) /\ rest = <<One("stop", i)>> \o left
        \/ client' = Receive(client, One("stop", i)) /\ rest = left
    BY <2>1
  <2> HIDE DEF left, item, tail
  <2>5. /\ One("stop", i).ev = "stop" /\ One("signature", i).ev = "signature"
        /\ One("stop", i).at = {i} /\ One("signature", i).at = {i}
    OBVIOUS
  <2> HIDE DEF One
  <2>6. Spoken(l, rest) = Spoken(l, tail)
    <3>1. Spoken(l, <<One("stop", i)>> \o left) = Spoken(l, left)
      BY <2>3, <2>5, StopFirst
    <3> QED BY <2>3, <2>4, <3>1
  <2>7. ASSUME NEW one, one.ev \in {"stop", "signature"}, one.at = {i}, client' = Receive(client, one)
        PROVE  Heard(l, client') = Heard(l, client)
    BY <2>2, <2>7, ReceiveMute
  <2>8. Heard(l, client') = Heard(l, client)
    BY <2>4, <2>5, <2>7
  <2>9. Spoken(l, <<item>>) = 0
    BY <1>6, TalkOne DEF Speaking
  <2> QED BY <1>3, <1>4, <2>6, <2>8, <2>9
<1> QED BY <1>5, <1>6

\* The events that the client has still to take can be taken.
LEMMA PendingFlows ==
    ASSUME StreamInv, Deliver
    PROVE  /\ client \in Client /\ pending \in Seq(Item) /\ pending # <<>>
           /\ \E w \in View : Flow(ViewOf(client), pending, w)
           /\ ctx.out = <<>> /\ client.phase # "gone"
<1>1. /\ pending # <<>> /\ pending \in Seq(Item) /\ client \in Client /\ ctx \in Context
      /\ client.phase # "gone"
  BY DeliverStays DEF StreamInv, StreamTypes
<1>2. Live \/ Over
  BY <1>1 DEF StreamInv, Gone, Linked, Unbegun, Held
<1>3. Owed(ctx, pending).out = pending
  BY <1>1, OwedIs
<1>4. Told(ViewOf(client), Owed(ctx, pending)) \/ Concluded(ViewOf(client), Owed(ctx, pending))
  BY <1>2, SteadyIs DEF Live, Over
<1>5. \E w \in View : Flow(ViewOf(client), pending, w)
  BY <1>3, <1>4 DEF Told, Concluded
<1> QED BY <1>1, <1>2, <1>5 DEF Live, Over

LEMMA DeliverHears ==
    ASSUME StreamInv, Deliver, NEW l
    PROVE  Heard(l, client') + Spoken(l, pending') = Heard(l, client) + Spoken(l, pending)
BY PendingFlows, DeliverTakes, TakingHears

LEMMA DeliverWords ==
    ASSUME StreamInv, Deliver, WordsRight
    PROVE  WordsRight'
<1>1. UNCHANGED <<ctx, finished, seen>>
  BY DEF Deliver
<1>2. Reached(client', pending') = Reached(client, pending)
  BY DeliverHears DEF Reached
<1> QED BY <1>1, <1>2 DEF WordsRight

\* A chunk of events, one after the other.
LEMMA EventsPoured ==
    ASSUME NEW v \in View, NEW x \in Steady(v), NEW before \in Seq(UpstreamEvent),
           NEW events \in Seq(UpstreamEvent), NEW b \in [Letter -> Nat], Poured(x, before, b)
    PROVE  Poured(FoldLeft(OnEvent, x, events), before \o events, b)
<1> DEFINE n == Len(events)
           upto(k) == before \o SubSeq(events, 1, k)
<1>1. n \in Nat
  OBVIOUS
<1>2. PICK f \in [0 .. n -> Steady(v)] : EventChain(f, x, events)
  BY OnEventKeeps, EventsSteps
<1>3. ASSUME NEW k \in Nat, k + 1 <= n
      PROVE  /\ upto(k) \in Seq(UpstreamEvent) /\ events[k + 1] \in UpstreamEvent
             /\ upto(k + 1) = Append(upto(k), events[k + 1])
  BY <1>3, OneLonger
<1>4. upto(0) = before /\ upto(n) = before \o events
  <2>1. SubSeq(events, 1, 0) = <<>> /\ SubSeq(events, 1, n) = events /\ before \o <<>> = before
    OBVIOUS
  <2> QED BY <2>1
<1> HIDE DEF upto, n
<1> DEFINE T == {k \in Nat : k <= n => Poured(f[k], upto(k), b)}
<1>5. /\ f[0] = x /\ FoldLeft(OnEvent, x, events) = f[n]
      /\ \A k \in 1 .. n : f[k] = OnEvent(f[k - 1], events[k])
  BY <1>2 DEF EventChain, n
<1>6. 0 \in T
  BY <1>4, <1>5
<1>7. ASSUME NEW k \in Nat, Poured(f[k], upto(k), b), k + 1 <= n
      PROVE  Poured(f[k + 1], upto(k + 1), b)
  <2>1. k \in 0 .. n /\ k + 1 \in 1 .. n /\ (k + 1) - 1 = k
    BY <1>1, <1>7
  <2>2. f[k] \in Steady(v)
    BY <1>2, <2>1 DEF n
  <2>3. Carries(f[k])
    BY <2>2, SteadyIs, ContextCarries
  <2>4. Poured(OnEvent(f[k], events[k + 1]), Append(upto(k), events[k + 1]), b)
    BY <1>3, <1>7, <2>3, OnEventPoured
  <2>5. f[k + 1] = OnEvent(f[k], events[k + 1])
    BY <1>5, <2>1
  <2> QED BY <1>3, <1>7, <2>4, <2>5
<1>8. T \in SUBSET Nat /\ \A k \in T : k + 1 \in T
  <2>1. \A k \in T : k + 1 \in T
    BY <1>1, <1>7
  <2> QED BY <2>1
<1> HIDE DEF T
<1>9. n \in T
  BY <1>1, <1>6, <1>8, Induction
<1>10. Poured(f[n], upto(n), b)
  BY <1>9 DEF T
<1> QED BY <1>4, <1>5, <1>10

LEMMA InitialMute == ASSUME NEW x PROVE Mute(x, Initial(x))
<1> DEFINE a == [x EXCEPT !.started = TRUE]
           y == Emit(a, "message_start", {}, "", <<>>)
           m == Len(y.blocks) + 1
           u == [y EXCEPT !.textAt = m]
<1>1. Initial(x) = IF x.thinking THEN y ELSE StartBlock(u, "text")
  BY DEF Initial
<1>2. Mute(x, a)
  BY MuteFields
<1> HIDE DEF a
<1>3. Mute(a, y)
  BY EmitSays DEF Speaking
<1> HIDE DEF y, m
<1>4. Mute(y, u)
  BY MuteFields
<1> HIDE DEF u
<1>5. Mute(u, StartBlock(u, "text"))
  BY StartMute DEF BlockType
<1>6. Mute(x, y)
  BY <1>2, <1>3, MuteTwice
<1>7. Mute(x, u)
  BY <1>4, <1>6, MuteTwice
<1>8. Mute(x, StartBlock(u, "text"))
  BY <1>5, <1>7, MuteTwice
<1> QED BY <1>1, <1>6, <1>8

\* Nothing has been said, held back or lost.
LEMMA NewPoured ==
    ASSUME NEW thinking \in BOOLEAN, NEW b, \A l \in Letter : b[l] = 0
    PROVE  Poured(NewContext(thinking), <<>>, b)
<1> DEFINE x == NewContext(thinking)
<1>1. x.native = FALSE /\ x.inside = FALSE /\ x.buffer = <<>> /\ x.out = <<>>
  BY DEF NewContext
<1> HIDE DEF x
<1>2. <<>> \in Seq(UpstreamEvent)
  OBVIOUS
<1>3. Drained(x)
  BY <1>1 DEF Drained
<1>4. ASSUME NEW l \in Letter PROVE b[l] + Within(l, x) = Words(l, <<>>)
  <2>1. Within(l, x) = 0
    BY <1>1, NoTalk, CountNone DEF Within
  <2>2. Words(l, <<>>) = 0
    <3> DEFINE none == <<>>
    <3>0. none \in Seq(UpstreamEvent) /\ none = <<>>
      BY <1>2
    <3> HIDE DEF none
    <3>1. Words(l, none) = Total(l, Sayings(none))
      BY <3>0, WordsAre
    <3>3. Sayings(<<>>) = <<>>
      BY DEF Sayings
    <3>2. Total(l, <<>>) = 0
      <4>1. <<>> \in Seq(Seq(Char))
        OBVIOUS
      <4> QED BY <4>1, TotalIs
    <3> QED BY <3>0, <3>1, <3>2, <3>3
  <2> QED BY <2>1, <2>2
<1>5. Settled(x, <<>>, b)
  BY <1>4 DEF Settled
<1>6. Poured(x, <<>>, b)
  BY <1>1, <1>3, <1>5 DEF Poured
<1> QED BY <1>6 DEF x

\* The events in the list of the context are handed on.
LEMMA OwedPoured ==
    ASSUME NEW x \in Context, NEW c \in Client, NEW events,
           Poured(x, events, Reached(c, <<>>))
    PROVE  Poured(Owed(x, <<>>), events, Reached(c, x.out))
<1> DEFINE y == Owed(x, <<>>)
           p == Reached(c, <<>>)
           q == Reached(c, x.out)
<1>1. y.thinking = x.thinking /\ y.native = x.native /\ y.inside = x.inside
      /\ y.extracted = x.extracted /\ y.buffer = x.buffer /\ y.out = <<>>
  BY ContextFields DEF Owed, Fields
<1>2. ASSUME NEW l \in Letter PROVE q[l] + Within(l, y) = p[l] + Within(l, x)
  <2>1. x.out \in Seq(Item) /\ x.buffer \in Seq(Char)
    BY DEF Context
  <2>2. Talk(x.out)
    BY <2>1, NoTalk, TalkFirst
  <2>3. Spoken(l, x.out) \in Nat /\ Spoken(l, <<>>) = 0
    BY <2>2, NoTalk, TalkJoin
  <2>4. Heard(l, c) \in Nat /\ Count(l, x.buffer) \in Nat
    BY <2>1, HeardIs, CountIs
  <2>5. Within(l, y) = Spoken(l, <<>>) + Count(l, x.buffer)
        /\ Within(l, x) = Spoken(l, x.out) + Count(l, x.buffer)
    BY <1>1 DEF Within
  <2>6. p[l] = Heard(l, c) + Spoken(l, <<>>) /\ q[l] = Heard(l, c) + Spoken(l, x.out)
    BY DEF Reached
  <2> HIDE DEF p, q, y
  <2> QED BY <2>3, <2>4, <2>5, <2>6
<1> HIDE DEF p, q, y
<1>3. x.native => x.thinking /\ Reasoned(events)
  BY DEF Poured, p
<1>4. ASSUME ~x.native PROVE Drained(y) /\ Settled(y, events, q)
  <2>1. Drained(x) /\ Settled(x, events, p)
    BY <1>4 DEF Poured, p
  <2>2. Drained(y)
    BY <1>1, <2>1 DEF Drained
  <2>3. Settled(y, events, q)
    BY <1>2, <2>1 DEF Settled
  <2> QED BY <2>2, <2>3
<1>5. Poured(y, events, q)
  BY <1>1, <1>3, <1>4 DEF Poured
<1> QED BY <1>5 DEF y, q

-----------------------------------------------------------------------------
(* The steps of the stream.                                                *)

LEMMA WordsStart == StreamInit => WordsInv
<1> SUFFICES ASSUME StreamInit PROVE WordsInv
  OBVIOUS
<1>1. StreamInv /\ seen = <<>> /\ ~finished /\ client = Grammar!Nothing
  BY StreamStart DEF StreamInit
<1>2. client \in Client /\ ctx \in Context
  BY <1>1 DEF StreamInv, StreamTypes
<1>3. PICK thinking \in BOOLEAN :
         LET x == Initial(NewContext(thinking))
         IN  IF way = "live" THEN ctx = Owed(x, <<>>) /\ pending = x.out
             ELSE ctx = NewContext(thinking) /\ pending = <<>>
  BY DEF StreamInit, Owed
<1> DEFINE f == NewContext(thinking)
           x == Initial(f)
           b == Reached(client, <<>>)
<1>4. \A l \in Letter : b[l] = 0
  <2> SUFFICES ASSUME NEW l \in Letter PROVE Heard(l, client) + Spoken(l, <<>>) = 0
    BY DEF Reached
  <2>1. client.blocks = <<>>
    BY <1>1 DEF Grammar!Nothing
  <2>2. \A type : Page(client, type) = <<>>
    BY <2>1 DEF Page
  <2>3. Total(l, <<>>) = 0
    <3>1. <<>> \in Seq(Seq(Char))
      OBVIOUS
    <3> QED BY <3>1, TotalIs
  <2>4. Heard(l, client) = 0
    BY <2>2, <2>3 DEF Heard
  <2> QED BY <2>4, NoTalk
<1>5. f \in Fresh /\ f \in Context
  BY NewIsFresh, FreshIs
<1>6. Poured(f, <<>>, b)
  BY <1>4, NewPoured
<1>7. x \in Steady(Blank0) /\ x \in Context
  BY <1>5, InitialKeeps, SteadyIs
<1>8. way = "live" => ctx = Owed(x, <<>>) /\ pending = x.out
  BY <1>3
<1>9. way # "live" => ctx = f /\ pending = <<>>
  BY <1>3
<1>10. Mute(f, x)
  BY InitialMute
<1> HIDE DEF f, x
<1>11. <<>> \in Seq(UpstreamEvent)
  OBVIOUS
<1>12. Poured(ctx, seen, Reached(client, pending))
  <2>1. CASE way = "live"
    <3>1. Poured(x, <<>>, b)
      BY <1>5, <1>6, <1>10, <1>11, ContextCarries, MuteStays
    <3>2. Poured(Owed(x, <<>>), <<>>, Reached(client, x.out))
      BY <1>2, <1>7, <3>1, OwedPoured
    <3> QED BY <1>1, <1>8, <2>1, <3>2
  <2>2. CASE way # "live"
    BY <1>1, <1>6, <1>9, <2>2
  <2> QED BY <2>1, <2>2
<1>13. WordsRight
  BY <1>1, <1>12 DEF WordsRight
<1>14. client.phase # "gone"
  BY <1>1 DEF Grammar!Nothing
<1> QED BY <1>1, <1>11, <1>13, <1>14 DEF WordsInv

\* The events of a chunk are translated, and none of their words is lost.
LEMMA TranslatedPoured ==
    ASSUME StreamInv, Waiting, seen \in Seq(UpstreamEvent), NEW b \in [Letter -> Nat],
           Poured(ctx, seen, b), NEW events \in Seq(UpstreamEvent)
    PROVE  Translated(ctx, events) \in Context /\ Poured(Translated(ctx, events), seen \o events, b)
<1> DEFINE v == ViewOf(client)
           x == Translated(ctx, events)
<1>1. ctx \in Context /\ v \in View
  BY WaitingIs DEF StreamTypes
<1>2. x \in Context
  BY TranslatedKeeps, SteadyIs, FreshIs
<1>3. CASE ctx \in Steady(v)
  <2>1. x = FoldLeft(OnEvent, ctx, events)
    BY <1>3, SteadyIs DEF Translated
  <2>2. Poured(FoldLeft(OnEvent, ctx, events), seen \o events, b)
    BY <1>1, <1>3, EventsPoured
  <2> QED BY <1>2, <2>1, <2>2
<1>4. CASE ctx \in Fresh /\ way = "buffered" /\ v = Blank0 /\ events = <<>>
  <2>1. x = FoldLeft(OnEvent, ctx, <<>>)
    BY <1>4 DEF Translated
  <2>2. seen \o events = seen
    BY <1>4
  <2> QED BY <1>2, <2>1, <2>2, NoEvents
<1>5. CASE ctx \in Fresh /\ way = "buffered" /\ v = Blank0 /\ events # <<>>
  <2> DEFINE y == Initial(ctx)
  <2>1. x = FoldLeft(OnEvent, y, events)
    BY <1>5, FreshIs DEF Translated
  <2>2. y \in Steady(v)
    BY <1>5, InitialKeeps
  <2>3. Poured(y, seen, b)
    BY <1>1, InitialMute, ContextCarries, MuteStays
  <2> HIDE DEF y
  <2>4. Poured(FoldLeft(OnEvent, y, events), seen \o events, b)
    BY <1>1, <2>2, <2>3, EventsPoured
  <2> QED BY <1>2, <2>1, <2>4
<1> QED BY <1>3, <1>4, <1>5, WaitingIs

\* A chunk arrives.
LEMMA ChunkWords ==
    ASSUME WordsInv, Waiting, NEW cells \in Seq(Cell), NEW k \in Nat, k <= Len(cells),
           Chunk(cells, k), StreamInv'
    PROVE  WordsInv'
<1> DEFINE n == Len(cells) - k
           run == DecodeAll(Feed(decoder, SubSeq(cells, 1, n)))
           x == Translated(ctx, run.events)
           b == Reached(client, <<>>)
<1>1. /\ seen' = seen \o run.events /\ Release(x) /\ finished' = finished
      /\ client' = client
  BY DEF Chunk
<1>2. /\ StreamInv /\ ~finished /\ seen \in Seq(UpstreamEvent) /\ Poured(ctx, seen, b)
      /\ client \in Client /\ pending = <<>> /\ client.phase # "gone"
  BY DEF WordsInv, WordsRight, Waiting, StreamInv, StreamTypes
<1>3. run.events \in Seq(UpstreamEvent)
  <2>1. n \in Nat /\ n <= Len(cells)
    <3>1. Len(cells) \in Nat
      OBVIOUS
    <3> QED BY <3>1
  <2> HIDE DEF n
  <2>2. SubSeq(cells, 1, n) \in Seq(Cell)
    BY <2>1, Cuts
  <2>3. Feed(decoder, SubSeq(cells, 1, n)) \in Decoder
    BY <1>2, <2>2, FeedKeeps DEF StreamInv, StreamTypes
  <2>4. run \in Run
    BY <2>3, DecodeAllKeeps
  <2> HIDE DEF run
  <2>5. run.events \in Seq(Content)
    BY <2>4 DEF Run
  <2> QED BY <2>5, ContentAssumption
<1> DEFINE events == run.events
<1>4. events \in Seq(UpstreamEvent) /\ seen' = seen \o events /\ x = Translated(ctx, events)
  BY <1>1, <1>3
<1>5. b \in [Letter -> Nat]
  BY <1>2, NoBlocks, ReachedIs
<1> HIDE DEF x, events
<1>6. x \in Context /\ Poured(x, seen \o events, b)
  <2> HIDE DEF b
  <2> QED BY <1>2, <1>4, <1>5, TranslatedPoured
<1>7. Poured(ctx', seen', Reached(client', pending'))
  <2>1. CASE way = "live"
    <3>1. ctx' = Owed(x, <<>>) /\ pending' = x.out
      BY <1>1, <2>1 DEF Release, Owed
    <3>2. Poured(Owed(x, <<>>), seen \o events, Reached(client, x.out))
      BY <1>2, <1>6, OwedPoured
    <3> QED BY <1>1, <1>4, <3>1, <3>2
  <2>2. CASE way # "live"
    <3>1. ctx' = x /\ pending' = pending
      BY <1>1, <2>2 DEF Release
    <3> QED BY <1>1, <1>2, <1>4, <1>6, <3>1
  <2> QED BY <2>1, <2>2
<1>8. seen' \in Seq(UpstreamEvent)
  BY <1>2, <1>4
<1> QED BY <1>1, <1>2, <1>7, <1>8 DEF WordsInv, WordsRight

\* The last turn of the stream.
LEMMA FinishWords ==
    ASSUME WordsInv, NEW x \in Context, Finish(x), Mute(ctx, x),
           \/ x \in Steady(ViewOf(client))
           \/ x \in Fresh /\ way = "buffered" /\ ViewOf(client) = Blank0,
           StreamInv'
    PROVE  WordsInv'
<1> DEFINE y == IF x.started THEN x ELSE Initial(x)
           v == ViewOf(client)
           z == Final(y)
           b == Reached(client, <<>>)
<1>1. /\ Waiting /\ finished' = TRUE /\ ctx' = Owed(z, <<>>) /\ pending' = z.out
      /\ UNCHANGED <<client, seen>>
  BY DEF Finish, Owed
<1>2. /\ StreamInv /\ ~finished /\ seen \in Seq(UpstreamEvent) /\ Poured(ctx, seen, b)
      /\ ctx \in Context /\ client \in Client
  BY <1>1 DEF WordsInv, WordsRight, Waiting, StreamInv, StreamTypes
<1>3. v \in View
  BY <1>2, ViewIs
<1>4. y \in Steady(v) /\ Poured(y, seen, b)
  <2>1. y = x \/ y = Initial(x)
    OBVIOUS
  <2>2. Poured(x, seen, b) /\ Carries(x)
    BY <1>2, ContextCarries, MuteStays
  <2>3. Poured(Initial(x), seen, b)
    BY <1>2, <2>2, InitialMute, MuteStays
  <2>4. y \in Steady(v)
    BY SteadyIs, FreshIs, InitialKeeps
  <2> QED BY <2>1, <2>2, <2>3, <2>4
<1> HIDE DEF y, v, b
<1>5. z \in Context
  BY <1>3, <1>4, FinalConcludes DEF Concluded
<1>6. Poured(z, seen, b) /\ (z.failure = "none" /\ ~z.native => z.buffer = <<>>)
  BY <1>2, <1>3, <1>4, FinalPoured
<1> HIDE DEF z
<1>7. ctx'.failure = z.failure /\ ctx'.native = z.native /\ ctx'.buffer = z.buffer
  BY <1>1, <1>5, ContextFields DEF Owed, Fields
<1>8. Poured(Owed(z, <<>>), seen, Reached(client, z.out))
  BY <1>2, <1>5, <1>6, OwedPoured DEF b
<1>9. Poured(ctx', seen', Reached(client', pending'))
  BY <1>1, <1>8
<1>10. ctx'.failure = "none" /\ ~ctx'.native => ctx'.buffer = <<>>
  BY <1>6, <1>7
<1> QED BY <1>1, <1>2, <1>9, <1>10 DEF WordsInv, WordsRight

LEMMA WordsStep == WordsInv /\ [StreamNext]_streamVars => WordsInv'
<1> SUFFICES ASSUME WordsInv, [StreamNext]_streamVars PROVE WordsInv'
  OBVIOUS
<1>1. StreamInv /\ StreamInv' /\ seen \in Seq(UpstreamEvent)
  BY StreamStep DEF WordsInv
<1>2. CASE Deliver
  <2>1. client.phase # "gone" /\ client'.phase # "gone" /\ seen' = seen
    BY <1>1, <1>2, DeliverStays DEF Deliver, StreamInv, StreamTypes
  <2>2. WordsRight'
    BY <1>1, <1>2, <2>1, DeliverWords DEF WordsInv
  <2> QED BY <1>1, <2>1, <2>2 DEF WordsInv
<1>3. CASE Disconnect
  <2>1. client'.phase = "gone" /\ seen' = <<>>
    BY <1>1, <1>3 DEF Disconnect, StreamInv, StreamTypes, Client
  <2> QED BY <1>1, <2>1 DEF WordsInv
<1>4. CASE Frame
  <2>1. PICK event \in Content, trouble \in Damage \cup {"none", "split", "held"} :
           Chunk(wire \o Cells(event, trouble),
                 CASE trouble = "split" -> 1
                   [] trouble = "held"  -> FrameLen
                   [] OTHER             -> 0)
    BY <1>4 DEF Frame
  <2> DEFINE k == CASE trouble = "split" -> 1
                    [] trouble = "held"  -> FrameLen
                    [] OTHER             -> 0
             more == Cells(event, trouble)
             cells == wire \o more
  <2>2. more \in Seq(Cell) /\ Len(more) = FrameLen
    BY CellsAre
  <2>3. k \in Nat /\ k <= FrameLen
    BY BoundsNat
  <2>4. wire \in Seq(Cell) /\ Waiting
    BY <1>1, <1>4 DEF StreamInv, StreamTypes, Frame
  <2>5. Chunk(cells, k)
    BY <2>1
  <2> HIDE DEF more, k
  <2>6. cells \in Seq(Cell) /\ Len(cells) = Len(wire) + Len(more)
        /\ Len(wire) \in Nat /\ Len(more) \in Nat
    BY <2>2, <2>4
  <2>7. k <= Len(cells)
    BY <2>2, <2>3, <2>6
  <2> HIDE DEF cells
  <2> QED BY <1>1, <2>3, <2>4, <2>5, <2>6, <2>7, ChunkWords
<1>5. CASE Rest
  <2>1. Waiting /\ Chunk(wire, 0) /\ wire \in Seq(Cell)
    BY <1>1, <1>5 DEF Rest, StreamInv, StreamTypes
  <2>2. 0 \in Nat /\ 0 <= Len(wire)
    BY <2>1
  <2> QED BY <1>1, <2>1, <2>2, ChunkWords
<1>6. CASE EndOfBody \/ IoError
  <2>1. Waiting
    BY <1>6 DEF EndOfBody, IoError, Finish
  <2>2. /\ ViewOf(client) \in View /\ ctx \in Context
        /\ \/ ctx \in Steady(ViewOf(client))
           \/ ctx \in Fresh /\ way = "buffered" /\ ViewOf(client) = Blank0
    BY <1>1, <2>1, WaitingIs DEF StreamInv, StreamTypes
  <2>3. CASE EndOfBody
    BY <1>1, <2>2, <2>3, FinishWords, MuteFields DEF EndOfBody
  <2>4. CASE IoError
    <3> DEFINE x == MarkFailure(ctx, "stream_io")
    <3>1. "stream_io" \in Failure
      BY DEF Failure
    <3>2. \/ x \in Steady(ViewOf(client))
          \/ x \in Fresh /\ way = "buffered" /\ ViewOf(client) = Blank0
      BY <2>2, <3>1, MarkFailureKeeps, MarkFresh
    <3>3. Finish(x) /\ Mute(ctx, x)
      BY <2>4, FailureMute DEF IoError
    <3> HIDE DEF x
    <3>4. x \in Context
      BY <3>2, SteadyIs, FreshIs
    <3> QED BY <1>1, <3>2, <3>3, <3>4, FinishWords
  <2> QED BY <1>6, <2>3, <2>4
<1>7. CASE UNCHANGED streamVars
  <2>1. WordsRight' <=> WordsRight
    BY <1>7 DEF streamVars, WordsRight
  <2> QED BY <1>1, <1>7, <2>1 DEF streamVars, WordsInv
<1> QED BY <1>2, <1>3, <1>4, <1>5, <1>6, <1>7 DEF StreamNext

\* A message that has ended well is all the client will get.
LEMMA StoppedIsOver ==
    ASSUME StreamInv, client.phase = "stopped"
    PROVE  finished /\ pending = <<>> /\ ctx.failure = "none" /\ ctx.out = <<>>
<1> DEFINE v == ViewOf(client)
<1>1. /\ v \in View /\ v.phase = "stopped" /\ ctx \in Context /\ pending \in Seq(Item)
      /\ ctx.out \in Seq(Item)
  BY ViewIs DEF StreamInv, StreamTypes, Context
<1>2. Owed(ctx, pending).out = pending /\ Owed(ctx, pending).failure = ctx.failure
  BY <1>1, OwedIs
<1>3. ASSUME NEW queue \in Seq(Item), NEW w \in View, Flow(v, queue, w)
      PROVE  w.phase = "stopped" /\ queue = <<>>
  <2>1. w = v
    BY <1>1, <1>3, NothingAfterEnd
  <2>2. queue = <<>>
    <3> SUFFICES ASSUME queue # <<>> PROVE FALSE
      OBVIOUS
    <3>1. Legal(v, Head(queue))
      BY <1>1, <1>3, FlowHead
    <3> QED BY <1>1, <3>1 DEF Legal
  <2> QED BY <1>1, <2>1, <2>2
<1>4. ASSUME NEW x, Told(v, x), x.out \in Seq(Item) PROVE FALSE
  <2> DEFINE queue == x.out
  <2>1. PICK w \in View : Flow(v, queue, w) /\ w.phase # "stopped"
    BY <1>4 DEF Told, Mirrors
  <2>2. queue \in Seq(Item)
    BY <1>4
  <2> HIDE DEF queue, v
  <2>3. w.phase = "stopped"
    BY <1>3, <2>1, <2>2
  <2> QED BY <2>1, <2>3
<1>5. ~Unbegun
  BY <1>1, NoBlocks DEF Unbegun
<1>6. ~Held
  <2> SUFFICES ASSUME Held PROVE FALSE
    OBVIOUS
  <2>1. Told(v, ctx)
    BY SteadyIs DEF Held
  <2> QED BY <1>1, <1>4, <2>1
<1>7. ~Live
  <2> SUFFICES ASSUME Live PROVE FALSE
    OBVIOUS
  <2>1. Told(v, Owed(ctx, pending))
    BY SteadyIs DEF Live
  <2> QED BY <1>1, <1>2, <1>4, <2>1
<1>8. Over
  BY <1>5, <1>6, <1>7 DEF StreamInv, Gone, Linked
<1>9. PICK w \in View : /\ Flow(v, pending, w)
                        /\ w.phase = IF ctx.failure = "none" THEN "stopped" ELSE "failed"
  BY <1>2, <1>8 DEF Over, Concluded
<1>10. w.phase = "stopped" /\ pending = <<>>
  BY <1>1, <1>3, <1>9
<1> QED BY <1>8, <1>9, <1>10 DEF Over

LEMMA NothingLost == WordsInv => NothingSwallowed
<1> SUFFICES ASSUME WordsInv, client.phase = "stopped", ctx.thinking => "reasoning" \notin Kinds,
                    NEW l \in Letter
             PROVE  Received(l) = Count(l, TextOf(seen))
  BY DEF NothingSwallowed
<1>1. StreamInv /\ WordsRight /\ client \in Client
  BY DEF WordsInv, StreamInv, StreamTypes
<1>2. finished /\ pending = <<>> /\ ctx.failure = "none" /\ ctx.out = <<>>
  BY <1>1, StoppedIsOver
<1>3. ~ctx.native
  <2> SUFFICES ASSUME ctx.native PROVE FALSE
    OBVIOUS
  <2>1. ctx.thinking /\ Reasoned(seen)
    BY <1>1 DEF WordsRight, Poured
  <2>2. "reasoning" \in Kinds
    BY <2>1 DEF Reasoned, Kinds
  <2> QED BY <2>1, <2>2
<1>4. ctx.buffer = <<>>
  BY <1>1, <1>2, <1>3 DEF WordsRight
<1>5. Within(l, ctx) = 0
  BY <1>2, <1>4, NoTalk, CountNone DEF Within
<1>6. Reached(client, pending)[l] = Heard(l, client) + 0
  BY <1>2, NoTalk DEF Reached
<1>7. Reached(client, pending)[l] + Within(l, ctx) = Words(l, seen)
  BY <1>1, <1>3 DEF WordsRight, Poured, Settled
<1>8. Heard(l, client) \in Nat
  BY <1>1, HeardIs
<1>9. Heard(l, client) = Words(l, seen)
  BY <1>5, <1>6, <1>7, <1>8
<1> QED BY <1>9, ReceivedIs DEF Words

\* All that the upstream service has said is with the client, owed to it or held back in
\* the buffer of the scan for tags, each letter as often as it was said, until native
\* reasoning sets in (stream.rs, process_content_with_thinking and what calls it).
THEOREM WordsInvariant == StreamSpec => []WordsInv
<1>1. StreamInit => WordsInv
  BY WordsStart
<1>2. WordsInv /\ [StreamNext]_streamVars => WordsInv'
  BY WordsStep
<1> QED BY <1>1, <1>2, PTL DEF StreamSpec

\* By the end of a good answer no letter of its text is lost in thinking_buffer or sent
\* to a block that a tool call has closed (stream.rs, create_text_delta_events).
THEOREM NothingIsSwallowed == StreamSpec => []NothingSwallowed
BY WordsInvariant, NothingLost, PTL

-----------------------------------------------------------------------------
(* What must be with the client when it is shown the block of a call.      *)

\* The first event of a call.
Opening(events, i) ==
    /\ events[i].kind = "tool"
    /\ \A k \in 1 .. i - 1 : events[k].kind = "tool" => events[k].tool # events[i].tool

CallOf(t, events) == \E i \in DOMAIN events : events[i].kind = "tool" /\ events[i].tool = t

\* No native reasoning up to the event i, or none that the answer heeds.
Heeded(x, events, i) == x.thinking => \A k \in 1 .. i : events[k].kind # "reasoning"

\* When the events of the queue have been taken, thinking is open.
Thinks(v, queue) == \A w \in View : Flow(v, queue, w) => OpenParts(w, {"thinking"}) # {}

\* When the events of the queue have been taken, c says all that was said upstream.
Spelt(c, queue, events) ==
    \/ Thinks(ViewOf(c), queue)
    \/ \A l \in Letter : Words(l, events) <= Heard(l, c) + Spoken(l, queue)

\* Whenever the queue starts the block of a call, the words before the call are said.
Due(x, c, queue, events) ==
    \A k \in DOMAIN queue, i \in DOMAIN events :
        /\ queue[k].ev = "start" /\ Opening(events, i)
        /\ queue[k].at = {x.tools[events[i].tool]} /\ Heeded(x, events, i)
        => Spelt(c, SubSeq(queue, 1, k - 1), SubSeq(events, 1, i))

\* The events in the list start only blocks there are, the translation knows the calls
\* there were, and c, which has taken all events before those, is told the words first.
Ready(x, c, events) ==
    /\ \A k \in DOMAIN x.out : x.out[k].ev = "start" => \E j \in 1 .. Len(x.blocks) : x.out[k].at = {j}
    /\ \A t \in ToolId : x.tools[t] # 0 <=> CallOf(t, events)
    /\ Due(x, c, x.out, events)

LEMMA ContextListed ==
    ASSUME NEW x \in Context
    PROVE  /\ Listed(x) /\ x.out \in Seq(Item) /\ DOMAIN x.out = 1 .. Len(x.out)
           /\ Len(x.out) \in Nat /\ Len(x.blocks) \in Nat
<1>1. x.out \in Seq(Item) /\ x.blocks \in Seq(BlockState) /\ DOMAIN x = Fields
  BY ContextFields DEF Context
<1>2. Listed(x)
  BY <1>1 DEF Listed
<1> QED BY <1>1, <1>2, ListedIs

\* The events before one that both lists have are the same.
LEMMA SameBefore ==
    ASSUME NEW S, NEW s \in Seq(S), NEW t \in Seq(S), NEW k \in 1 .. Len(s), Len(s) <= Len(t),
           \A i \in 1 .. Len(s) : t[i] = s[i]
    PROVE  SubSeq(t, 1, k - 1) = SubSeq(s, 1, k - 1)
<1> DEFINE n == k - 1
           a == SubSeq(s, 1, n)
           b == SubSeq(t, 1, n)
<1>1. n \in 0 .. Len(s) /\ n \in 0 .. Len(t) /\ \A i \in 1 .. n : i \in 1 .. Len(s)
  <2>1. Len(s) \in Nat /\ Len(t) \in Nat
    OBVIOUS
  <2> QED BY <2>1
<1> HIDE DEF n
<1>2. /\ a \in Seq(S) /\ Len(a) = n /\ \A i \in 1 .. n : a[i] = s[i]
      /\ b \in Seq(S) /\ Len(b) = n /\ \A i \in 1 .. n : b[i] = t[i]
  BY <1>1, BeyondIs
<1> HIDE DEF a, b
<1>3. \A i \in 1 .. n : a[i] = b[i]
  BY <1>1, <1>2
<1>4. a = b
  BY <1>2, <1>3, SameSeq
<1> QED BY <1>4 DEF a, b, n

\* A call is a call of a tool.
LEMMA OpeningIs ==
    ASSUME NEW events \in Seq(UpstreamEvent), NEW i \in DOMAIN events, Opening(events, i)
    PROVE  events[i].tool \in ToolId
<1>1. events[i] \in UpstreamEvent /\ events[i].kind = "tool"
  BY DEF Opening
<1> QED BY <1>1 DEF UpstreamEvent

LEMMA OnwardReady ==
    ASSUME NEW x \in Context, PlacesOK(x), NEW y \in Context, Onward(x, y), NEW c,
           NEW events \in Seq(UpstreamEvent), Ready(x, c, events)
    PROVE  Ready(y, c, events)
<1> DEFINE a == Len(x.out)
           b == Len(y.out)
           p == Len(x.blocks)
           q == Len(y.blocks)
<1>1. /\ x.out \in Seq(Item) /\ DOMAIN x.out = 1 .. a /\ a \in Nat /\ p \in Nat
      /\ y.out \in Seq(Item) /\ DOMAIN y.out = 1 .. b /\ b \in Nat /\ q \in Nat
      /\ Listed(x)
  BY ContextListed
<1>2. /\ y.tools = x.tools /\ y.thinking = x.thinking /\ p <= q /\ a <= b
      /\ \A k \in 1 .. a : y.out[k] = x.out[k]
      /\ \A k \in a + 1 .. b : y.out[k].ev = "start" => \E j \in p + 1 .. q : y.out[k].at = {j}
  BY <1>1 DEF Onward
<1>3. /\ \A k \in 1 .. a : x.out[k].ev = "start" => \E j \in 1 .. p : x.out[k].at = {j}
      /\ \A t \in ToolId : x.tools[t] # 0 <=> CallOf(t, events)
      /\ Due(x, c, x.out, events)
  BY <1>1 DEF Ready
<1>4. \A t \in ToolId : x.tools[t] \in 0 .. p
  BY DEF PlacesOK
<1> HIDE DEF a, b, p, q
<1>5. ASSUME NEW k \in 1 .. b, y.out[k].ev = "start" PROVE \E j \in 1 .. q : y.out[k].at = {j}
  <2>1. CASE k \in 1 .. a
    <3>1. PICK j \in 1 .. p : x.out[k].at = {j}
      BY <1>2, <1>3, <1>5, <2>1
    <3>2. j \in 1 .. q /\ y.out[k].at = {j}
      BY <1>1, <1>2, <2>1, <3>1
    <3> QED BY <3>2
  <2>2. CASE k \notin 1 .. a
    <3>1. k \in a + 1 .. b
      BY <1>1, <2>2
    <3>2. PICK j \in p + 1 .. q : y.out[k].at = {j}
      BY <1>2, <1>5, <3>1
    <3>3. j \in 1 .. q
      BY <1>1, <1>2
    <3> QED BY <3>2, <3>3
  <2> QED BY <2>1, <2>2
<1>6. ASSUME NEW k \in 1 .. b, NEW i \in DOMAIN events, y.out[k].ev = "start", Opening(events, i),
             y.out[k].at = {y.tools[events[i].tool]}, Heeded(y, events, i)
      PROVE  Spelt(c, SubSeq(y.out, 1, k - 1), SubSeq(events, 1, i))
  <2>1. events[i].tool \in ToolId
    BY <1>6, OpeningIs
  <2>2. CASE k \in 1 .. a
    <3>1. SubSeq(y.out, 1, k - 1) = SubSeq(x.out, 1, k - 1)
      BY <1>1, <1>2, <2>2, SameBefore DEF a, b
    <3>2. x.out[k].ev = "start" /\ x.out[k].at = {x.tools[events[i].tool]} /\ Heeded(x, events, i)
      BY <1>2, <1>6, <2>2 DEF Heeded
    <3>3. k \in DOMAIN x.out
      BY <1>1, <2>2
    <3>4. Spelt(c, SubSeq(x.out, 1, k - 1), SubSeq(events, 1, i))
      BY <1>3, <1>6, <3>2, <3>3 DEF Due
    <3> QED BY <3>1, <3>4
  <2>3. CASE k \notin 1 .. a
    <3>1. k \in a + 1 .. b
      BY <1>1, <2>3
    <3>2. PICK j \in p + 1 .. q : y.out[k].at = {j}
      BY <1>2, <1>6, <3>1
    <3>3. j = x.tools[events[i].tool]
      BY <1>2, <1>6, <3>2
    <3>4. j \in 0 .. p
      BY <1>4, <2>1, <3>3
    <3> QED BY <1>1, <3>2, <3>4
  <2> QED BY <2>2, <2>3
<1>7. Due(y, c, y.out, events)
  BY <1>1, <1>6 DEF Due
<1> QED BY <1>1, <1>2, <1>3, <1>5, <1>7 DEF Ready, q

\* One more event, which does not open a call.
LEMMA ReadyMore ==
    ASSUME NEW x, NEW c, NEW events \in Seq(UpstreamEvent), Ready(x, c, events),
           NEW e \in UpstreamEvent, e.kind = "tool" => CallOf(e.tool, events)
    PROVE  Ready(x, c, Append(events, e))
<1> DEFINE more == Append(events, e)
           n == Len(events)
<1>1. /\ more \in Seq(UpstreamEvent) /\ n \in Nat /\ DOMAIN more = 1 .. n + 1
      /\ DOMAIN events = 1 .. n /\ more[n + 1] = e
      /\ \A i \in 1 .. n : more[i] = events[i] /\ SubSeq(more, 1, i) = SubSeq(events, 1, i)
  BY OneMore
<1> HIDE DEF more, n
<1>2. /\ \A k \in DOMAIN x.out : x.out[k].ev = "start" => \E j \in 1 .. Len(x.blocks) : x.out[k].at = {j}
      /\ \A t \in ToolId : x.tools[t] # 0 <=> CallOf(t, events)
      /\ Due(x, c, x.out, events)
  BY DEF Ready
<1>3. ASSUME NEW t PROVE CallOf(t, events) <=> CallOf(t, more)
  <2>1. ASSUME CallOf(t, events) PROVE CallOf(t, more)
    <3>1. PICK i \in 1 .. n : events[i].kind = "tool" /\ events[i].tool = t
      BY <1>1, <2>1 DEF CallOf
    <3>2. i \in 1 .. n + 1 /\ more[i] = events[i]
      BY <1>1
    <3> QED BY <1>1, <3>1, <3>2 DEF CallOf
  <2>2. ASSUME CallOf(t, more) PROVE CallOf(t, events)
    <3>1. PICK i \in 1 .. n + 1 : more[i].kind = "tool" /\ more[i].tool = t
      BY <1>1, <2>2 DEF CallOf
    <3>2. CASE i \in 1 .. n
      BY <1>1, <3>1, <3>2 DEF CallOf
    <3>3. CASE i \notin 1 .. n
      <4>1. i = n + 1
        BY <1>1, <3>3
      <4> QED BY <1>1, <3>1, <4>1
    <3> QED BY <3>2, <3>3
  <2> QED BY <2>1, <2>2
<1>4. ASSUME NEW k \in DOMAIN x.out, NEW i \in 1 .. n + 1, x.out[k].ev = "start", Opening(more, i),
             x.out[k].at = {x.tools[more[i].tool]}, Heeded(x, more, i)
      PROVE  Spelt(c, SubSeq(x.out, 1, k - 1), SubSeq(more, 1, i))
  <2>1. i \in 1 .. n
    <3> SUFFICES ASSUME i \notin 1 .. n PROVE FALSE
      OBVIOUS
    <3>1. i = n + 1 /\ more[i] = e
      BY <1>1
    <3>2. e.kind = "tool"
      BY <1>4, <3>1 DEF Opening
    <3>3. PICK j \in 1 .. n : events[j].kind = "tool" /\ events[j].tool = e.tool
      BY <1>1, <3>2 DEF CallOf
    <3>4. j \in 1 .. i - 1 /\ more[j] = events[j]
      BY <1>1, <3>1
    <3> QED BY <1>4, <3>1, <3>3, <3>4 DEF Opening
  <2>2. \A j \in 1 .. i : j \in 1 .. n
    BY <1>1, <2>1
  <2>3. Opening(events, i)
    <3>1. \A j \in 1 .. i - 1 : j \in 1 .. i
      BY <2>1
    <3> QED BY <1>1, <1>4, <2>1, <2>2, <3>1 DEF Opening
  <2>4. Heeded(x, events, i)
    BY <1>1, <1>4, <2>2 DEF Heeded
  <2>5. x.out[k].at = {x.tools[events[i].tool]} /\ SubSeq(more, 1, i) = SubSeq(events, 1, i)
    BY <1>1, <1>4, <2>1
  <2> QED BY <1>1, <1>2, <1>4, <2>1, <2>3, <2>4, <2>5 DEF Due
<1>5. Due(x, c, x.out, more)
  BY <1>1, <1>4 DEF Due
<1> QED BY <1>2, <1>3, <1>5 DEF Ready, more

\* What StartTool makes of the text blocks, before the tool's block starts.
LEMMA TextClosed ==
    ASSUME NEW v \in View, NEW x \in Steady(v)
    PROVE  LET y == Stop([x EXCEPT !.hasTool = TRUE], OpenText(x))
           IN  y \in Steady(v) /\ Onward(x, y) /\ Mute(x, y)
<1> DEFINE h == [x EXCEPT !.hasTool = TRUE]
           y == Stop(h, OpenText(x))
<1>1. h \in Steady(v) /\ h.blocks = x.blocks
  BY HasToolKeeps, SteadyIs DEF Context
<1>2. Onward(x, h) /\ Mute(x, h)
  BY OnwardFields, MuteFields
<1>3. OpenText(x) = OpenText(h) /\ OpenText(h) \in SUBSET OpenBlocks(h)
      /\ \A i \in OpenText(h) : h.blocks[i].type # "thinking"
  BY <1>1 DEF OpenText, OpenBlocks
<1> HIDE DEF h
<1>4. y \in Steady(v)
  <2>1. h \in Writing(v)
    BY <1>1, SteadyIs
  <2>2. y \in Writing(v) /\ Beside(h, y)
    BY <1>3, <2>1, StopKeeps
  <2> QED BY <1>1, <2>2, BesideSteady
<1>5. Onward(h, y) /\ Mute(h, y)
  BY StopOnward, StopMute
<1> HIDE DEF y
<1>6. Onward(x, y) /\ Mute(x, y)
  BY <1>2, <1>5, OnwardTwice, MuteTwice
<1> QED BY <1>4, <1>6 DEF y, h

\* Where thinking is open in the translation it is open for a client that has been
\* given all events.
LEMMA InsideThinks ==
    ASSUME NEW v \in View, NEW x \in Steady(v), x.inside
    PROVE  Thinks(v, x.out)
<1>1. x \in Context /\ ThinkingOK(x) /\ Told(v, x) /\ x.out \in Seq(Item)
  BY SteadyIs, ContextListed
<1>2. PICK w \in View : Flow(v, x.out, w) /\ Mirrors(w, x)
  BY <1>1 DEF Told
<1>3. x.thinkAt \in OpenBlocks(x) /\ x.blocks[x.thinkAt].type = "thinking"
  BY <1>1 DEF ThinkingOK
<1>4. DOMAIN w.blocks = 1 .. Len(x.blocks) /\ OpenBlocks(x) \subseteq 1 .. Len(x.blocks)
  BY <1>1, <1>2, MirroredOpen, ContextBlocks
<1>5. x.thinkAt \in OpenParts(w, {"thinking"})
  BY <1>2, <1>3, <1>4 DEF Mirrors, OpenParts, OpenBlocks
<1>6. ASSUME NEW u \in View, Flow(v, x.out, u) PROVE u = w
  <2> DEFINE queue == x.out
  <2>1. queue \in Seq(Item) /\ Flow(v, queue, u) /\ Flow(v, queue, w)
    BY <1>1, <1>2, <1>6
  <2> HIDE DEF queue
  <2> QED BY <2>1, FlowUnique
<1> QED BY <1>5, <1>6 DEF Thinks

\* All that was said upstream is said, or native reasoning has cleared what was held.
LEMMA DrainedSpelt ==
    ASSUME NEW c \in Client, NEW x \in Steady(ViewOf(c)), NEW events,
           Poured(x, events, Reached(c, <<>>)), ~x.native, x.inside \/ x.buffer = <<>>
    PROVE  Spelt(c, x.out, events)
<1>1. ViewOf(c) \in View /\ x \in Context
  BY ViewIs, SteadyIs
<1>2. CASE x.inside
  BY <1>1, <1>2, InsideThinks DEF Spelt
<1>3. CASE x.buffer = <<>>
  <2> SUFFICES ASSUME NEW l \in Letter PROVE Words(l, events) <= Heard(l, c) + Spoken(l, x.out)
    BY DEF Spelt
  <2>1. Reached(c, <<>>)[l] + Within(l, x) = Words(l, events)
    BY DEF Poured, Settled
  <2>2. Reached(c, <<>>)[l] = Heard(l, c) + 0 /\ Within(l, x) = Spoken(l, x.out) + 0
    BY <1>3, NoTalk, CountNone DEF Reached, Within
  <2>3. Heard(l, c) \in Nat /\ Spoken(l, x.out) \in Nat
    BY <1>1, HeardIs, ContextCarries, CarriesCounts
  <2> QED BY <2>1, <2>2, <2>3
<1> QED BY <1>2, <1>3

\* A call: what is held back is said before its block starts.
LEMMA ToolReady ==
    ASSUME NEW c \in Client, NEW x \in Steady(ViewOf(c)), NEW events \in Seq(UpstreamEvent),
           NEW e \in UpstreamEvent, e.kind = "tool", Poured(x, events, Reached(c, <<>>)),
           Ready(x, c, events)
    PROVE  Ready(ToolUse(x, e.tool, e.input, e.stop), c, Append(events, e))
<1> DEFINE v == ViewOf(c)
           b == Reached(c, <<>>)
           t == e.tool
           more == Append(events, e)
           r == CloseReasoning(x)
           h == [r EXCEPT !.hasTool = TRUE]
           f == FlushBeforeTool(h)
           y == Stop([f EXCEPT !.hasTool = TRUE], OpenText(f))
           m == Len(y.blocks) + 1
           u == [y EXCEPT !.tools[t] = m]
           s == StartBlock(u, "tool_use")
           g == StartTool(f, t)
           q == [g EXCEPT !.produced = TRUE]
           d == Delta(q, g.tools[t], "json", <<>>)
           z == IF e.input THEN d ELSE g
           o == StopBlock(z, z.tools[t])
           end == IF e.stop THEN o ELSE z
<1>1. /\ ToolUse(x, t, e.input, e.stop) = end
      /\ g = IF y.tools[t] # 0 THEN y ELSE s
  BY DEF ToolUse, StartTool
<1>2. t \in ToolId /\ e.input \in BOOLEAN /\ e.stop \in BOOLEAN /\ Saying(e) = <<>>
  BY DEF UpstreamEvent, Saying
<1>3. v \in View /\ x \in Context /\ PlacesOK(x) /\ Carries(x)
  BY ViewIs, SteadyIs, ContextCarries
<1>4. end \in Steady(v) /\ g \in Steady(v) /\ f \in Steady(v)
  <2>1. ToolUse(x, t, e.input, e.stop) \in Steady(v)
    BY <1>2, <1>3, ToolUseKeeps
  <2>2. f \in Steady(v)
    BY <1>3, CloseReasoningKeeps, HasToolKeeps, FlushBeforeToolKeeps
  <2>3. StartTool(f, t) \in Steady(v)
    BY <1>2, <1>3, <2>2, StartToolKeeps
  <2> QED BY <1>1, <2>1, <2>2, <2>3
<1>5. Onward(x, h) /\ Mute(x, h)
  <2>1. Onward(x, r) /\ Mute(x, r)
    BY ThinkingOnward, CloseMute
  <2>2. Onward(r, h) /\ Mute(r, h)
    BY OnwardFields, MuteFields
  <2> QED BY <2>1, <2>2, OnwardTwice, MuteTwice
<1> HIDE DEF r, h
<1>6. /\ Carries(h) /\ Poured(h, events, b) /\ Onward(h, f) /\ Pours(h, f)
      /\ Drained(h) => Drained(f) /\ (f.inside \/ f.buffer = <<>>)
  <2>1. Carries(h) /\ Poured(h, events, b)
    BY <1>3, <1>5, MuteStays
  <2> QED BY <2>1, FlushesOnward, FlushBeforeToolPours
<1> HIDE DEF f
<1>7. Carries(f) /\ Poured(f, events, b) /\ f.native = x.native
      /\ (~f.native => f.inside \/ f.buffer = <<>>)
  <2>1. Carries(f) /\ f.native = h.native /\ h.native = x.native
    BY <1>3, <1>5, <1>6 DEF Pours, Mute, AsIs
  <2>2. ~h.native => Drained(h)
    BY <1>6 DEF Poured
  <2>3. Poured(f, events, b)
    BY <1>6, <2>2, PoursStays
  <2> QED BY <1>6, <2>1, <2>2, <2>3
<1>8. y \in Steady(v) /\ Onward(f, y) /\ Mute(f, y)
  BY <1>3, <1>4, TextClosed
<1> HIDE DEF y
<1>9. y \in Context /\ PlacesOK(y) /\ Onward(x, y)
  <2>1. Onward(x, y)
    BY <1>5, <1>6, <1>8, OnwardTwice
  <2> QED BY <1>8, <2>1, SteadyIs
<1>10. Ready(y, c, events)
  BY <1>3, <1>9, OnwardReady
<1>11. /\ Poured(y, events, b) /\ y.native = x.native /\ y.thinking = x.thinking
       /\ ~y.native => y.inside \/ y.buffer = <<>>
  <2>1. Poured(y, events, b) /\ AsIs(f, y)
    BY <1>7, <1>8, MuteStays
  <2>2. y.thinking = x.thinking
    BY <1>3, <1>9, ContextListed DEF Onward
  <2> QED BY <1>7, <2>1, <2>2 DEF AsIs
<1>12. Onward(g, end)
  <2>1. Onward(g, q)
    BY OnwardFields
  <2> HIDE DEF q
  <2>2. Onward(q, d)
    BY EmitOnward, OnwardFields DEF Delta
  <2> HIDE DEF d
  <2>3. Onward(g, z)
    BY <2>1, <2>2, OnwardTwice, OnwardFields
  <2> HIDE DEF z
  <2>4. Onward(z, o)
    BY StopOnward
  <2> HIDE DEF o
  <2> QED BY <2>3, <2>4, OnwardTwice
<1> HIDE DEF end, z, o, q, d
<1>13. SUFFICES Ready(g, c, more)
  <2> SUFFICES ASSUME Ready(g, c, more) PROVE Ready(end, c, more)
    BY <1>1
  <2>1. g \in Context /\ PlacesOK(g) /\ end \in Context /\ more \in Seq(UpstreamEvent)
    BY <1>4, SteadyIs
  <2> QED BY <1>12, <2>1, OnwardReady
<1> HIDE DEF g
<1>14. CASE y.tools[t] # 0
  <2>1. CallOf(t, events)
    BY <1>2, <1>10, <1>14 DEF Ready
  <2>2. Ready(y, c, more)
    BY <1>10, <2>1, ReadyMore
  <2> QED BY <1>1, <1>14, <2>2
<1>15. CASE y.tools[t] = 0
  <2> DEFINE n == Len(events)
             a == Len(y.out)
             p == Len(y.blocks)
  <2>1. /\ more \in Seq(UpstreamEvent) /\ n \in Nat /\ DOMAIN more = 1 .. n + 1
        /\ DOMAIN events = 1 .. n /\ more[n + 1] = e /\ SubSeq(more, 1, n + 1) = more
        /\ \A i \in 1 .. n : more[i] = events[i] /\ SubSeq(more, 1, i) = SubSeq(events, 1, i)
    BY OneMore
  <2>2. /\ y.out \in Seq(Item) /\ DOMAIN y.out = 1 .. a /\ a \in Nat /\ p \in Nat /\ m = p + 1
        /\ \A w \in ToolId : y.tools[w] \in 0 .. p
    BY <1>9, ContextListed DEF PlacesOK
  <2>3. /\ Listed(u) /\ u.out = y.out /\ u.blocks = y.blocks /\ u.thinking = y.thinking
        /\ u.tools[t] = m /\ \A w \in ToolId : w # t => u.tools[w] = y.tools[w]
    <3>1. Listed(y) /\ y.tools \in [ToolId -> Nat] /\ DOMAIN y = Fields
      BY <1>9, ContextListed, ContextFields DEF Context
    <3> HIDE DEF m
    <3>2. /\ DOMAIN u = Fields /\ u.out = y.out /\ u.blocks = y.blocks /\ u.thinking = y.thinking
          /\ u.tools = [y.tools EXCEPT ![t] = m]
      BY <3>1 DEF Fields
    <3> HIDE DEF u
    <3> QED BY <1>2, <3>1, <3>2 DEF Listed
  <2> HIDE DEF u
  <2>4. /\ Len(s.out) = a + 1 /\ s.out[a + 1].at = {m} /\ Len(s.blocks) = p + 1
        /\ s.tools = u.tools /\ s.thinking = u.thinking /\ s.out \in Seq(Item)
        /\ \A k \in 1 .. a : s.out[k] = y.out[k]
    <3>1. /\ Onward(u, s) /\ Len(s.out) = Len(u.out) + 1
          /\ s.out[Len(u.out) + 1].at = {Len(u.blocks) + 1} /\ Len(s.blocks) = Len(u.blocks) + 1
      BY <2>3, StartOnward
    <3>2. s \in Context
      BY <1>1, <1>4, <1>15, SteadyIs
    <3> HIDE DEF s
    <3>3. s.tools = u.tools /\ s.thinking = u.thinking /\ \A k \in 1 .. Len(u.out) : s.out[k] = u.out[k]
      BY <2>3, <3>1 DEF Onward
    <3> QED BY <2>2, <2>3, <3>1, <3>2, <3>3, ContextListed
  <2> HIDE DEF s, more, m, n, a, p
  <2>5. DOMAIN s.out = 1 .. a + 1
    BY <2>2, <2>4
  <2>6. /\ \A k \in 1 .. a : y.out[k].ev = "start" => \E j \in 1 .. p : y.out[k].at = {j}
        /\ \A w \in ToolId : y.tools[w] # 0 <=> CallOf(w, events)
        /\ Due(y, c, y.out, events)
    BY <1>10, <2>2 DEF Ready, p
  <2>7. ASSUME NEW k \in 1 .. a + 1, s.out[k].ev = "start" PROVE \E j \in 1 .. p + 1 : s.out[k].at = {j}
    <3>1. CASE k \in 1 .. a
      <4>1. PICK j \in 1 .. p : y.out[k].at = {j}
        BY <2>4, <2>6, <2>7, <3>1
      <4>2. j \in 1 .. p + 1
        BY <2>2
      <4>3. s.out[k].at = {j}
        BY <2>4, <3>1, <4>1
      <4> QED BY <4>2, <4>3
    <3>2. CASE k = a + 1
      <4>1. p + 1 \in 1 .. p + 1
        BY <2>2
      <4> QED BY <2>2, <2>4, <3>2, <4>1
    <3> QED BY <2>2, <3>1, <3>2
  <2>8. ASSUME NEW w \in ToolId PROVE s.tools[w] # 0 <=> CallOf(w, more)
    <3>1. CASE w = t
      <4>1. s.tools[w] # 0
        BY <2>2, <2>3, <2>4, <3>1
      <4>2. n + 1 \in DOMAIN more
        BY <2>1
      <4> QED BY <2>1, <3>1, <4>1, <4>2 DEF CallOf
    <3>2. CASE w # t
      <4>1. s.tools[w] # 0 <=> CallOf(w, events)
        BY <2>3, <2>4, <2>6, <3>2
      <4>2. ASSUME CallOf(w, events) PROVE CallOf(w, more)
        <5>1. PICK i \in 1 .. n : events[i].kind = "tool" /\ events[i].tool = w
          BY <2>1, <4>2 DEF CallOf
        <5>2. i \in 1 .. n + 1 /\ more[i] = events[i]
          BY <2>1
        <5> QED BY <2>1, <5>1, <5>2 DEF CallOf
      <4>3. ASSUME CallOf(w, more) PROVE CallOf(w, events)
        <5>1. PICK i \in 1 .. n + 1 : more[i].kind = "tool" /\ more[i].tool = w
          BY <2>1, <4>3 DEF CallOf
        <5>2. i # n + 1
          BY <2>1, <3>2, <5>1
        <5>3. i \in 1 .. n
          BY <2>1, <5>2
        <5> QED BY <2>1, <5>1, <5>3 DEF CallOf
      <4> QED BY <4>1, <4>2, <4>3
    <3> QED BY <3>1, <3>2
  <2>9. ASSUME NEW k \in 1 .. a + 1, NEW i \in 1 .. n + 1, s.out[k].ev = "start", Opening(more, i),
               s.out[k].at = {s.tools[more[i].tool]}, Heeded(s, more, i)
        PROVE  Spelt(c, SubSeq(s.out, 1, k - 1), SubSeq(more, 1, i))
    <3> DEFINE w == more[i].tool
    <3>1. w \in ToolId
      BY <2>1, <2>9, OpeningIs
    <3>2. CASE w # t
      <4>1. i # n + 1
        BY <2>1, <3>2
      <4>2. i \in 1 .. n /\ more[i] = events[i] /\ SubSeq(more, 1, i) = SubSeq(events, 1, i)
        BY <2>1, <4>1
      <4>3. s.out[k].at = {y.tools[w]} /\ y.tools[w] \in 0 .. p
        BY <2>2, <2>3, <2>4, <2>9, <3>1, <3>2
      <4>4. k # a + 1
        <5> SUFFICES ASSUME k = a + 1 PROVE FALSE
          OBVIOUS
        <5>1. {m} = {y.tools[w]}
          BY <2>4, <4>3
        <5>2. m = y.tools[w]
          BY <5>1
        <5> QED BY <2>2, <4>3, <5>2
      <4>5. k \in 1 .. a
        BY <2>2, <4>4
      <4>6. \A j \in 1 .. i : j \in 1 .. n
        BY <2>1, <4>2
      <4>7. Opening(events, i)
        <5>1. \A j \in 1 .. i - 1 : j \in 1 .. i
          BY <4>2
        <5> QED BY <2>1, <2>9, <4>2, <4>6, <5>1 DEF Opening
      <4>8. Heeded(y, events, i)
        BY <2>1, <2>3, <2>4, <2>9, <4>6 DEF Heeded
      <4>9. y.out[k].ev = "start" /\ y.out[k].at = {y.tools[events[i].tool]}
        BY <2>4, <2>9, <4>2, <4>3, <4>5
      <4>10. Spelt(c, SubSeq(y.out, 1, k - 1), SubSeq(events, 1, i))
        BY <2>1, <2>2, <2>6, <4>2, <4>5, <4>7, <4>8, <4>9 DEF Due
      <4>11. SubSeq(s.out, 1, k - 1) = SubSeq(y.out, 1, k - 1)
        <5>1. Len(y.out) <= Len(s.out) /\ k \in 1 .. Len(y.out)
              /\ \A j \in 1 .. Len(y.out) : s.out[j] = y.out[j]
          BY <2>2, <2>4, <4>5 DEF a
        <5> QED BY <2>2, <2>4, <5>1, SameBefore
      <4> QED BY <4>2, <4>10, <4>11
    <3>3. CASE w = t
      <4>1. s.out[k].at = {p + 1}
        BY <2>2, <2>3, <2>4, <2>9, <3>3
      <4>2. k = a + 1
        <5> SUFFICES ASSUME k # a + 1 PROVE FALSE
          OBVIOUS
        <5>1. k \in 1 .. a
          BY <2>2
        <5>2. PICK j \in 1 .. p : y.out[k].at = {j}
          BY <2>4, <2>6, <2>9, <5>1
        <5>3. {p + 1} = {j}
          BY <2>4, <4>1, <5>1, <5>2
        <5>4. p + 1 = j
          BY <5>3
        <5> QED BY <2>2, <5>4
      <4>3. i = n + 1
        <5> SUFFICES ASSUME i # n + 1 PROVE FALSE
          OBVIOUS
        <5>1. i \in 1 .. n
          BY <2>1
        <5>2. CallOf(t, events)
          BY <2>1, <2>9, <3>3, <5>1 DEF CallOf, Opening
        <5> QED BY <1>2, <1>15, <2>6, <5>2
      <4>4. ~y.native
        <5> SUFFICES ASSUME y.native PROVE FALSE
          OBVIOUS
        <5>1. y.thinking /\ Reasoned(events)
          BY <1>11 DEF Poured
        <5>2. PICK j \in 1 .. n : events[j].kind = "reasoning"
          BY <2>1, <5>1 DEF Reasoned
        <5>3. j \in 1 .. i /\ more[j] = events[j]
          BY <2>1, <4>3
        <5> QED BY <2>3, <2>4, <2>9, <5>1, <5>2, <5>3 DEF Heeded
      <4>5. Spelt(c, y.out, events)
        BY <1>8, <1>11, <4>4, DrainedSpelt
      <4>6. ASSUME NEW l \in Letter PROVE Words(l, more) = Words(l, events)
        <5>1. Words(l, Append(events, e)) = Words(l, events) + Count(l, Saying(e))
          BY WordsAppend
        <5>2. Count(l, Saying(e)) = 0 /\ Words(l, events) \in Nat
          BY <1>2, CountNone, WordsAre
        <5> QED BY <5>1, <5>2 DEF more
      <4>7. Spelt(c, y.out, more)
        BY <4>5, <4>6 DEF Spelt
      <4>8. SubSeq(s.out, 1, k - 1) = y.out
        <5> DEFINE part == SubSeq(s.out, 1, a)
        <5>1. a \in 0 .. Len(s.out)
          BY <2>2, <2>4
        <5>2. part \in Seq(Item) /\ Len(part) = a /\ \A j \in 1 .. a : part[j] = s.out[j]
          BY <2>4, <5>1, BeyondIs
        <5> HIDE DEF part
        <5>3. part = y.out
          BY <2>2, <2>4, <5>2, SameSeq DEF a
        <5> QED BY <2>2, <4>2, <5>3 DEF part
      <4> QED BY <2>1, <4>3, <4>7, <4>8
    <3> QED BY <3>2, <3>3
  <2>10. Due(s, c, s.out, more)
    BY <2>1, <2>5, <2>9 DEF Due
  <2>11. Ready(s, c, more)
    BY <2>4, <2>5, <2>7, <2>8, <2>10 DEF Ready
  <2> QED BY <1>1, <1>15, <2>11
<1> QED BY <1>14, <1>15

LEMMA EventReady ==
    ASSUME NEW c \in Client, NEW x \in Steady(ViewOf(c)), NEW events \in Seq(UpstreamEvent),
           NEW e \in UpstreamEvent, Poured(x, events, Reached(c, <<>>)), Ready(x, c, events)
    PROVE  Ready(OnEvent(x, e), c, Append(events, e))
<1> DEFINE y == OnEvent(x, e)
<1>1. CASE e.kind = "tool"
  BY <1>1, ToolReady DEF OnEvent
<1>2. CASE e.kind # "tool"
  <2>1. x \in Context /\ PlacesOK(x) /\ y \in Context
    BY ViewIs, OnEventKeeps, SteadyIs
  <2>2. Onward(x, y)
    BY <1>2, EventOnward
  <2> HIDE DEF y
  <2>3. Ready(y, c, events)
    BY <2>1, <2>2, OnwardReady
  <2>4. Ready(y, c, Append(events, e))
    BY <1>2, <2>3, ReadyMore
  <2> QED BY <2>4 DEF y
<1> QED BY <1>1, <1>2

\* A chunk of events, one after the other.
LEMMA EventsReady ==
    ASSUME NEW c \in Client, NEW x \in Steady(ViewOf(c)), NEW before \in Seq(UpstreamEvent),
           NEW events \in Seq(UpstreamEvent), Poured(x, before, Reached(c, <<>>)),
           Ready(x, c, before)
    PROVE  Ready(FoldLeft(OnEvent, x, events), c, before \o events)
<1> DEFINE v == ViewOf(c)
           b == Reached(c, <<>>)
           n == Len(events)
           upto(k) == before \o SubSeq(events, 1, k)
<1>1. n \in Nat /\ v \in View /\ b \in [Letter -> Nat]
  <2>1. <<>> \in Seq(Item) /\ Len(events) \in Nat
    OBVIOUS
  <2>2. b \in [Letter -> Nat]
    BY <2>1, ReachedIs
  <2> QED BY <2>1, <2>2, ViewIs
<1>2. PICK f \in [0 .. n -> Steady(v)] : EventChain(f, x, events)
  BY <1>1, OnEventKeeps, EventsSteps
<1>3. ASSUME NEW k \in Nat, k + 1 <= n
      PROVE  /\ upto(k) \in Seq(UpstreamEvent) /\ events[k + 1] \in UpstreamEvent
             /\ upto(k + 1) = Append(upto(k), events[k + 1])
  BY <1>3, OneLonger
<1>4. upto(0) = before /\ upto(n) = before \o events
  <2>1. SubSeq(events, 1, 0) = <<>> /\ SubSeq(events, 1, n) = events /\ before \o <<>> = before
    OBVIOUS
  <2> QED BY <2>1
<1> HIDE DEF upto, n, b
<1> DEFINE T == {k \in Nat : k <= n => Poured(f[k], upto(k), b) /\ Ready(f[k], c, upto(k))}
<1>5. /\ f[0] = x /\ FoldLeft(OnEvent, x, events) = f[n]
      /\ \A k \in 1 .. n : f[k] = OnEvent(f[k - 1], events[k])
  BY <1>2 DEF EventChain, n
<1>6. 0 \in T
  BY <1>4, <1>5 DEF b
<1>7. ASSUME NEW k \in Nat, Poured(f[k], upto(k), b), Ready(f[k], c, upto(k)), k + 1 <= n
      PROVE  Poured(f[k + 1], upto(k + 1), b) /\ Ready(f[k + 1], c, upto(k + 1))
  <2>1. k \in 0 .. n /\ k + 1 \in 1 .. n /\ (k + 1) - 1 = k
    BY <1>1, <1>7 DEF n
  <2>2. f[k] \in Steady(v) /\ Carries(f[k])
    BY <1>2, <2>1, SteadyIs, ContextCarries DEF n
  <2>3. Poured(OnEvent(f[k], events[k + 1]), Append(upto(k), events[k + 1]), b)
    BY <1>1, <1>3, <1>7, <2>2, OnEventPoured
  <2>4. Ready(OnEvent(f[k], events[k + 1]), c, Append(upto(k), events[k + 1]))
    BY <1>3, <1>7, <2>2, EventReady DEF b
  <2>5. f[k + 1] = OnEvent(f[k], events[k + 1])
    BY <1>5, <2>1
  <2> QED BY <1>3, <1>7, <2>3, <2>4, <2>5
<1>8. T \in SUBSET Nat /\ \A k \in T : k + 1 \in T
  <2>1. \A k \in T : k + 1 \in T
    BY <1>1, <1>7 DEF n
  <2> QED BY <2>1
<1> HIDE DEF T
<1>9. n \in T
  BY <1>1, <1>6, <1>8, Induction DEF n
<1>10. Ready(f[n], c, upto(n))
  BY <1>1, <1>9 DEF T, n
<1> QED BY <1>4, <1>5, <1>10

-----------------------------------------------------------------------------
(* What is owed stays owed while the client takes it.                      *)

\* What the client leaves of a first event comes before the others, and starts no block.
LEMMA Fronts ==
    ASSUME client \in Client, NEW queue \in Seq(Item), NEW w \in View, queue # <<>>,
           Flow(ViewOf(client), queue, w), NEW left, TakesFirst(queue, left)
    PROVE  \E front \in Seq(Item) :
              /\ left = front \o Tail(queue)
              /\ \A k \in 1 .. Len(front) : front[k].ev # "start"
              /\ \A p \in Seq(Item) : TakesFirst(<<Head(queue)>> \o p, front \o p)
<1> DEFINE item == Head(queue)
           rest == Tail(queue)
           One(ev, i) == [ev |-> ev, at |-> {i}, tag |-> "", text |-> <<>>]
<1>1. item \in Item /\ Legal(ViewOf(client), item) /\ rest \in Seq(Item)
  BY ViewIs, FlowHead
<1>2. ASSUME NEW p \in Seq(Item)
      PROVE  /\ Head(<<item>> \o p) = item /\ Tail(<<item>> \o p) = p
  BY <1>1
<1>3. CASE item.ev # "stop"
  <2>1. client' = Receive(client, item) /\ left = rest
    BY <1>3 DEF TakesFirst
  <2>2. <<>> \in Seq(Item) /\ Len(<<>>) = 0 /\ \A p \in Seq(Item) : <<>> \o p = p
    OBVIOUS
  <2>3. \A p \in Seq(Item) : TakesFirst(<<item>> \o p, <<>> \o p)
    BY <1>2, <1>3, <2>1, <2>2 DEF TakesFirst
  <2>4. left = <<>> \o rest /\ \A k \in 1 .. Len(<<>>) : <<>>[k].ev # "start"
    BY <1>1, <2>1, <2>2
  <2> QED BY <2>2, <2>3, <2>4
<1>4. CASE item.ev = "stop"
  <2>1. PICK i \in item.at :
           IF item.tag = "signed" /\ client.blocks[i].type = "thinking"
           THEN /\ client' = Receive(client, One("signature", i))
                /\ left = <<One("stop", i)>> \o Left(item, i, queue)
           ELSE client' = Receive(client, One("stop", i)) /\ left = Left(item, i, queue)
    BY <1>4 DEF TakesFirst
  <2>2. i \in Nat
    BY <1>1 DEF Item
  <2> DEFINE less  == [item EXCEPT !.at = item.at \ {i}]
             stop  == One("stop", i)
             front == IF item.at = {i} THEN <<>> ELSE <<less>>
             both  == <<stop>> \o front
  <2>3. less \in Item /\ less.ev = "stop" /\ stop \in Item /\ stop.ev = "stop"
    <3>1. less \in Item /\ less.ev = "stop"
      BY <1>1, <1>4 DEF Item
    <3>2. {i} \in SUBSET Nat /\ "stop" \in Event /\ "" \in Tag /\ <<>> \in Seq(Char)
      BY <2>2, NoText DEF Event, Tag
    <3>3. stop \in Item
      BY <3>2 DEF Item
    <3> QED BY <3>1, <3>3
  <2>4. ASSUME NEW p \in Seq(Item), NEW q, Tail(q) = p PROVE Left(item, i, q) = front \o p
    <3> HIDE DEF item
    <3>1. CASE item.at = {i}
      <4>1. <<>> \o p = p
        OBVIOUS
      <4>2. Left(item, i, q) = p
        BY <2>4, <3>1 DEF Left
      <4> QED BY <3>1, <4>1, <4>2
    <3>2. CASE item.at # {i}
      <4>1. Left(item, i, q) = <<less>> \o p
        BY <2>4, <3>2 DEF Left
      <4> QED BY <3>2, <4>1
    <3> QED BY <3>1, <3>2
  <2> HIDE DEF less, stop
  <2>5. /\ front \in Seq(Item) /\ both \in Seq(Item)
        /\ \A k \in 1 .. Len(front) : front[k].ev # "start"
        /\ \A k \in 1 .. Len(both) : both[k].ev # "start"
    <3>1. CASE item.at = {i}
      <4>1. front = <<>> /\ both = <<stop>>
        BY <3>1
      <4> QED BY <2>3, <4>1
    <3>2. CASE item.at # {i}
      <4>1. front = <<less>> /\ <<stop>> \in Seq(Item) /\ <<less>> \in Seq(Item)
            /\ Len(<<stop>>) = 1 /\ Len(<<less>>) = 1
        BY <2>3, <3>2
      <4>2. /\ both \in Seq(Item) /\ Len(both) = 2
            /\ both[1] = <<stop>>[1] /\ both[2] = <<less>>[1]
        <5>1. /\ both \in Seq(Item) /\ Len(both) = Len(<<stop>>) + Len(<<less>>)
              /\ \A k \in 1 .. Len(<<stop>>) : both[k] = <<stop>>[k]
              /\ \A k \in 1 .. Len(<<less>>) : both[Len(<<stop>>) + k] = <<less>>[k]
          BY <4>1, Joined
        <5> HIDE DEF both, front
        <5> QED BY <4>1, <5>1
      <4>3. Len(front) = 1 /\ front[1] = less /\ front \in Seq(Item)
        BY <4>1
      <4> HIDE DEF both, front
      <4>4. \A k \in 1 .. 2 : k = 1 \/ k = 2
        OBVIOUS
      <4> QED BY <2>3, <4>2, <4>3, <4>4
    <3> QED BY <3>1, <3>2
  <2> HIDE DEF front
  <2>6. ASSUME NEW p \in Seq(Item) PROVE <<stop>> \o (front \o p) = both \o p
    <3>1. <<stop>> \in Seq(Item)
      BY <2>3
    <3> QED BY <2>5, <3>1, ConcatAssociative
  <2>7. Left(item, i, queue) = front \o rest
    BY <1>1, <2>4
  <2>8. ASSUME NEW p \in Seq(Item) PROVE Left(item, i, <<item>> \o p) = front \o p
    BY <1>2, <2>4
  <2>9. CASE item.tag = "signed" /\ client.blocks[i].type = "thinking"
    <3>1. client' = Receive(client, One("signature", i)) /\ left = <<stop>> \o (front \o rest)
      BY <2>1, <2>7, <2>9 DEF stop
    <3>2. left = both \o rest
      BY <1>1, <2>6, <3>1
    <3>3. ASSUME NEW p \in Seq(Item) PROVE TakesFirst(<<item>> \o p, both \o p)
      <4>1. both \o p = <<One("stop", i)>> \o Left(item, i, <<item>> \o p)
        BY <2>6, <2>8 DEF stop
      <4> HIDE DEF both, item
      <4>2. Head(<<item>> \o p) = item
        BY <1>2
      <4> QED BY <1>4, <2>9, <3>1, <4>1, <4>2 DEF TakesFirst
    <3> HIDE DEF both
    <3> QED BY <2>5, <3>2, <3>3
  <2>10. CASE ~(item.tag = "signed" /\ client.blocks[i].type = "thinking")
    <3>1. client' = Receive(client, One("stop", i)) /\ left = front \o rest
      BY <2>1, <2>7, <2>10
    <3>2. ASSUME NEW p \in Seq(Item) PROVE TakesFirst(<<item>> \o p, front \o p)
      <4>1. front \o p = Left(item, i, <<item>> \o p)
        BY <2>8
      <4> HIDE DEF item
      <4>2. Head(<<item>> \o p) = item
        BY <1>2
      <4> QED BY <1>4, <2>10, <3>1, <4>1, <4>2 DEF TakesFirst
    <3> QED BY <2>5, <3>1, <3>2
  <2> QED BY <2>9, <2>10
<1> QED BY <1>3, <1>4

\* What the client will have when it has taken a queue is the same when it has begun.
LEMMA TakingSpelt ==
    ASSUME client \in Client, NEW queue \in Seq(Item), NEW w \in View, queue # <<>>,
           Flow(ViewOf(client), queue, w), NEW left, TakesFirst(queue, left), NEW events,
           Spelt(client, queue, events)
    PROVE  Spelt(client', left, events)
<1>1. /\ client' \in Client /\ left \in Seq(Item) /\ Flow(ViewOf(client'), left, w)
      /\ ViewOf(client) \in View /\ ViewOf(client') \in View
  BY TakingKeeps, ViewIs
<1>2. CASE Thinks(ViewOf(client), queue)
  <2>1. OpenParts(w, {"thinking"}) # {}
    BY <1>2 DEF Thinks
  <2>2. Thinks(ViewOf(client'), left)
    <3> SUFFICES ASSUME NEW u \in View, Flow(ViewOf(client'), left, u)
                 PROVE  OpenParts(u, {"thinking"}) # {}
      BY DEF Thinks
    <3>1. u = w
      BY <1>1, FlowUnique
    <3> QED BY <2>1, <3>1
  <2> QED BY <2>2 DEF Spelt
<1>3. CASE \A l \in Letter : Words(l, events) <= Heard(l, client) + Spoken(l, queue)
  <2>1. \A l : Heard(l, client') + Spoken(l, left) = Heard(l, client) + Spoken(l, queue)
    BY TakingHears
  <2>2. \A l \in Letter : Words(l, events) <= Heard(l, client') + Spoken(l, left)
    BY <1>3, <2>1
  <2> QED BY <2>2 DEF Spelt
<1> QED BY <1>2, <1>3 DEF Spelt

\* The events of a joined list before one of its second part.
LEMMA BeforeJoined ==
    ASSUME NEW S, NEW s \in Seq(S), NEW t \in Seq(S), NEW n \in 0 .. Len(t)
    PROVE  SubSeq(s \o t, 1, Len(s) + n) = s \o SubSeq(t, 1, n)
<1> DEFINE all  == s \o t
           a    == Len(s)
           part == SubSeq(t, 1, n)
           one  == SubSeq(all, 1, a + n)
           two  == s \o part
<1>1. /\ all \in Seq(S) /\ a \in Nat /\ Len(t) \in Nat /\ Len(all) = a + Len(t)
      /\ \A i \in 1 .. a : all[i] = s[i]
      /\ \A i \in 1 .. Len(t) : all[a + i] = t[i]
  BY Joined
<1>2. part \in Seq(S) /\ Len(part) = n /\ \A i \in 1 .. n : part[i] = t[i]
  BY BeyondIs
<1> HIDE DEF all, part
<1>3. a + n \in 0 .. Len(all)
  BY <1>1
<1>4. one \in Seq(S) /\ Len(one) = a + n /\ \A i \in 1 .. a + n : one[i] = all[i]
  BY <1>1, <1>3, BeyondIs
<1>5. /\ two \in Seq(S) /\ Len(two) = a + n
      /\ \A i \in 1 .. a : two[i] = s[i]
      /\ \A i \in 1 .. n : two[a + i] = part[i]
  <2> DEFINE q == part
  <2> HIDE DEF q
  <2>1. q \in Seq(S)
    BY <1>2 DEF q
  <2>2. /\ s \o q \in Seq(S) /\ Len(s \o q) = Len(s) + Len(q)
        /\ \A i \in 1 .. Len(s) : (s \o q)[i] = s[i]
        /\ \A i \in 1 .. Len(q) : (s \o q)[Len(s) + i] = q[i]
    BY <2>1, Joined
  <2> QED BY <1>2, <2>2 DEF q
<1> HIDE DEF one, two, a
<1>6. ASSUME NEW i \in 1 .. a + n PROVE one[i] = two[i]
  <2>1. CASE i \in 1 .. a
    BY <1>1, <1>4, <1>5, <2>1
  <2>2. CASE i \notin 1 .. a
    <3>1. i - a \in 1 .. n /\ i - a \in 1 .. Len(t) /\ a + (i - a) = i
      BY <1>1, <2>2
    <3>2. one[i] = t[i - a]
      BY <1>1, <1>4, <3>1
    <3>3. two[i] = t[i - a]
      BY <1>2, <1>5, <3>1
    <3> QED BY <3>2, <3>3
  <2> QED BY <2>1, <2>2
<1>7. one = two
  BY <1>4, <1>5, <1>6, SameSeq
<1> QED BY <1>7 DEF one, two, a, all, part

LEMMA DueTaken ==
    ASSUME client \in Client, NEW queue \in Seq(Item), NEW w \in View, queue # <<>>,
           Flow(ViewOf(client), queue, w), NEW left, TakesFirst(queue, left),
           NEW x, NEW events, Due(x, client, queue, events)
    PROVE  Due(x, client', left, events)
<1> DEFINE item == Head(queue)
           rest == Tail(queue)
<1>1. item \in Item /\ rest \in Seq(Item) /\ ViewOf(client) \in View
  BY ViewIs, FlowHead
<1>2. PICK front \in Seq(Item) :
         /\ left = front \o rest
         /\ \A k \in 1 .. Len(front) : front[k].ev # "start"
         /\ \A p \in Seq(Item) : TakesFirst(<<item>> \o p, front \o p)
  BY Fronts
<1>3. /\ Len(queue) \in Nat /\ Len(rest) \in Nat /\ Len(front) \in Nat
      /\ Len(queue) = Len(rest) + 1 /\ queue = <<item>> \o rest
      /\ DOMAIN queue = 1 .. Len(queue)
      /\ \A j \in 1 .. Len(rest) : queue[j + 1] = rest[j]
  BY <1>1
<1> HIDE DEF item, rest
<1>4. /\ left \in Seq(Item) /\ DOMAIN left = 1 .. Len(front) + Len(rest)
      /\ \A k \in 1 .. Len(front) : left[k] = front[k]
      /\ \A j \in 1 .. Len(rest) : left[Len(front) + j] = rest[j]
  <2>1. /\ front \o rest \in Seq(Item) /\ Len(front \o rest) = Len(front) + Len(rest)
        /\ \A k \in 1 .. Len(front) : (front \o rest)[k] = front[k]
        /\ \A j \in 1 .. Len(rest) : (front \o rest)[Len(front) + j] = rest[j]
    BY <1>1, Joined
  <2>2. DOMAIN left = 1 .. Len(left)
    BY <1>2, <2>1
  <2> QED BY <1>2, <2>1, <2>2
<1> SUFFICES ASSUME NEW k \in DOMAIN left, NEW i \in DOMAIN events, left[k].ev = "start",
                    Opening(events, i), left[k].at = {x.tools[events[i].tool]},
                    Heeded(x, events, i)
             PROVE  Spelt(client', SubSeq(left, 1, k - 1), SubSeq(events, 1, i))
  BY DEF Due
<1> DEFINE j == k - Len(front)
           p == SubSeq(rest, 1, j - 1)
<1>5. /\ j \in 1 .. Len(rest) /\ k = Len(front) + j /\ j - 1 \in 0 .. Len(rest)
      /\ Len(front) + (j - 1) = k - 1
  <2>1. k \notin 1 .. Len(front)
    BY <1>2, <1>4
  <2> QED BY <1>3, <1>4, <2>1
<1> HIDE DEF j
<1>6. queue[j + 1] = left[k] /\ j + 1 \in DOMAIN queue /\ (j + 1) - 1 = j /\ j \in 0 .. Len(queue)
      /\ 1 + (j - 1) = j
  <2>1. left[Len(front) + j] = rest[j] /\ queue[j + 1] = rest[j]
    BY <1>3, <1>4, <1>5
  <2>2. left[k] = rest[j]
    BY <1>5, <2>1
  <2> QED BY <1>3, <1>5, <2>1, <2>2
<1>7. Spelt(client, SubSeq(queue, 1, j), SubSeq(events, 1, i))
  <2>1. queue[j + 1].ev = "start" /\ queue[j + 1].at = {x.tools[events[i].tool]}
    BY <1>6
  <2>2. Spelt(client, SubSeq(queue, 1, (j + 1) - 1), SubSeq(events, 1, i))
    BY <1>6, <2>1 DEF Due
  <2> QED BY <1>6, <2>2
<1>8. p \in Seq(Item)
  BY <1>1, <1>5, BeyondIs
<1>9. SubSeq(queue, 1, j) = <<item>> \o p
  <2>1. <<item>> \in Seq(Item) /\ Len(<<item>>) = 1
    BY <1>1
  <2>2. SubSeq(<<item>> \o rest, 1, Len(<<item>>) + (j - 1)) = <<item>> \o p
    BY <1>1, <1>5, <2>1, BeforeJoined
  <2> QED BY <1>3, <1>6, <2>1, <2>2
<1>10. SubSeq(left, 1, k - 1) = front \o p
  <2>1. SubSeq(front \o rest, 1, Len(front) + (j - 1)) = front \o p
    BY <1>1, <1>5, BeforeJoined
  <2> QED BY <1>2, <1>5, <2>1
<1>11. PICK u \in View : Flow(ViewOf(client), SubSeq(queue, 1, j), u)
  BY <1>1, <1>6, FlowPart
<1> HIDE DEF p
<1> DEFINE part == <<item>> \o p
<1>12. part \in Seq(Item) /\ part # <<>> /\ TakesFirst(part, front \o p)
  <2>1. part \in Seq(Item) /\ part # <<>>
    BY <1>1, <1>8
  <2> QED BY <1>2, <1>8, <2>1
<1>13. Flow(ViewOf(client), part, u) /\ Spelt(client, part, SubSeq(events, 1, i))
  BY <1>7, <1>9, <1>11
<1> HIDE DEF part
<1>14. Spelt(client', front \o p, SubSeq(events, 1, i))
  BY <1>12, <1>13, TakingSpelt
<1> QED BY <1>10, <1>14

\* Nothing has been said, and no call has been heard of.
LEMMA FreshReady ==
    ASSUME NEW x \in Fresh, NEW c
    PROVE  Ready(x, c, <<>>)
<1>1. x.out = <<>> /\ \A t \in ToolId : x.tools[t] = 0
  BY DEF Fresh
<1>2. DOMAIN <<>> = {}
  OBVIOUS
<1>3. Due(x, c, x.out, <<>>) /\ \A t : ~CallOf(t, <<>>)
  BY <1>2 DEF Due, CallOf
<1> QED BY <1>1, <1>2, <1>3 DEF Ready

\* The events made are handed on to the client that has taken all before.
LEMMA OwedReady ==
    ASSUME NEW x \in Context, NEW c, NEW events, Ready(x, c, events)
    PROVE  Ready(Owed(x, <<>>), c, events) /\ Due(Owed(x, <<>>), c, x.out, events)
<1> DEFINE y == Owed(x, <<>>)
<1>1. y.out = <<>> /\ y.tools = x.tools /\ y.thinking = x.thinking
  BY NoBlocks, OwedIs, ContextFields DEF Owed, Fields
<1> HIDE DEF y
<1>2. Due(y, c, x.out, events)
  BY <1>1 DEF Ready, Due, Heeded
<1>3. DOMAIN <<>> = {}
  OBVIOUS
<1>4. Ready(y, c, events)
  BY <1>1, <1>3 DEF Ready, Due
<1> QED BY <1>2, <1>4 DEF y

LEMMA InitialReady ==
    ASSUME NEW x \in Fresh, NEW c, NEW events \in Seq(UpstreamEvent), Ready(x, c, events)
    PROVE  Ready(Initial(x), c, events)
<1>1. x \in Context /\ PlacesOK(x)
  BY FreshIs
<1>2. Initial(x) \in Context
  BY InitialKeeps, SteadyIs
<1> QED BY <1>1, <1>2, InitialOnward, OnwardReady

-----------------------------------------------------------------------------
(* The invariant of the order of words and calls.                          *)

ToolsRight == Ready(ctx, client, seen) /\ Due(ctx, client, pending, seen)

ToolsInv == WordsInv /\ (client.phase # "gone" => ToolsRight)

LEMMA ToolsStart == StreamInit => ToolsInv
<1> SUFFICES ASSUME StreamInit PROVE ToolsInv
  OBVIOUS
<1>1. WordsInv /\ seen = <<>>
  BY WordsStart DEF StreamInit
<1>2. PICK thinking \in BOOLEAN :
         LET x == Initial(NewContext(thinking))
         IN  IF way = "live" THEN ctx = Owed(x, <<>>) /\ pending = x.out
             ELSE ctx = NewContext(thinking) /\ pending = <<>>
  BY DEF StreamInit, Owed
<1> DEFINE f == NewContext(thinking)
           x == Initial(f)
<1>3. f \in Fresh
  BY NewIsFresh
<1>4. x \in Context
  BY <1>3, InitialKeeps, SteadyIs
<1>5. IF way = "live" THEN ctx = Owed(x, <<>>) /\ pending = x.out ELSE ctx = f /\ pending = <<>>
  BY <1>2
<1> HIDE DEF f
<1>6. Ready(f, client, <<>>) /\ Ready(x, client, <<>>)
  <2>1. <<>> \in Seq(UpstreamEvent)
    OBVIOUS
  <2> QED BY <1>3, <2>1, FreshReady, InitialReady
<1> HIDE DEF x
<1>7. CASE way = "live"
  BY <1>1, <1>4, <1>5, <1>6, <1>7, OwedReady DEF ToolsInv, ToolsRight
<1>8. CASE way # "live"
  <2>1. DOMAIN <<>> = {}
    OBVIOUS
  <2> QED BY <1>1, <1>5, <1>6, <1>8, <2>1 DEF ToolsInv, ToolsRight, Due
<1> QED BY <1>7, <1>8

\* The client takes an event.
LEMMA DeliverReady ==
    ASSUME StreamInv, Deliver, ToolsRight
    PROVE  ToolsRight'
<1>1. ctx' = ctx /\ seen' = seen
  BY DEF Deliver
<1>2. /\ client \in Client /\ pending \in Seq(Item) /\ pending # <<>> /\ ctx.out = <<>>
      /\ TakesFirst(pending, pending')
  BY PendingFlows, DeliverTakes
<1>3. PICK w \in View : Flow(ViewOf(client), pending, w)
  BY PendingFlows
<1>4. Due(ctx, client', pending', seen)
  BY <1>2, <1>3, DueTaken DEF ToolsRight
<1>5. Ready(ctx, client', seen)
  <2>1. DOMAIN <<>> = {}
    OBVIOUS
  <2> QED BY <1>2, <2>1 DEF ToolsRight, Ready, Due
<1> QED BY <1>1, <1>4, <1>5 DEF ToolsRight

\* The events of a chunk are translated.
LEMMA TranslatedReady ==
    ASSUME StreamInv, Waiting, seen \in Seq(UpstreamEvent), client \in Client,
           Poured(ctx, seen, Reached(client, <<>>)), Ready(ctx, client, seen),
           NEW events \in Seq(UpstreamEvent)
    PROVE  Ready(Translated(ctx, events), client, seen \o events)
<1> DEFINE v == ViewOf(client)
           x == Translated(ctx, events)
<1>1. ctx \in Context /\ v \in View
  BY WaitingIs DEF StreamTypes
<1>2. CASE ctx \in Steady(v)
  <2>1. x = FoldLeft(OnEvent, ctx, events)
    BY <1>2, SteadyIs DEF Translated
  <2>2. Ready(FoldLeft(OnEvent, ctx, events), client, seen \o events)
    BY <1>2, EventsReady
  <2> QED BY <2>1, <2>2
<1>3. CASE ctx \in Fresh /\ way = "buffered" /\ v = Blank0 /\ events = <<>>
  <2>1. x = FoldLeft(OnEvent, ctx, <<>>)
    BY <1>3 DEF Translated
  <2>2. seen \o events = seen
    BY <1>3
  <2> QED BY <2>1, <2>2, NoEvents
<1>4. CASE ctx \in Fresh /\ way = "buffered" /\ v = Blank0 /\ events # <<>>
  <2> DEFINE y == Initial(ctx)
  <2>1. x = FoldLeft(OnEvent, y, events)
    BY <1>4, FreshIs DEF Translated
  <2>2. y \in Steady(v) /\ Ready(y, client, seen)
    BY <1>4, InitialKeeps, InitialReady
  <2>3. Poured(y, seen, Reached(client, <<>>))
    <3>1. Reached(client, <<>>) \in [Letter -> Nat]
      BY NoBlocks, ReachedIs
    <3> QED BY <1>1, <3>1, InitialMute, ContextCarries, MuteStays
  <2> HIDE DEF y
  <2>4. Ready(FoldLeft(OnEvent, y, events), client, seen \o events)
    BY <2>2, <2>3, EventsReady
  <2> QED BY <2>1, <2>4
<1> QED BY <1>2, <1>3, <1>4, WaitingIs

LEMMA ChunkReady ==
    ASSUME WordsInv, ToolsRight, Waiting, NEW cells \in Seq(Cell), NEW k \in Nat,
           k <= Len(cells), Chunk(cells, k)
    PROVE  ToolsRight'
<1> DEFINE n == Len(cells) - k
           run == DecodeAll(Feed(decoder, SubSeq(cells, 1, n)))
           x == Translated(ctx, run.events)
<1>1. seen' = seen \o run.events /\ Release(x) /\ client' = client
  BY DEF Chunk
<1>2. /\ StreamInv /\ seen \in Seq(UpstreamEvent) /\ Poured(ctx, seen, Reached(client, <<>>))
      /\ client \in Client /\ pending = <<>> /\ client.phase # "gone"
      /\ Ready(ctx, client, seen)
  BY DEF WordsInv, WordsRight, Waiting, StreamInv, StreamTypes, ToolsRight
<1>3. run.events \in Seq(UpstreamEvent)
  <2>1. n \in Nat /\ n <= Len(cells)
    <3>1. Len(cells) \in Nat
      OBVIOUS
    <3> QED BY <3>1
  <2> HIDE DEF n
  <2>2. SubSeq(cells, 1, n) \in Seq(Cell)
    BY <2>1, Cuts
  <2>3. Feed(decoder, SubSeq(cells, 1, n)) \in Decoder
    BY <1>2, <2>2, FeedKeeps DEF StreamInv, StreamTypes
  <2>4. run \in Run
    BY <2>3, DecodeAllKeeps
  <2> HIDE DEF run
  <2>5. run.events \in Seq(Content)
    BY <2>4 DEF Run
  <2> QED BY <2>5, ContentAssumption
<1> DEFINE events == run.events
<1>4. events \in Seq(UpstreamEvent) /\ seen' = seen \o events /\ x = Translated(ctx, events)
  BY <1>1, <1>3
<1> HIDE DEF x, events
<1>5. x \in Context
  BY <1>2, <1>4, TranslatedKeeps, SteadyIs, FreshIs
<1>6. Ready(x, client, seen \o events)
  BY <1>2, <1>4, TranslatedReady
<1>7. CASE way = "live"
  <2>1. ctx' = Owed(x, <<>>) /\ pending' = x.out
    BY <1>1, <1>7 DEF Release, Owed
  <2>2. Ready(Owed(x, <<>>), client, seen \o events) /\ Due(Owed(x, <<>>), client, x.out, seen \o events)
    BY <1>5, <1>6, OwedReady
  <2> QED BY <1>1, <1>4, <2>1, <2>2 DEF ToolsRight
<1>8. CASE way # "live"
  <2>1. ctx' = x /\ pending' = <<>>
    BY <1>1, <1>2, <1>8 DEF Release
  <2>2. DOMAIN <<>> = {}
    OBVIOUS
  <2> QED BY <1>1, <1>4, <1>6, <2>1, <2>2 DEF ToolsRight, Due
<1> QED BY <1>7, <1>8

\* The last turn of the stream.
LEMMA FinishReady ==
    ASSUME WordsInv, ToolsRight, NEW x \in Context, Finish(x), Onward(ctx, x),
           \/ x \in Steady(ViewOf(client))
           \/ x \in Fresh /\ ViewOf(client) = Blank0
    PROVE  ToolsRight'
<1> DEFINE y == IF x.started THEN x ELSE Initial(x)
           v == ViewOf(client)
           z == Final(y)
<1>1. /\ Waiting /\ ctx' = Owed(z, <<>>) /\ pending' = z.out
      /\ UNCHANGED <<client, seen>>
  BY DEF Finish, Owed
<1>2. /\ seen \in Seq(UpstreamEvent) /\ ctx \in Context /\ client \in Client
      /\ Ready(ctx, client, seen) /\ StreamInv
  BY DEF WordsInv, StreamInv, StreamTypes, ToolsRight
<1>3. v \in View
  BY <1>2, ViewIs
<1>4. PlacesOK(ctx)
  BY <1>1, <1>2, WaitingIs, SteadyIs, FreshIs
<1>5. Ready(x, client, seen)
  BY <1>2, <1>4, OnwardReady
<1>6. y \in Steady(v) /\ Ready(y, client, seen)
  BY <1>2, <1>5, SteadyIs, FreshIs, InitialKeeps, InitialReady
<1> HIDE DEF y
<1>7. z \in Context
  BY <1>3, <1>6, FinalConcludes DEF Concluded
<1>8. Ready(z, client, seen)
  <2>1. y \in Context /\ PlacesOK(y)
    BY <1>6, SteadyIs
  <2> QED BY <1>2, <1>6, <1>7, <2>1, FinalOnward, OnwardReady
<1> HIDE DEF z
<1>9. Ready(Owed(z, <<>>), client, seen) /\ Due(Owed(z, <<>>), client, z.out, seen)
  BY <1>7, <1>8, OwedReady
<1> QED BY <1>1, <1>9 DEF ToolsRight

LEMMA ToolsStep == ToolsInv /\ [StreamNext]_streamVars => ToolsInv'
<1> SUFFICES ASSUME ToolsInv, [StreamNext]_streamVars, client'.phase # "gone" PROVE ToolsRight'
  BY WordsStep DEF ToolsInv
<1>1. WordsInv /\ StreamInv /\ seen \in Seq(UpstreamEvent)
  BY DEF ToolsInv, WordsInv
<1>2. CASE Deliver
  BY <1>1, <1>2, DeliverReady DEF Deliver, ToolsInv
<1>3. CASE Disconnect
  <2>1. client'.phase = "gone"
    BY <1>1, <1>3 DEF Disconnect, StreamInv, StreamTypes, Client
  <2> QED BY <2>1
<1>4. CASE Frame
  <2>1. PICK event \in Content, trouble \in Damage \cup {"none", "split", "held"} :
           Chunk(wire \o Cells(event, trouble),
                 CASE trouble = "split" -> 1
                   [] trouble = "held"  -> FrameLen
                   [] OTHER             -> 0)
    BY <1>4 DEF Frame
  <2> DEFINE k == CASE trouble = "split" -> 1
                    [] trouble = "held"  -> FrameLen
                    [] OTHER             -> 0
             more == Cells(event, trouble)
             cells == wire \o more
  <2>2. more \in Seq(Cell) /\ Len(more) = FrameLen
    BY CellsAre
  <2>3. k \in Nat /\ k <= FrameLen
    BY BoundsNat
  <2>4. wire \in Seq(Cell) /\ Waiting /\ ToolsRight
    BY <1>1, <1>4 DEF StreamInv, StreamTypes, Frame, Waiting, ToolsInv
  <2>5. Chunk(cells, k)
    BY <2>1
  <2> HIDE DEF more, k
  <2>6. cells \in Seq(Cell) /\ Len(cells) = Len(wire) + Len(more)
        /\ Len(wire) \in Nat /\ Len(more) \in Nat
    BY <2>2, <2>4
  <2>7. k <= Len(cells)
    BY <2>2, <2>3, <2>6
  <2> HIDE DEF cells
  <2> QED BY <1>1, <2>3, <2>4, <2>5, <2>6, <2>7, ChunkReady
<1>5. CASE Rest
  <2>1. Waiting /\ Chunk(wire, 0) /\ wire \in Seq(Cell) /\ ToolsRight
    BY <1>1, <1>5 DEF Rest, StreamInv, StreamTypes, Waiting, ToolsInv
  <2>2. 0 \in Nat /\ 0 <= Len(wire)
    BY <2>1
  <2> QED BY <1>1, <2>1, <2>2, ChunkReady
<1>6. CASE EndOfBody \/ IoError
  <2>1. Waiting /\ ToolsRight
    BY <1>6 DEF EndOfBody, IoError, Finish, Waiting, ToolsInv
  <2>2. /\ ctx \in Context
        /\ \/ ctx \in Steady(ViewOf(client))
           \/ ctx \in Fresh /\ ViewOf(client) = Blank0
        /\ ViewOf(client) \in View
    BY <1>1, <2>1, WaitingIs DEF StreamInv, StreamTypes
  <2>3. CASE EndOfBody
    BY <1>1, <2>1, <2>2, <2>3, FinishReady, OnwardFields DEF EndOfBody
  <2>4. CASE IoError
    <3> DEFINE x == MarkFailure(ctx, "stream_io")
    <3>1. "stream_io" \in Failure
      BY DEF Failure
    <3>2. x \in Steady(ViewOf(client)) \/ (x \in Fresh /\ ViewOf(client) = Blank0)
      BY <2>2, <3>1, MarkFailureKeeps, MarkFresh
    <3>3. Finish(x) /\ Onward(ctx, x)
      BY <2>4, OnwardFields DEF IoError, MarkFailure
    <3> HIDE DEF x
    <3>4. x \in Context
      BY <3>2, SteadyIs, FreshIs
    <3> QED BY <1>1, <2>1, <3>2, <3>3, <3>4, FinishReady
  <2> QED BY <1>6, <2>3, <2>4
<1>7. CASE UNCHANGED streamVars
  <2>1. client.phase # "gone" /\ (ToolsRight' <=> ToolsRight)
    BY <1>7 DEF streamVars, ToolsRight
  <2> QED BY <2>1 DEF ToolsInv
<1> QED BY <1>2, <1>3, <1>4, <1>5, <1>6, <1>7 DEF StreamNext

\* Only the start of a block is another block of the message.
LEMMA OnlyStartsGrow ==
    ASSUME NEW c \in Client, NEW item
    PROVE  Len(Receive(c, item).blocks)
              = IF item.ev = "start" THEN Len(c.blocks) + 1 ELSE Len(c.blocks)
<1> DEFINE d == Receive(c, item)
           n == Len(c.blocks)
<1>1. c.blocks \in Seq(ClientBlock) /\ n \in Nat /\ DOMAIN c.blocks = 1 .. n
      /\ DOMAIN c = {"phase", "blocks", "reason"}
  BY ViewIs DEF Client
<1>2. CASE item.ev = "start"
  <2> DEFINE b == Grammar!Block(item.tag)
  <2>1. d = [c EXCEPT !.blocks = Append(c.blocks, b)]
    BY <1>2 DEF Receive
  <2> HIDE DEF b
  <2>2. d.blocks = Append(c.blocks, b)
    BY <1>1, <2>1
  <2>3. \E S : c.blocks \in Seq(S)
    BY <1>1
  <2>4. Len(Append(c.blocks, b)) = Len(c.blocks) + 1
    BY <2>3, Longer1
  <2>5. Len(d.blocks) = Len(c.blocks) + 1
    BY <2>2, <2>4
  <2> HIDE DEF b, n
  <2> QED BY <1>2, <2>5
<1>3. CASE item.ev # "start"
  <2> SUFFICES Len(d.blocks) = n
    BY <1>3
  <2>1. \/ d.blocks = c.blocks
        \/ \E i, b : d.blocks = [c.blocks EXCEPT ![i] = b]
    BY <1>1, <1>3 DEF Receive
  <2> HIDE DEF d
  <2>2. ASSUME NEW i, NEW b, d.blocks = [c.blocks EXCEPT ![i] = b] PROVE Len(d.blocks) = n
    <3>1. DOMAIN d.blocks = 1 .. n
      BY <1>1, <2>2
    <3>2. d.blocks \in [1 .. n -> ClientBlock \cup {b}]
      <4>1. c.blocks \in [1 .. n -> ClientBlock]
        BY <1>1
      <4> QED BY <2>2, <4>1
    <3> HIDE DEF n
    <3>3. d.blocks \in Seq(ClientBlock \cup {b})
      BY <1>1, <3>2
    <3> QED BY <1>1, <3>1, <3>3
  <2> QED BY <2>1, <2>2
<1> QED BY <1>2, <1>3

\* The words before a call, when the client is shown the call.
LEMMA WordsFirst ==
    ASSUME ToolsInv, Deliver, NEW i \in DOMAIN seen, FirstCall(i), ShownTool(seen[i].tool),
           \A b \in DOMAIN client.blocks :
               client.blocks[b].type = "thinking" => ~client.blocks[b].open,
           ctx.thinking => \A k \in 1 .. i : seen[k].kind # "reasoning",
           NEW l \in Letter
    PROVE  Received(l) >= Count(l, TextOf(SubSeq(seen, 1, i)))
<1> DEFINE v == ViewOf(client)
           item == Head(pending)
           t == seen[i].tool
<1>1. /\ client \in Client /\ pending \in Seq(Item) /\ pending # <<>> /\ client.phase # "gone"
      /\ TakesFirst(pending, pending') /\ StreamInv
  BY PendingFlows, DeliverTakes DEF ToolsInv, WordsInv
<1>2. PICK w \in View : Flow(v, pending, w)
  BY PendingFlows DEF ToolsInv, WordsInv
<1>3. v \in View /\ Legal(v, item) /\ item \in Item
  BY <1>1, <1>2, ViewIs, FlowHead
<1>4. Len(client.blocks) \in Nat /\ Len(v.blocks) = Len(client.blocks)
      /\ DOMAIN v.blocks = DOMAIN client.blocks
      /\ \A b \in DOMAIN client.blocks : v.blocks[b] = PartOf(client.blocks[b])
  BY <1>1, ViewIs
<1>5. Len(client'.blocks) > Len(client.blocks) /\ ctx.tools[t] = Len(client'.blocks)
  BY DEF ShownTool
<1>6. item.ev = "start" /\ client' = Receive(client, item)
  <2>1. ASSUME NEW e, e.ev # "start", client' = Receive(client, e) PROVE FALSE
    BY <1>1, <1>4, <1>5, <2>1, OnlyStartsGrow
  <2> QED BY <1>1, <2>1 DEF TakesFirst
<1>7. Len(client'.blocks) = Len(client.blocks) + 1
  BY <1>1, <1>6, OnlyStartsGrow
<1>8. item.at = {ctx.tools[t]}
  BY <1>3, <1>4, <1>5, <1>6, <1>7 DEF Legal
<1>9. Opening(seen, i) /\ Heeded(ctx, seen, i)
  BY DEF FirstCall, Opening, Heeded
<1>10. Due(ctx, client, pending, seen)
  BY <1>1 DEF ToolsInv, ToolsRight
<1>11. 1 \in DOMAIN pending /\ pending[1] = item /\ SubSeq(pending, 1, 1 - 1) = <<>>
  BY <1>1
<1>12. Spelt(client, <<>>, SubSeq(seen, 1, i))
  <2> HIDE DEF item
  <2>1. pending[1].ev = "start" /\ pending[1].at = {ctx.tools[seen[i].tool]}
    BY <1>6, <1>8, <1>11
  <2>2. Spelt(client, SubSeq(pending, 1, 1 - 1), SubSeq(seen, 1, i))
    BY <1>9, <1>10, <1>11, <2>1 DEF Due
  <2> QED BY <1>11, <2>2
<1>13. ~Thinks(v, <<>>)
  <2>1. Flow(v, <<>>, v)
    BY <1>3, FlowEmpty
  <2>2. OpenParts(v, {"thinking"}) = {}
    <3> SUFFICES ASSUME NEW b \in DOMAIN v.blocks, v.blocks[b].open, v.blocks[b].type = "thinking"
                 PROVE  FALSE
      BY DEF OpenParts
    <3> HIDE DEF v
    <3>1. b \in DOMAIN client.blocks /\ v.blocks[b] = PartOf(client.blocks[b])
      BY <1>4
    <3>2. client.blocks[b].open /\ client.blocks[b].type = "thinking"
      BY <3>1 DEF PartOf
    <3> QED BY <3>1, <3>2
  <2> QED BY <1>3, <2>1, <2>2 DEF Thinks
<1>14. Words(l, SubSeq(seen, 1, i)) <= Heard(l, client) + Spoken(l, <<>>)
  BY <1>12, <1>13 DEF Spelt
<1>15. Spoken(l, <<>>) = 0 /\ Heard(l, client) \in Nat /\ Received(l) = Heard(l, client)
  BY <1>1, NoTalk, HeardIs, ReceivedIs
<1>16. Words(l, SubSeq(seen, 1, i)) \in Nat
  <2>1. seen \in Seq(UpstreamEvent)
    BY DEF ToolsInv, WordsInv
  <2>2. SubSeq(seen, 1, i) \in Seq(UpstreamEvent)
    <3>1. i \in 0 .. Len(seen)
      BY <2>1
    <3> QED BY <2>1, <3>1, BeyondIs
  <2> QED BY <2>2, WordsAre
<1> QED BY <1>14, <1>15, <1>16 DEF Words

\* Whatever the stream has made and not yet handed on starts the block of a call only
\* after the words that were said before the call (stream.rs, process_tool_use).
THEOREM ToolsInvariant == StreamSpec => []ToolsInv
<1>1. StreamInit => ToolsInv
  BY ToolsStart
<1>2. ToolsInv /\ [StreamNext]_streamVars => ToolsInv'
  BY ToolsStep
<1> QED BY <1>1, <1>2, PTL DEF StreamSpec

\* WordsBeforeTools of AnswerStream, for every content and bound: whenever the client is
\* shown the block of a call, it has the letters of all text before the call's first
\* event (stream.rs, process_tool_use), but for those of a thinking block that is still
\* open and those that native reasoning has cleared.
THEOREM WordsPrecedeTools == StreamSpec => WordsBeforeTools
<1>1. StreamSpec => []ToolsInv
  BY ToolsInvariant
<1>2. ToolsInv /\ [StreamNext]_streamVars =>
         [\A i \in DOMAIN seen :
             /\ FirstCall(i) /\ ShownTool(seen[i].tool)
             /\ \A b \in DOMAIN client.blocks :
                   client.blocks[b].type = "thinking" => ~client.blocks[b].open
             /\ ctx.thinking => \A k \in 1 .. i : seen[k].kind # "reasoning"
             => \A c \in Letter : Received(c) >= Count(c, TextOf(SubSeq(seen, 1, i)))]_streamVars
  <2> SUFFICES ASSUME ToolsInv, StreamNext, NEW i \in DOMAIN seen,
                      FirstCall(i), ShownTool(seen[i].tool),
                      \A b \in DOMAIN client.blocks :
                          client.blocks[b].type = "thinking" => ~client.blocks[b].open,
                      ctx.thinking => \A k \in 1 .. i : seen[k].kind # "reasoning",
                      NEW c \in Letter
               PROVE  Received(c) >= Count(c, TextOf(SubSeq(seen, 1, i)))
    OBVIOUS
  <2>1. client \in Client
    BY DEF ToolsInv, WordsInv, StreamInv, StreamTypes
  <2>2. Len(client.blocks) \in Nat
    BY <2>1, ViewIs
  <2>3. client'.blocks # client.blocks
    BY <2>2 DEF ShownTool
  <2>4. Deliver
    BY <2>1, <2>3 DEF StreamNext, Disconnect, Frame, Rest, Chunk, EndOfBody, IoError, Finish, Client
  <2> QED BY <2>4, WordsFirst
<1> QED BY <1>1, <1>2, PTL DEF StreamSpec, WordsBeforeTools

-----------------------------------------------------------------------------
(* Lists of texts, joined, and the letters of a text.                      *)

\* F applied to each element of s.
Each(F, s) == [i \in DOMAIN s |-> F[s[i]]]

LEMMA EachIs ==
    ASSUME NEW S, NEW V, NEW F \in [S -> V], NEW s \in Seq(S)
    PROVE  /\ Each(F, s) \in Seq(V) /\ Len(Each(F, s)) = Len(s) /\ Len(s) \in Nat
           /\ \A i \in 1 .. Len(s) : Each(F, s)[i] = F[s[i]] /\ s[i] \in S
<1> DEFINE n == Len(s)
<1>1. n \in Nat /\ DOMAIN s = 1 .. n /\ \A i \in 1 .. n : s[i] \in S
  OBVIOUS
<1>2. Each(F, s) = [i \in 1 .. n |-> F[s[i]]]
  BY <1>1 DEF Each
<1> HIDE DEF n
<1>3. \A i \in 1 .. n : F[s[i]] \in V
  BY <1>1
<1>4. Each(F, s) \in Seq(V) /\ Len(Each(F, s)) = n
  BY <1>1, <1>2, <1>3
<1> QED BY <1>1, <1>2, <1>4 DEF n

LEMMA EachJoin ==
    ASSUME NEW S, NEW V, NEW F \in [S -> V], NEW s \in Seq(S), NEW t \in Seq(S)
    PROVE  Each(F, s \o t) = Each(F, s) \o Each(F, t) /\ Each(F, s) \in Seq(V)
<1> DEFINE m == Len(s)
           n == Len(t)
           u == s \o t
           a == Each(F, s)
           b == Each(F, t)
           d == Each(F, u)
<1>1. /\ u \in Seq(S) /\ m \in Nat /\ n \in Nat /\ Len(u) = m + n
      /\ \A i \in 1 .. m : u[i] = s[i]
      /\ \A i \in 1 .. n : u[m + i] = t[i]
  BY Joined
<1> HIDE DEF u
<1>2. ASSUME NEW q \in Seq(S)
      PROVE  /\ Each(F, q) \in Seq(V) /\ Len(Each(F, q)) = Len(q)
             /\ \A i \in 1 .. Len(q) : Each(F, q)[i] = F[q[i]]
  <2>1. /\ Each(F, q) \in Seq(V) /\ Len(Each(F, q)) = Len(q) /\ Len(q) \in Nat
        /\ \A i \in 1 .. Len(q) : Each(F, q)[i] = F[q[i]] /\ q[i] \in S
    BY EachIs
  <2> QED BY <2>1
<1>3. /\ a \in Seq(V) /\ Len(a) = m /\ \A i \in 1 .. m : a[i] = F[s[i]]
      /\ b \in Seq(V) /\ Len(b) = n /\ \A i \in 1 .. n : b[i] = F[t[i]]
      /\ d \in Seq(V) /\ Len(d) = m + n /\ \A i \in 1 .. m + n : d[i] = F[u[i]]
  BY <1>1, <1>2
<1> HIDE DEF m, n, a, b, d
<1>4. /\ a \o b \in Seq(V) /\ Len(a \o b) = m + n
      /\ \A i \in 1 .. m : (a \o b)[i] = a[i]
      /\ \A i \in 1 .. n : (a \o b)[m + i] = b[i]
  <2>1. a \in Seq(V) /\ b \in Seq(V) /\ Len(a) = m /\ Len(b) = n
    BY <1>3
  <2>2. ASSUME NEW x \in Seq(V), NEW y \in Seq(V)
        PROVE  /\ x \o y \in Seq(V) /\ Len(x \o y) = Len(x) + Len(y)
               /\ \A i \in 1 .. Len(x) : (x \o y)[i] = x[i]
               /\ \A i \in 1 .. Len(y) : (x \o y)[Len(x) + i] = y[i]
    BY Joined
  <2> QED BY <2>1, <2>2
<1>5. ASSUME NEW i \in 1 .. m + n PROVE d[i] = (a \o b)[i]
  <2>1. CASE i \in 1 .. m
    BY <1>1, <1>3, <1>4, <2>1
  <2>2. CASE i \notin 1 .. m
    <3>1. PICK j \in 1 .. n : i = m + j
      <4>1. i - m \in 1 .. n /\ i = m + (i - m)
        BY <1>1, <2>2
      <4> QED BY <4>1
    <3>2. u[i] = t[j] /\ (a \o b)[i] = b[j] /\ b[j] = F[t[j]]
      BY <1>1, <1>3, <1>4, <3>1
    <3> QED BY <1>3, <3>2
  <2> QED BY <2>1, <2>2
<1>6. d = a \o b
  BY <1>3, <1>4, <1>5, SameSeq
<1> QED BY <1>3, <1>6 DEF a, b, d, u

LEMMA FlattenIs ==
    ASSUME NEW S, NEW ss \in Seq(Seq(S))
    PROVE  FlattenSeq(ss) \in Seq(S) /\ FlattenSeq(<<>>) = <<>>
<1>1. PICK f \in [0 .. Len(ss) -> Seq(S)] : FlattenChain(f, ss)
  BY FlattenSteps
<1>2. Len(ss) \in 0 .. Len(ss)
  OBVIOUS
<1>3. FlattenSeq(ss) = f[Len(ss)]
  BY <1>1 DEF FlattenChain
<1>4. FlattenSeq(ss) \in Seq(S)
  BY <1>1, <1>2, <1>3
<1>5. FlattenSeq(<<>>) = <<>>
  BY DEF FlattenSeq
<1> QED BY <1>4, <1>5

LEMMA Assoc ==
    ASSUME NEW S, NEW x \in Seq(S), NEW y \in Seq(S), NEW z \in Seq(S)
    PROVE  (x \o y) \o z = x \o (y \o z) /\ x \o y \in Seq(S) /\ x \o (y \o z) \in Seq(S)
<1>1. (x \o y) \o z = x \o (y \o z)
  BY ConcatAssociative
<1>2. x \o y \in Seq(S) /\ y \o z \in Seq(S)
  OBVIOUS
<1>3. x \o (y \o z) \in Seq(S)
  BY <1>2
<1> QED BY <1>1, <1>2, <1>3

LEMMA FlattenJoin ==
    ASSUME NEW S, NEW ss \in Seq(Seq(S)), NEW tt \in Seq(Seq(S))
    PROVE  FlattenSeq(ss \o tt) = FlattenSeq(ss) \o FlattenSeq(tt)
<1> DEFINE m == Len(ss)
           n == Len(tt)
           uu == ss \o tt
           W == Seq(S)
<1>1. /\ m \in Nat /\ n \in Nat /\ uu \in Seq(W) /\ Len(uu) = m + n
      /\ \A i \in 1 .. m : uu[i] = ss[i]
      /\ \A i \in 1 .. n : uu[m + i] = tt[i]
  BY Joined
<1>2. PICK f \in [0 .. m -> W] : FlattenChain(f, ss)
  BY FlattenSteps
<1>3. PICK g \in [0 .. n -> W] : FlattenChain(g, tt)
  BY FlattenSteps
<1>4. PICK h \in [0 .. m + n -> W] : FlattenChain(h, uu)
  <2> HIDE DEF uu
  <2> QED BY <1>1, FlattenSteps
<1>5. /\ f[0] = <<>> /\ FlattenSeq(ss) = f[m] /\ \A k \in 1 .. m : f[k] = f[k - 1] \o ss[k]
      /\ g[0] = <<>> /\ FlattenSeq(tt) = g[n] /\ \A k \in 1 .. n : g[k] = g[k - 1] \o tt[k]
  BY <1>2, <1>3 DEF FlattenChain
<1>6. /\ h[0] = <<>> /\ FlattenSeq(uu) = h[m + n]
      /\ \A k \in 1 .. m + n : h[k] = h[k - 1] \o uu[k]
  BY <1>1, <1>4 DEF FlattenChain
<1>0. \A k \in 1 .. n : tt[k] \in W
  OBVIOUS
<1> HIDE DEF m, n, uu
<1> DEFINE T == {k \in Nat : k <= m => h[k] = f[k]}
           J(k) == h[m + k] = f[m] \o g[k]
           U == {k \in Nat : k <= n => J(k)}
<1>7. m \in T
  <2>1. 0 \in T
    BY <1>5, <1>6
  <2>2. ASSUME NEW k \in T PROVE k + 1 \in T
    <3> SUFFICES ASSUME k + 1 <= m PROVE h[k + 1] = f[k + 1]
      OBVIOUS
    <3>1. k + 1 \in 1 .. m /\ k + 1 \in 1 .. m + n /\ (k + 1) - 1 = k /\ h[k] = f[k]
      BY <1>1
    <3>2. h[k + 1] = h[k] \o uu[k + 1] /\ f[k + 1] = f[k] \o ss[k + 1]
      BY <1>5, <1>6, <3>1
    <3> QED BY <1>1, <3>1, <3>2
  <2>3. T \in SUBSET Nat
    OBVIOUS
  <2> HIDE DEF T
  <2> QED BY <1>1, <2>1, <2>2, <2>3, Induction
<1>8. n \in U
  <2>0. f[m] \in W
    <3>1. m \in 0 .. m
      BY <1>1
    <3> QED BY <1>2, <3>1
  <2>1. 0 \in U
    <3>1. h[m] = f[m] /\ m + 0 = m
      BY <1>1, <1>7
    <3>2. f[m] \o <<>> = f[m]
      BY <2>0
    <3> QED BY <1>5, <3>1, <3>2
  <2>2. ASSUME NEW k \in U PROVE k + 1 \in U
    <3> HIDE DEF J
    <3> SUFFICES ASSUME k + 1 <= n PROVE J(k + 1)
      OBVIOUS
    <3> DEFINE q == m + (k + 1)
    <3>0. /\ k + 1 \in 1 .. n /\ q \in 1 .. m + n /\ q - 1 = m + k /\ (k + 1) - 1 = k
          /\ J(k) /\ k \in 0 .. n
      <4>1. m \in Nat /\ n \in Nat
        BY <1>1
      <4>2. k \in Nat /\ (k <= n => J(k))
        BY DEF U
      <4>3. k <= n
        <5> HIDE DEF U, n, m
        <5> QED BY <4>1, <4>2
      <4>4. k \in Nat /\ J(k)
        BY <4>2, <4>3
      <4> HIDE DEF U, m, n
      <4> QED BY <4>1, <4>4 DEF q
    <3>1. /\ k + 1 \in 1 .. n /\ q \in 1 .. m + n /\ q - 1 = m + k /\ (k + 1) - 1 = k
          /\ h[m + k] = f[m] \o g[k] /\ k \in 0 .. n
      BY <3>0 DEF J
    <3>2. uu[q] = tt[k + 1]
      BY <1>1, <3>1
    <3>3. g[k] \in W /\ tt[k + 1] \in W
      BY <1>0, <1>3, <3>1
    <3> HIDE DEF q
    <3>4. h[q] = h[q - 1] \o uu[q] /\ g[k + 1] = g[(k + 1) - 1] \o tt[k + 1]
      BY <1>5, <1>6, <3>1
    <3>5. h[q] = (f[m] \o g[k]) \o tt[k + 1] /\ g[k + 1] = g[k] \o tt[k + 1]
      BY <3>1, <3>2, <3>4
    <3>6. (f[m] \o g[k]) \o tt[k + 1] = f[m] \o (g[k] \o tt[k + 1])
      <4> DEFINE x == f[m]
                 y == g[k]
                 z == tt[k + 1]
      <4>1. x \in Seq(S) /\ y \in Seq(S) /\ z \in Seq(S)
        BY <2>0, <3>3
      <4> HIDE DEF x, y, z
      <4>2. (x \o y) \o z = x \o (y \o z) /\ x \o y \in Seq(S) /\ x \o (y \o z) \in Seq(S)
        BY <4>1, Assoc
      <4> QED BY <4>2 DEF x, y, z
    <3> QED BY <3>5, <3>6 DEF q, J
  <2>3. U \in SUBSET Nat
    OBVIOUS
  <2> HIDE DEF U
  <2> QED BY <1>1, <2>1, <2>2, <2>3, Induction
<1>9. FlattenSeq(uu) = f[m] \o g[n]
  <2>1. J(n)
    <3> HIDE DEF J
    <3> QED BY <1>1, <1>8
  <2> QED BY <1>6, <2>1
<1> QED BY <1>5, <1>9 DEF uu

\* A list of which only the text at i says something.
LEMMA FlattenSingle ==
    ASSUME NEW S, NEW ss \in Seq(Seq(S)), NEW i,
           \A k \in 1 .. Len(ss) : k # i => ss[k] = <<>>
    PROVE  FlattenSeq(ss) = IF i \in 1 .. Len(ss) THEN ss[i] ELSE <<>>
<1> DEFINE n == Len(ss)
           W == Seq(S)
<1>1. n \in Nat /\ \A k \in 1 .. n : ss[k] \in W
  OBVIOUS
<1>2. PICK f \in [0 .. n -> W] : FlattenChain(f, ss)
  BY FlattenSteps
<1>3. f[0] = <<>> /\ FlattenSeq(ss) = f[n] /\ \A k \in 1 .. n : f[k] = f[k - 1] \o ss[k]
  BY <1>2 DEF FlattenChain
<1>4. \A k \in 1 .. n : k # i => ss[k] = <<>>
  OBVIOUS
<1> HIDE DEF n
<1> DEFINE J(k) == f[k] = IF i \in 1 .. k THEN ss[i] ELSE <<>>
           T == {k \in Nat : k <= n => J(k)}
<1>5. 0 \in T
  BY <1>1, <1>3
<1>6. ASSUME NEW k \in T PROVE k + 1 \in T
  <2> HIDE DEF J
  <2> SUFFICES ASSUME k + 1 <= n PROVE J(k + 1)
    OBVIOUS
  <2>0. /\ k + 1 \in 1 .. n /\ (k + 1) - 1 = k /\ k \in 0 .. n /\ k \in Nat /\ J(k)
    BY <1>1
  <2>1. /\ k + 1 \in 1 .. n /\ (k + 1) - 1 = k /\ k \in 0 .. n /\ k \in Nat
        /\ f[k] = IF i \in 1 .. k THEN ss[i] ELSE <<>>
    BY <2>0 DEF J
  <2>2. f[k + 1] = f[k] \o ss[k + 1] /\ f[k] \in W /\ ss[k + 1] \in W
    BY <1>1, <1>2, <1>3, <2>1
  <2>3. CASE i = k + 1
    <3>1. i \notin 1 .. k /\ i \in 1 .. k + 1
      BY <2>1, <2>3
    <3>2. f[k + 1] = <<>> \o ss[i]
      BY <2>1, <2>2, <2>3, <3>1
    <3>3. <<>> \o ss[i] = ss[i]
      BY <2>2, <2>3
    <3> QED BY <3>1, <3>2, <3>3 DEF J
  <2>4. CASE i # k + 1
    <3>1. i \in 1 .. k <=> i \in 1 .. k + 1
      BY <2>1, <2>4
    <3>2. f[k + 1] = f[k] \o <<>>
      BY <1>4, <2>1, <2>2, <2>4
    <3>3. f[k] \o <<>> = f[k]
      BY <2>2
    <3> QED BY <2>1, <3>1, <3>2, <3>3 DEF J
  <2> QED BY <2>3, <2>4
<1>7. T \in SUBSET Nat
  OBVIOUS
<1> HIDE DEF T
<1>8. n \in T
  BY <1>1, <1>5, <1>6, <1>7, Induction
<1>9. f[n] = IF i \in 1 .. n THEN ss[i] ELSE <<>>
  BY <1>1, <1>8 DEF T, J
<1> QED BY <1>3, <1>9 DEF n

\* A letter stands for itself, a blank for nothing.
LetterOf == [c \in Char |-> IF c \in Letter THEN <<c>> ELSE <<>>]

LEMMA LettersAre ==
    ASSUME NEW s \in Seq(Char)
    PROVE  /\ Letters(s) = FlattenSeq(Each(LetterOf, s)) /\ Letters(s) \in Seq(Char)
           /\ Each(LetterOf, s) \in Seq(Seq(Char)) /\ LetterOf \in [Char -> Seq(Char)]
<1>1. LetterOf \in [Char -> Seq(Char)]
  BY DEF LetterOf
<1>2. Each(LetterOf, s) \in Seq(Seq(Char))
  BY <1>1, EachIs
<1>3. FlattenSeq(Each(LetterOf, s)) \in Seq(Char)
  BY <1>2, FlattenIs
<1>4. Each(LetterOf, s) = [i \in DOMAIN s |-> IF s[i] \in Letter THEN <<s[i]>> ELSE <<>>]
  <2>1. \A i \in DOMAIN s : s[i] \in Char
    OBVIOUS
  <2>2. \A i \in DOMAIN s : LetterOf[s[i]] = IF s[i] \in Letter THEN <<s[i]>> ELSE <<>>
    BY <2>1 DEF LetterOf
  <2> QED BY <2>2 DEF Each
<1> QED BY <1>1, <1>2, <1>3, <1>4 DEF Letters

LEMMA LettersJoin ==
    ASSUME NEW s \in Seq(Char), NEW t \in Seq(Char)
    PROVE  Letters(s \o t) = Letters(s) \o Letters(t)
<1>1. Each(LetterOf, s \o t) = Each(LetterOf, s) \o Each(LetterOf, t)
  <2>1. LetterOf \in [Char -> Seq(Char)]
    BY LettersAre
  <2>2. \A F \in [Char -> Seq(Char)] :
           Each(F, s \o t) = Each(F, s) \o Each(F, t) /\ Each(F, s) \in Seq(Seq(Char))
    BY EachJoin
  <2> QED BY <2>1, <2>2
<1>2. Each(LetterOf, s) \in Seq(Seq(Char)) /\ Each(LetterOf, t) \in Seq(Seq(Char))
  BY LettersAre
<1>3. FlattenSeq(Each(LetterOf, s) \o Each(LetterOf, t))
         = FlattenSeq(Each(LetterOf, s)) \o FlattenSeq(Each(LetterOf, t))
  BY <1>2, FlattenJoin
<1>4. s \o t \in Seq(Char)
  OBVIOUS
<1>5. /\ Letters(s \o t) = FlattenSeq(Each(LetterOf, s \o t))
      /\ Letters(s) = FlattenSeq(Each(LetterOf, s)) /\ Letters(t) = FlattenSeq(Each(LetterOf, t))
  BY <1>4, LettersAre
<1> QED BY <1>1, <1>3, <1>5

\* A text without letters.
LEMMA NoLetters ==
    ASSUME NEW s \in Seq(Char), \A i \in DOMAIN s : s[i] \notin Letter
    PROVE  Letters(s) = <<>>
<1> DEFINE ss == Each(LetterOf, s)
<1>1. /\ ss \in Seq(Seq(Char)) /\ Letters(s) = FlattenSeq(ss)
      /\ LetterOf \in [Char -> Seq(Char)]
  BY LettersAre
<1>2. /\ Each(LetterOf, s) \in Seq(Seq(Char)) /\ Len(ss) = Len(s) /\ Len(s) \in Nat
      /\ \A k \in 1 .. Len(s) : Each(LetterOf, s)[k] = LetterOf[s[k]] /\ s[k] \in Char
  BY <1>1, EachIs
<1>3. ASSUME NEW k \in 1 .. Len(ss) PROVE ss[k] = <<>>
  <2>1. ss[k] = LetterOf[s[k]] /\ s[k] \in Char /\ k \in DOMAIN s
    BY <1>2
  <2>2. s[k] \notin Letter
    BY <2>1
  <2> HIDE DEF ss
  <2> QED BY <2>1, <2>2 DEF LetterOf
<1>4. 0 \notin 1 .. Len(ss)
  OBVIOUS
<1> HIDE DEF ss
<1>5. FlattenSeq(ss) = IF 0 \in 1 .. Len(ss) THEN ss[0] ELSE <<>>
  BY <1>1, <1>3, FlattenSingle
<1> QED BY <1>1, <1>4, <1>5

LEMMA BlankLetters ==
    ASSUME NEW s \in Seq(Char), Blank(s)
    PROVE  Letters(s) = <<>>
BY NoLetters DEF Blank, White, Letter

-----------------------------------------------------------------------------
(* Where a word stands in a text.                                          *)

\* The end of the thinking: the tag and its two newlines.
Ending == <<"c", "C", "n", "n">>

\* w stands at p.
At(w, s, p) == /\ p + Len(w) <= Len(s) + 1
               /\ \A j \in 1 .. Len(w) : s[p + j - 1] = w[j]

\* w stands at none of the first n positions.
Free(w, s, n) == \A p \in 1 .. n : ~At(w, s, p)

\* Whatever comes after s and the buffer b, w begins nowhere in s.
Awaits(w, s, b) == \A t \in Seq(Char) : Free(w, s \o (b \o t), Len(s))

\* Where w stands first in s, or 0.
First(w, s) == Least({p \in 1 .. Len(s) : At(w, s, p)})

LEMMA WordsIn ==
    /\ OpenTag \in Seq(Char) /\ Len(OpenTag) = 2 /\ OpenTag[1] = "o" /\ OpenTag[2] = "O"
    /\ CloseTag \in Seq(Char) /\ Len(CloseTag) = 2 /\ CloseTag[1] = "c" /\ CloseTag[2] = "C"
    /\ Ending \in Seq(Char) /\ Len(Ending) = 4 /\ Ending[1] = "c" /\ Ending[2] = "C"
    /\ Ending[3] = "n" /\ Ending[4] = "n"
BY DEF OpenTag, CloseTag, Ending, Char

LEMMA AtBefore ==
    ASSUME NEW w \in Seq(Char), NEW s \in Seq(Char), NEW t \in Seq(Char), NEW p \in Nat \ {0},
           p + Len(w) <= Len(s) + 1
    PROVE  At(w, s \o t, p) <=> At(w, s, p)
<1>1. /\ s \o t \in Seq(Char) /\ Len(s) \in Nat /\ Len(t) \in Nat
      /\ Len(s \o t) = Len(s) + Len(t)
      /\ \A i \in 1 .. Len(s) : (s \o t)[i] = s[i]
  BY Joined
<1> DEFINE u == s \o t
           n == Len(w)
<1>2. n \in Nat
  OBVIOUS
<1> HIDE DEF u, n
<1>3. \A j \in 1 .. n : p + j - 1 \in 1 .. Len(s)
  BY <1>1, <1>2 DEF n
<1>4. \A j \in 1 .. n : u[p + j - 1] = s[p + j - 1]
  BY <1>1, <1>3 DEF u
<1>5. p + n <= Len(u) + 1
  BY <1>1, <1>2 DEF u, n
<1> QED BY <1>4, <1>5 DEF At, u, n

LEMMA AtBehind ==
    ASSUME NEW w \in Seq(Char), NEW s \in Seq(Char), NEW t \in Seq(Char), NEW p \in Nat \ {0}
    PROVE  At(w, s \o t, Len(s) + p) <=> At(w, t, p)
<1> DEFINE u == s \o t
           n == Len(w)
           m == Len(s)
<1>1. /\ u \in Seq(Char) /\ m \in Nat /\ Len(t) \in Nat
      /\ Len(u) = m + Len(t)
      /\ \A i \in 1 .. Len(t) : u[m + i] = t[i]
  BY Joined
<1>2. n \in Nat
  OBVIOUS
<1> HIDE DEF u, n, m
<1>3. (m + p) + n <= Len(u) + 1 <=> p + n <= Len(t) + 1
  BY <1>1, <1>2
<1>4. ASSUME p + n <= Len(t) + 1, NEW j \in 1 .. n
      PROVE  u[(m + p) + j - 1] = t[p + j - 1]
  <2>1. p + j - 1 \in 1 .. Len(t) /\ (m + p) + j - 1 = m + (p + j - 1)
    BY <1>1, <1>2, <1>4
  <2> QED BY <1>1, <2>1
<1> QED BY <1>3, <1>4 DEF At, u, n, m

LEMMA FreeMore ==
    ASSUME NEW w \in Seq(Char), NEW s \in Seq(Char), NEW t \in Seq(Char), NEW n \in Nat,
           n + Len(w) <= Len(s) + 1
    PROVE  Free(w, s \o t, n) <=> Free(w, s, n)
<1>1. ASSUME NEW p \in 1 .. n PROVE At(w, s \o t, p) <=> At(w, s, p)
  <2>1. p \in Nat \ {0} /\ p + Len(w) <= Len(s) + 1
    OBVIOUS
  <2> QED BY <2>1, AtBefore
<1> QED BY <1>1 DEF Free

\* The text up to a position in its second part.
LEMMA FreeBehind ==
    ASSUME NEW w \in Seq(Char), NEW s \in Seq(Char), NEW t \in Seq(Char), NEW n \in Nat,
           Free(w, s \o t, Len(s)), Free(w, t, n)
    PROVE  Free(w, s \o t, Len(s) + n)
<1>1. Len(s) \in Nat
  OBVIOUS
<1>2. ASSUME NEW p \in 1 .. Len(s) + n, p \notin 1 .. Len(s) PROVE ~At(w, s \o t, p)
  <2>1. PICK i \in 1 .. n : p = Len(s) + i
    <3>1. p - Len(s) \in 1 .. n /\ p = Len(s) + (p - Len(s))
      BY <1>1, <1>2
    <3> QED BY <3>1
  <2>2. i \in Nat \ {0} /\ ~At(w, t, i)
    BY DEF Free
  <2> QED BY <2>1, <2>2, AtBehind
<1> QED BY <1>2 DEF Free

LEMMA FirstIs ==
    ASSUME NEW w \in Seq(Char), NEW s \in Seq(Char)
    PROVE  /\ First(w, s) \in 0 .. Len(s) /\ Len(s) \in Nat
           /\ First(w, s) = 0 => Free(w, s, Len(s))
           /\ First(w, s) # 0 => /\ At(w, s, First(w, s)) /\ Free(w, s, First(w, s) - 1)
<1> DEFINE T == {p \in 1 .. Len(s) : At(w, s, p)}
           q == First(w, s)
<1>1. Len(s) \in Nat /\ T \in SUBSET (1 .. Len(s)) /\ q = Least(T)
  BY DEF First
<1>2. \A p \in 1 .. Len(s) : p \in T <=> At(w, s, p)
  OBVIOUS
<1> HIDE DEF T, q
<1>3. CASE T = {}
  <2>1. q = 0
    BY <1>1, <1>3 DEF Least
  <2>2. Free(w, s, Len(s))
    BY <1>2, <1>3 DEF Free
  <2> QED BY <1>1, <2>1, <2>2 DEF q
<1>4. CASE T # {}
  <2>1. PICK m \in T : \A k \in T : m <= k
    <3>1. T \in SUBSET Nat
      BY <1>1
    <3> QED BY <1>4, <3>1, LeastNat
  <2>2. q = CHOOSE p \in T : \A k \in T : p <= k
    BY <1>1, <1>4 DEF Least
  <2>3. q \in T /\ \A k \in T : q <= k
    BY <2>1, <2>2
  <2>4. q \in 1 .. Len(s) /\ At(w, s, q)
    BY <1>1, <1>2, <2>3
  <2>5. ASSUME NEW p \in 1 .. q - 1 PROVE ~At(w, s, p)
    <3>1. p \in 1 .. Len(s) /\ ~(q <= p)
      BY <1>1, <2>4
    <3> QED BY <1>2, <2>3, <3>1
  <2> QED BY <1>1, <2>4, <2>5 DEF q, Free
<1> QED BY <1>3, <1>4

\* What First finds is where w stands first.
LEMMA FirstAt ==
    ASSUME NEW w \in Seq(Char), NEW s \in Seq(Char), NEW n \in Nat, Free(w, s, n),
           At(w, s, n + 1), w # <<>>
    PROVE  First(w, s) = n + 1
<1>1. First(w, s) \in 0 .. Len(s) /\ Len(s) \in Nat /\ Len(w) \in Nat \ {0}
  BY FirstIs
<1>2. n + 1 \in 1 .. Len(s)
  BY <1>1 DEF At
<1>3. First(w, s) # 0
  BY <1>2, FirstIs DEF Free
<1>4. At(w, s, First(w, s)) /\ Free(w, s, First(w, s) - 1)
  BY <1>3, FirstIs
<1>5. ~(First(w, s) <= n)
  BY <1>1, <1>3, <1>4 DEF Free
<1>6. ~(n + 1 <= First(w, s) - 1)
  BY <1>1, <1>4 DEF Free
<1> QED BY <1>1, <1>5, <1>6

\* A text in two parts, cut at a word.
LEMMA CutAt ==
    ASSUME NEW w \in Seq(Char), NEW s \in Seq(Char), NEW p \in Nat \ {0}, At(w, s, p)
    PROVE  /\ SubSeq(s, 1, p - 1) \in Seq(Char) /\ From(s, p + Len(w)) \in Seq(Char)
           /\ Len(SubSeq(s, 1, p - 1)) = p - 1
           /\ s = SubSeq(s, 1, p - 1) \o (w \o From(s, p + Len(w)))
<1> DEFINE a == SubSeq(s, 1, p - 1)
           z == From(s, p + Len(w))
           n == Len(w)
           r == Beyond(s, p - 1)
<1>1. Len(s) \in Nat /\ n \in Nat /\ p - 1 \in 0 .. Len(s) /\ (p - 1) + n \in 0 .. Len(s)
  BY DEF At
<1>2. /\ r \in Seq(Char) /\ Len(r) = Len(s) - (p - 1)
      /\ \A i \in 1 .. Len(s) - (p - 1) : r[i] = s[(p - 1) + i]
      /\ a \in Seq(Char) /\ Len(a) = p - 1 /\ s = a \o r
  <2> DEFINE k == p - 1
  <2>1. k \in 0 .. Len(s)
    BY <1>1
  <2> HIDE DEF k
  <2>2. /\ Beyond(s, k) \in Seq(Char) /\ Len(Beyond(s, k)) = Len(s) - k
        /\ \A i \in 1 .. Len(s) - k : Beyond(s, k)[i] = s[k + i]
        /\ SubSeq(s, 1, k) \in Seq(Char) /\ Len(SubSeq(s, 1, k)) = k
        /\ s = SubSeq(s, 1, k) \o Beyond(s, k)
    BY <2>1, BeyondIs
  <2> QED BY <2>2 DEF k
<1> DEFINE m == (p - 1) + n
<1>3. /\ Beyond(s, m) \in Seq(Char) /\ Len(Beyond(s, m)) = Len(s) - m
      /\ \A i \in 1 .. Len(s) - m : Beyond(s, m)[i] = s[m + i]
  <2>1. m \in 0 .. Len(s)
    BY <1>1
  <2> HIDE DEF m
  <2> QED BY <2>1, BeyondIs
<1>4. z = Beyond(s, m)
  <2>1. m + 1 = p + Len(w)
    BY <1>1
  <2> HIDE DEF m
  <2> QED BY <2>1 DEF Beyond, From
<1>5. \A j \in 1 .. n : s[p + j - 1] = w[j]
  BY DEF At
<1> HIDE DEF a, z, r
<1>6. /\ w \o z \in Seq(Char) /\ Len(w \o z) = n + Len(z)
      /\ \A i \in 1 .. n : (w \o z)[i] = w[i]
      /\ \A i \in 1 .. Len(z) : (w \o z)[n + i] = z[i]
  BY <1>3, <1>4, Joined
<1> HIDE DEF n
<1> DEFINE u == w \o z
<1>7. u \in Seq(Char) /\ Len(u) = Len(r)
  <2>1. Len(z) = Len(s) - ((p - 1) + n)
    BY <1>3, <1>4
  <2>2. Len(u) = n + Len(z) /\ u \in Seq(Char)
    BY <1>6
  <2> HIDE DEF u
  <2> QED BY <1>1, <1>2, <2>1, <2>2
<1>8. ASSUME NEW i \in 1 .. Len(u) PROVE u[i] = r[i]
  <2>0. i \in 1 .. Len(s) - (p - 1)
    BY <1>2, <1>7
  <2>1. CASE i <= n
    <3>1. i \in 1 .. n /\ p + i - 1 = (p - 1) + i
      BY <1>1, <2>0, <2>1
    <3>2. u[i] = w[i] /\ w[i] = s[(p - 1) + i]
      BY <1>5, <1>6, <3>1
    <3> QED BY <1>2, <2>0, <3>2
  <2>2. CASE ~(i <= n)
    <3> DEFINE k == i - n
    <3>1. k \in 1 .. Len(z) /\ i = n + k /\ k \in 1 .. Len(s) - m /\ m + k = (p - 1) + i
      BY <1>1, <1>3, <1>4, <1>6, <2>0, <2>2
    <3> HIDE DEF k, u
    <3>2. u[i] = z[k] /\ z[k] = s[m + k]
      BY <1>3, <1>4, <1>6, <3>1 DEF u
    <3> QED BY <1>2, <2>0, <3>1, <3>2
  <2> QED BY <2>1, <2>2
<1> HIDE DEF u
<1>9. u = r
  BY <1>2, <1>7, <1>8, SameSeq
<1> QED BY <1>2, <1>3, <1>4, <1>9 DEF a, z, n, u

LEMMA AwaitsNothing ==
    ASSUME NEW w, NEW b
    PROVE  Awaits(w, <<>>, b)
BY DEF Awaits, Free

LEMMA AwaitsMore ==
    ASSUME NEW w, NEW s \in Seq(Char), NEW b \in Seq(Char), NEW t \in Seq(Char), Awaits(w, s, b)
    PROVE  Awaits(w, s, b \o t)
<1> SUFFICES ASSUME NEW u \in Seq(Char) PROVE Free(w, s \o ((b \o t) \o u), Len(s))
  BY DEF Awaits
<1>1. t \o u \in Seq(Char) /\ (b \o t) \o u = b \o (t \o u) /\ b \o (t \o u) \in Seq(Char)
  BY Assoc
<1> QED BY <1>1 DEF Awaits

\* What stands before the buffer now.
LEMMA AwaitsNow ==
    ASSUME NEW w, NEW s \in Seq(Char), NEW b \in Seq(Char), Awaits(w, s, b)
    PROVE  Free(w, s \o b, Len(s))
<1>1. <<>> \in Seq(Char) /\ b \o <<>> = b
  OBVIOUS
<1>2. Free(w, s \o (b \o <<>>), Len(s))
  BY <1>1 DEF Awaits
<1> QED BY <1>1, <1>2

\* Words of the buffer that cannot be the beginning of w are let go.
LEMMA Hold ==
    ASSUME NEW w \in Seq(Char), NEW s \in Seq(Char), NEW b \in Seq(Char), NEW r \in Seq(Char),
           Awaits(w, s, b \o r), Len(b) = 0 \/ Len(w) <= Len(r) + 1, First(w, b \o r) = 0
    PROVE  Awaits(w, s \o b, r)
<1> DEFINE B == b \o r
<1>1. B \in Seq(Char) /\ Len(B) = Len(b) + Len(r) /\ Len(b) \in Nat /\ Len(r) \in Nat
      /\ Len(w) \in Nat /\ s \o b \in Seq(Char) /\ Len(s \o b) = Len(s) + Len(b)
  OBVIOUS
<1> SUFFICES ASSUME NEW t \in Seq(Char) PROVE Free(w, (s \o b) \o (r \o t), Len(s) + Len(b))
  BY <1>1 DEF Awaits
<1>2. /\ r \o t \in Seq(Char) /\ b \o (r \o t) \in Seq(Char)
      /\ (s \o b) \o (r \o t) = s \o (b \o (r \o t)) /\ B \o t = b \o (r \o t)
  <2>1. r \o t \in Seq(Char)
    OBVIOUS
  <2>2. /\ B \o t = b \o (r \o t) /\ b \o r \in Seq(Char) /\ b \o (r \o t) \in Seq(Char)
    BY Assoc
  <2>3. (s \o b) \o (r \o t) = s \o (b \o (r \o t)) /\ s \o b \in Seq(Char)
        /\ s \o (b \o (r \o t)) \in Seq(Char)
    BY <2>1, Assoc
  <2> QED BY <2>1, <2>2, <2>3
<1>3. Free(w, s \o (B \o t), Len(s))
  BY DEF Awaits
<1>4. Free(w, B \o t, Len(b))
  <2>1. Free(w, B, Len(B))
    BY <1>1, FirstIs
  <2>2. CASE Len(b) = 0
    BY <2>2 DEF Free
  <2>3. CASE Len(w) <= Len(r) + 1
    <3>1. Len(b) + Len(w) <= Len(B) + 1
      BY <1>1, <2>3
    <3>2. Free(w, B, Len(b))
      BY <1>1, <2>1 DEF Free
    <3> HIDE DEF B
    <3> QED BY <1>1, <3>1, <3>2, FreeMore
  <2> QED BY <2>2, <2>3
<1> HIDE DEF B
<1>5. B \o t \in Seq(Char)
  BY <1>1
<1>6. Free(w, s \o (B \o t), Len(s) + Len(b))
  BY <1>1, <1>3, <1>4, <1>5, FreeBehind
<1> QED BY <1>2, <1>6

\* w is not in the text.
LEMMA NotFound ==
    ASSUME NEW w \in Seq(Char), NEW s \in Seq(Char), NEW b \in Seq(Char), Awaits(w, s, b),
           First(w, b) = 0
    PROVE  First(w, s \o b) = 0
<1>1. Free(w, s \o b, Len(s)) /\ Free(w, b, Len(b)) /\ Len(b) \in Nat /\ Len(s) \in Nat
  BY AwaitsNow, FirstIs
<1>2. Free(w, s \o b, Len(s) + Len(b))
  BY <1>1, FreeBehind
<1>3. s \o b \in Seq(Char) /\ Len(s \o b) = Len(s) + Len(b)
  OBVIOUS
<1> DEFINE u == s \o b
<1>4. u \in Seq(Char) /\ Free(w, u, Len(u))
  BY <1>2, <1>3
<1> HIDE DEF u
<1>5. u # <<>> \/ u = <<>>
  OBVIOUS
<1>6. First(w, u) = 0
  <2>1. First(w, u) \in 0 .. Len(u) /\ Len(u) \in Nat
    BY <1>4, FirstIs
  <2>2. First(w, u) # 0 => At(w, u, First(w, u))
    BY <1>4, FirstIs
  <2> QED BY <1>4, <2>1, <2>2 DEF Free
<1> QED BY <1>6 DEF u

\* w is found in the buffer, and stands nowhere before it.
LEMMA Find ==
    ASSUME NEW w \in Seq(Char), NEW s \in Seq(Char), NEW b \in Seq(Char), Awaits(w, s, b),
           First(w, b) # 0
    PROVE  LET p == First(w, b)
               a == SubSeq(b, 1, p - 1)
               z == From(b, p + Len(w))
           IN  /\ p \in Nat \ {0} /\ a \in Seq(Char) /\ z \in Seq(Char) /\ b = a \o (w \o z)
               /\ Free(w, s \o b, Len(s \o a))
<1> DEFINE p == First(w, b)
           a == SubSeq(b, 1, p - 1)
           z == From(b, p + Len(w))
<1>1. p \in Nat \ {0} /\ At(w, b, p) /\ Free(w, b, p - 1) /\ p - 1 \in Nat
  BY FirstIs
<1> HIDE DEF p
<1>2. a \in Seq(Char) /\ z \in Seq(Char) /\ Len(a) = p - 1 /\ b = a \o (w \o z)
  BY <1>1, CutAt
<1>3. Free(w, s \o b, Len(s))
  BY AwaitsNow
<1>4. Free(w, s \o b, Len(s) + (p - 1))
  BY <1>1, <1>3, FreeBehind
<1> HIDE DEF a, z
<1>5. Len(s \o a) = Len(s) + (p - 1)
  <2>1. Len(s \o a) = Len(s) + Len(a)
    BY <1>2, Joined
  <2> QED BY <1>2, <2>1
<1> QED BY <1>1, <1>2, <1>4, <1>5 DEF p, a, z

\* A word between two texts.
LEMMA Between ==
    ASSUME NEW w \in Seq(Char), NEW a \in Seq(Char), NEW z \in Seq(Char), w # <<>>,
           Free(w, a \o (w \o z), Len(a))
    PROVE  First(w, a \o (w \o z)) = Len(a) + 1
<1> DEFINE r == w \o z
           u == a \o r
<1>1. r \in Seq(Char) /\ u \in Seq(Char) /\ Len(a) \in Nat
  OBVIOUS
<1>2. At(w, w, 1)
  <2>1. Len(w) \in Nat /\ \A j \in 1 .. Len(w) : 1 + j - 1 = j
    OBVIOUS
  <2> QED BY <2>1 DEF At
<1>3. At(w, r, 1)
  <2>1. 1 \in Nat \ {0} /\ 1 + Len(w) <= Len(w) + 1
    OBVIOUS
  <2> QED BY <1>2, <2>1, AtBefore
<1> HIDE DEF r
<1>4. At(w, u, Len(a) + 1)
  <2>1. 1 \in Nat \ {0}
    OBVIOUS
  <2> QED BY <1>1, <1>3, <2>1, AtBehind
<1>5. Free(w, u, Len(a))
  BY DEF r
<1> HIDE DEF u
<1>6. First(w, u) = Len(a) + 1
  BY <1>1, <1>4, <1>5, FirstAt
<1> QED BY <1>6 DEF u, r

-----------------------------------------------------------------------------
(* Tags that are nowhere quoted.                                           *)

\* The two halves of a tag.
LEMMA TwoHalves ==
    ASSUME NEW s \in Seq(Char), NEW p \in 1 .. Len(s) - 1, NEW one \in Char, NEW two \in Char
    PROVE  SubSeq(s, p, p + 1) = <<one, two>> <=> s[p] = one /\ s[p + 1] = two
<1> DEFINE u == SubSeq(s, p, p + 1)
           w == <<one, two>>
<1>1. Len(s) \in Nat /\ p \in Nat /\ 1 <= p /\ p + 1 <= Len(s)
  OBVIOUS
<1>2. /\ u \in Seq(Char) /\ Len(u) = 2 /\ u[1] = s[p] /\ u[2] = s[p + 1]
  <2>1. \A i \in p .. p + 1 : s[i] \in Char
    BY <1>1
  <2>2. /\ u \in Seq(Char) /\ Len(u) = IF p <= p + 1 THEN (p + 1) - p + 1 ELSE 0
        /\ \A i \in 1 .. (p + 1) - p + 1 : u[i] = s[p + i - 1]
    BY <1>1, <2>1, SubSeqProperties
  <2>3. /\ 1 \in 1 .. (p + 1) - p + 1 /\ p + 1 - 1 = p
        /\ 2 \in 1 .. (p + 1) - p + 1 /\ p + 2 - 1 = p + 1 /\ (p + 1) - p + 1 = 2
    BY <1>1
  <2> HIDE DEF u
  <2>4. u[1] = s[p + 1 - 1] /\ u[2] = s[p + 2 - 1] /\ Len(u) = 2
    BY <1>1, <2>2, <2>3
  <2> QED BY <2>2, <2>3, <2>4
<1>3. w \in Seq(Char) /\ Len(w) = 2 /\ w[1] = one /\ w[2] = two
  OBVIOUS
<1> HIDE DEF u, w
<1>4. ASSUME s[p] = one, s[p + 1] = two PROVE u = w
  <2>1. \A i \in 1 .. Len(u) : i = 1 \/ i = 2
    BY <1>2
  <2>2. \A i \in 1 .. Len(u) : u[i] = w[i]
    BY <1>2, <1>3, <1>4, <2>1
  <2> QED BY <1>2, <1>3, <2>2, SameSeq
<1> QED BY <1>2, <1>3, <1>4 DEF u, w

LEMMA TagThere ==
    ASSUME NEW s \in Seq(Char), NEW p \in 1 .. Len(s) - 1, NEW tag \in {OpenTag, CloseTag}
    PROVE  SubSeq(s, p, p + 1) = tag <=> s[p] = tag[1] /\ s[p + 1] = tag[2]
<1>1. tag = <<"o", "O">> \/ tag = <<"c", "C">>
  BY DEF OpenTag, CloseTag
<1>2. {"o", "O", "c", "C"} \subseteq Char
  BY DEF Char
<1>3. SubSeq(s, p, p + 1) = <<"o", "O">> <=> s[p] = "o" /\ s[p + 1] = "O"
  BY <1>2, TwoHalves
<1>4. SubSeq(s, p, p + 1) = <<"c", "C">> <=> s[p] = "c" /\ s[p + 1] = "C"
  BY <1>2, TwoHalves
<1>5. /\ <<"o", "O">>[1] = "o" /\ <<"o", "O">>[2] = "O"
      /\ <<"c", "C">>[1] = "c" /\ <<"c", "C">>[2] = "C"
  OBVIOUS
<1> QED BY <1>1, <1>3, <1>4, <1>5

\* No part of an unambiguous text is ambiguous.
LEMMA UnambiguousParts ==
    ASSUME NEW s \in Seq(Char), NEW t \in Seq(Char), Unambiguous(s \o t)
    PROVE  Unambiguous(s) /\ Unambiguous(t)
<1> DEFINE u == s \o t
           m == Len(s)
<1>1. /\ u \in Seq(Char) /\ m \in Nat /\ Len(t) \in Nat /\ Len(u) = m + Len(t)
      /\ \A i \in 1 .. m : u[i] = s[i]
      /\ \A i \in 1 .. Len(t) : u[m + i] = t[i]
  BY Joined
<1>2. \A q \in 1 .. Len(u) - 1 : \A tag \in {OpenTag, CloseTag} :
         SubSeq(u, q, q + 1) = tag => Unquoted(u, q, tag)
  BY DEF Unambiguous
<1> HIDE DEF u
<1>3. ASSUME NEW tag \in {OpenTag, CloseTag}, NEW p \in 1 .. m - 1, SubSeq(s, p, p + 1) = tag
      PROVE  Unquoted(s, p, tag)
  <2>1. /\ p \in 1 .. Len(u) - 1 /\ p \in 1 .. m /\ p + 1 \in 1 .. m
        /\ p > 1 => p - 1 \in 1 .. m
        /\ p + 2 <= m => p + 2 \in 1 .. m /\ p + 2 <= Len(u)
    BY <1>1
  <2>2. SubSeq(u, p, p + 1) = tag
    BY <1>1, <1>3, <2>1, TagThere
  <2>3. Unquoted(u, p, tag)
    BY <1>2, <2>1, <2>2
  <2> QED BY <1>1, <1>3, <2>1, <2>3 DEF Unquoted
<1>4. ASSUME NEW tag \in {OpenTag, CloseTag}, NEW p \in 1 .. Len(t) - 1,
             SubSeq(t, p, p + 1) = tag
      PROVE  Unquoted(t, p, tag)
  <2> DEFINE q == m + p
  <2>1. /\ q \in 1 .. Len(u) - 1 /\ p \in 1 .. Len(t) /\ p + 1 \in 1 .. Len(t)
        /\ q + 1 = m + (p + 1)
        /\ p > 1 => p - 1 \in 1 .. Len(t) /\ q > 1 /\ q - 1 = m + (p - 1)
        /\ p + 2 <= Len(t) => p + 2 \in 1 .. Len(t) /\ q + 2 <= Len(u) /\ q + 2 = m + (p + 2)
    BY <1>1
  <2>0. u[q] = t[p] /\ u[m + (p + 1)] = t[p + 1]
    BY <1>1, <2>1
  <2> HIDE DEF q
  <2>2. SubSeq(u, q, q + 1) = tag
    BY <1>1, <1>4, <2>0, <2>1, TagThere
  <2>3. Unquoted(u, q, tag)
    BY <1>2, <2>1, <2>2
  <2>4. ASSUME p > 1 PROVE t[p - 1] \notin EndsInQuote
    <3>1. u[q - 1] \notin EndsInQuote
      BY <2>1, <2>3, <2>4 DEF Unquoted
    <3> QED BY <1>1, <2>1, <2>4, <3>1
  <2>5. ASSUME p + 2 <= Len(t) PROVE t[p + 2] \notin StartsInQuote
    <3>1. u[q + 2] \notin StartsInQuote
      BY <2>1, <2>3, <2>5 DEF Unquoted
    <3> QED BY <1>1, <2>1, <2>5, <3>1
  <2> QED BY <1>4, <2>4, <2>5 DEF Unquoted
<1> QED BY <1>3, <1>4 DEF Unambiguous, m

\* Then the code's searches find the first tag there is.
LEMMA TagsAreFirst ==
    ASSUME NEW s \in Seq(Char), Unambiguous(s)
    PROVE  StartTag(s) = First(OpenTag, s) /\ EndTag(s) = First(Ending, s)
<1>1. Len(s) \in Nat
  OBVIOUS
<1>2. \A q \in 1 .. Len(s) - 1 : \A tag \in {OpenTag, CloseTag} :
         SubSeq(s, q, q + 1) = tag <=> Unquoted(s, q, tag)
  BY DEF Unambiguous, Unquoted
<1>3. ASSUME NEW p \in 1 .. Len(s)
      PROVE  (p \in 1 .. Len(s) - 1 /\ Unquoted(s, p, OpenTag)) <=> At(OpenTag, s, p)
  <2>1. p \in 1 .. Len(s) - 1 <=> p + 2 <= Len(s) + 1
    BY <1>1
  <2>2. p \in 1 .. Len(s) - 1 =>
           (Unquoted(s, p, OpenTag) <=> s[p] = "o" /\ s[p + 1] = "O")
    BY <1>2, TagThere, WordsIn
  <2>3. (\A j \in 1 .. 2 : s[p + j - 1] = OpenTag[j]) <=> s[p] = "o" /\ s[p + 1] = "O"
    <3>1. \A j \in 1 .. 2 : j = 1 \/ j = 2
      OBVIOUS
    <3>2. p + 1 - 1 = p /\ p + 2 - 1 = p + 1 /\ 1 \in 1 .. 2 /\ 2 \in 1 .. 2
      BY <1>1
    <3> QED BY <3>1, <3>2, WordsIn
  <2> QED BY <2>1, <2>2, <2>3, WordsIn DEF At
<1>4. ASSUME NEW p \in 1 .. Len(s)
      PROVE  (p \in 1 .. Len(s) - 1 /\ Unquoted(s, p, CloseTag) /\ Newlines(s, p + 2))
                <=> At(Ending, s, p)
  <2>1. /\ p + 4 <= Len(s) + 1 => p \in 1 .. Len(s) - 1
        /\ (p + 2) + 1 <= Len(s) <=> p + 4 <= Len(s) + 1
        /\ (p + 2) + 1 = p + 3
    BY <1>1
  <2>2. p \in 1 .. Len(s) - 1 =>
           (Unquoted(s, p, CloseTag) <=> s[p] = "c" /\ s[p + 1] = "C")
    BY <1>2, TagThere, WordsIn
  <2>3. (\A j \in 1 .. 4 : s[p + j - 1] = Ending[j])
           <=> s[p] = "c" /\ s[p + 1] = "C" /\ s[p + 2] = "n" /\ s[p + 3] = "n"
    <3>1. \A j \in 1 .. 4 : j = 1 \/ j = 2 \/ j = 3 \/ j = 4
      OBVIOUS
    <3>2. /\ p + 1 - 1 = p /\ p + 2 - 1 = p + 1 /\ p + 3 - 1 = p + 2 /\ p + 4 - 1 = p + 3
          /\ 1 \in 1 .. 4 /\ 2 \in 1 .. 4 /\ 3 \in 1 .. 4 /\ 4 \in 1 .. 4
      BY <1>1
    <3> QED BY <3>1, <3>2, WordsIn
  <2>4. Newlines(s, p + 2) <=> p + 4 <= Len(s) + 1 /\ s[p + 2] = "n" /\ s[p + 3] = "n"
    BY <2>1 DEF Newlines
  <2>5. At(Ending, s, p) <=>
           p + 4 <= Len(s) + 1 /\ (\A j \in 1 .. 4 : s[p + j - 1] = Ending[j])
    BY WordsIn DEF At
  <2> QED BY <2>1, <2>2, <2>3, <2>4, <2>5
<1>5. {p \in 1 .. Len(s) - 1 : Unquoted(s, p, OpenTag)} = {p \in 1 .. Len(s) : At(OpenTag, s, p)}
  <2>1. \A p \in 1 .. Len(s) - 1 : p \in 1 .. Len(s)
    BY <1>1
  <2> QED BY <1>3, <2>1
<1>6. {p \in 1 .. Len(s) - 1 : Unquoted(s, p, CloseTag) /\ Newlines(s, p + 2)}
         = {p \in 1 .. Len(s) : At(Ending, s, p)}
  <2>1. \A p \in 1 .. Len(s) - 1 : p \in 1 .. Len(s)
    BY <1>1
  <2> QED BY <1>4, <2>1
<1> QED BY <1>5, <1>6 DEF StartTag, EndTag, First

-----------------------------------------------------------------------------
(* The pieces that the scan cuts, and their letters.                       *)

\* What is released and what is held back.
LEMMA ReleaseCut ==
    ASSUME NEW s \in Seq(Char), NEW k \in Nat
    PROVE  LET a == Releasable(s, k)
               z == From(s, Len(a) + 1)
           IN  /\ a \in Seq(Char) /\ z \in Seq(Char) /\ s = a \o z
               /\ Len(a) = 0 \/ k <= Len(z)
<1> DEFINE m == Len(s) - k
           a == SubSeq(s, 1, m)
           z == From(s, Len(a) + 1)
<1>1. Len(s) \in Nat /\ Releasable(s, k) = a
  BY DEF Releasable
<1>2. CASE m \in 0 .. Len(s)
  <2>1. /\ Beyond(s, m) \in Seq(Char) /\ Len(Beyond(s, m)) = Len(s) - m
        /\ a \in Seq(Char) /\ Len(a) = m /\ s = a \o Beyond(s, m)
    <3> HIDE DEF m
    <3> QED BY <1>2, BeyondIs
  <2>2. z = Beyond(s, m)
    <3> HIDE DEF m, a
    <3> QED BY <2>1 DEF From, Beyond
  <2>3. Len(s) - m = k
    BY <1>1
  <2> HIDE DEF m, a, z
  <2>4. k <= Len(z)
    BY <2>1, <2>2, <2>3
  <2> QED BY <1>1, <2>1, <2>2, <2>4 DEF z, a
<1>3. CASE m \notin 0 .. Len(s)
  <2>1. m < 1 /\ m \in Int
    BY <1>1, <1>3
  <2>2. a = <<>>
    <3> HIDE DEF m
    <3> QED BY <2>1
  <2>3. From(s, 1) = s
    BY DEF From
  <2>4. Len(<<>>) + 1 = 1 /\ Len(<<>>) = 0 /\ <<>> \in Seq(Char) /\ <<>> \o s = s
    OBVIOUS
  <2> HIDE DEF a
  <2>5. z = s
    BY <2>2, <2>3, <2>4
  <2> QED BY <1>1, <2>2, <2>4, <2>5
<1> QED BY <1>2, <1>3

\* The newline that may come after the start tag.
LEMMA StripCut ==
    ASSUME NEW s \in Seq(Char)
    PROVE  /\ StripNewline(s) \in Seq(Char)
           /\ \/ s = StripNewline(s)
              \/ s = <<"n">> \o StripNewline(s)
<1>1. CASE s # <<>> /\ Head(s) = "n"
  <2>1. s = <<"n">> \o Tail(s) /\ Tail(s) \in Seq(Char)
    BY <1>1, HeadTailProperties
  <2> QED BY <1>1, <2>1 DEF StripNewline
<1>2. CASE ~(s # <<>> /\ Head(s) = "n")
  BY <1>2 DEF StripNewline
<1> QED BY <1>1, <1>2

LEMMA Newline ==
    /\ <<"n">> \in Seq(Char) /\ Letters(<<"n">>) = <<>> /\ Letters(<<>>) = <<>>
    /\ \A b \in Seq(Char) : Awaits(Ending, <<"n">>, b)
<1>1. <<"n">> \in Seq(Char) /\ Blank(<<"n">>) /\ <<>> \in Seq(Char) /\ Blank(<<>>)
  BY DEF Char, Blank, White
<1>2. ASSUME NEW b \in Seq(Char), NEW t \in Seq(Char)
      PROVE  Free(Ending, <<"n">> \o (b \o t), Len(<<"n">>))
  <2> DEFINE d == <<"n">>
             r == b \o t
             u == d \o r
  <2>1. d \in Seq(Char) /\ Len(d) = 1 /\ d[1] = "n" /\ r \in Seq(Char)
    BY <1>1
  <2> HIDE DEF d, r
  <2>2. u[1] = "n"
    <3>1. /\ d \o r \in Seq(Char) /\ Len(d \o r) = Len(d) + Len(r)
          /\ \A i \in 1 .. Len(d) : (d \o r)[i] = d[i]
      BY <2>1, Joined
    <3>2. 1 \in 1 .. Len(d)
      BY <2>1
    <3> QED BY <2>1, <3>1, <3>2
  <2> HIDE DEF u
  <2>3. ~At(Ending, u, 1)
    <3>1. 1 \in 1 .. 4 /\ 1 + 1 - 1 = 1
      OBVIOUS
    <3> QED BY <2>2, <3>1, WordsIn DEF At
  <2>4. \A p \in 1 .. 1 : p = 1
    OBVIOUS
  <2>5. Free(Ending, u, Len(d))
    BY <2>1, <2>3, <2>4 DEF Free
  <2> QED BY <2>5 DEF u, d, r
<1> QED BY <1>1, <1>2, BlankLetters DEF Awaits

LEMMA StripLetters ==
    ASSUME NEW s \in Seq(Char)
    PROVE  Letters(StripNewline(s)) = Letters(s)
<1> DEFINE b == StripNewline(s)
<1>1. b \in Seq(Char) /\ (s = b \/ s = <<"n">> \o b)
  BY StripCut
<1> HIDE DEF b
<1>2. Letters(<<"n">> \o b) = Letters(<<"n">>) \o Letters(b)
  BY <1>1, Newline, LettersJoin
<1>3. Letters(b) \in Seq(Char) /\ <<>> \o Letters(b) = Letters(b)
  BY <1>1, LettersAre
<1>4. Letters(<<"n">> \o b) = Letters(b)
  BY <1>2, <1>3, Newline
<1> QED BY <1>1, <1>4 DEF b

\* The end of a text, from p on, has no letters.
LEMMA PlainTail ==
    ASSUME NEW s \in Seq(Char), NEW p \in Nat \ {0}, p <= Len(s), Plain(s, p, Len(s) + 1)
    PROVE  SubSeq(s, 1, p - 1) \in Seq(Char) /\ Letters(SubSeq(s, 1, p - 1)) = Letters(s)
<1> DEFINE k == p - 1
           a == SubSeq(s, 1, k)
           z == Beyond(s, k)
<1>1. k \in 0 .. Len(s) /\ Len(s) \in Nat /\ k \in Nat /\ (Len(s) + 1) - 1 = Len(s) /\ p = k + 1
  OBVIOUS
<1> HIDE DEF k
<1>2. /\ z \in Seq(Char) /\ Len(z) = Len(s) - k
      /\ \A i \in 1 .. Len(s) - k : z[i] = s[k + i]
      /\ a \in Seq(Char) /\ s = a \o z
  <2>1. /\ Beyond(s, k) \in Seq(Char) /\ Len(Beyond(s, k)) = Len(s) - k
        /\ \A i \in 1 .. Len(s) - k : Beyond(s, k)[i] = s[k + i]
        /\ SubSeq(s, 1, k) \in Seq(Char) /\ Len(SubSeq(s, 1, k)) = k
        /\ s = SubSeq(s, 1, k) \o Beyond(s, k)
    <3>1. k \in 0 .. Len(s)
      BY <1>1
    <3> HIDE DEF a, z
    <3> QED BY <3>1, BeyondIs
  <2> QED BY <2>1
<1>3. ASSUME NEW i \in DOMAIN z PROVE z[i] \notin Letter
  <2>1. i \in 1 .. Len(s) - k
    BY <1>2
  <2>2. k + i \in p .. (Len(s) + 1) - 1
    BY <1>1, <2>1
  <2> QED BY <1>2, <2>1, <2>2 DEF Plain
<1>4. Letters(z) = <<>>
  BY <1>2, <1>3, NoLetters
<1>5. Letters(a \o z) = Letters(a) \o Letters(z) /\ Letters(a) \in Seq(Char)
  BY <1>2, LettersJoin, LettersAre
<1> HIDE DEF a, z
<1>6. Letters(s) = Letters(a)
  BY <1>2, <1>4, <1>5
<1> QED BY <1>2, <1>6 DEF a, k

-----------------------------------------------------------------------------
(* What is said in a channel, text or thinking, in its order.              *)

\* What an event, or a list of events, says in a channel.
Line(ch, item) == IF item.ev = ch THEN item.text ELSE <<>>
Lines(ch, queue) == [i \in DOMAIN queue |-> Line(ch, queue[i])]
Voice(ch, queue) == FlattenSeq(Lines(ch, queue))

LEMMA VoiceIs ==
    ASSUME NEW ch \in Speaking, NEW queue, Talk(queue)
    PROVE  Lines(ch, queue) \in Seq(Seq(Char)) /\ Voice(ch, queue) \in Seq(Char)
<1>1. PICK S : queue \in Seq(S)
  BY DEF Talk
<1> DEFINE n == Len(queue)
<1>2. n \in Nat /\ DOMAIN queue = 1 .. n
  BY <1>1
<1>3. ASSUME NEW i \in 1 .. n PROVE Line(ch, queue[i]) \in Seq(Char)
  <2>1. Speeches(queue) = [j \in 1 .. n |-> Speech(queue[j])] /\ Speeches(queue) \in Seq(Seq(Char))
    BY <1>2 DEF Talk, Speeches
  <2>2. DOMAIN Speeches(queue) = 1 .. n /\ Speeches(queue)[i] = Speech(queue[i])
    BY <2>1
  <2>3. Speech(queue[i]) \in Seq(Char)
    BY <2>1, <2>2
  <2> QED BY <2>3, NoText DEF Line, Speech
<1>4. Lines(ch, queue) = [i \in 1 .. n |-> Line(ch, queue[i])]
  BY <1>2 DEF Lines
<1> HIDE DEF n
<1>5. Lines(ch, queue) \in Seq(Seq(Char))
  BY <1>2, <1>3, <1>4
<1>6. FlattenSeq(Lines(ch, queue)) \in Seq(Char)
  BY <1>5, FlattenIs
<1> QED BY <1>5, <1>6 DEF Voice

LEMMA VoiceNone == ASSUME NEW ch PROVE Voice(ch, <<>>) = <<>>
<1>1. Lines(ch, <<>>) = <<>>
  BY DEF Lines
<1> QED BY <1>1 DEF Voice, FlattenSeq

LEMMA VoiceJoin ==
    ASSUME NEW ch \in Speaking, NEW queue, NEW more, Talk(queue), Talk(more)
    PROVE  Voice(ch, queue \o more) = Voice(ch, queue) \o Voice(ch, more)
<1>1. PICK S, T : queue \in Seq(S) /\ more \in Seq(T)
  BY DEF Talk
<1> DEFINE U == S \cup T
           F == [item \in U |-> Line(ch, item)]
           V == {Line(ch, item) : item \in U}
           all == queue \o more
<1>2. queue \in Seq(U) /\ more \in Seq(U)
  BY <1>1
<1>3. F \in [U -> V]
  OBVIOUS
<1>4. ASSUME NEW q \in Seq(U) PROVE Each(F, q) = Lines(ch, q)
  <2>1. \A i \in DOMAIN q : q[i] \in U
    OBVIOUS
  <2>2. \A i \in DOMAIN q : F[q[i]] = Line(ch, q[i])
    BY <2>1
  <2> QED BY <2>2 DEF Each, Lines
<1> HIDE DEF F, V, U
<1>5. Each(F, queue \o more) = Each(F, queue) \o Each(F, more) /\ Each(F, queue) \in Seq(V)
  <2>1. \A G \in [U -> V] : \A q, r \in Seq(U) :
           Each(G, q \o r) = Each(G, q) \o Each(G, r) /\ Each(G, q) \in Seq(V)
    BY EachJoin
  <2> QED BY <1>2, <1>3, <2>1
<1>6. all \in Seq(U)
  BY <1>2
<1>7. Lines(ch, all) = Lines(ch, queue) \o Lines(ch, more)
  BY <1>2, <1>4, <1>5, <1>6
<1>8. Lines(ch, queue) \in Seq(Seq(Char)) /\ Lines(ch, more) \in Seq(Seq(Char))
  BY VoiceIs
<1>9. FlattenSeq(Lines(ch, queue) \o Lines(ch, more))
         = FlattenSeq(Lines(ch, queue)) \o FlattenSeq(Lines(ch, more))
  BY <1>8, FlattenJoin
<1> QED BY <1>7, <1>9 DEF Voice

LEMMA VoiceOne ==
    ASSUME NEW ch \in Speaking, NEW item, item.ev \in Speaking => item.text \in Seq(Char)
    PROVE  /\ Voice(ch, <<item>>) = Line(ch, item) /\ Line(ch, item) \in Seq(Char)
           /\ Talk(<<item>>)
<1>1. Line(ch, item) \in Seq(Char)
  BY NoText DEF Line
<1>2. Lines(ch, <<item>>) = <<Line(ch, item)>>
  BY DEF Lines
<1> DEFINE d == Line(ch, item)
           ss == <<d>>
<1>3. ss \in Seq(Seq(Char)) /\ Len(ss) = 1 /\ ss[1] = d
  BY <1>1
<1> HIDE DEF ss, d
<1>4. FlattenSeq(ss) = IF 1 \in 1 .. Len(ss) THEN ss[1] ELSE <<>>
  <2>1. \A k \in 1 .. Len(ss) : k # 1 => ss[k] = <<>>
    BY <1>3
  <2> QED BY <1>3, <2>1, FlattenSingle
<1>5. FlattenSeq(ss) = d
  BY <1>3, <1>4
<1> QED BY <1>1, <1>2, <1>5, TalkOne DEF Voice, ss, d

LEMMA VoiceAppend ==
    ASSUME NEW ch \in Speaking, NEW queue, Talk(queue),
           NEW item, item.ev \in Speaking => item.text \in Seq(Char)
    PROVE  Voice(ch, Append(queue, item)) = Voice(ch, queue) \o Line(ch, item)
<1>1. Append(queue, item) = queue \o <<item>>
  <2>1. PICK S : queue \in Seq(S)
    BY DEF Talk
  <2> QED BY <2>1
<1>2. Voice(ch, queue \o <<item>>) = Voice(ch, queue) \o Voice(ch, <<item>>)
  BY VoiceOne, VoiceJoin
<1> QED BY <1>1, <1>2, VoiceOne

\* The first event, and then the others.
LEMMA VoiceFirst ==
    ASSUME NEW ch \in Speaking, NEW queue \in Seq(Item), queue # <<>>
    PROVE  /\ Voice(ch, queue) = Line(ch, Head(queue)) \o Voice(ch, Tail(queue))
           /\ Line(ch, Head(queue)) \in Seq(Char) /\ Voice(ch, Tail(queue)) \in Seq(Char)
<1>1. queue = <<Head(queue)>> \o Tail(queue) /\ Talk(Tail(queue)) /\ Head(queue) \in Item
  BY TalkFirst, HeadTailProperties, EmptySeq
<1> DEFINE item == Head(queue)
           rest == Tail(queue)
<1>2. item.text \in Seq(Char)
  BY <1>1 DEF Item
<1>3. queue = <<item>> \o rest /\ Talk(rest)
  BY <1>1
<1> HIDE DEF item, rest
<1>4. /\ Voice(ch, <<item>>) = Line(ch, item) /\ Line(ch, item) \in Seq(Char)
      /\ Talk(<<item>>)
  BY <1>2, VoiceOne
<1>5. Voice(ch, <<item>> \o rest) = Voice(ch, <<item>>) \o Voice(ch, rest)
      /\ Voice(ch, rest) \in Seq(Char)
  BY <1>3, <1>4, VoiceJoin, VoiceIs
<1> QED BY <1>3, <1>4, <1>5 DEF item, rest

-----------------------------------------------------------------------------
(* What each operator of the translation adds to the channels, while there *)
(* are neither tools nor native reasoning.                                 *)

\* The positions of thinking blocks.
Thoughts(x) == {i \in DOMAIN x.blocks : x.blocks[i].type = "thinking"}

\* There is one block of each kind: of text, which is open, and of thinking.
Placed(x) ==
    \A i \in DOMAIN x.blocks :
        /\ x.blocks[i].type = "text" => i = x.textAt /\ ~x.blocks[i].stopped
        /\ x.blocks[i].type = "thinking" => i = x.thinkAt

\* The state of the scan but for its buffer.
SameScan(x, y) ==
    /\ y.thinking = x.thinking /\ y.inside = x.inside /\ y.extracted = x.extracted
    /\ y.native = x.native /\ y.reasoning = x.reasoning /\ y.strip = x.strip

\* y says what x says, and t, and thinks what x thinks, and h.
Adds(x, y, t, h) ==
    /\ y.buffer = x.buffer /\ SameScan(x, y)
    /\ y.thinkAt = x.thinkAt /\ Thoughts(y) = Thoughts(x)
    /\ t \in Seq(Char) /\ h \in Seq(Char) /\ Carries(y) /\ Placed(y)
    /\ Voice("text", y.out) = Voice("text", x.out) \o t
    /\ Voice("thinking", y.out) = Voice("thinking", x.out) \o h

LEMMA VoicesAre ==
    ASSUME NEW x, Carries(x)
    PROVE  /\ Talk(x.out) /\ Voice("text", x.out) \in Seq(Char)
           /\ Voice("thinking", x.out) \in Seq(Char)
BY VoiceIs DEF Carries, Speaking

LEMMA AddsTwice ==
    ASSUME NEW x, Carries(x), NEW y, NEW z, NEW t, NEW h, NEW u, NEW k,
           Adds(x, y, t, h), Adds(y, z, u, k)
    PROVE  Adds(x, z, t \o u, h \o k)
<1> DEFINE a == Voice("text", x.out)
           b == Voice("thinking", x.out)
<1>1. a \in Seq(Char) /\ b \in Seq(Char)
  BY VoicesAre
<1>2. t \in Seq(Char) /\ h \in Seq(Char) /\ u \in Seq(Char) /\ k \in Seq(Char)
  BY DEF Adds
<1>3. Voice("text", z.out) = (a \o t) \o u /\ Voice("thinking", z.out) = (b \o h) \o k
  BY DEF Adds
<1> HIDE DEF a, b
<1>4. (a \o t) \o u = a \o (t \o u) /\ a \o t \in Seq(Char) /\ a \o (t \o u) \in Seq(Char)
  BY <1>1, <1>2, Assoc
<1>5. (b \o h) \o k = b \o (h \o k) /\ b \o h \in Seq(Char) /\ b \o (h \o k) \in Seq(Char)
  BY <1>1, <1>2, Assoc
<1>6. t \o u \in Seq(Char) /\ h \o k \in Seq(Char)
  BY <1>2
<1>7. /\ z.buffer = x.buffer /\ z.thinkAt = x.thinkAt /\ Thoughts(z) = Thoughts(x)
      /\ Carries(z) /\ Placed(z)
  BY DEF Adds
<1>8. SameScan(x, z)
  BY DEF Adds, SameScan
<1>9. /\ Voice("text", z.out) = Voice("text", x.out) \o (t \o u)
      /\ Voice("thinking", z.out) = Voice("thinking", x.out) \o (h \o k)
  BY <1>3, <1>4, <1>5 DEF a, b
<1> QED BY <1>6, <1>7, <1>8, <1>9 DEF Adds

LEMMA AddsNothing ==
    ASSUME NEW x, Carries(x), NEW y, Carries(y), y.out = x.out, y.buffer = x.buffer,
           SameScan(x, y), y.thinkAt = x.thinkAt, Thoughts(y) = Thoughts(x), Placed(y)
    PROVE  Adds(x, y, <<>>, <<>>)
<1> DEFINE a == Voice("text", x.out)
           b == Voice("thinking", x.out)
<1>1. a \in Seq(Char) /\ b \in Seq(Char)
  BY VoicesAre
<1> HIDE DEF a, b
<1>2. a = a \o <<>> /\ b = b \o <<>>
  BY <1>1
<1> QED BY <1>2, NoText DEF Adds, a, b

\* An event is appended to the list.
LEMMA EmitAdds ==
    ASSUME NEW x, Carries(x), Placed(x), NEW ev, NEW at, NEW tag, NEW text \in Seq(Char)
    PROVE  LET y == Emit(x, ev, at, tag, text)
           IN  /\ Adds(x, y, IF ev = "text" THEN text ELSE <<>>,
                       IF ev = "thinking" THEN text ELSE <<>>)
               /\ y.blocks = x.blocks /\ y.textAt = x.textAt
<1> DEFINE item == [ev |-> ev, at |-> at, tag |-> tag, text |-> text]
           y == Emit(x, ev, at, tag, text)
<1>1. item.ev = ev /\ item.text = text
  OBVIOUS
<1>2. y = [x EXCEPT !.out = Append(x.out, item)]
  BY DEF Emit, Carries, Fields
<1>3. Carries(y)
  BY EmitSays DEF Says, Mute
<1> HIDE DEF item, y
<1>4. /\ y.out = Append(x.out, item) /\ y.blocks = x.blocks /\ y.buffer = x.buffer
      /\ SameScan(x, y) /\ y.thinkAt = x.thinkAt /\ y.textAt = x.textAt
  BY <1>2 DEF Carries, Fields, SameScan
<1>5. Placed(y) /\ Thoughts(y) = Thoughts(x)
  BY <1>4 DEF Placed, Thoughts
<1>6. /\ Voice("text", y.out) = Voice("text", x.out) \o Line("text", item)
      /\ Voice("thinking", y.out) = Voice("thinking", x.out) \o Line("thinking", item)
  BY <1>1, <1>4, VoiceAppend DEF Carries, Speaking
<1>7. /\ Line("text", item) = IF ev = "text" THEN text ELSE <<>>
      /\ Line("thinking", item) = IF ev = "thinking" THEN text ELSE <<>>
  BY <1>1 DEF Line
<1>8. (IF ev = "text" THEN text ELSE <<>>) \in Seq(Char)
      /\ (IF ev = "thinking" THEN text ELSE <<>>) \in Seq(Char)
  BY NoText
<1> QED BY <1>3, <1>4, <1>5, <1>6, <1>7, <1>8 DEF Adds, y

\* An event that is neither text nor thinking.
LEMMA EmitQuiet ==
    ASSUME NEW x, Carries(x), Placed(x), NEW ev, ev \notin Speaking, NEW at, NEW tag
    PROVE  LET y == Emit(x, ev, at, tag, <<>>)
           IN  Adds(x, y, <<>>, <<>>) /\ y.blocks = x.blocks /\ y.textAt = x.textAt
<1> DEFINE none == <<>>
           y == Emit(x, ev, at, tag, none)
<1>1. none \in Seq(Char)
  BY NoText
<1> HIDE DEF none
<1>2. /\ Adds(x, y, IF ev = "text" THEN none ELSE <<>>, IF ev = "thinking" THEN none ELSE <<>>)
      /\ y.blocks = x.blocks /\ y.textAt = x.textAt
  BY <1>1, EmitAdds
<1>3. ev # "text" /\ ev # "thinking"
  BY DEF Speaking
<1> HIDE DEF y
<1>4. Adds(x, y, <<>>, <<>>) /\ y.blocks = x.blocks /\ y.textAt = x.textAt
  BY <1>2, <1>3
<1> QED BY <1>4 DEF y, none

\* What adds nothing does not matter.
LEMMA QuietThen ==
    ASSUME NEW x, Carries(x), NEW y, NEW z, NEW t, NEW h, Adds(x, y, <<>>, <<>>), Adds(y, z, t, h)
    PROVE  Adds(x, z, t, h)
<1>1. Adds(x, z, <<>> \o t, <<>> \o h)
  BY AddsTwice
<1>2. t \in Seq(Char) /\ h \in Seq(Char)
  BY DEF Adds
<1>3. <<>> \o t = t /\ <<>> \o h = h
  BY <1>2
<1> QED BY <1>1, <1>3

\* Fields that neither the scan nor the client's blocks look at.
LEMMA MinorAdds ==
    ASSUME NEW x, Carries(x), Placed(x), NEW u
    PROVE  /\ Adds(x, [x EXCEPT !.produced = u], <<>>, <<>>)
           /\ Adds(x, [x EXCEPT !.reason = u], <<>>, <<>>)
           /\ Adds(x, [x EXCEPT !.failure = u], <<>>, <<>>)
           /\ Adds(x, [x EXCEPT !.started = u], <<>>, <<>>)
<1>1. ASSUME NEW y, Carries(y), y.out = x.out, y.buffer = x.buffer, y.blocks = x.blocks,
             y.textAt = x.textAt, y.thinkAt = x.thinkAt, SameScan(x, y)
      PROVE  Adds(x, y, <<>>, <<>>)
  <2>1. Thoughts(y) = Thoughts(x) /\ Placed(y)
    BY <1>1 DEF Thoughts, Placed
  <2> QED BY <1>1, <2>1, AddsNothing
<1>2. ASSUME NEW y, y = [x EXCEPT !.produced = u] \/ y = [x EXCEPT !.reason = u]
                    \/ y = [x EXCEPT !.failure = u] \/ y = [x EXCEPT !.started = u]
      PROVE  /\ y.out = x.out /\ y.buffer = x.buffer /\ y.blocks = x.blocks
             /\ y.textAt = x.textAt /\ y.thinkAt = x.thinkAt /\ SameScan(x, y)
  BY <1>2 DEF Carries, Fields, SameScan
<1>3. /\ Carries([x EXCEPT !.produced = u]) /\ Carries([x EXCEPT !.reason = u])
      /\ Carries([x EXCEPT !.failure = u]) /\ Carries([x EXCEPT !.started = u])
  BY MuteFields DEF Mute
<1>4. Adds(x, [x EXCEPT !.produced = u], <<>>, <<>>)
  <2> DEFINE y == [x EXCEPT !.produced = u]
  <2>1. y = [x EXCEPT !.produced = u] /\ Carries(y)
    BY <1>3
  <2> HIDE DEF y
  <2> QED BY <1>1, <1>2, <2>1
<1>5. Adds(x, [x EXCEPT !.reason = u], <<>>, <<>>)
  <2> DEFINE y == [x EXCEPT !.reason = u]
  <2>1. y = [x EXCEPT !.reason = u] /\ Carries(y)
    BY <1>3
  <2> HIDE DEF y
  <2> QED BY <1>1, <1>2, <2>1
<1>6. Adds(x, [x EXCEPT !.failure = u], <<>>, <<>>)
  <2> DEFINE y == [x EXCEPT !.failure = u]
  <2>1. y = [x EXCEPT !.failure = u] /\ Carries(y)
    BY <1>3
  <2> HIDE DEF y
  <2> QED BY <1>1, <1>2, <2>1
<1>7. Adds(x, [x EXCEPT !.started = u], <<>>, <<>>)
  <2> DEFINE y == [x EXCEPT !.started = u]
  <2>1. y = [x EXCEPT !.started = u] /\ Carries(y)
    BY <1>3
  <2> HIDE DEF y
  <2> QED BY <1>1, <1>2, <2>1
<1> QED BY <1>4, <1>5, <1>6, <1>7

\* The blocks are stopped, and none of them is of text.
LEMMA StoppedAdds ==
    ASSUME NEW x, Carries(x), Placed(x), NEW S, \A i \in S : x.blocks[i].type # "text"
    PROVE  Adds(x, Stop(x, S), <<>>, <<>>)
<1> DEFINE y == Stopped(x, S)
           u == [i \in DOMAIN x.blocks |-> [type    |-> x.blocks[i].type,
                                            stopped |-> x.blocks[i].stopped \/ i \in S]]
<1>1. CASE S = {}
  BY <1>1, AddsNothing DEF Stop, SameScan
<1>2. CASE S # {}
  <2>1. Carries(Stop(x, S))
    BY StopMute DEF Mute
  <2>2. Stop(x, S) = Emit(y, "stop", S, "", <<>>)
    BY <1>2 DEF Stop
  <2>3. y = [x EXCEPT !.blocks = u] /\ DOMAIN u = DOMAIN x.blocks
        /\ \A i \in DOMAIN x.blocks : u[i].type = x.blocks[i].type
                                      /\ (i \notin S => u[i].stopped = x.blocks[i].stopped)
    <3>1. y = [x EXCEPT !.blocks = u]
      BY DEF Stopped
    <3>2. \A i \in DOMAIN x.blocks : i \notin S => (u[i].stopped <=> x.blocks[i].stopped)
      OBVIOUS
    <3>3. x.blocks \in Seq(BlockState)
      BY DEF Carries
    <3>4. \A i \in DOMAIN x.blocks : x.blocks[i].stopped \in BOOLEAN
      <4>1. \A i \in DOMAIN x.blocks : x.blocks[i] \in BlockState
        BY <3>3
      <4> QED BY <4>1 DEF BlockState
    <3>5. \A i \in DOMAIN x.blocks : i \notin S => u[i].stopped = x.blocks[i].stopped
      BY <3>4
    <3> QED BY <3>1, <3>5
  <2> HIDE DEF u, y
  <2>4. /\ y.out = x.out /\ y.blocks = u /\ y.buffer = x.buffer /\ SameScan(x, y)
        /\ y.thinkAt = x.thinkAt /\ y.textAt = x.textAt
    BY <2>3 DEF Carries, Fields, SameScan
  <2>5. Thoughts(y) = Thoughts(x)
    BY <2>3, <2>4 DEF Thoughts
  <2>6. Placed(y)
    <3> SUFFICES ASSUME NEW i \in DOMAIN x.blocks
                 PROVE  /\ u[i].type = "text" => i = x.textAt /\ ~u[i].stopped
                        /\ u[i].type = "thinking" => i = x.thinkAt
      BY <2>3, <2>4 DEF Placed
    <3> QED BY <2>3 DEF Placed
  <2>7. Carries(y)
    <3>1. Mute(x, [x EXCEPT !.blocks = u])
      <4>1. x.blocks \in Seq(BlockState)
        BY DEF Carries
      <4>2. u \in Seq(BlockState)
        <5>1. DOMAIN x.blocks = 1 .. Len(x.blocks) /\ Len(x.blocks) \in Nat
              /\ \A j \in 1 .. Len(x.blocks) : x.blocks[j] \in BlockState
          BY <4>1
        <5>2. \A j \in 1 .. Len(x.blocks) :
                 [type |-> x.blocks[j].type, stopped |-> x.blocks[j].stopped \/ j \in S] \in BlockState
          BY <5>1 DEF BlockState
        <5>3. u = [j \in 1 .. Len(x.blocks) |->
                      [type |-> x.blocks[j].type, stopped |-> x.blocks[j].stopped \/ j \in S]]
          BY <5>1 DEF u
        <5> QED BY <5>1, <5>2, <5>3
      <4> QED BY <4>2, MuteFields
    <3> QED BY <2>3, <3>1 DEF Mute
  <2>8. Adds(x, y, <<>>, <<>>)
    BY <2>4, <2>5, <2>6, <2>7, AddsNothing
  <2>9. Adds(y, Emit(y, "stop", S, "", <<>>), <<>>, <<>>)
    BY <2>6, <2>7, EmitQuiet DEF Speaking
  <2> QED BY <2>2, <2>8, <2>9, QuietThen
<1> QED BY <1>1, <1>2

\* A block for text is started where there is none.
LEMMA StartTextAdds ==
    ASSUME NEW x, Carries(x), Placed(x), x.textAt \notin OpenText(x)
    PROVE  LET y == StartBlock([x EXCEPT !.textAt = Len(x.blocks) + 1], "text")
           IN  Adds(x, y, <<>>, <<>>) /\ y.textAt \in OpenText(y)
<1> DEFINE m == Len(x.blocks) + 1
           b == [type |-> "text", stopped |-> FALSE]
           w == [x EXCEPT !.textAt = m]
           u == Append(x.blocks, b)
           z == [w EXCEPT !.blocks = u]
           y == StartBlock(w, "text")
<1>1. x.blocks \in Seq(BlockState) /\ b \in BlockState
  BY DEF Carries, BlockState, BlockType
<1>2. /\ u \in Seq(BlockState) /\ Len(x.blocks) \in Nat /\ DOMAIN u = 1 .. m
      /\ DOMAIN x.blocks = 1 .. Len(x.blocks) /\ m \in 1 .. m
      /\ u[m] = b /\ \A i \in 1 .. Len(x.blocks) : u[i] = x.blocks[i]
  <2> HIDE DEF b
  <2>1. /\ u \in Seq(BlockState) /\ Len(x.blocks) \in Nat /\ Len(u) = Len(x.blocks) + 1
        /\ u[Len(x.blocks) + 1] = b
        /\ \A i \in 1 .. Len(x.blocks) : u[i] = x.blocks[i]
    BY <1>1, Appended
  <2> QED BY <1>1, <2>1
<1>3. b.type = "text" /\ b.stopped = FALSE
  OBVIOUS
<1>4. w.blocks = x.blocks /\ DOMAIN w = Fields
  BY DEF Carries, Fields
<1>5. y = Emit(z, "start", {m}, "text", <<>>)
  BY <1>4 DEF StartBlock, Fields
<1>6. Carries(z)
  <2>1. Carries(w)
    BY MuteFields DEF Mute
  <2> HIDE DEF w, u
  <2> QED BY <1>2, <2>1, MuteFields DEF Mute
<1>7. /\ z.out = x.out /\ z.blocks = u /\ z.buffer = x.buffer /\ SameScan(x, z)
      /\ z.thinkAt = x.thinkAt /\ z.textAt = m
  BY DEF Carries, Fields, SameScan
<1> HIDE DEF m, b, w, u, z, y
<1>8. \A i \in 1 .. m : i \in 1 .. Len(x.blocks) \/ i = m
  BY <1>2 DEF m
<1>9. \A i \in 1 .. Len(x.blocks) : x.blocks[i].type # "text"
  BY <1>2 DEF Placed, OpenText, OpenBlocks
<1>10. Thoughts(z) = Thoughts(x)
  <2>1. \A i \in 1 .. Len(x.blocks) : i \in 1 .. m
    BY <1>2 DEF m
  <2> QED BY <1>2, <1>3, <1>7, <1>8, <2>1 DEF Thoughts
<1>11. Placed(z)
  <2> SUFFICES ASSUME NEW i \in 1 .. m
               PROVE  /\ u[i].type = "text" => i = m /\ ~u[i].stopped
                      /\ u[i].type = "thinking" => i = x.thinkAt
    BY <1>2, <1>7 DEF Placed
  <2> QED BY <1>2, <1>3, <1>8, <1>9 DEF Placed
<1>12. Adds(x, z, <<>>, <<>>)
  BY <1>6, <1>7, <1>10, <1>11, AddsNothing
<1>13. Adds(z, y, <<>>, <<>>) /\ y.blocks = z.blocks /\ y.textAt = z.textAt
  BY <1>5, <1>6, <1>11, EmitQuiet DEF Speaking
<1>15. Adds(x, y, <<>>, <<>>)
  BY <1>12, <1>13, QuietThen
<1>16. y.textAt \in OpenText(y)
  BY <1>2, <1>3, <1>7, <1>13 DEF OpenText, OpenBlocks
<1> QED BY <1>15, <1>16 DEF y, w, m

LEMMA TextAdds ==
    ASSUME NEW x, Carries(x), Placed(x), NEW text \in Seq(Char)
    PROVE  Adds(x, TextDelta(x, text), text, <<>>)
<1>1. ASSUME NEW y, Carries(y), Placed(y), y.textAt \in OpenText(y)
      PROVE  Adds(y, Delta(y, y.textAt, "text", text), text, <<>>)
  <2>1. Delta(y, y.textAt, "text", text) = Emit(y, "text", {y.textAt}, "", text)
    BY <1>1 DEF Delta, OpenText
  <2> DEFINE e == Emit(y, "text", {y.textAt}, "", text)
  <2>2. Adds(y, e, IF "text" = "text" THEN text ELSE <<>>, IF "text" = "thinking" THEN text ELSE <<>>)
    BY <1>1, EmitAdds
  <2> HIDE DEF e
  <2>3. Adds(y, e, text, <<>>)
    BY <2>2
  <2> QED BY <2>1, <2>3 DEF e
<1>2. CASE x.textAt \in OpenText(x)
  BY <1>1, <1>2 DEF TextDelta, TextDeltaTo
<1>3. CASE x.textAt \notin OpenText(x)
  <2> DEFINE y == StartBlock([x EXCEPT !.textAt = Len(x.blocks) + 1], "text")
             z == Delta(y, y.textAt, "text", text)
  <2>1. Adds(x, y, <<>>, <<>>) /\ y.textAt \in OpenText(y)
    BY <1>3, StartTextAdds
  <2>2. TextDelta(x, text) = z
    BY <1>3 DEF TextDelta, TextDeltaTo
  <2> HIDE DEF y
  <2>3. Adds(y, z, text, <<>>)
    BY <1>1, <2>1 DEF Adds
  <2> HIDE DEF z
  <2> QED BY <2>1, <2>2, <2>3, QuietThen
<1> QED BY <1>2, <1>3

LEMMA ThinkingAdds ==
    ASSUME NEW x, Carries(x), Placed(x), NEW text \in Seq(Char)
    PROVE  Adds(x, ThinkingDelta(x, text), <<>>, text) /\ Adds(x, SomeThinking(x, text), <<>>, text)
<1> DEFINE e == Emit(x, "thinking", {x.thinkAt}, "", text)
<1>1. Adds(x, e, IF "thinking" = "text" THEN text ELSE <<>>,
                 IF "thinking" = "thinking" THEN text ELSE <<>>)
  BY EmitAdds
<1>2. ThinkingDelta(x, text) = e
  BY DEF ThinkingDelta
<1> HIDE DEF e
<1>3. Adds(x, e, <<>>, text)
  BY <1>1
<1>4. Adds(x, x, <<>>, <<>>)
  BY AddsNothing DEF SameScan
<1> QED BY <1>2, <1>3, <1>4 DEF SomeThinking

LEMMA CloseFakeAdds ==
    ASSUME NEW x, Carries(x), Placed(x), x.thinkAt \in Thoughts(x)
    PROVE  Adds(x, CloseFakeThinking(x), <<>>, <<>>)
<1> DEFINE tag == IF x.signature THEN "given" ELSE "made"
           e == Emit(x, "signature", {x.thinkAt}, tag, <<>>)
           S == {x.thinkAt} \cap OpenBlocks(e)
<1> HIDE DEF tag
<1>1. Adds(x, e, <<>>, <<>>) /\ e.blocks = x.blocks
  BY EmitQuiet DEF Speaking
<1>2. CloseFakeThinking(x) = Stop(e, S)
  BY DEF CloseFakeThinking, StopBlock, tag
<1> HIDE DEF e
<1>3. Adds(x, e, <<>>, <<>>) /\ Carries(e) /\ Placed(e)
  BY <1>1 DEF Adds
<1>4. \A i \in S : e.blocks[i].type # "text"
  BY <1>1 DEF Thoughts
<1>5. Adds(e, Stop(e, S), <<>>, <<>>)
  BY <1>3, <1>4, StoppedAdds
<1> QED BY <1>2, <1>3, <1>5, QuietThen

LEMMA FailureAdds ==
    ASSUME NEW x, Carries(x), Placed(x), NEW kind
    PROVE  Adds(x, MarkFailure(x, kind), <<>>, <<>>)
BY MinorAdds, AddsNothing DEF MarkFailure, SameScan

\* The first events of an answer that may think.
LEMMA InitialAdds ==
    ASSUME NEW x, Carries(x), Placed(x), x.thinking
    PROVE  Adds(x, Initial(x), <<>>, <<>>)
<1> DEFINE a == [x EXCEPT !.started = TRUE]
           y == Emit(a, "message_start", {}, "", <<>>)
<1>1. Initial(x) = y
  BY DEF Initial
<1>2. Adds(x, a, <<>>, <<>>)
  BY MinorAdds
<1> HIDE DEF a
<1>3. Adds(a, y, <<>>, <<>>)
  <2>1. Carries(a) /\ Placed(a)
    BY <1>2 DEF Adds
  <2> QED BY <2>1, EmitQuiet DEF Speaking
<1> HIDE DEF y
<1> QED BY <1>1, <1>2, <1>3, QuietThen

-----------------------------------------------------------------------------
(* Where the scan is in the text T of the answer, of which b is still in   *)
(* its buffer: lt are the letters that were spoken, lh those thought.      *)

\* No tag yet: what went out is the beginning of T, and no tag starts in it.
SeekAt(b, T, lt) ==
    \E P \in Seq(Char) : T = P \o b /\ Awaits(OpenTag, P, b) /\ lt = Letters(P)

\* After the first tag: Q of the thinking went out, and no end starts in it.
MuseAt(b, strip, T, lt, lh) ==
    \E A, Q \in Seq(Char) :
        /\ T = A \o (OpenTag \o (Q \o b)) /\ Free(OpenTag, T, Len(A))
        /\ Awaits(Ending, Q, b) /\ lt = Letters(A) /\ lh = Letters(Q)
        /\ strip => Q = <<>>

\* After the first end behind the tag: Z of the text behind it went out.
AnswerAt(b, T, lt, lh) ==
    \E A, Q, Z \in Seq(Char) :
        /\ T = A \o (OpenTag \o (Q \o (Ending \o (Z \o b)))) /\ Free(OpenTag, T, Len(A))
        /\ Free(Ending, Q \o (Ending \o (Z \o b)), Len(Q))
        /\ lt = Letters(A) \o Letters(Z) /\ lh = Letters(Q)

LEMMA Lengths ==
    ASSUME NEW S, NEW x \in Seq(S), NEW y \in Seq(S)
    PROVE  x \o y \in Seq(S) /\ Len(x \o y) = Len(x) + Len(y) /\ Len(x) \in Nat /\ Len(y) \in Nat
OBVIOUS

Regrouped(x, y, z) == (x \o y) \o z = x \o (y \o z) /\ x \o y \in Seq(Char)

LEMMA Regroup ==
    ASSUME NEW x \in Seq(Char), NEW y \in Seq(Char), NEW z \in Seq(Char)
    PROVE  Regrouped(x, y, z)
<1>1. (x \o y) \o z = x \o (y \o z) /\ x \o y \in Seq(Char) /\ x \o (y \o z) \in Seq(Char)
  BY Assoc
<1> QED BY <1>1 DEF Regrouped

\* w is at the end of a word; the text grows.
LEMMA FreeGrows ==
    ASSUME NEW w \in Seq(Char), NEW a \in Seq(Char), NEW z \in Seq(Char), NEW t \in Seq(Char),
           Free(w, a \o (w \o z), Len(a))
    PROVE  Free(w, (a \o (w \o z)) \o t, Len(a))
<1> DEFINE r == w \o z
           s == a \o r
           n == Len(a)
<1>1. r \in Seq(Char) /\ Len(r) = Len(w) + Len(z) /\ Len(w) \in Nat /\ Len(z) \in Nat
  BY Lengths
<1> HIDE DEF r
<1>2. s \in Seq(Char) /\ Len(s) = Len(a) + Len(r) /\ Len(a) \in Nat
  BY <1>1, Lengths
<1>3. Free(w, s, n)
  BY DEF r
<1>4. n \in Nat /\ n + Len(w) <= Len(s) + 1
  BY <1>1, <1>2
<1> HIDE DEF s, n
<1>5. Free(w, s \o t, n)
  BY <1>2, <1>3, <1>4, FreeMore
<1> QED BY <1>5 DEF s, n, r

\* More of the text arrives.
LEMMA SeekMore ==
    ASSUME NEW b \in Seq(Char), NEW T, NEW lt, SeekAt(b, T, lt), NEW t \in Seq(Char)
    PROVE  SeekAt(b \o t, T \o t, lt)
<1>1. PICK P \in Seq(Char) : T = P \o b /\ Awaits(OpenTag, P, b) /\ lt = Letters(P)
  BY DEF SeekAt
<1>2. (P \o b) \o t = P \o (b \o t)
  <2>1. Regrouped(P, b, t)
    BY Regroup
  <2> QED BY <2>1 DEF Regrouped
<1>3. Awaits(OpenTag, P, b \o t)
  BY <1>1, AwaitsMore
<1> QED BY <1>1, <1>2, <1>3 DEF SeekAt

LEMMA MuseMore ==
    ASSUME NEW b \in Seq(Char), NEW strip, NEW T, NEW lt, NEW lh, MuseAt(b, strip, T, lt, lh),
           NEW t \in Seq(Char)
    PROVE  MuseAt(b \o t, strip, T \o t, lt, lh)
<1>1. PICK A, Q \in Seq(Char) :
         /\ T = A \o (OpenTag \o (Q \o b)) /\ Free(OpenTag, T, Len(A))
         /\ Awaits(Ending, Q, b) /\ lt = Letters(A) /\ lh = Letters(Q)
         /\ strip => Q = <<>>
  BY DEF MuseAt
<1> DEFINE q == Q \o b
           r == OpenTag \o q
<1>2. OpenTag \in Seq(Char)
  BY WordsIn
<1>3. q \o t = Q \o (b \o t) /\ q \in Seq(Char)
  <2>1. Regrouped(Q, b, t)
    BY Regroup
  <2> QED BY <2>1 DEF Regrouped
<1> HIDE DEF q
<1>4. r \o t = OpenTag \o (q \o t) /\ r \in Seq(Char)
  <2>1. q \in Seq(Char)
    BY <1>3
  <2>2. Regrouped(OpenTag, q, t)
    BY <1>2, <2>1, Regroup
  <2> QED BY <2>2 DEF Regrouped
<1>5. Free(OpenTag, (A \o r) \o t, Len(A))
  <2>1. Free(OpenTag, A \o (OpenTag \o q), Len(A))
    BY <1>1 DEF q
  <2> QED BY <1>2, <1>3, <2>1, FreeGrows
<1> HIDE DEF r
<1>6. (A \o r) \o t = A \o (r \o t)
  <2>1. r \in Seq(Char)
    BY <1>4
  <2>2. Regrouped(A, r, t)
    BY <2>1, Regroup
  <2> QED BY <2>2 DEF Regrouped
<1>7. T \o t = A \o (OpenTag \o (Q \o (b \o t)))
  BY <1>1, <1>3, <1>4, <1>6 DEF q, r
<1>8. Free(OpenTag, T \o t, Len(A))
  BY <1>1, <1>5 DEF q, r
<1>9. Awaits(Ending, Q, b \o t)
  BY <1>1, AwaitsMore
<1> QED BY <1>1, <1>7, <1>8, <1>9 DEF MuseAt

LEMMA AnswerMore ==
    ASSUME NEW b \in Seq(Char), NEW T, NEW lt, NEW lh, AnswerAt(b, T, lt, lh),
           NEW t \in Seq(Char)
    PROVE  AnswerAt(b \o t, T \o t, lt, lh)
<1>1. PICK A, Q, Z \in Seq(Char) :
         /\ T = A \o (OpenTag \o (Q \o (Ending \o (Z \o b)))) /\ Free(OpenTag, T, Len(A))
         /\ Free(Ending, Q \o (Ending \o (Z \o b)), Len(Q))
         /\ lt = Letters(A) \o Letters(Z) /\ lh = Letters(Q)
  BY DEF AnswerAt
<1> DEFINE z == Z \o b
           e == Ending \o z
           q == Q \o e
           r == OpenTag \o q
<1>2. OpenTag \in Seq(Char) /\ Ending \in Seq(Char)
  BY WordsIn
<1>3. z \o t = Z \o (b \o t) /\ z \in Seq(Char)
  <2>1. Regrouped(Z, b, t)
    BY Regroup
  <2> QED BY <2>1 DEF Regrouped
<1> HIDE DEF z
<1>4. e \o t = Ending \o (z \o t) /\ e \in Seq(Char)
  <2>1. z \in Seq(Char)
    BY <1>3
  <2>2. Regrouped(Ending, z, t)
    BY <1>2, <2>1, Regroup
  <2> QED BY <2>2 DEF Regrouped
<1>5. Free(Ending, q \o t, Len(Q))
  <2>1. Free(Ending, Q \o (Ending \o z), Len(Q))
    BY <1>1 DEF z
  <2> QED BY <1>2, <1>3, <2>1, FreeGrows
<1> HIDE DEF e
<1>6. q \o t = Q \o (e \o t) /\ q \in Seq(Char)
  <2>1. e \in Seq(Char)
    BY <1>4
  <2>2. Regrouped(Q, e, t)
    BY <2>1, Regroup
  <2> QED BY <2>2 DEF Regrouped
<1> HIDE DEF q
<1>7. r \o t = OpenTag \o (q \o t) /\ r \in Seq(Char)
  <2>1. q \in Seq(Char)
    BY <1>6
  <2>2. Regrouped(OpenTag, q, t)
    BY <1>2, <2>1, Regroup
  <2> QED BY <2>2 DEF Regrouped
<1>8. Free(OpenTag, (A \o r) \o t, Len(A))
  <2>1. Free(OpenTag, A \o (OpenTag \o q), Len(A))
    BY <1>1 DEF q, e, z
  <2> QED BY <1>2, <1>6, <2>1, FreeGrows
<1> HIDE DEF r
<1>9. (A \o r) \o t = A \o (r \o t)
  <2>1. r \in Seq(Char)
    BY <1>7
  <2>2. Regrouped(A, r, t)
    BY <2>1, Regroup
  <2> QED BY <2>2 DEF Regrouped
<1>10. T \o t = A \o (OpenTag \o (Q \o (Ending \o (Z \o (b \o t)))))
       /\ Free(OpenTag, T \o t, Len(A))
  <2>1. T = A \o r
    BY <1>1 DEF r, q, e, z
  <2> QED BY <2>1, <1>3, <1>4, <1>6, <1>7, <1>8, <1>9
<1>11. Free(Ending, Q \o (Ending \o (Z \o (b \o t))), Len(Q))
  BY <1>3, <1>4, <1>5, <1>6
<1> QED BY <1>1, <1>10, <1>11 DEF AnswerAt

-----------------------------------------------------------------------------
(* The buffer moves on. *)

LEMMA SeekHolds ==
    ASSUME NEW T, NEW lt, NEW a \in Seq(Char), NEW z \in Seq(Char), SeekAt(a \o z, T, lt),
           First(OpenTag, a \o z) = 0, Len(a) = 0 \/ 2 <= Len(z)
    PROVE  SeekAt(z, T, lt \o Letters(a))
<1>1. PICK P \in Seq(Char) : T = P \o (a \o z) /\ Awaits(OpenTag, P, a \o z) /\ lt = Letters(P)
  BY DEF SeekAt
<1>2. (P \o a) \o z = P \o (a \o z) /\ P \o a \in Seq(Char)
  <2>1. Regrouped(P, a, z)
    BY Regroup
  <2> QED BY <2>1 DEF Regrouped
<1>3. Awaits(OpenTag, P \o a, z)
  <2>1. Len(a) = 0 \/ Len(OpenTag) <= Len(z) + 1
    BY WordsIn
  <2> QED BY <1>1, <2>1, WordsIn, Hold
<1>4. Letters(P \o a) = lt \o Letters(a)
  BY <1>1, LettersJoin
<1> QED BY <1>1, <1>2, <1>3, <1>4 DEF SeekAt

LEMMA SeekFinds ==
    ASSUME NEW T, NEW lt, NEW b \in Seq(Char), SeekAt(b, T, lt), First(OpenTag, b) # 0
    PROVE  LET p == First(OpenTag, b)
               a == SubSeq(b, 1, p - 1)
               z == From(b, p + 2)
           IN  /\ a \in Seq(Char) /\ z \in Seq(Char)
               /\ MuseAt(z, TRUE, T, lt \o Letters(a), <<>>)
<1>1. PICK P \in Seq(Char) : T = P \o b /\ Awaits(OpenTag, P, b) /\ lt = Letters(P)
  BY DEF SeekAt
<1> DEFINE p == First(OpenTag, b)
           a == SubSeq(b, 1, p - 1)
           z == From(b, p + 2)
           A == P \o a
           r == OpenTag \o z
<1>2. OpenTag \in Seq(Char) /\ Len(OpenTag) = 2
  BY WordsIn
<1>3. a \in Seq(Char) /\ z \in Seq(Char) /\ b = a \o r /\ Free(OpenTag, P \o b, Len(A))
  BY <1>1, <1>2, Find
<1> HIDE DEF a, z, p
<1>4. r \in Seq(Char)
  BY <1>2, <1>3
<1> HIDE DEF r
<1>5. A \o r = P \o (a \o r) /\ A \in Seq(Char)
  <2>1. Regrouped(P, a, r)
    BY <1>3, <1>4, Regroup
  <2> QED BY <2>1 DEF Regrouped
<1>6. Letters(A) = lt \o Letters(a)
  BY <1>1, <1>3, LettersJoin
<1> HIDE DEF A
<1>7. <<>> \o z = z /\ <<>> \in Seq(Char) /\ Letters(<<>>) = <<>> /\ Awaits(Ending, <<>>, z)
  BY <1>3, NoText, Newline, AwaitsNothing
<1>8. T = A \o (OpenTag \o (<<>> \o z)) /\ Free(OpenTag, T, Len(A))
  BY <1>1, <1>3, <1>5, <1>7 DEF r
<1>9. MuseAt(z, TRUE, T, lt \o Letters(a), <<>>)
  BY <1>5, <1>6, <1>7, <1>8 DEF MuseAt
<1> QED BY <1>3, <1>9 DEF a, z, p

LEMMA MuseStrips ==
    ASSUME NEW T, NEW lt, NEW lh, NEW b \in Seq(Char), MuseAt(b, TRUE, T, lt, lh)
    PROVE  /\ MuseAt(StripNewline(b), b = <<>>, T, lt, lh) /\ StripNewline(b) \in Seq(Char)
           /\ StripNewline(<<>>) = <<>>
<1>1. PICK A, Q \in Seq(Char) :
         /\ T = A \o (OpenTag \o (Q \o b)) /\ Free(OpenTag, T, Len(A))
         /\ Awaits(Ending, Q, b) /\ lt = Letters(A) /\ lh = Letters(Q)
         /\ Q = <<>>
  BY DEF MuseAt
<1>2. StripNewline(b) \in Seq(Char) /\ (b = StripNewline(b) \/ b = <<"n">> \o StripNewline(b))
  BY StripCut
<1>3. StripNewline(<<>>) = <<>>
  BY DEF StripNewline
<1>4. CASE b = StripNewline(b)
  <2>1. MuseAt(b, b = <<>>, T, lt, lh)
    BY <1>1 DEF MuseAt
  <2> QED BY <1>2, <1>3, <1>4, <2>1
<1>5. CASE b = <<"n">> \o StripNewline(b)
  <2> DEFINE c == StripNewline(b)
             N == <<"n">>
  <2>1. N \in Seq(Char) /\ Letters(N) = <<>> /\ Letters(<<>>) = <<>> /\ Awaits(Ending, N, c)
    BY <1>2, Newline
  <2>2. b # <<>>
    BY <1>2, <1>5
  <2>3. <<>> \o b = N \o c
    BY <1>2, <1>5
  <2> HIDE DEF N, c
  <2>4. MuseAt(c, FALSE, T, lt, lh)
    BY <1>1, <2>1, <2>3 DEF MuseAt
  <2>5. (b = <<>>) = FALSE
    BY <2>2
  <2> QED BY <1>2, <1>3, <2>4, <2>5 DEF c
<1> QED BY <1>2, <1>4, <1>5

LEMMA MuseHolds ==
    ASSUME NEW T, NEW lt, NEW lh, NEW strip, NEW a \in Seq(Char), NEW z \in Seq(Char),
           MuseAt(a \o z, strip, T, lt, lh), First(Ending, a \o z) = 0,
           Len(a) = 0 \/ 4 <= Len(z), strip => a = <<>>
    PROVE  MuseAt(z, strip, T, lt, lh \o Letters(a))
<1>1. PICK A, Q \in Seq(Char) :
         /\ T = A \o (OpenTag \o (Q \o (a \o z))) /\ Free(OpenTag, T, Len(A))
         /\ Awaits(Ending, Q, a \o z) /\ lt = Letters(A) /\ lh = Letters(Q)
         /\ strip => Q = <<>>
  BY DEF MuseAt
<1>2. (Q \o a) \o z = Q \o (a \o z) /\ Q \o a \in Seq(Char)
  <2>1. Regrouped(Q, a, z)
    BY Regroup
  <2> QED BY <2>1 DEF Regrouped
<1>3. Awaits(Ending, Q \o a, z)
  <2>1. Len(a) = 0 \/ Len(Ending) <= Len(z) + 1
    BY WordsIn
  <2> QED BY <1>1, <2>1, WordsIn, Hold
<1>4. Letters(Q \o a) = lh \o Letters(a)
  BY <1>1, LettersJoin
<1>5. strip => Q \o a = <<>>
  BY <1>1
<1> QED BY <1>1, <1>2, <1>3, <1>4, <1>5 DEF MuseAt

LEMMA MuseFinds ==
    ASSUME NEW T, NEW lt, NEW lh, NEW strip, NEW b \in Seq(Char), MuseAt(b, strip, T, lt, lh),
           First(Ending, b) # 0
    PROVE  LET p == First(Ending, b)
               a == SubSeq(b, 1, p - 1)
               z == From(b, p + 4)
           IN  /\ a \in Seq(Char) /\ z \in Seq(Char)
               /\ AnswerAt(z, T, lt, lh \o Letters(a))
<1>1. PICK A, Q \in Seq(Char) :
         /\ T = A \o (OpenTag \o (Q \o b)) /\ Free(OpenTag, T, Len(A))
         /\ Awaits(Ending, Q, b) /\ lt = Letters(A) /\ lh = Letters(Q)
  BY DEF MuseAt
<1> DEFINE p == First(Ending, b)
           a == SubSeq(b, 1, p - 1)
           z == From(b, p + 4)
           R == Q \o a
           r == Ending \o z
<1>2. Ending \in Seq(Char) /\ Len(Ending) = 4
  BY WordsIn
<1>3. a \in Seq(Char) /\ z \in Seq(Char) /\ b = a \o r /\ Free(Ending, Q \o b, Len(R))
  BY <1>1, <1>2, Find
<1> HIDE DEF a, z, p
<1>4. r \in Seq(Char)
  BY <1>2, <1>3
<1> HIDE DEF r
<1>5. R \o r = Q \o (a \o r) /\ R \in Seq(Char)
  <2>1. Regrouped(Q, a, r)
    BY <1>3, <1>4, Regroup
  <2> QED BY <2>1 DEF Regrouped
<1>6. Letters(R) = lh \o Letters(a)
  BY <1>1, <1>3, LettersJoin
<1> HIDE DEF R
<1>7. <<>> \o z = z /\ <<>> \in Seq(Char) /\ Letters(<<>>) = <<>>
  BY <1>3, NoText, Newline
<1>8. lt = Letters(A) \o Letters(<<>>)
  <2>1. Letters(A) \in Seq(Char)
    BY LettersAre
  <2> QED BY <1>1, <1>7, <2>1
<1>9. T = A \o (OpenTag \o (R \o (Ending \o (<<>> \o z))))
  BY <1>1, <1>3, <1>5, <1>7 DEF r
<1>10. Free(Ending, R \o (Ending \o (<<>> \o z)), Len(R))
  BY <1>3, <1>5, <1>7 DEF r
<1>11. AnswerAt(z, T, lt, lh \o Letters(a))
  BY <1>1, <1>5, <1>6, <1>7, <1>8, <1>9, <1>10 DEF AnswerAt
<1> QED BY <1>3, <1>11 DEF a, z, p

LEMMA AnswerGoes ==
    ASSUME NEW T, NEW lt, NEW lh, NEW b \in Seq(Char), AnswerAt(b, T, lt, lh)
    PROVE  AnswerAt(<<>>, T, lt \o Letters(b), lh)
<1>1. PICK A, Q, Z \in Seq(Char) :
         /\ T = A \o (OpenTag \o (Q \o (Ending \o (Z \o b)))) /\ Free(OpenTag, T, Len(A))
         /\ Free(Ending, Q \o (Ending \o (Z \o b)), Len(Q))
         /\ lt = Letters(A) \o Letters(Z) /\ lh = Letters(Q)
  BY DEF AnswerAt
<1> DEFINE Y == Z \o b
<1>2. Y \in Seq(Char) /\ Letters(Y) = Letters(Z) \o Letters(b)
  BY LettersJoin
<1> HIDE DEF Y
<1>3. Y \o <<>> = Y
  BY <1>2
<1>4. lt \o Letters(b) = Letters(A) \o Letters(Y)
  <2>1. Letters(A) \in Seq(Char) /\ Letters(Z) \in Seq(Char) /\ Letters(b) \in Seq(Char)
    BY LettersAre
  <2>2. (Letters(A) \o Letters(Z)) \o Letters(b) = Letters(A) \o (Letters(Z) \o Letters(b))
    <3>1. Regrouped(Letters(A), Letters(Z), Letters(b))
      BY <2>1, Regroup
    <3> QED BY <3>1 DEF Regrouped
  <2> QED BY <1>1, <1>2, <2>2
<1>5. T = A \o (OpenTag \o (Q \o (Ending \o (Y \o <<>>))))
      /\ Free(Ending, Q \o (Ending \o (Y \o <<>>)), Len(Q))
  BY <1>1, <1>3 DEF Y
<1> QED BY <1>1, <1>2, <1>4, <1>5 DEF AnswerAt

\* The tags that the scan finds are the first ones.
LEMMA SeekParts ==
    ASSUME NEW T \in Seq(Char), NEW lt, NEW b \in Seq(Char), SeekAt(b, T, lt), Unambiguous(T)
    PROVE  StartTag(b) = First(OpenTag, b)
<1>1. PICK P \in Seq(Char) : T = P \o b
  BY DEF SeekAt
<1> QED BY <1>1, UnambiguousParts, TagsAreFirst

LEMMA MuseParts ==
    ASSUME NEW T \in Seq(Char), NEW lt, NEW lh, NEW strip, NEW b \in Seq(Char),
           MuseAt(b, strip, T, lt, lh), Unambiguous(T)
    PROVE  EndTag(b) = First(Ending, b)
<1>1. PICK A, Q \in Seq(Char) : T = A \o (OpenTag \o (Q \o b))
  BY DEF MuseAt
<1> DEFINE q == Q \o b
           r == OpenTag \o q
<1>2. q \in Seq(Char) /\ r \in Seq(Char) /\ OpenTag \in Seq(Char)
  BY WordsIn
<1>3. Unambiguous(A \o r)
  BY <1>1
<1> HIDE DEF r
<1>4. Unambiguous(r)
  BY <1>2, <1>3, UnambiguousParts
<1> HIDE DEF q
<1>5. Unambiguous(OpenTag \o q)
  BY <1>4 DEF r
<1>6. Unambiguous(q)
  BY <1>2, <1>5, UnambiguousParts
<1>7. Unambiguous(Q \o b)
  BY <1>6 DEF q
<1>8. Unambiguous(b)
  BY <1>7, UnambiguousParts
<1> QED BY <1>8, TagsAreFirst

-----------------------------------------------------------------------------
(* The state of the translation along the text T, when b has gone out      *)
(* before what is still in its list.                                       *)

\* b is what went out before the list, and Uttered what was said in a channel in all.
Base == [Speaking -> Seq(Char)]
Uttered(x, b, ch) == Letters(b[ch]) \o Letters(Voice(ch, x.out))

\* The scan looks for the opening tag, then for the closing one, then for none.
Seek(x, T, lt, lh) ==
    ~x.inside /\ ~x.extracted /\ Thoughts(x) = {} /\ lh = <<>> /\ SeekAt(x.buffer, T, lt)
Muse(x, T, lt, lh) ==
    /\ x.inside /\ ~x.extracted /\ x.thinkAt \in Thoughts(x)
    /\ MuseAt(x.buffer, x.strip, T, lt, lh)
Answer(x, T, lt, lh) == ~x.inside /\ x.extracted /\ AnswerAt(x.buffer, T, lt, lh)

\* The scan is before the thinking, in it or behind it.
Along(x, T, b) ==
    LET lt == Uttered(x, b, "text")
        lh == Uttered(x, b, "thinking")
    IN  Seek(x, T, lt, lh) \/ Muse(x, T, lt, lh) \/ Answer(x, T, lt, lh)

\* Between two chunks, the buffer holds no tag that the scan looks for.
Rested(x) ==
    /\ ~x.inside /\ ~x.extracted => First(OpenTag, x.buffer) = 0
    /\ x.inside => First(Ending, x.buffer) = 0

LEMMA UtteredAre ==
    ASSUME NEW x, Carries(x), NEW b \in Base
    PROVE  /\ Uttered(x, b, "text") \in Seq(Char) /\ Uttered(x, b, "thinking") \in Seq(Char)
           /\ b["text"] \in Seq(Char) /\ b["thinking"] \in Seq(Char)
<1>1. b["text"] \in Seq(Char) /\ b["thinking"] \in Seq(Char)
  BY DEF Base, Speaking
<1>2. /\ Letters(b["text"]) \in Seq(Char) /\ Letters(b["thinking"]) \in Seq(Char)
      /\ Letters(Voice("text", x.out)) \in Seq(Char) /\ Letters(Voice("thinking", x.out)) \in Seq(Char)
  BY <1>1, VoicesAre, LettersAre
<1> QED BY <1>1, <1>2 DEF Uttered

LEMMA UtterAdds ==
    ASSUME NEW x, Carries(x), NEW b \in Base, NEW y, NEW t, NEW h, Adds(x, y, t, h)
    PROVE  /\ Uttered(y, b, "text") = Uttered(x, b, "text") \o Letters(t)
           /\ Uttered(y, b, "thinking") = Uttered(x, b, "thinking") \o Letters(h)
<1> DEFINE u == b["text"]
           v == b["thinking"]
           p == Voice("text", x.out)
           q == Voice("thinking", x.out)
<1>1. u \in Seq(Char) /\ v \in Seq(Char) /\ p \in Seq(Char) /\ q \in Seq(Char)
  BY UtteredAre, VoicesAre
<1>2. t \in Seq(Char) /\ h \in Seq(Char) /\ Voice("text", y.out) = p \o t
      /\ Voice("thinking", y.out) = q \o h
  BY DEF Adds
<1> HIDE DEF u, v, p, q
<1>3. Letters(p \o t) = Letters(p) \o Letters(t) /\ Letters(q \o h) = Letters(q) \o Letters(h)
  BY <1>1, <1>2, LettersJoin
<1>4. /\ Letters(u) \in Seq(Char) /\ Letters(v) \in Seq(Char) /\ Letters(p) \in Seq(Char)
      /\ Letters(q) \in Seq(Char) /\ Letters(t) \in Seq(Char) /\ Letters(h) \in Seq(Char)
  BY <1>1, <1>2, LettersAre
<1>5. /\ (Letters(u) \o Letters(p)) \o Letters(t) = Letters(u) \o (Letters(p) \o Letters(t))
      /\ (Letters(v) \o Letters(q)) \o Letters(h) = Letters(v) \o (Letters(q) \o Letters(h))
  <2>1. Regrouped(Letters(u), Letters(p), Letters(t)) /\ Regrouped(Letters(v), Letters(q), Letters(h))
    BY <1>4, Regroup
  <2> QED BY <2>1 DEF Regrouped
<1> QED BY <1>2, <1>3, <1>5 DEF Uttered, u, v, p, q

\* What was not found in the whole is not in its rest.
LEMMA FirstBehind ==
    ASSUME NEW w \in Seq(Char), NEW a \in Seq(Char), NEW z \in Seq(Char), First(w, a \o z) = 0
    PROVE  First(w, z) = 0
<1> DEFINE s == a \o z
<1>1. s \in Seq(Char) /\ Len(s) = Len(a) + Len(z) /\ Len(a) \in Nat /\ Len(z) \in Nat
  BY Lengths
<1>2. Free(w, s, Len(s))
  BY <1>1, FirstIs
<1>3. ASSUME First(w, z) # 0 PROVE FALSE
  <2> DEFINE p == First(w, z)
  <2>1. p \in 0 .. Len(z) /\ At(w, z, p)
    BY <1>3, FirstIs
  <2>2. p \in Nat \ {0} /\ p <= Len(z)
    BY <1>1, <1>3, <2>1
  <2> HIDE DEF p
  <2>3. At(w, s, Len(a) + p)
    BY <2>1, <2>2, AtBehind
  <2>4. Len(a) + p \in 1 .. Len(s)
    BY <1>1, <2>2
  <2> HIDE DEF s
  <2> QED BY <1>2, <2>3, <2>4 DEF Free
<1> QED BY <1>3

\* Only the state of the scan changes.
LEMMA ScanMoves ==
    ASSUME NEW x, Carries(x), Placed(x), NEW y, DOMAIN y = Fields, y.out = x.out,
           y.blocks = x.blocks, y.textAt = x.textAt, y.thinkAt = x.thinkAt, y.buffer \in Seq(Char)
    PROVE  /\ Carries(y) /\ Placed(y) /\ Thoughts(y) = Thoughts(x)
           /\ \A b, ch : Uttered(y, b, ch) = Uttered(x, b, ch)
<1>1. Carries(y)
  BY DEF Carries
<1>2. Placed(y) /\ Thoughts(y) = Thoughts(x)
  BY DEF Placed, Thoughts
<1>3. \A b, ch : Uttered(y, b, ch) = Uttered(x, b, ch)
  BY DEF Uttered
<1> QED BY <1>1, <1>2, <1>3

\* The block of the thinking is started.
LEMMA ThinkingStarts ==
    ASSUME NEW x, Carries(x), Placed(x), Thoughts(x) = {}, NEW buf \in Seq(Char)
    PROVE  LET u == [x EXCEPT !.inside = TRUE, !.strip = TRUE, !.buffer = buf,
                              !.thinkAt = Len(x.blocks) + 1]
               y == StartBlock(u, "thinking")
           IN  /\ Carries(y) /\ Placed(y) /\ y.thinkAt \in Thoughts(y) /\ y.buffer = buf
               /\ y.inside = TRUE /\ y.strip = TRUE /\ y.extracted = x.extracted
               /\ y.thinking = x.thinking /\ y.native = x.native /\ y.reasoning = x.reasoning
               /\ \A b, ch : ch \in Speaking => Uttered(y, b, ch) = Uttered(x, b, ch)
<1> DEFINE m == Len(x.blocks) + 1
           d == [type |-> "thinking", stopped |-> FALSE]
           u == [x EXCEPT !.inside = TRUE, !.strip = TRUE, !.buffer = buf, !.thinkAt = m]
           bs == Append(x.blocks, d)
           z == [u EXCEPT !.blocks = bs]
           y == StartBlock(u, "thinking")
<1>1. x.blocks \in Seq(BlockState) /\ d \in BlockState /\ DOMAIN x = Fields
  BY DEF Carries, BlockState, BlockType
<1>2. /\ bs \in Seq(BlockState) /\ Len(x.blocks) \in Nat /\ DOMAIN bs = 1 .. m
      /\ DOMAIN x.blocks = 1 .. Len(x.blocks) /\ m \in 1 .. m
      /\ bs[m] = d /\ \A i \in 1 .. Len(x.blocks) : bs[i] = x.blocks[i]
  <2> HIDE DEF d
  <2>1. /\ bs \in Seq(BlockState) /\ Len(x.blocks) \in Nat /\ Len(bs) = Len(x.blocks) + 1
        /\ bs[Len(x.blocks) + 1] = d
        /\ \A i \in 1 .. Len(x.blocks) : bs[i] = x.blocks[i]
    BY <1>1, Appended
  <2> QED BY <1>1, <2>1
<1>3. d.type = "thinking"
  OBVIOUS
<1>4. u.blocks = x.blocks /\ DOMAIN u = Fields
  BY <1>1 DEF Fields
<1>5. y = Emit(z, "start", {m}, "thinking", <<>>)
  BY <1>4 DEF StartBlock, Fields
<1> HIDE DEF m, d, bs
<1>6. /\ DOMAIN z = Fields /\ z.out = x.out /\ z.blocks = bs /\ z.buffer = buf
      /\ z.thinkAt = m /\ z.textAt = x.textAt /\ z.inside = TRUE /\ z.strip = TRUE
      /\ z.extracted = x.extracted /\ z.thinking = x.thinking /\ z.native = x.native
      /\ z.reasoning = x.reasoning
  BY <1>1 DEF Fields
<1> HIDE DEF u, z, y
<1>7. Carries(z)
  BY <1>2, <1>6 DEF Carries
<1>8. \A i \in 1 .. m : i \in 1 .. Len(x.blocks) \/ i = m
  BY <1>2 DEF m
<1>9. \A i \in 1 .. Len(x.blocks) : x.blocks[i].type # "thinking"
  BY <1>2 DEF Thoughts
<1>10. Placed(z)
  <2> SUFFICES ASSUME NEW i \in 1 .. m
               PROVE  /\ bs[i].type = "text" => i = x.textAt /\ ~bs[i].stopped
                      /\ bs[i].type = "thinking" => i = m
    BY <1>2, <1>6 DEF Placed
  <2> QED BY <1>2, <1>3, <1>8, <1>9 DEF Placed
<1>11. z.thinkAt \in Thoughts(z)
  BY <1>2, <1>3, <1>6 DEF Thoughts
<1>12. Adds(z, y, <<>>, <<>>)
  BY <1>5, <1>7, <1>10, EmitQuiet DEF Speaking
<1>13. /\ Voice("text", y.out) = Voice("text", z.out)
       /\ Voice("thinking", y.out) = Voice("thinking", z.out)
  <2> DEFINE vt == Voice("text", z.out)
             vh == Voice("thinking", z.out)
  <2>1. vt \in Seq(Char) /\ vh \in Seq(Char)
    BY <1>7, VoicesAre
  <2>2. Voice("text", y.out) = vt \o <<>> /\ Voice("thinking", y.out) = vh \o <<>>
    BY <1>12 DEF Adds
  <2> HIDE DEF vt, vh
  <2>3. vt \o <<>> = vt /\ vh \o <<>> = vh
    BY <2>1
  <2> QED BY <2>2, <2>3 DEF vt, vh
<1>14. \A b, ch : ch \in Speaking => Uttered(y, b, ch) = Uttered(x, b, ch)
  BY <1>6, <1>13 DEF Uttered, Speaking
<1>15. /\ Carries(y) /\ Placed(y) /\ y.thinkAt \in Thoughts(y) /\ y.buffer = buf
       /\ y.inside = TRUE /\ y.strip = TRUE /\ y.extracted = x.extracted
       /\ y.thinking = x.thinking /\ y.native = x.native /\ y.reasoning = x.reasoning
  BY <1>6, <1>11, <1>12 DEF Adds, SameScan
<1>16. y = StartBlock([x EXCEPT !.inside = TRUE, !.strip = TRUE, !.buffer = buf,
                               !.thinkAt = Len(x.blocks) + 1], "thinking")
  BY DEF y, u, m
<1> QED BY <1>14, <1>15, <1>16

\* The translation stands somewhere along T, with its blocks as they must be.
On(x, T, b) == Carries(x) /\ Placed(x) /\ x.strip \in BOOLEAN /\ Along(x, T, b)
\* The marks of how the answer came to its thinking are the same.
KeptOn(x, y) == y.thinking = x.thinking /\ y.native = x.native /\ y.reasoning = x.reasoning

\* Words go out, or the blank that they are does not.
LEMMA MaybeText ==
    ASSUME NEW x, Carries(x), Placed(x), NEW b \in Base, NEW text \in Seq(Char)
    PROVE  LET y == IF Blank(text) THEN x ELSE TextDelta(x, text)
           IN  /\ Carries(y) /\ Placed(y) /\ SameScan(x, y) /\ y.buffer = x.buffer
               /\ y.thinkAt = x.thinkAt /\ Thoughts(y) = Thoughts(x)
               /\ Uttered(y, b, "text") = Uttered(x, b, "text") \o Letters(text)
               /\ Uttered(y, b, "thinking") = Uttered(x, b, "thinking")
<1>1. Letters(<<>>) = <<>>
  BY Newline
<1>2. Uttered(x, b, "text") \in Seq(Char) /\ Uttered(x, b, "thinking") \in Seq(Char)
  BY UtteredAre
<1>3. /\ Uttered(x, b, "text") \o <<>> = Uttered(x, b, "text")
      /\ Uttered(x, b, "thinking") \o <<>> = Uttered(x, b, "thinking")
  <2> DEFINE u == Uttered(x, b, "text")
             v == Uttered(x, b, "thinking")
  <2> HIDE DEF u, v
  <2>1. u \in Seq(Char) /\ v \in Seq(Char)
    BY <1>2 DEF u, v
  <2>2. u \o <<>> = u /\ v \o <<>> = v
    BY <2>1
  <2> QED BY <2>2 DEF u, v
<1>4. CASE Blank(text)
  <2>1. Letters(text) = <<>>
    BY <1>4, BlankLetters
  <2> QED BY <1>3, <1>4, <2>1 DEF SameScan
<1>5. CASE ~Blank(text)
  <2> DEFINE y == TextDelta(x, text)
  <2>1. Adds(x, y, text, <<>>)
    BY TextAdds
  <2> HIDE DEF y
  <2>2. /\ Uttered(y, b, "text") = Uttered(x, b, "text") \o Letters(text)
        /\ Uttered(y, b, "thinking") = Uttered(x, b, "thinking") \o Letters(<<>>)
    BY <2>1, UtterAdds
  <2>3. /\ Carries(y) /\ Placed(y) /\ SameScan(x, y) /\ y.buffer = x.buffer
        /\ y.thinkAt = x.thinkAt /\ Thoughts(y) = Thoughts(x)
    BY <2>1 DEF Adds
  <2> QED BY <1>1, <1>3, <1>5, <2>2, <2>3 DEF y
<1> QED BY <1>4, <1>5

LEMMA BeforeTagOn ==
    ASSUME NEW x, NEW T \in Seq(Char), NEW b \in Base, On(x, T, b), Unambiguous(T)
    PROVE  LET y == BeforeTag(x)
           IN  /\ On(y, T, b) /\ KeptOn(x, y)
               /\ ~y.inside /\ ~y.extracted => First(OpenTag, y.buffer) = 0
<1> DEFINE s      == x.buffer
           p      == StartTag(s)
           before == SubSeq(s, 1, p - 1)
           safe   == Releasable(s, Len(OpenTag))
           y      == IF Blank(before) THEN x ELSE TextDelta(x, before)
           rest   == From(y.buffer, p + 2)
           at     == Len(y.blocks) + 1
           u      == [y EXCEPT !.inside = TRUE, !.strip = TRUE, !.buffer = rest, !.thinkAt = at]
           left   == From(s, Len(safe) + 1)
           w      == [x EXCEPT !.buffer = left]
           lt     == Uttered(x, b, "text")
           lh     == Uttered(x, b, "thinking")
<1>1. s \in Seq(Char) /\ DOMAIN x = Fields /\ Carries(x) /\ Placed(x)
  BY DEF Carries, On
<1>2. CASE x.inside \/ x.extracted
  <2>1. BeforeTag(x) = x
    BY <1>1, <1>2, BeforeTagPours
  <2> QED BY <1>2, <2>1 DEF KeptOn
<1>3. CASE ~(x.inside \/ x.extracted) /\ p # 0
  <2>1. BeforeTag(x) = StartBlock(u, "thinking")
    BY <1>3 DEF BeforeTag
  <2>2. Thoughts(x) = {} /\ lh = <<>> /\ SeekAt(s, T, lt)
    BY <1>3 DEF On, Along, Seek, Muse, Answer
  <2>3. p = First(OpenTag, s)
    BY <1>1, <2>2, SeekParts
  <2> HIDE DEF lt, lh
  <2>4. /\ before \in Seq(Char) /\ From(s, p + 2) \in Seq(Char)
        /\ MuseAt(From(s, p + 2), TRUE, T, lt \o Letters(before), <<>>)
    <3> HIDE DEF s
    <3> QED BY <1>1, <1>3, <2>2, <2>3, SeekFinds
  <2> HIDE DEF before
  <2>5. /\ Carries(y) /\ Placed(y) /\ SameScan(x, y) /\ y.buffer = x.buffer
        /\ Thoughts(y) = Thoughts(x)
        /\ Uttered(y, b, "text") = lt \o Letters(before)
        /\ Uttered(y, b, "thinking") = lh
    BY <1>1, <2>4, MaybeText DEF lt, lh
  <2> HIDE DEF y
  <2>6. rest = From(s, p + 2) /\ rest \in Seq(Char)
    BY <2>4, <2>5
  <2> HIDE DEF rest, p, s
  <2> DEFINE z == StartBlock(u, "thinking")
  <2>7. /\ Carries(z) /\ Placed(z) /\ z.thinkAt \in Thoughts(z) /\ z.buffer = rest
        /\ z.inside = TRUE /\ z.strip = TRUE /\ z.extracted = y.extracted
        /\ z.thinking = y.thinking /\ z.native = y.native /\ z.reasoning = y.reasoning
        /\ \A bb, ch : ch \in Speaking => Uttered(z, bb, ch) = Uttered(y, bb, ch)
    BY <2>2, <2>5, <2>6, ThinkingStarts
  <2> HIDE DEF z
  <2>8. /\ z.thinking = x.thinking /\ z.native = x.native /\ z.reasoning = x.reasoning
        /\ z.extracted = x.extracted
    BY <2>5, <2>7 DEF SameScan
  <2>9. Uttered(z, b, "text") = lt \o Letters(before) /\ Uttered(z, b, "thinking") = <<>>
    BY <2>2, <2>5, <2>7 DEF Speaking
  <2>10. MuseAt(z.buffer, z.strip, T, Uttered(z, b, "text"), Uttered(z, b, "thinking"))
    BY <2>4, <2>6, <2>7, <2>9
  <2>11. Muse(z, T, Uttered(z, b, "text"), Uttered(z, b, "thinking"))
    BY <1>3, <2>7, <2>8, <2>10 DEF Muse
  <2>12. On(z, T, b)
    BY <2>7, <2>11 DEF On, Along
  <2> QED BY <2>1, <2>7, <2>8, <2>12 DEF KeptOn, z
<1>4. CASE ~(x.inside \/ x.extracted) /\ p = 0
  <2>1. BeforeTag(x) = IF Blank(safe) THEN x ELSE TextDelta(w, safe)
    BY <1>4 DEF BeforeTag
  <2>2. Thoughts(x) = {} /\ lh = <<>> /\ SeekAt(s, T, lt)
    BY <1>4 DEF On, Along, Seek, Muse, Answer
  <2>3. First(OpenTag, s) = 0
    BY <1>1, <1>4, <2>2, SeekParts
  <2>4. safe \in Seq(Char) /\ left \in Seq(Char) /\ s = safe \o left /\ (Len(safe) = 0 \/ 2 <= Len(left))
    <3>1. Len(OpenTag) \in Nat /\ Len(OpenTag) = 2
      BY WordsIn
    <3> QED BY <1>1, <3>1, ReleaseCut
  <2> HIDE DEF safe, left, lt, lh
  <2>5. First(OpenTag, left) = 0
    BY <2>3, <2>4, WordsIn, FirstBehind
  <2>6. SeekAt(left, T, lt \o Letters(safe))
    BY <2>2, <2>3, <2>4, SeekHolds
  <2>7. CASE Blank(safe)
    BY <1>4, <2>1, <2>3, <2>7 DEF KeptOn
  <2>8. CASE ~Blank(safe)
    <3>1. /\ DOMAIN w = Fields /\ w.out = x.out /\ w.blocks = x.blocks /\ w.thinkAt = x.thinkAt
          /\ w.textAt = x.textAt /\ w.buffer = left /\ SameScan(x, w)
      BY <1>1 DEF Fields, SameScan
    <3> HIDE DEF w
    <3>2. /\ Carries(w) /\ Placed(w) /\ Thoughts(w) = Thoughts(x)
          /\ \A bb, ch : Uttered(w, bb, ch) = Uttered(x, bb, ch)
      BY <1>1, <2>4, <3>1, ScanMoves
    <3> DEFINE z == TextDelta(w, safe)
    <3>3. /\ Carries(z) /\ Placed(z) /\ SameScan(w, z) /\ z.buffer = w.buffer
          /\ Thoughts(z) = Thoughts(w)
          /\ Uttered(z, b, "text") = Uttered(w, b, "text") \o Letters(safe)
          /\ Uttered(z, b, "thinking") = Uttered(w, b, "thinking")
      <4> DEFINE e == IF Blank(safe) THEN w ELSE TextDelta(w, safe)
      <4>1. /\ Carries(e) /\ Placed(e) /\ SameScan(w, e) /\ e.buffer = w.buffer
            /\ Thoughts(e) = Thoughts(w)
            /\ Uttered(e, b, "text") = Uttered(w, b, "text") \o Letters(safe)
            /\ Uttered(e, b, "thinking") = Uttered(w, b, "thinking")
        BY <2>4, <3>2, MaybeText
      <4>2. e = z
        BY <2>8
      <4> QED BY <4>1, <4>2
    <3> HIDE DEF z
    <3>4. Uttered(z, b, "text") = lt \o Letters(safe) /\ Uttered(z, b, "thinking") = lh
      BY <3>2, <3>3 DEF lt, lh
    <3>5. z.buffer = left /\ Thoughts(z) = {} /\ SameScan(x, z)
      BY <2>2, <3>1, <3>2, <3>3 DEF SameScan
    <3>6. Seek(z, T, Uttered(z, b, "text"), Uttered(z, b, "thinking"))
      BY <1>4, <2>2, <2>6, <3>4, <3>5 DEF Seek, SameScan
    <3>7. On(z, T, b)
      <4>1. z.strip \in BOOLEAN
        BY <3>5 DEF SameScan, On
      <4> QED BY <3>3, <3>6, <4>1 DEF On, Along
    <3>8. BeforeTag(x) = z
      BY <2>1, <2>8 DEF z
    <3> QED BY <2>5, <3>5, <3>7, <3>8 DEF KeptOn, SameScan
  <2> QED BY <2>7, <2>8
<1> QED BY <1>2, <1>3, <1>4

LEMMA AfterTagOn ==
    ASSUME NEW x, NEW T \in Seq(Char), NEW b \in Base, On(x, T, b)
    PROVE  LET y == AfterTag(x)
           IN  /\ On(y, T, b) /\ KeptOn(x, y)
               /\ Rested(x) => Rested(y)
<1> DEFINE text == x.buffer
           w    == [x EXCEPT !.buffer = <<>>]
           y    == TextDelta(w, text)
           lt   == Uttered(x, b, "text")
           lh   == Uttered(x, b, "thinking")
<1>1. text \in Seq(Char) /\ DOMAIN x = Fields /\ Carries(x) /\ Placed(x)
  BY DEF Carries, On
<1>2. CASE ~(x.extracted /\ ~x.inside /\ x.buffer # <<>>)
  BY <1>2 DEF AfterTag, KeptOn
<1>3. CASE x.extracted /\ ~x.inside /\ x.buffer # <<>>
  <2>1. AfterTag(x) = y
    BY <1>3 DEF AfterTag
  <2>2. AnswerAt(text, T, lt, lh)
    BY <1>3 DEF On, Along, Seek, Muse, Answer
  <2>3. /\ DOMAIN w = Fields /\ w.out = x.out /\ w.blocks = x.blocks /\ w.thinkAt = x.thinkAt
        /\ w.textAt = x.textAt /\ w.buffer = <<>> /\ SameScan(x, w)
    BY <1>1 DEF Fields, SameScan
  <2> HIDE DEF w, text, lt, lh
  <2>4. /\ Carries(w) /\ Placed(w) /\ Thoughts(w) = Thoughts(x)
        /\ \A bb, ch : Uttered(w, bb, ch) = Uttered(x, bb, ch)
    BY <1>1, <2>3, NoText, ScanMoves
  <2>5. Adds(w, y, text, <<>>)
    BY <1>1, <2>4, TextAdds
  <2> HIDE DEF y
  <2>6. Uttered(y, b, "text") = lt \o Letters(text) /\ Uttered(y, b, "thinking") = lh \o Letters(<<>>)
    <3>1. Uttered(w, b, "text") = lt /\ Uttered(w, b, "thinking") = lh
      BY <2>4 DEF lt, lh
    <3>2. /\ Uttered(y, b, "text") = Uttered(w, b, "text") \o Letters(text)
          /\ Uttered(y, b, "thinking") = Uttered(w, b, "thinking") \o Letters(<<>>)
      BY <2>4, <2>5, UtterAdds
    <3> QED BY <3>1, <3>2
  <2>7. Uttered(y, b, "thinking") = lh
    <3>2. lh \in Seq(Char)
      BY <1>1, UtteredAre DEF lh
    <3>3. Letters(<<>>) = <<>>
      BY Newline
    <3> QED BY <2>6, <3>2, <3>3
  <2>8. AnswerAt(<<>>, T, lt \o Letters(text), lh)
    BY <1>1, <2>2, AnswerGoes
  <2>9. y.buffer = <<>> /\ SameScan(x, y) /\ Carries(y) /\ Placed(y)
    BY <2>3, <2>5 DEF Adds, SameScan
  <2>10. Answer(y, T, Uttered(y, b, "text"), Uttered(y, b, "thinking"))
    BY <1>3, <2>6, <2>7, <2>8, <2>9 DEF Answer, SameScan
  <2>11. On(y, T, b)
    <3>1. y.strip \in BOOLEAN
      BY <2>9 DEF SameScan, On
    <3> QED BY <2>9, <2>10, <3>1 DEF On, Along
  <2>12. Rested(y)
    BY <1>3, <2>9 DEF Rested, SameScan
  <2> QED BY <2>1, <2>9, <2>11, <2>12 DEF KeptOn, SameScan
<1> QED BY <1>2, <1>3

LEMMA ThenQuiet ==
    ASSUME NEW x, Carries(x), NEW y, NEW z, NEW t, NEW h, Adds(x, y, t, h), Adds(y, z, <<>>, <<>>)
    PROVE  Adds(x, z, t, h)
<1>1. Adds(x, z, t \o <<>>, h \o <<>>)
  BY AddsTwice
<1>2. t \in Seq(Char) /\ h \in Seq(Char)
  BY DEF Adds
<1>3. t \o <<>> = t /\ h \o <<>> = h
  BY <1>2
<1> QED BY <1>1, <1>3

\* Only thinking, or only text, is added.
LEMMA UtterOne ==
    ASSUME NEW x, Carries(x), NEW b \in Base, NEW y, NEW t
    PROVE  /\ Adds(x, y, <<>>, t) =>
                 /\ Uttered(y, b, "text") = Uttered(x, b, "text")
                 /\ Uttered(y, b, "thinking") = Uttered(x, b, "thinking") \o Letters(t)
           /\ Adds(x, y, t, <<>>) =>
                 /\ Uttered(y, b, "text") = Uttered(x, b, "text") \o Letters(t)
                 /\ Uttered(y, b, "thinking") = Uttered(x, b, "thinking")
<1> DEFINE u == Uttered(x, b, "text")
           v == Uttered(x, b, "thinking")
<1>1. u \in Seq(Char) /\ v \in Seq(Char)
  BY UtteredAre
<1> HIDE DEF u, v
<1>2. Letters(<<>>) = <<>> /\ u \o <<>> = u /\ v \o <<>> = v
  BY <1>1, Newline
<1>3. ASSUME Adds(x, y, <<>>, t)
      PROVE  Uttered(y, b, "text") = u \o Letters(<<>>) /\ Uttered(y, b, "thinking") = v \o Letters(t)
  BY <1>3, UtterAdds DEF u, v
<1>4. ASSUME Adds(x, y, t, <<>>)
      PROVE  Uttered(y, b, "text") = u \o Letters(t) /\ Uttered(y, b, "thinking") = v \o Letters(<<>>)
  BY <1>4, UtterAdds DEF u, v
<1> QED BY <1>2, <1>3, <1>4 DEF u, v

\* Thinking goes out, and the block of the thinking is closed.
LEMMA ThoughtAdds ==
    ASSUME NEW x, Carries(x), Placed(x), x.thinkAt \in Thoughts(x), NEW text \in Seq(Char)
    PROVE  /\ Adds(x, CloseFakeThinking(SomeThinking(x, text)), <<>>, text)
           /\ Adds(x, CloseFakeThinking(ThinkingDelta(x, text)), <<>>, text)
<1>1. ASSUME NEW y, Adds(x, y, <<>>, text) PROVE Adds(x, CloseFakeThinking(y), <<>>, text)
  <2>1. Carries(y) /\ Placed(y) /\ y.thinkAt \in Thoughts(y)
    BY <1>1 DEF Adds
  <2>2. Adds(y, CloseFakeThinking(y), <<>>, <<>>)
    BY <2>1, CloseFakeAdds
  <2> QED BY <1>1, <2>2, ThenQuiet
<1>2. Adds(x, SomeThinking(x, text), <<>>, text) /\ Adds(x, ThinkingDelta(x, text), <<>>, text)
  BY ThinkingAdds
<1> QED BY <1>1, <1>2

LEMMA InsideTagOn ==
    ASSUME NEW x, NEW T \in Seq(Char), NEW b \in Base, On(x, T, b), Unambiguous(T),
           ~x.inside /\ ~x.extracted => First(OpenTag, x.buffer) = 0
    PROVE  LET y == InsideTag(x)
           IN  On(y, T, b) /\ KeptOn(x, y) /\ Rested(y)
<1> DEFINE kept == Len(CloseTag) + 2
           s    == IF x.strip THEN StripNewline(x.buffer) ELSE x.buffer
           st   == x.strip /\ x.buffer = <<>>
           y    == [x EXCEPT !.buffer = s, !.strip = st]
           p    == EndTag(s)
           safe == Releasable(s, kept)
           text == SubSeq(s, 1, p - 1)
           c    == CloseFakeThinking(SomeThinking(y, text))
           rest == From(c.buffer, p + 4)
           u    == [c EXCEPT !.inside = FALSE, !.extracted = TRUE, !.buffer = rest]
           left == From(s, Len(safe) + 1)
           w    == [y EXCEPT !.buffer = left]
           lt   == Uttered(x, b, "text")
           lh   == Uttered(x, b, "thinking")
<1>1. /\ x.buffer \in Seq(Char) /\ DOMAIN x = Fields /\ kept \in Nat /\ kept = 4
      /\ Carries(x) /\ Placed(x) /\ x.strip \in BOOLEAN
  BY DEF Carries, CloseTag, On
<1>2. st \in BOOLEAN
  OBVIOUS
<1>3. /\ DOMAIN y = Fields /\ y.out = x.out /\ y.blocks = x.blocks /\ y.thinking = x.thinking
      /\ y.native = x.native /\ y.buffer = s /\ y.extracted = x.extracted /\ y.inside = x.inside
      /\ y.thinkAt = x.thinkAt /\ y.textAt = x.textAt /\ y.reasoning = x.reasoning /\ y.strip = st
  <2> HIDE DEF s, st
  <2> QED BY <1>1 DEF Fields
<1>4. /\ ~x.inside => InsideTag(x) = x
      /\ x.inside /\ p # 0 => InsideTag(x) = u
      /\ x.inside /\ p = 0 => InsideTag(x) = SomeThinking(w, safe)
  <2>1. [x EXCEPT !.buffer = s, !.strip = @ /\ x.buffer = <<>>] = y
    BY <1>1 DEF Fields
  <2>2. y.buffer = s
    BY <1>3
  <2> HIDE DEF s, st, y
  <2> QED BY <2>1, <2>2 DEF InsideTag, InsideTagHolding, s
<1>5. CASE ~x.inside
  <2>1. InsideTag(x) = x
    BY <1>4, <1>5
  <2> QED BY <1>5, <2>1 DEF KeptOn, Rested
<1>6. CASE x.inside
  <2>1. ~x.extracted /\ x.thinkAt \in Thoughts(x) /\ MuseAt(x.buffer, x.strip, T, lt, lh)
    BY <1>6 DEF On, Along, Seek, Muse, Answer
  <2> HIDE DEF lt, lh
  <2>2. s \in Seq(Char) /\ MuseAt(s, st, T, lt, lh) /\ (st => s = <<>>)
    <3>1. CASE x.strip
      <4>1. MuseAt(x.buffer, TRUE, T, lt, lh)
        BY <2>1, <3>1 DEF MuseAt
      <4>2. /\ MuseAt(StripNewline(x.buffer), x.buffer = <<>>, T, lt, lh)
            /\ StripNewline(x.buffer) \in Seq(Char) /\ StripNewline(<<>>) = <<>>
        BY <1>1, <4>1, MuseStrips
      <4>3. s = StripNewline(x.buffer) /\ (st <=> x.buffer = <<>>)
        BY <3>1
      <4> HIDE DEF s, st
      <4>4. MuseAt(s, st, T, lt, lh)
        BY <4>2, <4>3 DEF MuseAt
      <4> QED BY <4>2, <4>3, <4>4
    <3>2. CASE ~x.strip
      <4>1. s = x.buffer /\ ~st
        BY <3>2
      <4> HIDE DEF s, st
      <4>2. MuseAt(s, st, T, lt, lh)
        BY <2>1, <4>1 DEF MuseAt
      <4> QED BY <1>1, <4>1, <4>2
    <3> QED BY <3>1, <3>2
  <2> HIDE DEF s, st
  <2>3. p = First(Ending, s)
    BY <2>2, MuseParts
  <2> HIDE DEF y
  <2>4. /\ Carries(y) /\ Placed(y) /\ Thoughts(y) = Thoughts(x)
        /\ Uttered(y, b, "text") = lt /\ Uttered(y, b, "thinking") = lh
    <3>1. /\ Carries(y) /\ Placed(y) /\ Thoughts(y) = Thoughts(x)
          /\ \A bb, ch : Uttered(y, bb, ch) = Uttered(x, bb, ch)
      BY <1>1, <1>3, <2>2, ScanMoves
    <3> QED BY <3>1 DEF lt, lh
  <2>5. CASE p # 0
    <3>1. /\ text \in Seq(Char) /\ From(s, p + 4) \in Seq(Char)
          /\ AnswerAt(From(s, p + 4), T, lt, lh \o Letters(text))
      BY <2>2, <2>3, <2>5, MuseFinds
    <3> HIDE DEF text
    <3>2. Adds(y, c, <<>>, text)
      <4>1. y.thinkAt \in Thoughts(y)
        BY <1>3, <2>1, <2>4
      <4> QED BY <2>4, <3>1, <4>1, ThoughtAdds
    <3> HIDE DEF c
    <3>3. /\ Carries(c) /\ Placed(c) /\ c.buffer = s /\ SameScan(y, c)
      BY <1>3, <3>2 DEF Adds
    <3>4. Uttered(c, b, "text") = lt /\ Uttered(c, b, "thinking") = lh \o Letters(text)
      BY <2>4, <3>2, UtterOne
    <3>5. rest = From(s, p + 4)
      BY <3>3
    <3> HIDE DEF rest, p
    <3>6. /\ DOMAIN u = Fields /\ u.out = c.out /\ u.blocks = c.blocks /\ u.thinkAt = c.thinkAt
          /\ u.textAt = c.textAt /\ u.buffer = rest /\ u.inside = FALSE /\ u.extracted = TRUE
          /\ u.thinking = c.thinking /\ u.native = c.native /\ u.reasoning = c.reasoning
          /\ u.strip = c.strip
      BY <3>3 DEF Carries, Fields
    <3> HIDE DEF u
    <3>7. /\ Carries(u) /\ Placed(u) /\ \A bb, ch : Uttered(u, bb, ch) = Uttered(c, bb, ch)
      <4>1. u.buffer \in Seq(Char)
        BY <3>1, <3>5, <3>6
      <4> QED BY <3>3, <3>6, <4>1, ScanMoves
    <3>8. AnswerAt(u.buffer, T, Uttered(u, b, "text"), Uttered(u, b, "thinking"))
      BY <3>1, <3>4, <3>5, <3>6, <3>7
    <3>9. Answer(u, T, Uttered(u, b, "text"), Uttered(u, b, "thinking"))
      BY <3>6, <3>8 DEF Answer
    <3>10. u.strip \in BOOLEAN
      BY <1>2, <1>3, <3>3, <3>6 DEF SameScan, st
    <3>11. On(u, T, b)
      BY <3>7, <3>9, <3>10 DEF On, Along
    <3>12. KeptOn(x, u) /\ Rested(u)
      BY <1>3, <3>3, <3>6 DEF KeptOn, Rested, SameScan
    <3> QED BY <1>4, <1>6, <2>5, <3>11, <3>12
  <2>6. CASE p = 0
    <3>1. /\ safe \in Seq(Char) /\ left \in Seq(Char) /\ s = safe \o left
          /\ Len(safe) = 0 \/ 4 <= Len(left)
      <4> HIDE DEF kept
      <4> QED BY <1>1, <2>2, ReleaseCut
    <3>2. st => safe = <<>>
      <4>1. ASSUME st PROVE safe = <<>>
        <5>1. s = <<>>
          BY <2>2, <4>1
        <5> HIDE DEF safe, left
        <5>2. /\ safe \o left \in Seq(Char) /\ Len(safe \o left) = Len(safe) + Len(left)
              /\ Len(safe) \in Nat /\ Len(left) \in Nat
          BY <3>1, Lengths
        <5>4. safe \o left = <<>>
          BY <3>1, <5>1
        <5>5. Len(safe \o left) = 0
          BY <5>4
        <5>3. Len(safe) = 0
          BY <5>2, <5>5
        <5> QED BY <3>1, <5>3
      <4> QED BY <4>1
    <3> HIDE DEF safe, left
    <3>3. First(Ending, safe \o left) = 0
      BY <2>3, <2>6, <3>1
    <3>4. First(Ending, left) = 0
      BY <3>1, <3>3, WordsIn, FirstBehind
    <3>5. MuseAt(left, st, T, lt, lh \o Letters(safe))
      <4>1. MuseAt(safe \o left, st, T, lt, lh)
        BY <2>2, <3>1
      <4> QED BY <3>1, <3>2, <3>3, <4>1, MuseHolds
    <3>6. /\ DOMAIN w = Fields /\ w.out = y.out /\ w.blocks = y.blocks /\ w.thinkAt = y.thinkAt
          /\ w.textAt = y.textAt /\ w.buffer = left /\ SameScan(y, w)
      BY <1>3 DEF Fields, SameScan
    <3> HIDE DEF w
    <3>7. /\ Carries(w) /\ Placed(w) /\ Thoughts(w) = Thoughts(y)
          /\ \A bb, ch : Uttered(w, bb, ch) = Uttered(y, bb, ch)
      BY <2>4, <3>1, <3>6, ScanMoves
    <3> DEFINE z == SomeThinking(w, safe)
    <3>8. Adds(w, z, <<>>, safe)
      BY <3>1, <3>7, ThinkingAdds
    <3> HIDE DEF z
    <3>9. Uttered(z, b, "text") = lt /\ Uttered(z, b, "thinking") = lh \o Letters(safe)
      <4>1. Uttered(w, b, "text") = lt /\ Uttered(w, b, "thinking") = lh
        BY <2>4, <3>7
      <4>2. /\ Uttered(z, b, "text") = Uttered(w, b, "text")
            /\ Uttered(z, b, "thinking") = Uttered(w, b, "thinking") \o Letters(safe)
        BY <3>7, <3>8, UtterOne
      <4> QED BY <4>1, <4>2
    <3>10. /\ z.buffer = left /\ Carries(z) /\ Placed(z) /\ z.thinkAt \in Thoughts(z)
           /\ SameScan(y, z)
      BY <1>3, <2>1, <2>4, <3>6, <3>7, <3>8 DEF Adds, SameScan
    <3>11. z.strip = st /\ z.inside = x.inside /\ z.extracted = x.extracted /\ KeptOn(x, z)
      BY <1>3, <3>10 DEF SameScan, KeptOn
    <3>12. MuseAt(z.buffer, z.strip, T, Uttered(z, b, "text"), Uttered(z, b, "thinking"))
      BY <3>5, <3>9, <3>10, <3>11
    <3>13. Muse(z, T, Uttered(z, b, "text"), Uttered(z, b, "thinking"))
      BY <1>6, <2>1, <3>10, <3>11, <3>12 DEF Muse
    <3>14. z.strip \in BOOLEAN
      BY <1>2, <3>11 DEF st
    <3>15. On(z, T, b)
      BY <3>10, <3>13, <3>14 DEF On, Along
    <3>16. Rested(z)
      BY <1>6, <3>4, <3>10, <3>11 DEF Rested
    <3> QED BY <1>4, <1>6, <2>6, <3>11, <3>15, <3>16 DEF z
  <2> QED BY <2>5, <2>6
<1> QED BY <1>5, <1>6

LEMMA ScanOn ==
    ASSUME NEW x, NEW T \in Seq(Char), NEW b \in Base, On(x, T, b), Unambiguous(T)
    PROVE  On(Scan(x), T, b) /\ KeptOn(x, Scan(x)) /\ Rested(Scan(x))
<1> DEFINE y == BeforeTag(x)
           z == InsideTag(y)
           w == AfterTag(z)
<1>1. On(y, T, b) /\ KeptOn(x, y) /\ (~y.inside /\ ~y.extracted => First(OpenTag, y.buffer) = 0)
  BY BeforeTagOn
<1> HIDE DEF y
<1>2. On(z, T, b) /\ KeptOn(y, z) /\ Rested(z)
  BY <1>1, InsideTagOn
<1> HIDE DEF z
<1>3. On(w, T, b) /\ KeptOn(z, w) /\ Rested(w)
  BY <1>2, AfterTagOn
<1> HIDE DEF w
<1>4. Scan(x) = w
  BY DEF Scan, w, z, y
<1> QED BY <1>1, <1>2, <1>3, <1>4 DEF KeptOn

-----------------------------------------------------------------------------
(* Events that are neither tool calls nor native reasoning.                *)

\* No event is a tool call or native reasoning, which SameWords leaves out.
Tame(events) == \A i \in DOMAIN events : events[i].kind \notin {"tool", "reasoning"}

\* The translation has gone along the text of the events, when b has gone out before.
Following(x, events, b) ==
    x.thinking /\ Tame(events) /\ Unambiguous(TextOf(events)) =>
        On(x, TextOf(events), b) /\ Rested(x) /\ ~x.native /\ ~x.reasoning

LEMMA TextIs ==
    ASSUME NEW events \in Seq(UpstreamEvent)
    PROVE  /\ Sayings(events) \in Seq(Seq(Char)) /\ TextOf(events) = FlattenSeq(Sayings(events))
           /\ TextOf(events) \in Seq(Char) /\ TextOf(<<>>) = <<>>
<1>1. Sayings(events) \in Seq(Seq(Char))
  BY WordsAre
<1>2. TextOf(events) = FlattenSeq(Sayings(events))
  BY DEF TextOf, Sayings, Saying
<1>3. FlattenSeq(Sayings(events)) \in Seq(Char) /\ FlattenSeq(<<>>) = <<>>
  BY <1>1, FlattenIs
<1>4. TextOf(<<>>) = <<>>
  <2>1. TextOf(<<>>) = FlattenSeq(Sayings(<<>>)) /\ Sayings(<<>>) = <<>>
    BY DEF TextOf, Sayings, Saying
  <2> QED BY <1>3, <2>1
<1> QED BY <1>1, <1>2, <1>3, <1>4

LEMMA TextAppend ==
    ASSUME NEW events \in Seq(UpstreamEvent), NEW e \in UpstreamEvent
    PROVE  /\ TextOf(Append(events, e)) = TextOf(events) \o Saying(e)
           /\ Saying(e) \in Seq(Char) /\ TextOf(events) \in Seq(Char)
<1> DEFINE more == Append(events, e)
           n == Len(events)
           one == Saying(e)
           s == Sayings(events)
           t == Sayings(more)
           u == <<one>>
           w == s \o u
<1>1. /\ more \in Seq(UpstreamEvent) /\ n \in Nat /\ Len(more) = n + 1
      /\ DOMAIN more = 1 .. n + 1 /\ DOMAIN events = 1 .. n
      /\ more[n + 1] = e /\ \A i \in 1 .. n : more[i] = events[i]
  OBVIOUS
<1>2. one \in Seq(Char)
  BY NoText DEF Saying, UpstreamEvent
<1> HIDE DEF more, one
<1>3. s = [i \in 1 .. n |-> Saying(events[i])] /\ t = [i \in 1 .. n + 1 |-> Saying(more[i])]
  BY <1>1 DEF Sayings
<1>4. /\ s \in Seq(Seq(Char)) /\ Len(s) = n /\ t \in Seq(Seq(Char)) /\ Len(t) = n + 1
  BY <1>1, WordsAre
<1>5. u \in Seq(Seq(Char)) /\ Len(u) = 1 /\ u[1] = one
  BY <1>2
<1> HIDE DEF s, t, u, n
<1>6. w \in Seq(Seq(Char)) /\ Len(w) = n + 1 /\ w[n + 1] = one /\ \A i \in 1 .. n : w[i] = s[i]
  <2>1. /\ s \o u \in Seq(Seq(Char)) /\ Len(s) \in Nat /\ Len(u) \in Nat
        /\ Len(s \o u) = Len(s) + Len(u)
        /\ \A i \in 1 .. Len(s) : (s \o u)[i] = s[i]
        /\ \A i \in 1 .. Len(u) : (s \o u)[Len(s) + i] = u[i]
    <3>1. s \in Seq(Seq(Char)) /\ u \in Seq(Seq(Char))
      BY <1>4, <1>5
    <3> QED BY <3>1, Joined
  <2> HIDE DEF w
  <2>2. /\ w \in Seq(Seq(Char)) /\ Len(w) = n + 1 /\ \A i \in 1 .. n : w[i] = s[i]
        /\ \A i \in 1 .. 1 : w[n + i] = u[i]
    BY <1>4, <1>5, <2>1 DEF w
  <2>3. 1 \in 1 .. 1
    OBVIOUS
  <2> QED BY <1>5, <2>2, <2>3
<1> HIDE DEF w
<1>7. ASSUME NEW i \in 1 .. n + 1 PROVE t[i] = w[i]
  <2>1. CASE i \in 1 .. n
    BY <1>1, <1>3, <1>6, <2>1
  <2>2. CASE i \notin 1 .. n
    <3>1. i = n + 1
      BY <1>1, <2>2
    <3> QED BY <1>1, <1>3, <1>6, <3>1 DEF one
  <2> QED BY <2>1, <2>2
<1>8. t = w
  BY <1>4, <1>6, <1>7, SameSeq
<1>9. FlattenSeq(s \o u) = FlattenSeq(s) \o FlattenSeq(u)
  BY <1>4, <1>5, FlattenJoin
<1>10. FlattenSeq(u) = one
  <2>1. FlattenSeq(u) = IF 1 \in 1 .. Len(u) THEN u[1] ELSE <<>>
    <3>1. \A k \in 1 .. Len(u) : k # 1 => u[k] = <<>>
      BY <1>5
    <3> QED BY <1>5, <3>1, FlattenSingle
  <2> QED BY <1>5, <2>1
<1>11. TextOf(events) = FlattenSeq(s) /\ TextOf(events) \in Seq(Char) /\ TextOf(more) = FlattenSeq(t)
  BY <1>1, TextIs DEF s, t
<1> QED BY <1>2, <1>8, <1>9, <1>10, <1>11 DEF w, more, one

LEMMA TameMore ==
    ASSUME NEW events \in Seq(UpstreamEvent), NEW e \in UpstreamEvent, Tame(Append(events, e))
    PROVE  Tame(events) /\ e.kind \notin {"tool", "reasoning"}
<1> DEFINE more == Append(events, e)
           n == Len(events)
<1>1. /\ n \in Nat /\ DOMAIN more = 1 .. n + 1 /\ DOMAIN events = 1 .. n
      /\ more[n + 1] = e /\ \A i \in 1 .. n : more[i] = events[i]
  BY OneMore
<1> HIDE DEF more, n
<1>2. n + 1 \in 1 .. n + 1 /\ \A i \in 1 .. n : i \in 1 .. n + 1
  BY <1>1
<1>3. Tame(more)
  BY DEF more
<1> QED BY <1>1, <1>2, <1>3 DEF Tame

\* Nothing is added: the scan is where it was.
LEMMA QuietOn ==
    ASSUME NEW x, NEW T, NEW b \in Base, On(x, T, b), NEW y, Adds(x, y, <<>>, <<>>)
    PROVE  On(y, T, b) /\ KeptOn(x, y) /\ (Rested(x) => Rested(y))
<1>1. /\ y.buffer = x.buffer /\ SameScan(x, y) /\ y.thinkAt = x.thinkAt /\ Thoughts(y) = Thoughts(x)
      /\ Carries(y) /\ Placed(y) /\ Carries(x)
  BY DEF Adds, On
<1>2. /\ Uttered(y, b, "text") = Uttered(x, b, "text")
      /\ Uttered(y, b, "thinking") = Uttered(x, b, "thinking")
  <2>1. /\ Uttered(y, b, "text") = Uttered(x, b, "text") \o Letters(<<>>)
        /\ Uttered(y, b, "thinking") = Uttered(x, b, "thinking")
    BY <1>1, UtterOne
  <2> DEFINE u == Uttered(x, b, "text")
  <2>2. u \in Seq(Char)
    BY <1>1, UtteredAre
  <2> HIDE DEF u
  <2>3. u \o Letters(<<>>) = u
    BY <2>2, Newline
  <2> QED BY <2>1, <2>3 DEF u
<1>3. Along(y, T, b)
  <2> DEFINE lt == Uttered(x, b, "text")
             lh == Uttered(x, b, "thinking")
  <2>1. Seek(x, T, lt, lh) \/ Muse(x, T, lt, lh) \/ Answer(x, T, lt, lh)
    BY DEF On, Along
  <2>2. Uttered(y, b, "text") = lt /\ Uttered(y, b, "thinking") = lh
    BY <1>2
  <2> HIDE DEF lt, lh
  <2>3. CASE Seek(x, T, lt, lh)
    <3>1. Seek(y, T, lt, lh)
      BY <1>1, <2>3 DEF Seek, SameScan
    <3> QED BY <2>2, <3>1 DEF Along
  <2>4. CASE Muse(x, T, lt, lh)
    <3>1. Muse(y, T, lt, lh)
      BY <1>1, <2>4 DEF Muse, SameScan
    <3> QED BY <2>2, <3>1 DEF Along
  <2>5. CASE Answer(x, T, lt, lh)
    <3>1. Answer(y, T, lt, lh)
      BY <1>1, <2>5 DEF Answer, SameScan
    <3> QED BY <2>2, <3>1 DEF Along
  <2> QED BY <2>1, <2>3, <2>4, <2>5
<1>4. y.strip \in BOOLEAN
  BY <1>1 DEF On, SameScan
<1>5. Rested(x) => Rested(y)
  BY <1>1 DEF Rested, SameScan
<1>6. KeptOn(x, y)
  BY <1>1 DEF KeptOn, SameScan
<1> QED BY <1>1, <1>3, <1>4, <1>5, <1>6 DEF On

\* More text is in the buffer.
LEMMA TextArrives ==
    ASSUME NEW x, NEW T \in Seq(Char), NEW b \in Base, On(x, T, b), NEW text \in Seq(Char)
    PROVE  LET y == [x EXCEPT !.buffer = @ \o text]
           IN  On(y, T \o text, b) /\ KeptOn(x, y)
<1> DEFINE s  == x.buffer
           y  == [x EXCEPT !.buffer = s \o text]
           lt == Uttered(x, b, "text")
           lh == Uttered(x, b, "thinking")
<1>1. /\ s \in Seq(Char) /\ DOMAIN x = Fields /\ Carries(x) /\ Placed(x) /\ x.strip \in BOOLEAN
      /\ Seek(x, T, lt, lh) \/ Muse(x, T, lt, lh) \/ Answer(x, T, lt, lh)
  BY DEF Carries, On, Along
<1>2. /\ DOMAIN y = Fields /\ y.out = x.out /\ y.blocks = x.blocks /\ y.thinkAt = x.thinkAt
      /\ y.textAt = x.textAt /\ y.buffer = s \o text /\ SameScan(x, y)
  BY <1>1 DEF Fields, SameScan
<1>3. y = [x EXCEPT !.buffer = @ \o text]
  BY <1>1 DEF Fields
<1> HIDE DEF y
<1>4. s \o text \in Seq(Char)
  BY <1>1
<1>5. /\ Carries(y) /\ Placed(y) /\ Thoughts(y) = Thoughts(x)
      /\ Uttered(y, b, "text") = lt /\ Uttered(y, b, "thinking") = lh
  <2>1. /\ Carries(y) /\ Placed(y) /\ Thoughts(y) = Thoughts(x)
        /\ \A bb, ch : Uttered(y, bb, ch) = Uttered(x, bb, ch)
    BY <1>1, <1>2, <1>4, ScanMoves
  <2> QED BY <2>1
<1> HIDE DEF lt, lh
<1>6. ASSUME Seek(x, T, lt, lh) PROVE Along(y, T \o text, b)
  <2>1. SeekAt(s \o text, T \o text, lt)
    <3>1. SeekAt(s, T, lt)
      BY <1>6 DEF Seek
    <3> HIDE DEF s
    <3> QED BY <1>1, <3>1, SeekMore
  <2>2. Seek(y, T \o text, lt, lh)
    BY <1>2, <1>5, <1>6, <2>1 DEF Seek, SameScan
  <2> QED BY <1>5, <2>2 DEF Along
<1>7. ASSUME Muse(x, T, lt, lh) PROVE Along(y, T \o text, b)
  <2>1. MuseAt(s \o text, x.strip, T \o text, lt, lh)
    <3>1. MuseAt(s, x.strip, T, lt, lh)
      BY <1>7 DEF Muse
    <3> HIDE DEF s
    <3> QED BY <1>1, <3>1, MuseMore
  <2>2. Muse(y, T \o text, lt, lh)
    BY <1>2, <1>5, <1>7, <2>1 DEF Muse, SameScan
  <2> QED BY <1>5, <2>2 DEF Along
<1>8. ASSUME Answer(x, T, lt, lh) PROVE Along(y, T \o text, b)
  <2>1. AnswerAt(s \o text, T \o text, lt, lh)
    <3>1. AnswerAt(s, T, lt, lh)
      BY <1>8 DEF Answer
    <3> HIDE DEF s
    <3> QED BY <1>1, <3>1, AnswerMore
  <2>2. Answer(y, T \o text, lt, lh)
    BY <1>2, <1>5, <1>8, <2>1 DEF Answer, SameScan
  <2> QED BY <1>5, <2>2 DEF Along
<1>9. Along(y, T \o text, b)
  BY <1>1, <1>6, <1>7, <1>8
<1>10. y.strip \in BOOLEAN /\ KeptOn(x, y)
  BY <1>1, <1>2 DEF SameScan, KeptOn
<1> QED BY <1>3, <1>5, <1>9, <1>10 DEF On

\* Minor fields do not move the scan.
LEMMA MinorOn ==
    ASSUME NEW x, NEW T, NEW b \in Base, On(x, T, b), NEW u
    PROVE  /\ On([x EXCEPT !.produced = u], T, b) /\ KeptOn(x, [x EXCEPT !.produced = u])
           /\ Rested(x) => Rested([x EXCEPT !.produced = u])
           /\ On([x EXCEPT !.reason = u], T, b) /\ KeptOn(x, [x EXCEPT !.reason = u])
           /\ Rested(x) => Rested([x EXCEPT !.reason = u])
           /\ On(MarkFailure(x, u), T, b) /\ KeptOn(x, MarkFailure(x, u))
           /\ Rested(x) => Rested(MarkFailure(x, u))
<1> DEFINE p == [x EXCEPT !.produced = u]
           r == [x EXCEPT !.reason = u]
           m == MarkFailure(x, u)
<1>1. Carries(x) /\ Placed(x)
  BY DEF On
<1>2. Adds(x, p, <<>>, <<>>) /\ Adds(x, r, <<>>, <<>>) /\ Adds(x, m, <<>>, <<>>)
  BY <1>1, MinorAdds, FailureAdds
<1> HIDE DEF p, r, m
<1>3. On(p, T, b) /\ KeptOn(x, p) /\ (Rested(x) => Rested(p))
  BY <1>2, QuietOn
<1>4. On(r, T, b) /\ KeptOn(x, r) /\ (Rested(x) => Rested(r))
  BY <1>2, QuietOn
<1>5. On(m, T, b) /\ KeptOn(x, m) /\ (Rested(x) => Rested(m))
  BY <1>2, QuietOn
<1> QED BY <1>3, <1>4, <1>5 DEF p, r, m

\* Whether an answer may think does not change.
LEMMA ThinkingSame ==
    ASSUME NEW x, Carries(x), NEW e \in UpstreamEvent, e.kind \notin {"tool", "reasoning"}
    PROVE  OnEvent(x, e).thinking = x.thinking
<1>1. CASE e.kind = "text"
  <2> DEFINE text == e.text
             p == [x EXCEPT !.produced = TRUE]
             r == CloseReasoning(p)
             z == [r EXCEPT !.buffer = @ \o text]
             s == Scan(z)
             d == TextDelta(r, text)
  <2>1. text \in Seq(Char)
    BY <1>1 DEF UpstreamEvent
  <2>2. OnEvent(x, e) = IF text = <<>> THEN x ELSE IF r.thinking /\ ~r.native THEN s ELSE d
    BY <1>1 DEF OnEvent, AssistantResponse
  <2> HIDE DEF text
  <2>3. Mute(x, r)
    BY CloseMute, MuteFields, MuteTwice
  <2> HIDE DEF p, r
  <2>4. Carries(r) /\ r.thinking = x.thinking
    BY <2>3 DEF Mute, AsIs
  <2>5. DOMAIN z = Fields /\ z.out = r.out /\ z.blocks = r.blocks /\ z.thinking = r.thinking
        /\ z.buffer = r.buffer \o text
    BY <2>4 DEF Carries, Fields
  <2> HIDE DEF z
  <2>6. Carries(z)
    <3>1. z.buffer \in Seq(Char)
      BY <2>1, <2>4, <2>5 DEF Carries
    <3> QED BY <2>4, <2>5, <3>1 DEF Carries
  <2>7. s.thinking = x.thinking
    BY <2>4, <2>5, <2>6, ScanPours DEF Pours
  <2>8. Says(r, d, text)
    BY <2>1, TextSays
  <2>9. d.thinking = x.thinking
    BY <2>4, <2>8 DEF Says, AsIs
  <2> HIDE DEF s, d
  <2> QED BY <2>2, <2>7, <2>9
<1>2. CASE e.kind \notin {"text", "reasoning", "tool"}
  <2>1. Mute(x, OnEvent(x, e))
    BY <1>2, FailureMute, MuteFields DEF OnEvent, ContextUsage, Exception, Ignored
  <2> QED BY <2>1 DEF Mute, AsIs
<1> QED BY <1>1, <1>2

\* A piece of text is scanned.
LEMMA ResponseOn ==
    ASSUME NEW x, NEW T \in Seq(Char), NEW b \in Base, NEW text \in Seq(Char), On(x, T, b), Rested(x),
           Unambiguous(T \o text), x.thinking, ~x.native, ~x.reasoning
    PROVE  LET y == AssistantResponse(x, text)
           IN  On(y, T \o text, b) /\ Rested(y) /\ KeptOn(x, y)
<1> DEFINE r == [x EXCEPT !.produced = TRUE]
           z == [r EXCEPT !.buffer = @ \o text]
           s == Scan(z)
           more == T \o text
<1>1. On(r, T, b) /\ KeptOn(x, r)
  BY MinorOn
<1>2. CASE text = <<>>
  <2>1. AssistantResponse(x, text) = x
    BY <1>2 DEF AssistantResponse
  <2>2. T \o text = T
    BY <1>2
  <2> QED BY <2>1, <2>2 DEF KeptOn
<1>3. CASE text # <<>>
  <2>1. ~r.reasoning /\ r.thinking /\ ~r.native
    BY <1>1 DEF KeptOn
  <2> HIDE DEF r
  <2>2. CloseReasoning(r) = r
    BY <2>1 DEF CloseReasoning
  <2>3. AssistantResponse(x, text) = s
    BY <1>3, <2>1, <2>2 DEF AssistantResponse, r
  <2>4. On(z, T \o text, b) /\ KeptOn(r, z)
    BY <1>1, TextArrives
  <2> HIDE DEF z
  <2>5. On(z, more, b) /\ more \in Seq(Char) /\ Unambiguous(more)
    BY <2>4
  <2> HIDE DEF more
  <2>6. On(s, more, b) /\ KeptOn(z, s) /\ Rested(s)
    BY <2>5, ScanOn
  <2> HIDE DEF s
  <2>7. KeptOn(x, s)
    BY <1>1, <2>4, <2>6 DEF KeptOn
  <2> QED BY <2>3, <2>6, <2>7 DEF more
<1> QED BY <1>2, <1>3

LEMMA OnEventFollows ==
    ASSUME NEW x, Carries(x), NEW events \in Seq(UpstreamEvent), NEW e \in UpstreamEvent,
           NEW b \in Base, Following(x, events, b)
    PROVE  Following(OnEvent(x, e), Append(events, e), b)
<1> DEFINE y == OnEvent(x, e)
           more == Append(events, e)
           T == TextOf(events)
<1>1. SUFFICES ASSUME y.thinking, Tame(more), Unambiguous(TextOf(more))
               PROVE  On(y, TextOf(more), b) /\ Rested(y) /\ ~y.native /\ ~y.reasoning
  BY DEF Following
<1>2. Tame(events) /\ e.kind \notin {"tool", "reasoning"}
  BY <1>1, TameMore
<1>3. x.thinking
  BY <1>1, <1>2, ThinkingSame
<1>4. TextOf(more) = T \o Saying(e) /\ Saying(e) \in Seq(Char) /\ T \in Seq(Char)
  BY TextAppend
<1> HIDE DEF more
<1>5. Unambiguous(T)
  <2> HIDE DEF T
  <2>1. Unambiguous(T \o Saying(e))
    BY <1>1, <1>4
  <2> QED BY <1>4, <2>1, UnambiguousParts
<1>6. On(x, T, b) /\ Rested(x) /\ ~x.native /\ ~x.reasoning
  BY <1>2, <1>3, <1>5 DEF Following
<1> HIDE DEF T
<1>7. CASE e.kind = "text"
  <2>1. Saying(e) = e.text /\ y = AssistantResponse(x, e.text)
    BY <1>7 DEF Saying, OnEvent
  <2> DEFINE text == e.text
             z == AssistantResponse(x, text)
  <2>2. text \in Seq(Char) /\ Unambiguous(T \o text)
    BY <1>1, <1>4, <2>1
  <2> HIDE DEF text
  <2>3. On(z, T \o text, b) /\ Rested(z) /\ KeptOn(x, z)
    BY <1>3, <1>4, <1>6, <2>2, ResponseOn
  <2>4. y = z /\ TextOf(more) = T \o text
    BY <1>4, <2>1 DEF text
  <2> HIDE DEF z, y
  <2> QED BY <1>6, <2>3, <2>4 DEF KeptOn
<1>8. CASE e.kind # "text"
  <2>1. \/ y = x
        \/ \E u : y = [x EXCEPT !.reason = u]
        \/ \E u : y = MarkFailure(x, u)
    BY <1>2, <1>8 DEF OnEvent, ContextUsage, Exception, Ignored
  <2>2. Saying(e) = <<>>
    BY <1>8 DEF Saying
  <2>3. TextOf(more) = T
    BY <1>4, <2>2
  <2> HIDE DEF y
  <2>4. On(y, T, b) /\ KeptOn(x, y) /\ Rested(y)
    <3>1. CASE y = x
      BY <1>6, <3>1 DEF KeptOn
    <3>2. ASSUME NEW u, y = [x EXCEPT !.reason = u]
          PROVE  On(y, T, b) /\ KeptOn(x, y) /\ Rested(y)
      BY <1>6, <3>2, MinorOn
    <3>3. ASSUME NEW u, y = MarkFailure(x, u)
          PROVE  On(y, T, b) /\ KeptOn(x, y) /\ Rested(y)
      BY <1>6, <3>3, MinorOn
    <3> QED BY <2>1, <3>1, <3>2, <3>3
  <2> QED BY <1>6, <2>3, <2>4 DEF KeptOn
<1> QED BY <1>7, <1>8

\* A chunk's events are translated one by one.
LEMMA EventsFollow ==
    ASSUME NEW v \in View, NEW x \in Steady(v), NEW before \in Seq(UpstreamEvent),
           NEW events \in Seq(UpstreamEvent), NEW b \in Base, Following(x, before, b)
    PROVE  Following(FoldLeft(OnEvent, x, events), before \o events, b)
<1> DEFINE n == Len(events)
           upto(k) == before \o SubSeq(events, 1, k)
<1>1. n \in Nat
  OBVIOUS
<1>2. PICK f \in [0 .. n -> Steady(v)] : EventChain(f, x, events)
  BY OnEventKeeps, EventsSteps
<1>3. ASSUME NEW k \in Nat, k + 1 <= n
      PROVE  /\ upto(k) \in Seq(UpstreamEvent) /\ events[k + 1] \in UpstreamEvent
             /\ upto(k + 1) = Append(upto(k), events[k + 1])
  BY <1>3, OneLonger
<1>4. upto(0) = before /\ upto(n) = before \o events
  <2>1. SubSeq(events, 1, 0) = <<>> /\ SubSeq(events, 1, n) = events /\ before \o <<>> = before
    OBVIOUS
  <2> QED BY <2>1
<1> HIDE DEF upto, n
<1> DEFINE T == {k \in Nat : k <= n => Following(f[k], upto(k), b)}
<1>5. /\ f[0] = x /\ FoldLeft(OnEvent, x, events) = f[n]
      /\ \A k \in 1 .. n : f[k] = OnEvent(f[k - 1], events[k])
  BY <1>2 DEF EventChain, n
<1>6. 0 \in T
  BY <1>4, <1>5
<1>7. ASSUME NEW k \in Nat, Following(f[k], upto(k), b), k + 1 <= n
      PROVE  Following(f[k + 1], upto(k + 1), b)
  <2>1. k \in 0 .. n /\ k + 1 \in 1 .. n /\ (k + 1) - 1 = k
    BY <1>1, <1>7
  <2>2. f[k] \in Steady(v)
    BY <1>2, <2>1 DEF n
  <2>3. Carries(f[k])
    BY <2>2, SteadyIs, ContextCarries
  <2>4. Following(OnEvent(f[k], events[k + 1]), Append(upto(k), events[k + 1]), b)
    BY <1>3, <1>7, <2>3, OnEventFollows
  <2>5. f[k + 1] = OnEvent(f[k], events[k + 1])
    BY <1>5, <2>1
  <2> QED BY <1>3, <1>7, <2>4, <2>5
<1>8. T \in SUBSET Nat /\ \A k \in T : k + 1 \in T
  <2>1. \A k \in T : k + 1 \in T
    BY <1>1, <1>7
  <2> QED BY <2>1
<1> HIDE DEF T
<1>9. n \in T
  BY <1>1, <1>6, <1>8, Induction
<1>10. Following(f[n], upto(n), b)
  BY <1>9 DEF T
<1> QED BY <1>4, <1>5, <1>10

\* The first events of an answer.
LEMMA InitialFollows ==
    ASSUME NEW x \in Context, NEW events, NEW b \in Base, Following(x, events, b)
    PROVE  Following(Initial(x), events, b)
<1> DEFINE y == Initial(x)
<1>1. Carries(x) /\ Mute(x, y)
  BY InitialMute, ContextCarries
<1>2. y.thinking = x.thinking
  BY <1>1 DEF Mute, AsIs
<1> HIDE DEF y
<1>3. SUFFICES ASSUME y.thinking, Tame(events), Unambiguous(TextOf(events))
               PROVE  On(y, TextOf(events), b) /\ Rested(y) /\ ~y.native /\ ~y.reasoning
  BY DEF Following, y
<1>4. On(x, TextOf(events), b) /\ Rested(x) /\ ~x.native /\ ~x.reasoning /\ x.thinking
  BY <1>2, <1>3 DEF Following
<1>5. Adds(x, y, <<>>, <<>>)
  BY <1>4, InitialAdds DEF On, y
<1>6. On(y, TextOf(events), b) /\ KeptOn(x, y) /\ Rested(y)
  BY <1>4, <1>5, QuietOn
<1> QED BY <1>4, <1>6 DEF KeptOn

\* Nothing has been said.
LEMMA NewFollows ==
    ASSUME NEW thinking \in BOOLEAN, NEW b \in Base, b["text"] = <<>>, b["thinking"] = <<>>
    PROVE  Following(NewContext(thinking), <<>>, b)
<1> DEFINE x == NewContext(thinking)
<1>1. /\ x.native = FALSE /\ x.inside = FALSE /\ x.extracted = FALSE /\ x.buffer = <<>>
      /\ x.out = <<>> /\ x.blocks = <<>> /\ x.strip = FALSE /\ x.reasoning = FALSE
  BY DEF NewContext
<1>2. Carries(x)
  BY NewIsFresh, FreshIs, ContextCarries
<1> HIDE DEF x
<1>3. Placed(x) /\ Thoughts(x) = {}
  BY <1>1 DEF Placed, Thoughts
<1>4. Uttered(x, b, "text") = <<>> /\ Uttered(x, b, "thinking") = <<>>
  <2>1. Letters(<<>>) = <<>> /\ Voice("text", <<>>) = <<>> /\ Voice("thinking", <<>>) = <<>>
    BY Newline, VoiceNone
  <2>2. <<>> \o <<>> = <<>>
    OBVIOUS
  <2> QED BY <1>1, <2>1, <2>2 DEF Uttered
<1>5. TextOf(<<>>) = <<>>
  <2>1. <<>> \in Seq(UpstreamEvent)
    OBVIOUS
  <2> QED BY <2>1, TextIs
<1>6. SeekAt(<<>>, <<>>, <<>>)
  <2>1. <<>> \in Seq(Char) /\ <<>> = <<>> \o <<>> /\ Letters(<<>>) = <<>>
        /\ Awaits(OpenTag, <<>>, <<>>)
    BY NoText, Newline, AwaitsNothing
  <2> QED BY <2>1 DEF SeekAt
<1>7. Seek(x, <<>>, <<>>, <<>>)
  BY <1>1, <1>3, <1>6 DEF Seek
<1>8. On(x, <<>>, b)
  BY <1>1, <1>2, <1>3, <1>4, <1>7 DEF On, Along
<1>9. First(OpenTag, <<>>) = 0
  <2> DEFINE none == <<>>
  <2>1. none \in Seq(Char) /\ Len(none) = 0
    OBVIOUS
  <2> HIDE DEF none
  <2>2. First(OpenTag, none) \in 0 .. 0
    BY <2>1, WordsIn, FirstIs
  <2> QED BY <2>2 DEF none
<1>10. Rested(x)
  BY <1>1, <1>9 DEF Rested
<1> QED BY <1>1, <1>5, <1>8, <1>10 DEF Following, x

-----------------------------------------------------------------------------
(* What the complete text says, once the scan has gone along all of it.     *)

LEMMA Parted ==
    ASSUME NEW x \in Seq(Char), NEW y \in Seq(Char)
    PROVE  SubSeq(x \o y, 1, Len(x)) = x /\ From(x \o y, Len(x) + 1) = y
<1> DEFINE s == x \o y
           a == SubSeq(s, 1, Len(x))
           z == SubSeq(s, Len(x) + 1, Len(s))
<1>1. /\ s \in Seq(Char) /\ Len(s) = Len(x) + Len(y) /\ Len(x) \in Nat /\ Len(y) \in Nat
      /\ \A i \in 1 .. Len(x) : s[i] = x[i]
      /\ \A i \in 1 .. Len(y) : s[Len(x) + i] = y[i]
  OBVIOUS
<1> HIDE DEF s
<1>2. /\ a \in Seq(Char) /\ Len(a) = Len(x) /\ \A i \in 1 .. Len(x) : a[i] = s[i]
  BY <1>1
<1>3. /\ z \in Seq(Char) /\ Len(z) = Len(y) /\ \A i \in 1 .. Len(y) : z[i] = s[Len(x) + i]
  BY <1>1
<1> HIDE DEF a, z
<1>4. a = x
  BY <1>1, <1>2, SameSeq
<1>5. z = y
  BY <1>1, <1>3, SameSeq
<1> QED BY <1>4, <1>5 DEF a, z, s, From

LEMMA TagPlaced ==
    ASSUME NEW T \in Seq(Char), Unambiguous(T), NEW a \in Seq(Char), NEW r \in Seq(Char),
           T = a \o (OpenTag \o r), Free(OpenTag, T, Len(a))
    PROVE  /\ StartTag(T) # 0 /\ SubSeq(T, 1, StartTag(T) - 1) = a
           /\ From(T, StartTag(T) + 2) = r /\ Unambiguous(r)
<1> DEFINE k == a \o OpenTag
           m == OpenTag \o r
<1>1. /\ OpenTag \in Seq(Char) /\ Len(OpenTag) = 2 /\ OpenTag # <<>>
  BY WordsIn
<1>2. Len(a) \in Nat
  OBVIOUS
<1>3. m \in Seq(Char)
  BY <1>1
<1>4. T = k \o r /\ k \in Seq(Char)
  <2>1. Regrouped(a, OpenTag, r)
    BY <1>1, Regroup
  <2> QED BY <2>1 DEF Regrouped
<1>5. Len(k) = Len(a) + 2
  BY <1>1, Lengths
<1>6. StartTag(T) = Len(a) + 1
  <2>1. First(OpenTag, a \o (OpenTag \o r)) = Len(a) + 1
    BY <1>1, Between
  <2> QED BY <2>1, TagsAreFirst
<1>7. SubSeq(T, 1, Len(a)) = a
  <2>1. T = a \o m
    OBVIOUS
  <2> HIDE DEF m
  <2> QED BY <1>3, <2>1, Parted
<1> HIDE DEF k
<1>8. From(T, Len(k) + 1) = r
  BY <1>4, Parted
<1>9. Unambiguous(r)
  <2>1. Unambiguous(k \o r)
    BY <1>4
  <2> QED BY <1>4, <2>1, UnambiguousParts
<1>10. StartTag(T) - 1 = Len(a) /\ StartTag(T) + 2 = Len(k) + 1 /\ StartTag(T) # 0
  BY <1>2, <1>5, <1>6
<1> QED BY <1>7, <1>8, <1>9, <1>10

\* The words of the text before the tag: white space alone is left out.
LEMMA KeptLetters ==
    ASSUME NEW a \in Seq(Char), NEW z \in Seq(Char)
    PROVE  LET kept == IF Blank(a) THEN <<>> ELSE a
           IN  Letters(kept \o z) = Letters(a) \o Letters(z)
<1> DEFINE kept == IF Blank(a) THEN <<>> ELSE a
<1>1. kept \in Seq(Char) /\ Letters(kept) = Letters(a)
  <2>1. CASE Blank(a)
    <3>1. Letters(a) = <<>> /\ Letters(<<>>) = <<>>
      BY <2>1, BlankLetters, Newline
    <3> QED BY <2>1, <3>1, NoText
  <2>2. CASE ~Blank(a)
    BY <2>2
  <2> QED BY <2>1, <2>2
<1> HIDE DEF kept
<1>2. Letters(kept \o z) = Letters(kept) \o Letters(z)
  BY <1>1, LettersJoin
<1> QED BY <1>1, <1>2 DEF kept

LEMMA AnswerSays ==
    ASSUME NEW T \in Seq(Char), Unambiguous(T), NEW lt, NEW lh, AnswerAt(<<>>, T, lt, lh)
    PROVE  lt = Letters(Extract(T).text) /\ lh = Letters(Extract(T).thinking)
<1>1. PICK A, Q, Z \in Seq(Char) :
         /\ T = A \o (OpenTag \o (Q \o (Ending \o (Z \o <<>>)))) /\ Free(OpenTag, T, Len(A))
         /\ Free(Ending, Q \o (Ending \o (Z \o <<>>)), Len(Q))
         /\ lt = Letters(A) \o Letters(Z) /\ lh = Letters(Q)
  BY DEF AnswerAt
<1>2. Z \o <<>> = Z
  OBVIOUS
<1> DEFINE k == Q \o Ending
           m == Ending \o Z
           r == Q \o m
<1>3. /\ Ending \in Seq(Char) /\ Len(Ending) = 4 /\ Ending # <<>>
  BY WordsIn
<1>4. m \in Seq(Char) /\ Len(Q) \in Nat
  BY <1>3
<1>5. r \in Seq(Char) /\ T = A \o (OpenTag \o r) /\ Free(Ending, r, Len(Q))
  <2>1. Q \o (Ending \o (Z \o <<>>)) = r
    BY <1>2
  <2>2. r \in Seq(Char)
    <3> HIDE DEF m
    <3> QED BY <1>4
  <2> QED BY <1>1, <2>1, <2>2
<1>6. r = k \o Z /\ k \in Seq(Char) /\ Len(k) = Len(Q) + 4
  <2>1. Regrouped(Q, Ending, Z)
    BY <1>3, Regroup
  <2>2. Len(Q \o Ending) = Len(Q) + Len(Ending)
    BY <1>3, Lengths
  <2> QED BY <1>3, <2>1, <2>2 DEF Regrouped
<1>7. First(Ending, Q \o (Ending \o Z)) = Len(Q) + 1
  BY <1>3, <1>5, Between
<1>8. SubSeq(r, 1, Len(Q)) = Q
  <2> HIDE DEF m
  <2> QED BY <1>4, Parted
<1> HIDE DEF k, m
<1>9. From(r, Len(k) + 1) = Z
  BY <1>6, Parted
<1>10. First(Ending, r) = Len(Q) + 1
  BY <1>7 DEF m
<1> HIDE DEF r
<1>11. /\ StartTag(T) # 0 /\ SubSeq(T, 1, StartTag(T) - 1) = A
       /\ From(T, StartTag(T) + 2) = r /\ Unambiguous(r)
  BY <1>1, <1>5, TagPlaced
<1>12. EndTag(r) = Len(Q) + 1
  BY <1>5, <1>10, <1>11, TagsAreFirst
<1>13. EndTag(r) # 0 /\ EndTag(r) - 1 = Len(Q) /\ EndTag(r) + 4 = Len(k) + 1
  BY <1>4, <1>6, <1>12
<1> DEFINE kept == IF Blank(A) THEN <<>> ELSE A
           t == kept \o Z
           h == StripNewline(Q)
<1>14. Extract(T) = [thinking |-> h, text |-> t]
  BY <1>8, <1>9, <1>11, <1>13 DEF Extract
<1>15. Letters(h) = Letters(Q)
  BY StripLetters
<1>16. Letters(t) = Letters(A) \o Letters(Z)
  BY KeptLetters
<1> HIDE DEF t, h
<1>17. Extract(T).thinking = h /\ Extract(T).text = t
  BY <1>14
<1> QED BY <1>1, <1>15, <1>16, <1>17

\* The thinking goes on to the end of the text.
LEMMA MuseSays ==
    ASSUME NEW T \in Seq(Char), Unambiguous(T), NEW b \in Seq(Char), NEW strip, NEW lt, NEW lh,
           MuseAt(b, strip, T, lt, lh), First(Ending, b) = 0, HasThinking(T)
    PROVE  lt = Letters(Extract(T).text) /\ lh \o Letters(b) = Letters(Extract(T).thinking)
<1>1. PICK A, Q \in Seq(Char) :
         /\ T = A \o (OpenTag \o (Q \o b)) /\ Free(OpenTag, T, Len(A))
         /\ Awaits(Ending, Q, b) /\ lt = Letters(A) /\ lh = Letters(Q)
  BY DEF MuseAt
<1> DEFINE r == Q \o b
           p == EndTagAtBufferEnd(r)
           q == SubSeq(r, 1, p - 1)
<1>2. r \in Seq(Char) /\ Letters(r) = lh \o Letters(b)
  <2>1. Letters(Q \o b) = Letters(Q) \o Letters(b)
    BY LettersJoin
  <2>2. Q \o b \in Seq(Char)
    OBVIOUS
  <2> QED BY <1>1, <2>1, <2>2
<1>3. First(Ending, r) = 0
  BY <1>1, WordsIn, NotFound
<1> HIDE DEF r
<1>4. /\ StartTag(T) # 0 /\ SubSeq(T, 1, StartTag(T) - 1) = A
      /\ From(T, StartTag(T) + 2) = r /\ Unambiguous(r)
  <2>1. T = A \o (OpenTag \o r)
    BY <1>1 DEF r
  <2> QED BY <1>1, <1>2, <2>1, TagPlaced
<1>5. EndTag(r) = 0
  BY <1>2, <1>3, <1>4, TagsAreFirst
<1>6. p # 0
  BY <1>4, <1>5 DEF HasThinking
<1>7. p \in Nat \ {0} /\ p <= Len(r) /\ Plain(r, p, Len(r) + 1) /\ TrimStart(From(r, p + 2)) = <<>>
  BY <1>2, <1>6, EndTagAtBufferEndIs
<1>8. q \in Seq(Char) /\ Letters(q) = Letters(r)
  <2> HIDE DEF p
  <2> QED BY <1>2, <1>7, PlainTail
<1> DEFINE kept == IF Blank(A) THEN <<>> ELSE A
<1>9. Extract(T) = [thinking |-> StripNewline(q), text |-> kept \o <<>>]
  BY <1>4, <1>5, <1>6, <1>7 DEF Extract
<1>10. Letters(StripNewline(q)) = Letters(q)
  <2> HIDE DEF q
  <2> QED BY <1>8, StripLetters
<1>11. Letters(kept \o <<>>) = Letters(A)
  <2>1. Letters(kept \o <<>>) = Letters(A) \o Letters(<<>>)
    BY NoText, KeptLetters
  <2>2. Letters(A) \in Seq(Char) /\ Letters(<<>>) = <<>>
    BY LettersAre, Newline
  <2> DEFINE u == Letters(A)
  <2> HIDE DEF u
  <2>3. u \in Seq(Char)
    BY <2>2 DEF u
  <2>4. u \o <<>> = u
    BY <2>3
  <2> QED BY <2>1, <2>2, <2>4 DEF u
<1> HIDE DEF kept, q, p
<1> QED BY <1>1, <1>2, <1>8, <1>9, <1>10, <1>11

\* No tag has come.
LEMMA SeekSays ==
    ASSUME NEW T \in Seq(Char), Unambiguous(T), NEW b \in Seq(Char), NEW lt, SeekAt(b, T, lt),
           First(OpenTag, b) = 0
    PROVE  ~HasThinking(T)
<1>1. PICK P \in Seq(Char) : T = P \o b /\ Awaits(OpenTag, P, b)
  BY DEF SeekAt
<1>2. First(OpenTag, T) = 0
  BY <1>1, WordsIn, NotFound
<1>3. StartTag(T) = 0
  BY <1>2, TagsAreFirst
<1> QED BY <1>3 DEF HasThinking

-----------------------------------------------------------------------------
(* The last events of an answer.                                           *)

\* The context has said all that the complete text T says, when b went out before.
Complete(x, T, b) ==
    /\ Uttered(x, b, "text") = Letters(Extract(T).text)
    /\ Uttered(x, b, "thinking") = Letters(Extract(T).thinking)

\* One block at most holds text, and one thinking.
Lone(x) ==
    \A i \in DOMAIN x.blocks : /\ x.blocks[i].type = "text" => i = x.textAt
                               /\ x.blocks[i].type = "thinking" => i = x.thinkAt

\* y says nothing that x does not say, in the same blocks.
Hushed(x, y) ==
    /\ y.textAt = x.textAt /\ y.thinkAt = x.thinkAt /\ DOMAIN y.blocks = DOMAIN x.blocks
    /\ \A i \in DOMAIN x.blocks : y.blocks[i].type = x.blocks[i].type
    /\ \A ch \in Speaking : Voice(ch, y.out) = Voice(ch, x.out)

LEMMA HushedTwice ==
    ASSUME NEW x, NEW y, NEW z, Hushed(x, y), Hushed(y, z)
    PROVE  Hushed(x, z)
BY DEF Hushed

LEMMA HushedEmit ==
    ASSUME NEW x, Carries(x), NEW ev, ev \notin Speaking, NEW at, NEW tag
    PROVE  LET y == Emit(x, ev, at, tag, <<>>)
           IN  Carries(y) /\ Hushed(x, y)
<1> DEFINE item == [ev |-> ev, at |-> at, tag |-> tag, text |-> <<>>]
           y == Emit(x, ev, at, tag, <<>>)
<1>1. item.ev = ev
  OBVIOUS
<1> HIDE DEF item
<1>2. /\ y.out = Append(x.out, item) /\ y.blocks = x.blocks
      /\ y.textAt = x.textAt /\ y.thinkAt = x.thinkAt
  BY DEF Emit, Carries, Fields, item
<1>3. Carries(y)
  BY EmitSays DEF Mute
<1> HIDE DEF y
<1>4. ASSUME NEW ch \in Speaking PROVE Voice(ch, y.out) = Voice(ch, x.out)
  <2> DEFINE w == Voice(ch, x.out)
  <2>1. Talk(x.out) /\ item.ev \notin Speaking
    BY <1>1 DEF Carries
  <2>2. Voice(ch, Append(x.out, item)) = Voice(ch, x.out) \o Line(ch, item)
    BY <2>1, VoiceAppend
  <2>3. Line(ch, item) = <<>>
    BY <2>1 DEF Line
  <2>4. w \in Seq(Char)
    BY <2>1, VoiceIs
  <2> HIDE DEF w
  <2>5. w \o <<>> = w
    BY <2>4
  <2> QED BY <1>2, <2>2, <2>3, <2>5 DEF w
<1> QED BY <1>2, <1>3, <1>4 DEF Hushed, y

LEMMA HushedStop ==
    ASSUME NEW x, Carries(x), NEW S
    PROVE  Carries(Stop(x, S)) /\ Hushed(x, Stop(x, S))
<1> DEFINE u == [i \in DOMAIN x.blocks |-> [type    |-> x.blocks[i].type,
                                            stopped |-> x.blocks[i].stopped \/ i \in S]]
           y == Stopped(x, S)
           z == Emit(y, "stop", S, "", <<>>)
<1>1. Carries(Stop(x, S))
  BY StopMute DEF Mute
<1>2. Hushed(x, x)
  BY DEF Hushed
<1>3. Stop(x, S) = IF S = {} THEN x ELSE z
  BY DEF Stop
<1>4. y = [x EXCEPT !.blocks = u]
  BY DEF Stopped
<1>5. DOMAIN u = DOMAIN x.blocks /\ \A i \in DOMAIN x.blocks : u[i].type = x.blocks[i].type
  OBVIOUS
<1>6. u \in Seq(BlockState)
  <2>1. DOMAIN x.blocks = 1 .. Len(x.blocks) /\ Len(x.blocks) \in Nat
        /\ \A j \in 1 .. Len(x.blocks) : x.blocks[j] \in BlockState
    BY DEF Carries
  <2>2. \A j \in 1 .. Len(x.blocks) :
           [type |-> x.blocks[j].type, stopped |-> x.blocks[j].stopped \/ j \in S] \in BlockState
    BY <2>1 DEF BlockState
  <2> QED BY <2>1, <2>2
<1> HIDE DEF u
<1>7. /\ y.blocks = u /\ y.out = x.out /\ y.textAt = x.textAt /\ y.thinkAt = x.thinkAt
      /\ DOMAIN y = Fields /\ y.buffer = x.buffer
  BY <1>4 DEF Carries, Fields
<1> HIDE DEF y
<1>8. Carries(y) /\ Hushed(x, y)
  BY <1>5, <1>6, <1>7 DEF Carries, Hushed
<1>9. Hushed(y, z)
  BY <1>8, HushedEmit DEF Speaking
<1> HIDE DEF z
<1>10. Hushed(x, z)
  BY <1>8, <1>9, HushedTwice
<1> QED BY <1>1, <1>2, <1>3, <1>10

LEMMA EndMessageHushed ==
    ASSUME NEW x, Carries(x)
    PROVE  Carries(EndMessage(x)) /\ Hushed(x, EndMessage(x)) /\ EndMessage(x).thinking = x.thinking
<1> DEFINE s == Stop(x, OpenBlocks(x))
           m == Emit(s, "message_delta", {}, StopReason(x), <<>>)
           e == Emit(m, "message_stop", {}, "", <<>>)
<1>1. EndMessage(x) = e
  BY DEF EndMessage
<1>2. Carries(s) /\ Hushed(x, s) /\ Mute(x, s)
  BY HushedStop, StopMute
<1> HIDE DEF s
<1>3. Carries(m) /\ Hushed(s, m) /\ Mute(s, m)
  BY <1>2, HushedEmit, EmitSays DEF Speaking
<1> HIDE DEF m
<1>4. Carries(e) /\ Hushed(m, e) /\ Mute(m, e)
  BY <1>3, HushedEmit, EmitSays DEF Speaking
<1> HIDE DEF e
<1>5. Hushed(x, m)
  BY <1>2, <1>3, HushedTwice
<1>6. Hushed(x, e)
  BY <1>4, <1>5, HushedTwice
<1>7. e.thinking = x.thinking
  BY <1>2, <1>3, <1>4 DEF Mute, AsIs
<1> QED BY <1>1, <1>4, <1>6, <1>7

\* An answer of thinking alone gets a block of white space.
LEMMA TextAfterSays ==
    ASSUME NEW x, Carries(x), Placed(x), NEW b \in Base
    PROVE  LET y == TextAfterThinking(x)
           IN  /\ Carries(y) /\ Placed(y) /\ y.thinking = x.thinking
               /\ \A ch \in Speaking : Uttered(y, b, ch) = Uttered(x, b, ch)
<1> DEFINE w == [x EXCEPT !.reason = "max_tokens"]
           u == <<"s">>
           d == TextDelta(w, u)
           t == Uttered(x, b, "text")
           h == Uttered(x, b, "thinking")
<1>1. TextAfterThinking(x) = x \/ TextAfterThinking(x) = d
  BY DEF TextAfterThinking
<1>2. u \in Seq(Char) /\ Blank(u)
  BY DEF Char, Blank, White
<1> HIDE DEF u
<1>3. Letters(u) = <<>>
  BY <1>2, BlankLetters
<1>4. Adds(x, w, <<>>, <<>>)
  BY MinorAdds
<1> HIDE DEF w
<1>5. Carries(w) /\ Placed(w)
  BY <1>4 DEF Adds
<1>6. Adds(w, d, u, <<>>)
  BY <1>2, <1>5, TextAdds
<1> HIDE DEF d
<1>7. Adds(x, d, u, <<>>)
  BY <1>4, <1>6, QuietThen
<1>8. /\ Uttered(d, b, "text") = Uttered(x, b, "text") \o Letters(u)
      /\ Uttered(d, b, "thinking") = Uttered(x, b, "thinking")
  BY <1>7, UtterOne
<1>9. t \in Seq(Char)
  BY UtteredAre
<1>10. Uttered(d, b, "text") = t
  <2> HIDE DEF t
  <2>1. t \o <<>> = t
    BY <1>9
  <2> QED BY <1>3, <1>8, <2>1 DEF t
<1>11. Carries(d) /\ Placed(d) /\ d.thinking = x.thinking
  BY <1>7 DEF Adds, SameScan
<1> QED BY <1>1, <1>8, <1>10, <1>11 DEF Speaking

\* What is held back at the end goes where the complete text has it.
LEMMA FlushSays ==
    ASSUME NEW x, NEW T \in Seq(Char), NEW b \in Base, On(x, T, b), Rested(x), x.thinking,
           Unambiguous(T), HasThinking(T)
    PROVE  LET y == FlushAtEnd(x)
           IN  Carries(y) /\ Placed(y) /\ Complete(y, T, b)
<1> DEFINE s == x.buffer
           p == EndTagAtBufferEnd(s)
           q == SubSeq(s, 1, p - 1)
           c == CloseFakeThinking(SomeThinking(x, q))
           z == [c EXCEPT !.inside = FALSE, !.extracted = TRUE, !.buffer = <<>>]
           d == CloseFakeThinking(ThinkingDelta(x, s))
           t == TextDelta(x, s)
           lt == Uttered(x, b, "text")
           lh == Uttered(x, b, "thinking")
           wt == Letters(Extract(T).text)
           wh == Letters(Extract(T).thinking)
<1>1. Carries(x) /\ Placed(x) /\ s \in Seq(Char)
  BY DEF On, Carries
<1>2. Muse(x, T, lt, lh) \/ Answer(x, T, lt, lh)
  <2> SUFFICES ASSUME Seek(x, T, lt, lh) PROVE FALSE
    BY DEF On, Along
  <2>1. SeekAt(s, T, lt) /\ First(OpenTag, s) = 0
    BY DEF Seek, Rested
  <2> QED BY <1>1, <2>1, SeekSays
<1>3. ASSUME x.inside
      PROVE  lt = wt /\ lh \o Letters(s) = wh /\ x.thinkAt \in Thoughts(x)
  <2>1. MuseAt(s, x.strip, T, lt, lh) /\ First(Ending, s) = 0 /\ x.thinkAt \in Thoughts(x)
    BY <1>2, <1>3 DEF Muse, Answer, Rested
  <2> HIDE DEF s, lt, lh
  <2> QED BY <1>1, <2>1, MuseSays
<1>4. ASSUME ~x.inside
      PROVE  lt \o Letters(s) = wt /\ lh = wh
  <2>1. AnswerAt(s, T, lt, lh)
    BY <1>2, <1>4 DEF Muse, Answer
  <2> HIDE DEF s, lt, lh
  <2>2. AnswerAt(<<>>, T, lt \o Letters(s), lh)
    BY <1>1, <2>1, AnswerGoes
  <2> QED BY <1>1, <2>2, AnswerSays
<1>5. lt \in Seq(Char) /\ lh \in Seq(Char)
  BY <1>1, UtteredAre
<1>6. CASE s = <<>>
  <2>1. FlushAtEnd(x) = x
    BY <1>6 DEF FlushAtEnd
  <2>2. Letters(s) = <<>>
    BY <1>6, Newline
  <2> HIDE DEF s, lt, lh, wt, wh
  <2>3. lt \o <<>> = lt /\ lh \o <<>> = lh
    BY <1>5
  <2>4. lt = wt /\ lh = wh
    BY <1>3, <1>4, <2>2, <2>3
  <2> QED BY <1>1, <2>1, <2>4 DEF Complete, lt, lh, wt, wh
<1>7. ASSUME NEW y, Carries(y), Placed(y), y.buffer = s,
             Uttered(y, b, "text") = wt, Uttered(y, b, "thinking") = wh,
             NEW e, DOMAIN e = Fields, e.out = y.out, e.blocks = y.blocks, e.textAt = y.textAt,
             e.thinkAt = y.thinkAt, e.buffer = <<>>
      PROVE  Carries(e) /\ Placed(e) /\ Complete(e, T, b)
  <2>1. Carries(e) /\ Placed(e) /\ \A bb, ch : Uttered(e, bb, ch) = Uttered(y, bb, ch)
    BY <1>7, NoText, ScanMoves
  <2> QED BY <1>7, <2>1 DEF Complete
<1> HIDE DEF wt, wh
<1>8. CASE s # <<>> /\ x.inside
  <2>1. CASE p # 0
    <3>1. /\ p \in Nat \ {0} /\ p <= Len(s) /\ Plain(s, p, Len(s) + 1)
          /\ TrimStart(From(s, p + 2)) = <<>>
      BY <1>1, <2>1, EndTagAtBufferEndIs
    <3>2. FlushAtEnd(x) = z
      BY <1>8, <2>1, <3>1 DEF FlushAtEnd, EndAtTag
    <3>3. q \in Seq(Char) /\ Letters(q) = Letters(s)
      <4> HIDE DEF p, s
      <4> QED BY <1>1, <3>1, PlainTail
    <3> HIDE DEF q
    <3>4. Adds(x, c, <<>>, q)
      BY <1>1, <1>3, <1>8, <3>3, ThoughtAdds
    <3> HIDE DEF c
    <3>5. /\ Uttered(c, b, "text") = Uttered(x, b, "text")
          /\ Uttered(c, b, "thinking") = Uttered(x, b, "thinking") \o Letters(q)
      BY <1>1, <3>4, UtterOne
    <3>6. Uttered(c, b, "text") = wt /\ Uttered(c, b, "thinking") = wh
      BY <1>3, <1>8, <3>3, <3>5
    <3>7. Carries(c) /\ Placed(c) /\ c.buffer = s
      BY <3>4 DEF Adds
    <3>8. /\ DOMAIN z = Fields /\ z.out = c.out /\ z.blocks = c.blocks /\ z.textAt = c.textAt
          /\ z.thinkAt = c.thinkAt /\ z.buffer = <<>>
      BY <3>7 DEF Carries, Fields
    <3> HIDE DEF z, s
    <3>9. Carries(z) /\ Placed(z) /\ Complete(z, T, b)
      BY <1>7, <3>6, <3>7, <3>8
    <3> QED BY <3>2, <3>9
  <2>2. CASE p = 0
    <3> DEFINE e == [d EXCEPT !.buffer = <<>>]
    <3>2. FlushAtEnd(x) = e
      BY <1>8, <2>2 DEF FlushAtEnd
    <3>4. Adds(x, d, <<>>, s)
      BY <1>1, <1>3, <1>8, ThoughtAdds
    <3> HIDE DEF d
    <3>5. /\ Uttered(d, b, "text") = Uttered(x, b, "text")
          /\ Uttered(d, b, "thinking") = Uttered(x, b, "thinking") \o Letters(s)
      BY <1>1, <3>4, UtterOne
    <3>6. Uttered(d, b, "text") = wt /\ Uttered(d, b, "thinking") = wh
      BY <1>3, <1>8, <3>5
    <3>7. Carries(d) /\ Placed(d) /\ d.buffer = s
      BY <3>4 DEF Adds
    <3>8. /\ DOMAIN e = Fields /\ e.out = d.out /\ e.blocks = d.blocks /\ e.textAt = d.textAt
          /\ e.thinkAt = d.thinkAt /\ e.buffer = <<>>
      BY <3>7 DEF Carries, Fields
    <3> HIDE DEF e, s
    <3>9. Carries(e) /\ Placed(e) /\ Complete(e, T, b)
      BY <1>7, <3>6, <3>7, <3>8
    <3> QED BY <3>2, <3>9
  <2> QED BY <2>1, <2>2
<1>9. CASE s # <<>> /\ ~x.inside
  <2> DEFINE e == [t EXCEPT !.buffer = <<>>]
  <2>2. FlushAtEnd(x) = e
    BY <1>9 DEF FlushAtEnd
  <2>4. Adds(x, t, s, <<>>)
    BY <1>1, TextAdds
  <2> HIDE DEF t
  <2>5. /\ Uttered(t, b, "text") = Uttered(x, b, "text") \o Letters(s)
        /\ Uttered(t, b, "thinking") = Uttered(x, b, "thinking")
    BY <1>1, <2>4, UtterOne
  <2>6. Uttered(t, b, "text") = wt /\ Uttered(t, b, "thinking") = wh
    BY <1>4, <1>9, <2>5
  <2>7. Carries(t) /\ Placed(t) /\ t.buffer = s
    BY <2>4 DEF Adds
  <2>8. /\ DOMAIN e = Fields /\ e.out = t.out /\ e.blocks = t.blocks /\ e.textAt = t.textAt
        /\ e.thinkAt = t.thinkAt /\ e.buffer = <<>>
    BY <2>7 DEF Carries, Fields
  <2> HIDE DEF e, s
  <2>9. Carries(e) /\ Placed(e) /\ Complete(e, T, b)
    BY <1>7, <2>6, <2>7, <2>8
  <2> QED BY <2>2, <2>9
<1> QED BY <1>6, <1>8, <1>9

\* How a good answer whose text was followed ends.
Finished(z, events, b) ==
    /\ z.thinking /\ Tame(events) /\ z.failure = "none"
    /\ Unambiguous(TextOf(events)) /\ HasThinking(TextOf(events))
    => Lone(z) /\ Complete(z, TextOf(events), b)

LEMMA FinalSays ==
    ASSUME NEW v \in View, NEW x \in Steady(v), NEW events \in Seq(UpstreamEvent), NEW b \in Base,
           Following(x, events, b)
    PROVE  Finished(Final(x), events, b)
<1> DEFINE y == IF ProducedAnyContent(x) THEN x ELSE MarkFailure(x, "empty_response")
           f == FlushAtEnd(y)
           t == TextAfterThinking(f)
           c == CloseReasoning(y)
           g == FlushAtEnd(c)
           u == TextAfterThinking(g)
           z == Final(x)
           T == TextOf(events)
<1>1. Carries(x)
  BY SteadyIs, ContextCarries
<1>2. y \in Steady(v) /\ Mute(x, y)
  <2>1. "empty_response" \in Failure
    BY DEF Failure
  <2> QED BY <2>1, MarkFailureKeeps, FailureMute, MuteFields
<1>3. z = IF y.failure # "none" THEN EndInError(y) ELSE EndMessage(u)
  BY DEF Final
<1>4. y = x \/ y = MarkFailure(x, "empty_response")
  OBVIOUS
<1> HIDE DEF y
<1> HIDE DEF z
<1> SUFFICES ASSUME z.thinking, Tame(events), z.failure = "none", Unambiguous(T), HasThinking(T)
             PROVE  Lone(z) /\ Complete(z, T, b)
  BY DEF Finished, z
<1>5. z = EndMessage(u)
  <2> SUFFICES ASSUME y.failure # "none" PROVE FALSE
    BY <1>3
  <2>1. z = EndInError(y)
    BY <1>3
  <2> QED BY <1>2, <2>1, EndInErrorKeeps
<1>6. Carries(y) /\ y.thinking = x.thinking
  BY <1>1, <1>2 DEF Mute, AsIs
<1>7. x.thinking
  <2>1. Carries(c) /\ c.thinking = y.thinking
    BY <1>6, CloseMute DEF Mute, AsIs
  <2> HIDE DEF c
  <2>2. Carries(g) /\ g.thinking = c.thinking
    BY <2>1, FlushAtEndPours DEF Pours
  <2> HIDE DEF g
  <2>3. Carries(u) /\ u.thinking = g.thinking
    <3> DEFINE w == [g EXCEPT !.reason = "max_tokens"]
               k == <<"s">>
               d == TextDelta(w, k)
    <3>1. u = g \/ u = d
      BY DEF TextAfterThinking
    <3>5. Mute(g, w)
      BY MuteFields
    <3> HIDE DEF w
    <3>2. Carries(w) /\ w.thinking = g.thinking
      BY <2>2, <3>5 DEF Mute, AsIs
    <3>3. k \in Seq(Char)
      BY DEF Char
    <3> HIDE DEF k
    <3>4. Carries(d) /\ d.thinking = w.thinking
      BY <3>2, <3>3, TextSays DEF Says, AsIs
    <3> HIDE DEF d
    <3> QED BY <2>2, <3>1, <3>2, <3>4
  <2> HIDE DEF u
  <2>4. z.thinking = u.thinking
    BY <1>5, <2>3, EndMessageHushed
  <2> QED BY <1>6, <2>1, <2>2, <2>3, <2>4
<1>8. On(x, T, b) /\ Rested(x) /\ ~x.native /\ ~x.reasoning /\ T \in Seq(Char)
  BY <1>7, TextIs DEF Following
<1> HIDE DEF T
<1>9. On(y, T, b) /\ Rested(y) /\ ~y.reasoning
  <2>1. /\ On(MarkFailure(x, "empty_response"), T, b)
        /\ KeptOn(x, MarkFailure(x, "empty_response"))
        /\ Rested(x) => Rested(MarkFailure(x, "empty_response"))
    BY <1>8, MinorOn
  <2> QED BY <1>4, <1>8, <2>1 DEF KeptOn
<1>10. c = y
  BY <1>9 DEF CloseReasoning
<1>11. Carries(f) /\ Placed(f) /\ Complete(f, T, b)
  BY <1>6, <1>7, <1>8, <1>9, FlushSays
<1>12. z = EndMessage(t)
  BY <1>5, <1>10
<1> HIDE DEF f, c, g, u
<1>13. /\ Carries(t) /\ Placed(t)
       /\ \A ch \in Speaking : Uttered(t, b, ch) = Uttered(f, b, ch)
  BY <1>11, TextAfterSays
<1> HIDE DEF t
<1>14. Carries(z) /\ Hushed(t, z)
  BY <1>12, <1>13, EndMessageHushed
<1>15. \A ch \in Speaking : Uttered(z, b, ch) = Uttered(f, b, ch)
  BY <1>13, <1>14 DEF Hushed, Uttered
<1>16. Complete(z, T, b)
  BY <1>11, <1>15 DEF Complete, Speaking
<1>17. Lone(z)
  BY <1>13, <1>14 DEF Lone, Placed, Hushed
<1> QED BY <1>16, <1>17

-----------------------------------------------------------------------------
(* The client's blocks, in their order.                                    *)

\* What the blocks of a type say in the message c.
Shows(ch, c) == FlattenSeq(Page(c, ch))

\* One block of the type at most.
Single(c, ch) ==
    \A i, j \in DOMAIN c.blocks : c.blocks[i].type = ch /\ c.blocks[j].type = ch => i = j

LEMMA ShowsAre ==
    ASSUME NEW c \in Client, NEW ch
    PROVE  /\ Shows(ch, c) \in Seq(Char)
           /\ \A i \in DOMAIN c.blocks :
                 Single(c, ch) /\ c.blocks[i].type = ch => Shows(ch, c) = c.blocks[i].text
<1> DEFINE ss == Page(c, ch)
           n == Len(c.blocks)
<1>1. /\ ss \in Seq(Seq(Char)) /\ Len(ss) = n /\ n \in Nat
      /\ \A k \in 1 .. n : ss[k] = Writ(c.blocks[k], ch)
  BY PageIs
<1>2. DOMAIN c.blocks = 1 .. n
  BY ViewIs
<1> HIDE DEF ss, n
<1>3. FlattenSeq(ss) \in Seq(Char)
  BY <1>1, FlattenIs
<1>4. ASSUME NEW i \in 1 .. n, Single(c, ch), c.blocks[i].type = ch
      PROVE  FlattenSeq(ss) = c.blocks[i].text
  <2>1. ss[i] = c.blocks[i].text
    BY <1>1, <1>4 DEF Writ
  <2>2. \A k \in 1 .. Len(ss) : k # i => ss[k] = <<>>
    BY <1>1, <1>2, <1>4 DEF Writ, Single
  <2>3. FlattenSeq(ss) = IF i \in 1 .. Len(ss) THEN ss[i] ELSE <<>>
    BY <1>1, <2>2, FlattenSingle
  <2> QED BY <1>1, <2>1, <2>3
<1> QED BY <1>2, <1>3, <1>4 DEF Shows, ss

LEMMA PutShows ==
    ASSUME NEW c \in Client, NEW d, NEW i, NEW b, NEW t, Put(c, d, i, b, t), NEW ch, Single(c, ch)
    PROVE  Shows(ch, d) = Shows(ch, c) \o (IF b.type = ch THEN t ELSE <<>>)
<1>0. /\ i \in DOMAIN c.blocks /\ b \in ClientBlock /\ t \in Seq(Char)
      /\ b.type = c.blocks[i].type /\ b.text = c.blocks[i].text \o t
      /\ d = [c EXCEPT !.blocks = [c.blocks EXCEPT ![i] = b]]
  BY DEF Put
<1>1. d \in Client
  BY <1>0, BlockSet
<1>2. c.blocks \in Seq(ClientBlock) /\ i \in 1 .. Len(c.blocks) /\ DOMAIN c.blocks = 1 .. Len(c.blocks)
  BY <1>0, ViewIs DEF Client
<1> DEFINE s == [c.blocks EXCEPT ![i] = b]
<1>3. Len(s) = Len(c.blocks) /\ \A k \in 1 .. Len(c.blocks) : s[k] = IF k = i THEN b ELSE c.blocks[k]
  BY <1>0, <1>2, ExceptSeq
<1>4. d.blocks = s
  BY <1>0 DEF Client
<1> HIDE DEF s
<1>5. /\ Len(d.blocks) = Len(c.blocks) /\ d.blocks[i] = b
      /\ \A k \in 1 .. Len(c.blocks) : k # i => d.blocks[k] = c.blocks[k]
      /\ DOMAIN d.blocks = 1 .. Len(c.blocks)
  <2>1. DOMAIN d.blocks = 1 .. Len(d.blocks)
    BY <1>1, ViewIs
  <2> QED BY <1>2, <1>3, <1>4, <2>1
<1>6. Single(d, ch)
  <2>1. \A k \in 1 .. Len(c.blocks) : d.blocks[k].type = c.blocks[k].type
    BY <1>0, <1>5
  <2> QED BY <1>2, <1>5, <2>1 DEF Single
<1>7. CASE b.type = ch
  <2>1. Shows(ch, c) = c.blocks[i].text
    BY <1>0, <1>7, ShowsAre
  <2>2. Shows(ch, d) = b.text
    <3>1. i \in DOMAIN d.blocks /\ d.blocks[i].type = ch /\ d.blocks[i] = b
      BY <1>2, <1>5, <1>7
    <3>2. Shows(ch, d) = d.blocks[i].text
      BY <1>1, <1>6, <3>1, ShowsAre
    <3> QED BY <3>1, <3>2
  <2> QED BY <1>0, <1>7, <2>1, <2>2
<1>8. CASE b.type # ch
  <2> DEFINE ss == Page(c, ch)
             tt == Page(d, ch)
             u == Shows(ch, c)
  <2>1. /\ ss \in Seq(Seq(Char)) /\ Len(ss) = Len(c.blocks)
        /\ \A k \in 1 .. Len(c.blocks) : ss[k] = Writ(c.blocks[k], ch)
    BY PageIs
  <2>2. /\ tt \in Seq(Seq(Char)) /\ Len(tt) = Len(d.blocks)
        /\ \A k \in 1 .. Len(d.blocks) : tt[k] = Writ(d.blocks[k], ch)
    BY <1>1, PageIs
  <2>3. Writ(d.blocks[i], ch) = <<>> /\ Writ(c.blocks[i], ch) = <<>>
    BY <1>0, <1>5, <1>8 DEF Writ
  <2> HIDE DEF ss, tt
  <2>4. \A k \in 1 .. Len(ss) : tt[k] = ss[k]
    BY <1>5, <2>1, <2>2, <2>3
  <2>5. tt = ss
    BY <1>5, <2>1, <2>2, <2>4, SameSeq
  <2>6. u \in Seq(Char)
    BY ShowsAre
  <2>7. Shows(ch, d) = u
    BY <2>5 DEF Shows, ss, tt
  <2> HIDE DEF u
  <2>8. u \o <<>> = u
    BY <2>6
  <2> QED BY <1>8, <2>7, <2>8 DEF u
<1> QED BY <1>7, <1>8

LEMMA MuteShows ==
    ASSUME NEW c \in Client, NEW item, item.ev \in {"signature", "stop"}, NEW i \in DOMAIN c.blocks,
           item.at = {i}, NEW ch, Single(c, ch)
    PROVE  Shows(ch, Receive(c, item)) = Shows(ch, c)
<1> DEFINE o == c.blocks[i]
           d == Receive(c, item)
           u == Shows(ch, c)
<1>1. o \in ClientBlock /\ (CHOOSE k \in item.at : TRUE) = i
  BY ViewIs
<1>2. o.text \in Seq(Char)
  BY <1>1 DEF ClientBlock
<1>3. PICK b \in ClientBlock :
         d = [c EXCEPT !.blocks = [c.blocks EXCEPT ![i] = b]] /\ b.type = o.type /\ b.text = o.text
  <2>1. CASE item.ev = "signature"
    <3> DEFINE b == [o EXCEPT !.signatures = o.signatures + 1]
    <3>1. b \in ClientBlock /\ b.type = o.type /\ b.text = o.text
      BY <1>1 DEF ClientBlock
    <3>2. d = [c EXCEPT !.blocks = [c.blocks EXCEPT ![i] = b]]
      BY <1>1, <2>1 DEF Receive, Client
    <3> QED BY <3>1, <3>2
  <2>2. CASE item.ev = "stop"
    <3> DEFINE b == [o EXCEPT !.open = FALSE]
    <3>1. b \in ClientBlock /\ b.type = o.type /\ b.text = o.text
      BY <1>1 DEF ClientBlock
    <3>2. d = [c EXCEPT !.blocks = [c.blocks EXCEPT ![i] = b]]
      BY <1>1, <2>2 DEF Receive, Client
    <3> QED BY <3>1, <3>2
  <2> QED BY <2>1, <2>2
<1> HIDE DEF d
<1>4. b.text = o.text \o <<>>
  BY <1>2, <1>3
<1>5. Put(c, d, i, b, <<>>)
  BY <1>3, <1>4, NoText DEF Put
<1>6. Shows(ch, d) = Shows(ch, c) \o <<>>
  <2> DEFINE t == <<>>
  <2>1. Put(c, d, i, b, t)
    BY <1>5
  <2> HIDE DEF t
  <2>2. Shows(ch, d) = Shows(ch, c) \o (IF b.type = ch THEN t ELSE <<>>)
    BY <2>1, PutShows
  <2> QED BY <2>2 DEF t
<1>7. u \in Seq(Char)
  BY ShowsAre
<1>8. Shows(ch, d) = u \o <<>>
  BY <1>6
<1> HIDE DEF u
<1>9. u \o <<>> = u
  BY <1>7
<1> QED BY <1>8, <1>9 DEF u, d

LEMMA DeltaShows ==
    ASSUME NEW c \in Client, NEW item \in Item, item.ev \in {"text", "thinking", "json"},
           Legal(ViewOf(c), item), NEW ch \in Speaking, Single(c, ch)
    PROVE  Shows(ch, Receive(c, item)) = Shows(ch, c) \o Line(ch, item)
<1> DEFINE v == ViewOf(c)
<1>1. PICK i \in DOMAIN v.blocks : Fills(v, item, i, {Takes(item.ev)})
  BY DEF Legal
<1> DEFINE o == c.blocks[i]
<1>2. i \in DOMAIN c.blocks /\ o \in ClientBlock /\ v.blocks[i] = PartOf(o)
  BY ViewIs
<1>3. item.at = {i} /\ v.blocks[i].type = Takes(item.ev)
  BY <1>1 DEF Fills, OpenParts
<1>4. o.type = Takes(item.ev) /\ (CHOOSE k \in item.at : TRUE) = i
  BY <1>2, <1>3 DEF PartOf
<1> DEFINE t == item.text
           b == [o EXCEPT !.text = o.text \o t]
           d == Receive(c, item)
<1>5. o.text \in Seq(Char) /\ t \in Seq(Char) /\ o.text \o t \in Seq(Char)
  BY <1>2 DEF ClientBlock, Item
<1>6. b \in ClientBlock /\ b.text = o.text \o t /\ b.type = o.type
  BY <1>2, <1>5 DEF ClientBlock
<1>7. d = [c EXCEPT !.blocks = [c.blocks EXCEPT ![i] = b]]
  BY <1>4 DEF Receive, Client
<1>9. b.type = ch <=> item.ev = ch
  BY <1>4, <1>6 DEF Takes, Speaking
<1>10. Line(ch, item) = IF b.type = ch THEN t ELSE <<>>
  BY <1>9 DEF Line
<1> HIDE DEF d, b, t
<1>8. Put(c, d, i, b, t)
  BY <1>2, <1>5, <1>6, <1>7 DEF Put
<1>11. Shows(ch, d) = Shows(ch, c) \o (IF b.type = ch THEN t ELSE <<>>)
  BY <1>8, PutShows
<1> QED BY <1>10, <1>11 DEF d

LEMMA OpensShows ==
    ASSUME NEW c \in Client, NEW item \in Item, item.ev = "start", Legal(ViewOf(c), item), NEW ch
    PROVE  Shows(ch, Receive(c, item)) = Shows(ch, c)
<1> DEFINE b == Grammar!Block(item.tag)
           s == Append(c.blocks, b)
           d == Receive(c, item)
           n == Len(c.blocks)
           ss == Page(c, ch)
           tt == Page(d, ch)
           u == <<<<>>>>
           w == Shows(ch, c)
<1>1. b \in ClientBlock /\ b.text = <<>>
  BY NoText DEF Legal, Grammar!Block, ClientBlock
<1>2. d = [c EXCEPT !.blocks = s]
  BY DEF Receive, Client
<1> HIDE DEF b
<1>3. c.blocks \in Seq(ClientBlock)
  BY DEF Client
<1>4. /\ s \in Seq(ClientBlock) /\ Len(s) = n + 1 /\ s[n + 1] = b /\ n \in Nat
      /\ \A i \in 1 .. n : s[i] = c.blocks[i]
  BY <1>1, <1>3, Appended
<1> HIDE DEF s, d
<1>5. d \in Client /\ d.blocks = s
  BY <1>2, <1>4 DEF Client
<1>6. /\ ss \in Seq(Seq(Char)) /\ Len(ss) = n
      /\ \A i \in 1 .. n : ss[i] = Writ(c.blocks[i], ch)
  BY PageIs
<1>7. /\ tt \in Seq(Seq(Char)) /\ Len(tt) = Len(d.blocks)
      /\ \A i \in 1 .. Len(d.blocks) : tt[i] = Writ(d.blocks[i], ch)
  BY <1>5, PageIs
<1>8. Writ(b, ch) = <<>>
  BY <1>1 DEF Writ
<1>9. u \in Seq(Seq(Char)) /\ Len(u) = 1 /\ u[1] = <<>> /\ FlattenSeq(u) = <<>>
  <2>1. u \in Seq(Seq(Char)) /\ Len(u) = 1 /\ u[1] = <<>>
    BY NoText
  <2> HIDE DEF u
  <2>2. \A k \in 1 .. Len(u) : k # 1 => u[k] = <<>>
    BY <2>1
  <2>3. FlattenSeq(u) = IF 1 \in 1 .. Len(u) THEN u[1] ELSE <<>>
    BY <2>1, <2>2, FlattenSingle
  <2> QED BY <2>1, <2>3
<1>10. w \in Seq(Char) /\ w = FlattenSeq(ss) /\ Shows(ch, d) = FlattenSeq(tt)
  BY ShowsAre DEF Shows
<1> HIDE DEF ss, tt, n, u, w
<1>11. /\ ss \o u \in Seq(Seq(Char)) /\ Len(ss \o u) = n + 1 /\ (ss \o u)[n + 1] = <<>>
       /\ \A i \in 1 .. n : (ss \o u)[i] = ss[i]
  <2>1. /\ ss \o u \in Seq(Seq(Char)) /\ Len(ss \o u) = Len(ss) + Len(u)
        /\ \A i \in 1 .. Len(ss) : (ss \o u)[i] = ss[i]
        /\ \A i \in 1 .. Len(u) : (ss \o u)[Len(ss) + i] = u[i]
    <3>1. ss \in Seq(Seq(Char)) /\ u \in Seq(Seq(Char))
      BY <1>6, <1>9
    <3> QED BY <3>1
  <2> QED BY <1>6, <1>9, <2>1
<1>12. ASSUME NEW i \in 1 .. n + 1 PROVE tt[i] = (ss \o u)[i]
  <2>1. CASE i = n + 1
    BY <1>4, <1>5, <1>7, <1>8, <1>11, <2>1
  <2>2. CASE i # n + 1
    <3>1. i \in 1 .. n
      BY <1>4, <2>2
    <3> QED BY <1>4, <1>5, <1>6, <1>7, <1>11, <3>1
  <2> QED BY <2>1, <2>2
<1> DEFINE k == ss \o u
<1> HIDE DEF k
<1>13. tt = k
  <2>1. k \in Seq(Seq(Char)) /\ Len(k) = Len(tt) /\ \A i \in 1 .. Len(tt) : tt[i] = k[i]
    BY <1>4, <1>5, <1>7, <1>11, <1>12 DEF k
  <2> QED BY <1>7, <2>1, SameSeq
<1>14. FlattenSeq(ss \o u) = FlattenSeq(ss) \o FlattenSeq(u)
  BY <1>6, <1>9, FlattenJoin
<1>15. w \o <<>> = w
  BY <1>10
<1> QED BY <1>9, <1>10, <1>13, <1>14, <1>15 DEF k, w, d

\* What an event says is what the client's blocks show.
LEMMA ReceiveShows ==
    ASSUME NEW c \in Client, NEW item \in Item, Legal(ViewOf(c), item), item.ev # "stop",
           NEW ch \in Speaking, Single(c, ch)
    PROVE  Shows(ch, Receive(c, item)) = Shows(ch, c) \o Line(ch, item)
<1> DEFINE d == Receive(c, item)
           w == Shows(ch, c)
<1>1. w \in Seq(Char)
  BY ShowsAre
<1>2. w \o <<>> = w
  <2> HIDE DEF w
  <2> QED BY <1>1
<1>3. item.ev \notin Speaking => Line(ch, item) = <<>>
  BY DEF Line
<1>4. CASE item.ev \in {"text", "thinking", "json"}
  BY <1>4, DeltaShows
<1>5. CASE item.ev = "signature"
  <2>1. PICK i \in DOMAIN ViewOf(c).blocks : Fills(ViewOf(c), item, i, {"thinking"})
    BY <1>5 DEF Legal
  <2>2. i \in DOMAIN c.blocks /\ item.at = {i}
    BY <2>1, ViewIs DEF Fills
  <2>3. Shows(ch, d) = w
    BY <1>5, <2>2, MuteShows
  <2> HIDE DEF w, d
  <2> QED BY <1>2, <1>3, <1>5, <2>3 DEF Speaking, w, d
<1>6. CASE item.ev = "start"
  <2>1. Shows(ch, d) = w
    BY <1>6, OpensShows
  <2> HIDE DEF w, d
  <2> QED BY <1>2, <1>3, <1>6, <2>1 DEF Speaking, w, d
<1>7. CASE item.ev \in {"message_start", "message_delta", "message_stop", "error"}
  <2>1. d.blocks = c.blocks
    BY <1>7 DEF Receive, Client
  <2> HIDE DEF d
  <2>2. Shows(ch, d) = w
    BY <2>1 DEF Shows, Page
  <2> HIDE DEF w
  <2> QED BY <1>2, <1>3, <1>7, <2>2 DEF Speaking, w, d
<1>8. item.ev \in Event
  BY DEF Item
<1> QED BY <1>4, <1>5, <1>6, <1>7, <1>8 DEF Event

-----------------------------------------------------------------------------
(* The message that the client has when it has taken what it is owed.       *)

\* What the message c says, of each kind, when the events of a list have been taken.
Joint(c, queue) == [ch \in Speaking |-> Shows(ch, c) \o Voice(ch, queue)]

LEMMA JointIs ==
    ASSUME NEW c \in Client, NEW queue \in Seq(Item)
    PROVE  Joint(c, queue) \in Base /\ Talk(queue)
<1>1. Talk(queue)
  BY NoTalk, TalkFirst
<1>2. ASSUME NEW ch \in Speaking PROVE Shows(ch, c) \o Voice(ch, queue) \in Seq(Char)
  <2> DEFINE s == Shows(ch, c)
             w == Voice(ch, queue)
  <2>1. s \in Seq(Char) /\ w \in Seq(Char)
    BY <1>1, ShowsAre, VoiceIs
  <2> HIDE DEF s, w
  <2>2. s \o w \in Seq(Char)
    BY <2>1
  <2> QED BY <2>2 DEF s, w
<1> QED BY <1>1, <1>2 DEF Joint, Base

\* The events in the list of the context are handed on.
LEMMA OwedUtters ==
    ASSUME NEW x \in Context, NEW c \in Client, NEW ch \in Speaking
    PROVE  Uttered(Owed(x, <<>>), Joint(c, x.out), ch) = Uttered(x, Joint(c, <<>>), ch)
<1> DEFINE s == Shows(ch, c)
           w == Voice(ch, x.out)
           ls == Letters(s)
           lw == Letters(w)
<1>1. Owed(x, <<>>).out = <<>>
  BY ContextFields DEF Owed, Fields
<1>2. x.out \in Seq(Item)
  BY DEF Context
<1>3. Talk(x.out)
  BY <1>2, JointIs
<1>4. s \in Seq(Char) /\ w \in Seq(Char)
  BY <1>3, ShowsAre, VoiceIs
<1>5. Joint(c, x.out)[ch] = s \o w /\ Joint(c, <<>>)[ch] = s \o Voice(ch, <<>>)
  BY DEF Joint
<1>6. Voice(ch, <<>>) = <<>>
  BY VoiceNone
<1>7. Uttered(Owed(x, <<>>), Joint(c, x.out), ch) = Letters(s \o w) \o Letters(<<>>)
  BY <1>1, <1>5, <1>6 DEF Uttered
<1>8. Uttered(x, Joint(c, <<>>), ch) = Letters(s \o <<>>) \o lw
  BY <1>5, <1>6 DEF Uttered
<1> HIDE DEF s, w
<1>9. Letters(s \o w) = ls \o lw /\ ls \in Seq(Char) /\ lw \in Seq(Char)
  BY <1>4, LettersJoin, LettersAre
<1>10. Letters(<<>>) = <<>> /\ s \o <<>> = s
  BY <1>4, Newline
<1> HIDE DEF ls, lw
<1>11. (ls \o lw) \o <<>> = ls \o lw
  <2> DEFINE k == ls \o lw
  <2>1. k \in Seq(Char)
    BY <1>9
  <2> HIDE DEF k
  <2>2. k \o <<>> = k
    BY <2>1
  <2> QED BY <2>2 DEF k
<1> QED BY <1>7, <1>8, <1>9, <1>10, <1>11 DEF ls

LEMMA OwedOrder ==
    ASSUME NEW x \in Context, NEW c \in Client, NEW events
    PROVE  LET y == Owed(x, <<>>)
               p == Joint(c, <<>>)
               q == Joint(c, x.out)
           IN  /\ Following(x, events, p) => Following(y, events, q)
               /\ Finished(x, events, p) => Finished(y, events, q)
<1> DEFINE y == Owed(x, <<>>)
           p == Joint(c, <<>>)
           q == Joint(c, x.out)
<1>1. \A ch \in Speaking : Uttered(y, q, ch) = Uttered(x, p, ch)
  BY OwedUtters
<1>2. /\ y.thinking = x.thinking /\ y.native = x.native /\ y.inside = x.inside
      /\ y.extracted = x.extracted /\ y.buffer = x.buffer /\ y.out = <<>>
      /\ y.strip = x.strip /\ y.reasoning = x.reasoning /\ y.thinkAt = x.thinkAt
      /\ y.textAt = x.textAt /\ y.blocks = x.blocks /\ y.failure = x.failure
      /\ DOMAIN y = Fields
  BY ContextFields DEF Owed, Fields
<1> HIDE DEF y, p, q
<1>3. Thoughts(y) = Thoughts(x) /\ (Placed(x) => Placed(y)) /\ (Lone(x) => Lone(y))
  BY <1>2 DEF Thoughts, Placed, Lone
<1>4. Carries(x) => Carries(y)
  <2>1. Talk(<<>>)
    BY NoTalk
  <2> QED BY <1>2, <2>1 DEF Carries
<1>5. Uttered(y, q, "text") = Uttered(x, p, "text")
      /\ Uttered(y, q, "thinking") = Uttered(x, p, "thinking")
  BY <1>1 DEF Speaking
<1>6. ASSUME NEW T, On(x, T, p) PROVE On(y, T, q)
  <2> DEFINE lt == Uttered(x, p, "text")
             lh == Uttered(x, p, "thinking")
  <2>1. Seek(x, T, lt, lh) \/ Muse(x, T, lt, lh) \/ Answer(x, T, lt, lh)
    BY <1>6 DEF On, Along
  <2> HIDE DEF lt, lh
  <2>2. Seek(x, T, lt, lh) => Seek(y, T, lt, lh)
    BY <1>2, <1>3 DEF Seek
  <2>3. Muse(x, T, lt, lh) => Muse(y, T, lt, lh)
    BY <1>2, <1>3 DEF Muse
  <2>4. Answer(x, T, lt, lh) => Answer(y, T, lt, lh)
    BY <1>2 DEF Answer
  <2>5. Along(y, T, q)
    BY <1>5, <2>1, <2>2, <2>3, <2>4 DEF Along, lt, lh
  <2> QED BY <1>2, <1>3, <1>4, <1>6, <2>5 DEF On
<1>7. Rested(x) => Rested(y)
  BY <1>2 DEF Rested
<1>8. Following(x, events, p) => Following(y, events, q)
  BY <1>2, <1>6, <1>7 DEF Following
<1>9. Finished(x, events, p) => Finished(y, events, q)
  BY <1>2, <1>3, <1>5 DEF Finished, Complete
<1> QED BY <1>8, <1>9 DEF y, p, q

-----------------------------------------------------------------------------
(* Deliveries.                                                             *)

\* The blocks of a view stay, with their types, and others come behind them.
LEMMA FlowGrows ==
    ASSUME NEW v \in View, NEW queue \in Seq(Item), NEW w \in View, Flow(v, queue, w)
    PROVE  \A i \in DOMAIN v.blocks : i \in DOMAIN w.blocks /\ w.blocks[i].type = v.blocks[i].type
<1> DEFINE n == Len(queue)
           Keeps(u) == \A i \in DOMAIN v.blocks :
                          i \in DOMAIN u.blocks /\ u.blocks[i].type = v.blocks[i].type
<1>1. PICK f \in [0 .. n -> View] : Leads(f, v, queue, w)
  BY DEF Flow
<1>2. /\ f[0] = v /\ f[n] = w /\ n \in Nat
      /\ \A k \in 1 .. n : f[k] = After(f[k - 1], queue[k])
  BY <1>1 DEF Leads
<1>3. ASSUME NEW u \in View, NEW item, Keeps(u) PROVE Keeps(After(u, item))
  <2> SUFFICES ASSUME NEW i \in DOMAIN v.blocks
               PROVE  i \in DOMAIN After(u, item).blocks
                      /\ After(u, item).blocks[i].type = v.blocks[i].type
    OBVIOUS
  <2>1. i \in DOMAIN u.blocks /\ u.blocks[i].type = v.blocks[i].type
    BY <1>3
  <2>2. CASE item.ev = "start"
    <3> DEFINE e == [type |-> item.tag, open |-> TRUE, signatures |-> 0]
               s == u.blocks
    <3>1. After(u, item).blocks = Append(s, e)
      BY <2>2 DEF After
    <3>2. s \in Seq(Part) /\ i \in DOMAIN s
      BY <2>1 DEF View
    <3> HIDE DEF e, s
    <3>3. i \in DOMAIN Append(s, e) /\ Append(s, e)[i] = s[i]
      BY <3>2
    <3> QED BY <2>1, <3>1, <3>3 DEF s
  <2>3. CASE item.ev # "start"
    BY <2>1, <2>3 DEF After, PartAfter
  <2> QED BY <2>2, <2>3
<1>4. Keeps(v)
  OBVIOUS
<1> HIDE DEF n, Keeps
<1> DEFINE T == {k \in Nat : k <= n => Keeps(f[k])}
<1>5. 0 \in T
  BY <1>2, <1>4
<1>6. T \in SUBSET Nat /\ \A k \in T : k + 1 \in T
  <2> SUFFICES ASSUME NEW k \in T, k + 1 <= n PROVE Keeps(f[k + 1])
    OBVIOUS
  <2>1. k \in 0 .. n /\ k + 1 \in 1 .. n /\ (k + 1) - 1 = k
    BY <1>2
  <2>2. f[k] \in View /\ Keeps(f[k])
    BY <1>1, <2>1 DEF n
  <2>3. f[k + 1] = After(f[k], queue[k + 1])
    BY <1>2, <2>1
  <2> QED BY <1>3, <2>2, <2>3
<1> HIDE DEF T
<1>7. n \in T
  BY <1>2, <1>5, <1>6, Induction
<1>8. Keeps(w)
  BY <1>2, <1>7 DEF T
<1> QED BY <1>8 DEF Keeps

\* The client knows no more blocks than the translation.
LEMMA ClientSingle ==
    ASSUME StreamInv, pending # <<>>, client.phase # "gone", Lone(ctx), NEW ch \in Speaking
    PROVE  Single(client, ch)
<1> DEFINE v == ViewOf(client)
           x == Owed(ctx, pending)
<1>1. /\ pending \in Seq(Item) /\ client \in Client /\ ctx \in Context /\ v \in View
  BY ViewIs DEF StreamInv, StreamTypes
<1>2. x.out = pending /\ x.blocks = ctx.blocks
  BY <1>1, OwedIs
<1>3. PICK w \in View : Flow(v, pending, w) /\ Sorted(w, ctx.blocks)
  <2>1. Live \/ Over
    BY <1>1 DEF StreamInv, Gone, Linked, Unbegun, Held
  <2>2. CASE Live
    <3>1. Told(v, x)
      BY <2>2, SteadyIs DEF Live
    <3> HIDE DEF x, v
    <3> QED BY <1>2, <3>1 DEF Told, Mirrors, Sorted
  <2>3. CASE Over
    <3>1. Concluded(v, x)
      BY <2>3 DEF Over
    <3> HIDE DEF x, v
    <3> QED BY <1>2, <3>1 DEF Concluded
  <2> QED BY <2>1, <2>2, <2>3
<1>4. ASSUME NEW i \in DOMAIN client.blocks
      PROVE  i \in DOMAIN ctx.blocks /\ ctx.blocks[i].type = client.blocks[i].type
  <2>1. i \in DOMAIN v.blocks /\ v.blocks[i].type = client.blocks[i].type
    <3>1. i \in DOMAIN v.blocks /\ v.blocks[i] = PartOf(client.blocks[i])
      BY <1>1, ViewIs
    <3> HIDE DEF v
    <3> QED BY <3>1 DEF PartOf
  <2> HIDE DEF v
  <2>2. i \in DOMAIN w.blocks /\ w.blocks[i].type = v.blocks[i].type
    BY <1>1, <1>3, <2>1, FlowGrows
  <2>3. DOMAIN w.blocks = DOMAIN ctx.blocks
    <3>1. w.blocks \in Seq(Part) /\ ctx.blocks \in Seq(BlockState) /\ Len(w.blocks) = Len(ctx.blocks)
      BY <1>1, <1>3 DEF View, Context, Sorted
    <3> QED BY <3>1
  <2>4. DOMAIN ctx.blocks = 1 .. Len(ctx.blocks)
    BY <1>1, ContextBlocks
  <2> QED BY <1>3, <2>1, <2>2, <2>3, <2>4 DEF Sorted
<1> QED BY <1>4 DEF Lone, Single, Speaking

LEMMA StopVoices ==
    ASSUME NEW ch \in Speaking, NEW queue \in Seq(Item), NEW item, item.ev = "stop"
    PROVE  Voice(ch, <<item>> \o queue) = Voice(ch, queue)
<1> DEFINE w == Voice(ch, queue)
<1>1. Talk(queue)
  BY NoTalk, TalkFirst
<1>2. Talk(<<item>>) /\ Voice(ch, <<item>>) = Line(ch, item)
  BY VoiceOne DEF Speaking
<1>3. Line(ch, item) = <<>>
  BY DEF Line, Speaking
<1>4. Voice(ch, <<item>> \o queue) = Voice(ch, <<item>>) \o Voice(ch, queue)
  BY <1>1, <1>2, VoiceJoin
<1>5. w \in Seq(Char)
  BY <1>1, VoiceIs
<1> HIDE DEF w
<1>6. <<>> \o w = w
  BY <1>5
<1> QED BY <1>2, <1>3, <1>4, <1>6 DEF w

\* A delivery moves words from the list to the message.
LEMMA DeliverShows ==
    ASSUME StreamInv, Deliver, Lone(ctx), NEW ch \in Speaking
    PROVE  Joint(client', pending')[ch] = Joint(client, pending)[ch]
<1> DEFINE v == ViewOf(client)
           item == Head(pending)
           rest == Tail(pending)
           One(ev, i) == [ev |-> ev, at |-> {i}, tag |-> "", text |-> <<>>]
           s == Shows(ch, client)
           t == Line(ch, item)
           u == Voice(ch, rest)
<1>1. /\ pending # <<>> /\ pending \in Seq(Item) /\ client \in Client /\ ctx \in Context
      /\ v \in View /\ client.phase # "gone"
  BY DeliverStays, ViewIs DEF StreamInv, StreamTypes
<1>2. PICK w \in View : Flow(v, pending, w)
  <2>1. client.phase # "gone"
    BY DEF Deliver
  <2>2. Live \/ Over
    BY <1>1, <2>1 DEF StreamInv, Gone, Linked, Unbegun, Held
  <2>3. Owed(ctx, pending).out = pending
    BY <1>1, OwedIs
  <2>4. Told(v, Owed(ctx, pending)) \/ Concluded(v, Owed(ctx, pending))
    BY <2>2, SteadyIs DEF Live, Over
  <2> QED BY <2>3, <2>4 DEF Told, Concluded
<1>3. Legal(v, item) /\ item \in Item /\ rest \in Seq(Item)
  BY <1>1, <1>2, FlowHead
<1>4. Single(client, ch)
  BY <1>1, ClientSingle
<1>5. Voice(ch, pending) = t \o u /\ t \in Seq(Char) /\ u \in Seq(Char)
  BY <1>1, VoiceFirst
<1>6. s \in Seq(Char)
  BY <1>1, ShowsAre
<1>7. Joint(client, pending)[ch] = s \o (t \o u)
  BY <1>5 DEF Joint
<1>8. Joint(client', pending')[ch] = Shows(ch, client') \o Voice(ch, pending')
  BY DEF Joint
<1>9. CASE item.ev # "stop"
  <2>1. client' = Receive(client, item) /\ pending' = rest
    BY <1>9 DEF Deliver
  <2>2. Shows(ch, Receive(client, item)) = s \o t
    BY <1>1, <1>3, <1>4, <1>9, ReceiveShows
  <2>3. Joint(client', pending')[ch] = (s \o t) \o u
    BY <1>8, <2>1, <2>2
  <2> HIDE DEF s, t, u
  <2>4. Regrouped(s, t, u)
    BY <1>5, <1>6, Regroup
  <2> QED BY <1>7, <2>3, <2>4 DEF Regrouped
<1>10. CASE item.ev = "stop"
  <2> DEFINE left(i) == IF item.at = {i} THEN rest
                        ELSE <<[item EXCEPT !.at = @ \ {i}]>> \o rest
  <2>1. PICK i \in item.at :
           \/ client' = Receive(client, One("signature", i)) /\ pending' = <<One("stop", i)>> \o left(i)
           \/ client' = Receive(client, One("stop", i)) /\ pending' = left(i)
    BY <1>10 DEF Deliver
  <2>2. i \in Nat /\ i \in DOMAIN client.blocks
    <3>1. i \in OpenParts(v, BlockType)
      BY <1>3, <1>10 DEF Legal
    <3>2. i \in DOMAIN v.blocks
      BY <3>1 DEF OpenParts
    <3>3. i \in DOMAIN client.blocks
      BY <1>1, <3>2, ViewIs
    <3> QED BY <1>3, <3>3 DEF Item
  <2>3. left(i) \in Seq(Item) /\ Voice(ch, left(i)) = u
    <3> DEFINE less == [item EXCEPT !.at = @ \ {i}]
    <3>1. less \in Item /\ less.ev = "stop"
      BY <1>3, <1>10 DEF Item
    <3> HIDE DEF less
    <3>2. Voice(ch, <<less>> \o rest) = Voice(ch, rest) /\ <<less>> \o rest \in Seq(Item)
      <4>1. <<less>> \in Seq(Item)
        BY <3>1
      <4>2. <<less>> \o rest \in Seq(Item)
        BY <1>3, <4>1
      <4>3. Voice(ch, <<less>> \o rest) = Voice(ch, rest)
        BY <1>3, <3>1, StopVoices
      <4> QED BY <4>2, <4>3
    <3> QED BY <1>3, <3>2 DEF less
  <2>9. t = <<>>
    BY <1>10 DEF Line, Speaking
  <2> HIDE DEF left, item, rest
  <2>4. /\ One("stop", i).ev = "stop" /\ One("signature", i).ev = "signature"
        /\ One("stop", i).at = {i} /\ One("signature", i).at = {i}
    OBVIOUS
  <2> HIDE DEF One
  <2>5. Voice(ch, pending') = u
    <3>1. Voice(ch, <<One("stop", i)>> \o left(i)) = Voice(ch, left(i))
      BY <2>3, <2>4, StopVoices
    <3> QED BY <2>1, <2>3, <3>1
  <2>6. ASSUME NEW one, one.ev \in {"stop", "signature"}, one.at = {i}, client' = Receive(client, one)
        PROVE  Shows(ch, client') = Shows(ch, client)
    BY <1>1, <1>4, <2>2, <2>6, MuteShows
  <2>7. Shows(ch, client') = s
    BY <2>1, <2>4, <2>6
  <2>8. <<>> \o u = u
    <3> HIDE DEF u
    <3> QED BY <1>5
  <2> HIDE DEF s, t, u
  <2> QED BY <1>7, <1>8, <2>5, <2>7, <2>8, <2>9
<1> QED BY <1>9, <1>10

\* The client has been told, or will be, what the translation has said of the text so far.
OrderRight ==
    LET b == Joint(client, pending)
    IN  IF finished THEN Finished(ctx, seen, b) ELSE Following(ctx, seen, b)

\* The inductive invariant of the order of the words.
OrderInv ==
    /\ StreamInv /\ seen \in Seq(UpstreamEvent)
    /\ client.phase # "gone" => OrderRight

LEMMA DeliverOrder ==
    ASSUME StreamInv, Deliver, OrderRight
    PROVE  OrderRight'
<1> DEFINE b == Joint(client, pending)
           d == Joint(client', pending')
<1>1. UNCHANGED <<ctx, finished, seen>>
  BY DEF Deliver
<1>2. Placed(ctx) => Lone(ctx)
  BY DEF Placed, Lone
<1>3. ASSUME Lone(ctx) PROVE b = d
  <2>1. \A ch \in Speaking : d[ch] = b[ch]
    BY <1>3, DeliverShows
  <2>2. /\ b = [ch \in Speaking |-> Shows(ch, client) \o Voice(ch, pending)]
        /\ d = [ch \in Speaking |-> Shows(ch, client') \o Voice(ch, pending')]
    BY DEF Joint
  <2> HIDE DEF b, d
  <2> QED BY <2>1, <2>2
<1> HIDE DEF b, d
<1>4. ASSUME finished, Finished(ctx, seen, b) PROVE Finished(ctx, seen, d)
  BY <1>3, <1>4 DEF Finished
<1>5. ASSUME ~finished, Following(ctx, seen, b) PROVE Following(ctx, seen, d)
  BY <1>2, <1>3, <1>5 DEF Following, On
<1>6. IF finished THEN Finished(ctx, seen, d) ELSE Following(ctx, seen, d)
  BY <1>4, <1>5 DEF OrderRight, b
<1> QED BY <1>1, <1>6 DEF OrderRight, d

-----------------------------------------------------------------------------
(* The steps of the stream.                                                *)

LEMMA OrderStart == StreamInit => OrderInv
<1> SUFFICES ASSUME StreamInit PROVE OrderInv
  OBVIOUS
<1>1. StreamInv /\ seen = <<>> /\ ~finished /\ client = Grammar!Nothing
  BY StreamStart DEF StreamInit
<1>2. client \in Client /\ ctx \in Context
  BY <1>1 DEF StreamInv, StreamTypes
<1>3. PICK thinking \in BOOLEAN :
         LET x == Initial(NewContext(thinking))
         IN  IF way = "live" THEN ctx = Owed(x, <<>>) /\ pending = x.out
             ELSE ctx = NewContext(thinking) /\ pending = <<>>
  BY DEF StreamInit, Owed
<1> DEFINE f == NewContext(thinking)
           x == Initial(f)
           b == Joint(client, <<>>)
<1>4. b["text"] = <<>> /\ b["thinking"] = <<>> /\ b \in Base
  <2>1. client.blocks = <<>>
    BY <1>1 DEF Grammar!Nothing
  <2>2. \A type : Page(client, type) = <<>>
    BY <2>1 DEF Page
  <2>3. \A type : Shows(type, client) = <<>>
    <3>1. <<>> \in Seq(Seq(Char))
      OBVIOUS
    <3>2. FlattenSeq(<<>>) = <<>>
      BY <3>1, FlattenIs
    <3> QED BY <2>2, <3>2 DEF Shows
  <2>4. \A ch : Voice(ch, <<>>) = <<>>
    BY VoiceNone
  <2>5. <<>> \o <<>> = <<>>
    OBVIOUS
  <2>6. <<>> \in Seq(Item)
    OBVIOUS
  <2>7. b \in Base
    BY <1>2, <2>6, JointIs
  <2> QED BY <2>3, <2>4, <2>5, <2>7 DEF Joint, Speaking
<1>5. f \in Fresh /\ f \in Context
  BY NewIsFresh, FreshIs
<1>6. Following(f, <<>>, b)
  <2> HIDE DEF b
  <2> QED BY <1>4, NewFollows
<1>7. x \in Context
  BY <1>5, InitialKeeps, SteadyIs
<1>8. way = "live" => ctx = Owed(x, <<>>) /\ pending = x.out
  BY <1>3
<1>9. way # "live" => ctx = f /\ pending = <<>>
  BY <1>3
<1>10. Following(x, <<>>, b)
  <2> HIDE DEF b, f
  <2> QED BY <1>4, <1>5, <1>6, InitialFollows
<1> HIDE DEF f, x
<1>11. Following(ctx, seen, Joint(client, pending))
  <2>1. CASE way = "live"
    <3>1. Following(Owed(x, <<>>), <<>>, Joint(client, x.out))
      BY <1>2, <1>7, <1>10, OwedOrder
    <3> QED BY <1>1, <1>8, <2>1, <3>1
  <2>2. CASE way # "live"
    BY <1>1, <1>6, <1>9, <2>2
  <2> QED BY <2>1, <2>2
<1>12. OrderRight
  BY <1>1, <1>11 DEF OrderRight
<1>13. seen \in Seq(UpstreamEvent)
  BY <1>1
<1>14. client.phase # "gone"
  BY <1>1 DEF Grammar!Nothing
<1> QED BY <1>1, <1>12, <1>13, <1>14 DEF OrderInv

\* The events of a chunk are translated, and their text is followed.
LEMMA TranslatedFollows ==
    ASSUME StreamInv, Waiting, seen \in Seq(UpstreamEvent), NEW b \in Base,
           Following(ctx, seen, b), NEW events \in Seq(UpstreamEvent)
    PROVE  Translated(ctx, events) \in Context /\ Following(Translated(ctx, events), seen \o events, b)
<1> DEFINE v == ViewOf(client)
           x == Translated(ctx, events)
<1>1. ctx \in Context /\ v \in View
  BY WaitingIs DEF StreamTypes
<1>2. x \in Context
  BY TranslatedKeeps, SteadyIs, FreshIs
<1>3. CASE ctx \in Steady(v)
  <2>1. x = FoldLeft(OnEvent, ctx, events)
    BY <1>3, SteadyIs DEF Translated
  <2>2. Following(FoldLeft(OnEvent, ctx, events), seen \o events, b)
    BY <1>1, <1>3, EventsFollow
  <2> QED BY <1>2, <2>1, <2>2
<1>4. CASE ctx \in Fresh /\ way = "buffered" /\ v = Blank0 /\ events = <<>>
  <2>1. x = FoldLeft(OnEvent, ctx, <<>>)
    BY <1>4 DEF Translated
  <2>2. seen \o events = seen
    BY <1>4
  <2> QED BY <1>2, <2>1, <2>2, NoEvents
<1>5. CASE ctx \in Fresh /\ way = "buffered" /\ v = Blank0 /\ events # <<>>
  <2> DEFINE y == Initial(ctx)
  <2>1. x = FoldLeft(OnEvent, y, events)
    BY <1>5, FreshIs DEF Translated
  <2>2. y \in Steady(v)
    BY <1>5, InitialKeeps
  <2>3. Following(y, seen, b)
    BY <1>1, InitialFollows
  <2> HIDE DEF y
  <2>4. Following(FoldLeft(OnEvent, y, events), seen \o events, b)
    BY <1>1, <2>2, <2>3, EventsFollow
  <2> QED BY <1>2, <2>1, <2>4
<1> QED BY <1>3, <1>4, <1>5, WaitingIs

\* A chunk arrives.
LEMMA ChunkOrder ==
    ASSUME OrderInv, Waiting, NEW cells \in Seq(Cell), NEW k \in Nat, k <= Len(cells),
           Chunk(cells, k), StreamInv'
    PROVE  OrderInv'
<1> DEFINE n == Len(cells) - k
           run == DecodeAll(Feed(decoder, SubSeq(cells, 1, n)))
           x == Translated(ctx, run.events)
           b == Joint(client, <<>>)
<1>1. /\ seen' = seen \o run.events /\ Release(x) /\ finished' = finished
      /\ client' = client
  BY DEF Chunk
<1>2. /\ StreamInv /\ ~finished /\ seen \in Seq(UpstreamEvent) /\ Following(ctx, seen, b)
      /\ client \in Client /\ pending = <<>> /\ client.phase # "gone"
  BY DEF OrderInv, OrderRight, Waiting, StreamInv, StreamTypes
<1>3. run.events \in Seq(UpstreamEvent)
  <2>1. n \in Nat /\ n <= Len(cells)
    <3>1. Len(cells) \in Nat
      OBVIOUS
    <3> QED BY <3>1
  <2> HIDE DEF n
  <2>2. SubSeq(cells, 1, n) \in Seq(Cell)
    BY <2>1, Cuts
  <2>3. Feed(decoder, SubSeq(cells, 1, n)) \in Decoder
    BY <1>2, <2>2, FeedKeeps DEF StreamInv, StreamTypes
  <2>4. run \in Run
    BY <2>3, DecodeAllKeeps
  <2> HIDE DEF run
  <2>5. run.events \in Seq(Content)
    BY <2>4 DEF Run
  <2> QED BY <2>5, ContentAssumption
<1> DEFINE events == run.events
<1>4. events \in Seq(UpstreamEvent) /\ seen' = seen \o events /\ x = Translated(ctx, events)
  BY <1>1, <1>3
<1>5. b \in Base
  BY <1>2, NoBlocks, JointIs
<1> HIDE DEF x, events
<1>6. x \in Context /\ Following(x, seen \o events, b)
  <2> HIDE DEF b
  <2> QED BY <1>2, <1>4, <1>5, TranslatedFollows
<1>7. Following(ctx', seen', Joint(client', pending'))
  <2>1. CASE way = "live"
    <3>1. ctx' = Owed(x, <<>>) /\ pending' = x.out
      BY <1>1, <2>1 DEF Release, Owed
    <3>2. Following(Owed(x, <<>>), seen \o events, Joint(client, x.out))
      BY <1>2, <1>6, OwedOrder
    <3> QED BY <1>1, <1>4, <3>1, <3>2
  <2>2. CASE way # "live"
    <3>1. ctx' = x /\ pending' = pending
      BY <1>1, <2>2 DEF Release
    <3> QED BY <1>1, <1>2, <1>4, <1>6, <3>1
  <2> QED BY <2>1, <2>2
<1>8. seen' \in Seq(UpstreamEvent)
  BY <1>2, <1>4
<1> QED BY <1>1, <1>2, <1>7, <1>8 DEF OrderInv, OrderRight

\* The last turn of the stream.
LEMMA FinishOrder ==
    ASSUME OrderInv, NEW x \in Context, Finish(x), Following(x, seen, Joint(client, <<>>)),
           \/ x \in Steady(ViewOf(client))
           \/ x \in Fresh /\ way = "buffered" /\ ViewOf(client) = Blank0,
           StreamInv'
    PROVE  OrderInv'
<1> DEFINE y == IF x.started THEN x ELSE Initial(x)
           v == ViewOf(client)
           z == Final(y)
           b == Joint(client, <<>>)
<1>1. /\ Waiting /\ finished' = TRUE /\ ctx' = Owed(z, <<>>) /\ pending' = z.out
      /\ UNCHANGED <<client, seen>>
  BY DEF Finish, Owed
<1>2. /\ StreamInv /\ seen \in Seq(UpstreamEvent) /\ ctx \in Context /\ client \in Client
  BY <1>1 DEF OrderInv, StreamInv, StreamTypes
<1>3. v \in View /\ b \in Base
  BY <1>2, ViewIs, NoBlocks, JointIs
<1>4. y \in Steady(v) /\ Following(y, seen, b)
  <2>1. y = x \/ y = Initial(x)
    OBVIOUS
  <2>2. Following(Initial(x), seen, b)
    <3> HIDE DEF b
    <3> QED BY <1>3, InitialFollows DEF b
  <2>3. y \in Steady(v)
    BY SteadyIs, FreshIs, InitialKeeps
  <2> QED BY <2>1, <2>2, <2>3
<1> HIDE DEF y, v, b
<1>5. z \in Context
  BY <1>3, <1>4, FinalConcludes DEF Concluded
<1>6. Finished(z, seen, b)
  BY <1>2, <1>3, <1>4, FinalSays
<1> HIDE DEF z
<1>7. Finished(Owed(z, <<>>), seen, Joint(client, z.out))
  BY <1>2, <1>5, <1>6, OwedOrder DEF b
<1>8. Finished(ctx', seen', Joint(client', pending'))
  BY <1>1, <1>7
<1> QED BY <1>1, <1>2, <1>8 DEF OrderInv, OrderRight

LEMMA OrderStep == OrderInv /\ [StreamNext]_streamVars => OrderInv'
<1> SUFFICES ASSUME OrderInv, [StreamNext]_streamVars PROVE OrderInv'
  OBVIOUS
<1>1. StreamInv /\ StreamInv' /\ seen \in Seq(UpstreamEvent)
  BY StreamStep DEF OrderInv
<1>2. CASE Deliver
  <2>1. client.phase # "gone" /\ client'.phase # "gone" /\ seen' = seen
    BY <1>1, <1>2, DeliverStays DEF Deliver, StreamInv, StreamTypes
  <2>2. OrderRight'
    BY <1>1, <1>2, <2>1, DeliverOrder DEF OrderInv
  <2> QED BY <1>1, <2>1, <2>2 DEF OrderInv
<1>3. CASE Disconnect
  <2>1. client'.phase = "gone" /\ seen' = <<>>
    BY <1>1, <1>3 DEF Disconnect, StreamInv, StreamTypes, Client
  <2> QED BY <1>1, <2>1 DEF OrderInv
<1>4. CASE Frame
  <2>1. PICK event \in Content, trouble \in Damage \cup {"none", "split", "held"} :
           Chunk(wire \o Cells(event, trouble),
                 CASE trouble = "split" -> 1
                   [] trouble = "held"  -> FrameLen
                   [] OTHER             -> 0)
    BY <1>4 DEF Frame
  <2> DEFINE k == CASE trouble = "split" -> 1
                    [] trouble = "held"  -> FrameLen
                    [] OTHER             -> 0
             more == Cells(event, trouble)
             cells == wire \o more
  <2>2. more \in Seq(Cell) /\ Len(more) = FrameLen
    BY CellsAre
  <2>3. k \in Nat /\ k <= FrameLen
    BY BoundsNat
  <2>4. wire \in Seq(Cell) /\ Waiting
    BY <1>1, <1>4 DEF StreamInv, StreamTypes, Frame
  <2>5. Chunk(cells, k)
    BY <2>1
  <2> HIDE DEF more, k
  <2>6. cells \in Seq(Cell) /\ Len(cells) = Len(wire) + Len(more)
        /\ Len(wire) \in Nat /\ Len(more) \in Nat
    BY <2>2, <2>4
  <2>7. k <= Len(cells)
    BY <2>2, <2>3, <2>6
  <2> HIDE DEF cells
  <2> QED BY <1>1, <2>3, <2>4, <2>5, <2>6, <2>7, ChunkOrder
<1>5. CASE Rest
  <2>1. Waiting /\ Chunk(wire, 0) /\ wire \in Seq(Cell)
    BY <1>1, <1>5 DEF Rest, StreamInv, StreamTypes
  <2>2. 0 \in Nat /\ 0 <= Len(wire)
    BY <2>1
  <2> QED BY <1>1, <2>1, <2>2, ChunkOrder
<1>6. CASE EndOfBody \/ IoError
  <2> DEFINE b == Joint(client, <<>>)
  <2>1. Waiting
    BY <1>6 DEF EndOfBody, IoError, Finish
  <2>2. /\ ViewOf(client) \in View /\ ctx \in Context
        /\ \/ ctx \in Steady(ViewOf(client))
           \/ ctx \in Fresh /\ way = "buffered" /\ ViewOf(client) = Blank0
    BY <1>1, <2>1, WaitingIs DEF StreamInv, StreamTypes
  <2>3. Following(ctx, seen, b)
    BY <2>1 DEF OrderInv, OrderRight, Waiting
  <2>4. CASE EndOfBody
    BY <1>1, <2>2, <2>3, <2>4, FinishOrder DEF EndOfBody
  <2>5. CASE IoError
    <3> DEFINE x == MarkFailure(ctx, "stream_io")
    <3>1. "stream_io" \in Failure
      BY DEF Failure
    <3>2. \/ x \in Steady(ViewOf(client))
          \/ x \in Fresh /\ way = "buffered" /\ ViewOf(client) = Blank0
      BY <2>2, <3>1, MarkFailureKeeps, MarkFresh
    <3>3. Finish(x)
      BY <2>5 DEF IoError
    <3>4. x \in Context
      BY <3>2, SteadyIs, FreshIs
    <3>5. b \in Base
      BY <1>1, NoBlocks, JointIs DEF StreamInv, StreamTypes
    <3>6. Following(x, seen, b)
      <4> DEFINE T == TextOf(seen)
      <4> HIDE DEF b
      <4>1. x.thinking = ctx.thinking
        BY <2>2, FailureMute, ContextCarries DEF Mute, AsIs
      <4> SUFFICES ASSUME ctx.thinking, Tame(seen), Unambiguous(T)
                   PROVE  On(x, T, b) /\ Rested(x) /\ ~x.native /\ ~x.reasoning
        BY <4>1 DEF Following
      <4>2. On(ctx, T, b) /\ Rested(ctx) /\ ~ctx.native /\ ~ctx.reasoning
        BY <2>3 DEF Following
      <4> HIDE DEF T
      <4>3. /\ On(MarkFailure(ctx, "stream_io"), T, b)
            /\ KeptOn(ctx, MarkFailure(ctx, "stream_io"))
            /\ Rested(ctx) => Rested(MarkFailure(ctx, "stream_io"))
        BY <3>5, <4>2, MinorOn
      <4> QED BY <4>2, <4>3 DEF KeptOn
    <3> HIDE DEF x
    <3> QED BY <1>1, <3>2, <3>3, <3>4, <3>6, FinishOrder
  <2> QED BY <1>6, <2>4, <2>5
<1>7. CASE UNCHANGED streamVars
  <2>1. OrderRight' <=> OrderRight
    BY <1>7 DEF streamVars, OrderRight
  <2> QED BY <1>1, <1>7, <2>1 DEF streamVars, OrderInv
<1> QED BY <1>2, <1>3, <1>4, <1>5, <1>6, <1>7 DEF StreamNext

LEMMA NoReasoning ==
    ASSUME NEW events \in Seq(UpstreamEvent), Tame(events)
    PROVE  ReasoningOf(events) = <<>>
<1> DEFINE n == Len(events)
           ss == [i \in DOMAIN events |-> IF events[i].kind = "reasoning" THEN events[i].text ELSE <<>>]
<1>1. n \in Nat /\ DOMAIN events = 1 .. n
  OBVIOUS
<1>2. ss = [i \in 1 .. n |-> <<>>]
  BY <1>1 DEF Tame
<1>3. ReasoningOf(events) = FlattenSeq(ss)
  BY DEF ReasoningOf
<1> HIDE DEF n, ss
<1>4. ss \in Seq(Seq(Char)) /\ Len(ss) = n /\ \A k \in 1 .. Len(ss) : ss[k] = <<>>
  BY <1>1, <1>2, NoText
<1>5. FlattenSeq(ss) = IF 0 \in 1 .. Len(ss) THEN ss[0] ELSE <<>>
  BY <1>4, FlattenSingle
<1> QED BY <1>1, <1>3, <1>4, <1>5

LEMMA SaysSame == OrderInv => SameWords
<1> DEFINE T == TextOf(seen)
           whole == WholeContent(seen, TRUE)
<1> SUFFICES ASSUME OrderInv, client.phase = "stopped", ctx.thinking,
                    Kinds \cap {"tool", "reasoning"} = {}, Unambiguous(T), HasThinking(T)
             PROVE  /\ Said("thinking") = Letters(whole.thinking)
                    /\ Said("text") = Letters(whole.text)
  BY DEF SameWords
<1>1. /\ StreamInv /\ OrderRight /\ client \in Client /\ seen \in Seq(UpstreamEvent)
  BY DEF OrderInv, StreamInv, StreamTypes
<1>2. finished /\ pending = <<>> /\ ctx.failure = "none" /\ ctx.out = <<>>
  BY <1>1, StoppedIsOver
<1>3. Tame(seen)
  BY DEF Kinds, Tame
<1>4. whole = Extract(T)
  <2>1. ReasoningOf(seen) = <<>>
    BY <1>1, <1>3, NoReasoning
  <2> QED BY <2>1 DEF WholeContent
<1>5. Complete(ctx, T, Joint(client, <<>>))
  BY <1>1, <1>2, <1>3 DEF OrderRight, Finished
<1>6. ASSUME NEW ch \in Speaking
      PROVE  Uttered(ctx, Joint(client, <<>>), ch) = Said(ch)
  <2> DEFINE s == Shows(ch, client)
             k == Letters(s)
  <2>1. s \in Seq(Char)
    BY <1>1, ShowsAre
  <2>2. Voice(ch, <<>>) = <<>> /\ Letters(<<>>) = <<>>
    BY VoiceNone, Newline
  <2>3. Shown(ch) = s
    BY DEF Shown, Shows, Page, Writ
  <2>4. Joint(client, <<>>)[ch] = s \o <<>>
    BY <2>2 DEF Joint
  <2> HIDE DEF s
  <2>5. s \o <<>> = s /\ k \in Seq(Char)
    BY <2>1, LettersAre
  <2>6. Uttered(ctx, Joint(client, <<>>), ch) = k \o <<>>
    BY <1>2, <2>2, <2>4, <2>5 DEF Uttered
  <2>7. Said(ch) = k
    BY <2>3 DEF Said
  <2> HIDE DEF k
  <2>8. k \o <<>> = k
    BY <2>5
  <2> QED BY <2>6, <2>7, <2>8
<1> HIDE DEF T, whole
<1> QED BY <1>4, <1>5, <1>6 DEF Complete, Speaking

\* As long as the text quotes no tag and neither a tool call nor native reasoning
\* cuts it, the scan for tags has sent on, in order and to the right kind of block, all of
\* the text that it does not hold back, wherever the chunks ended
\* (stream.rs, process_content_with_thinking and what calls it).
THEOREM OrderInvariant == StreamSpec => []OrderInv
<1>1. StreamInit => OrderInv
  BY OrderStart
<1>2. OrderInv /\ [StreamNext]_streamVars => OrderInv'
  BY OrderStep
<1> QED BY <1>1, <1>2, PTL DEF StreamSpec

\* A streamed answer says the same, thought and spoken, as the answer that is not
\* streamed (stream.rs:175-176, and handlers.rs on a request without a stream), however
\* the text is cut into chunks.
THEOREM StreamsSayTheSame == StreamSpec => []SameWords
BY OrderInvariant, SaysSame, PTL
=============================================================================
