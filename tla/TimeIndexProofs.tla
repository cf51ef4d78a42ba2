---------------------------- MODULE TimeIndexProofs ----------------------------
(***************************************************************************)
(* What the bisections of TimeIndex compute, for entries of any number in  *)
(* order of time.                                                          *)
(*                                                                         *)
(* A recursive function is a choice of a function that satisfies its       *)
(* equation: LinearRecursion and TypedRecursion show that there is one     *)
(* when every argument leads to a smaller one.  What it computes is then   *)
(* proved by descent: of the sizes at which it would be wrong there would  *)
(* be a least (LeastNatural).                                              *)
(***************************************************************************)
EXTENDS TimeIndex, SequencesExt, TLAPS, WellFoundedInduction, SequenceTheorems

\* A set of natural numbers has a least.
LEMMA LeastNatural ==
  ASSUME NEW T, T \subseteq Nat, T # {}
  PROVE  \E m \in T : \A k \in T : m <= k
<1>1. PICK m \in T : \A k \in T : ~ (<<k, m>> \in OpToRel(<, Nat))
  BY NatLessThanWellFounded, WFMin
<1>2. \A k \in T : ~ (k < m)
  BY <1>1 DEF OpToRel
<1> QED
  BY <1>2

\* One unfolding of a recursive definition over D: on stop the value is given, on
\* tail it is that of the next argument, and elsewhere made from it.
Unfolded(f, D, stop, tail, base, next, comb) ==
  [r \in D |-> IF r \in stop THEN base[r]
               ELSE IF r \in tail THEN f[next[r]]
               ELSE comb[<<r, f[next[r]]>>]]

\* The next argument is smaller, by a size of at most n.
Descends(D, stop, next, size, n) ==
  /\ n \in Nat /\ size \in [D -> 0 .. n]
  /\ \A r \in D : r \notin stop => next[r] \in D /\ size[next[r]] < size[r]

\* A function that is given by recursion to smaller arguments exists: the choice
\* that defines a recursive function is of one that satisfies its equation.
LEMMA LinearRecursion ==
  ASSUME NEW D, NEW stop, NEW tail, NEW base, NEW next, NEW comb, NEW size, NEW n,
         Descends(D, stop, next, size, n)
  PROVE  \E f : f = Unfolded(f, D, stop, tail, base, next, comb)
<1>s. n \in Nat /\ \A r \in D : size[r] \in Nat /\ size[r] <= n
  BY DEF Descends
<1>d. \A r \in D : r \notin stop => next[r] \in D /\ size[next[r]] < size[r]
  BY DEF Descends
<1> DEFINE Step(f) == [r \in D |-> IF r \in stop THEN base[r]
                                 ELSE IF r \in tail THEN f[next[r]]
                                 ELSE comb[<<r, f[next[r]]>>]]
           Upto(g, m) == \A r \in D : size[r] < m => g[r] = Step(g)[r]
           wrong == {m \in Nat : ~ \E g : Upto(g, m)}
<1>1. \A m \in Nat : \E g : Upto(g, m)
  <2> SUFFICES ASSUME wrong # {} PROVE FALSE
    OBVIOUS
  <2>1. PICK m \in wrong : \A k \in wrong : m <= k
    <3> HIDE DEF Upto
    <3> QED
      BY LeastNatural
  <2>2. m \in Nat /\ ~ \E g : Upto(g, m)
    <3> HIDE DEF Upto
    <3> QED
      OBVIOUS
  <2>3. m # 0
    <3>1. \A r \in D : ~ (size[r] < 0)
      <4> HIDE DEF Step, Upto, wrong
      <4> QED
        BY <1>s
    <3>2. Upto(base, 0)
      <4> HIDE DEF Step
      <4> QED
        BY <3>1
    <3> HIDE DEF Upto
    <3> QED
      BY <2>2, <3>2
  <2>4. PICK g : Upto(g, m - 1)
    <3> HIDE DEF Upto
    <3>1. m - 1 \in Nat /\ ~ (m <= m - 1)
      BY <2>2, <2>3
    <3>2. m - 1 \notin wrong
      BY <2>1, <3>1
    <3> QED
      BY <3>1, <3>2
  <2> DEFINE h == [r \in D |-> IF size[r] < m - 1 THEN g[r] ELSE Step(g)[r]]
  <2>5. ASSUME NEW r \in D, size[r] < m PROVE h[r] = Step(h)[r]
    <3>1. h[r] = Step(g)[r]
      <4> HIDE DEF Step
      <4> QED
        BY <2>4
    <3>2. r \notin stop => h[next[r]] = g[next[r]]
      <4>1. r \notin stop => next[r] \in D /\ size[next[r]] < m - 1
        <5> HIDE DEF Upto, Step, wrong, h
        <5> QED
          BY <1>s, <1>d, <2>2, <2>5
      <4> HIDE DEF Step, Upto, wrong
      <4> QED
        BY <4>1
    <3> HIDE DEF h
    <3> QED
      BY <3>1, <3>2
  <2>6. Upto(h, m)
    <3> HIDE DEF h, Step
    <3> QED
      BY <2>5
  <2> HIDE DEF h, Upto
  <2> QED
    BY <2>2, <2>6
<1>2. PICK g : Upto(g, n + 1)
  <2> HIDE DEF Upto
  <2> QED
    BY <1>s, <1>1
<1>3. \A r \in D : g[r] = Step(g)[r]
  <2>1. \A r \in D : size[r] < n + 1
    BY <1>s
  <2> HIDE DEF Step
  <2> QED
    BY <1>2, <2>1
<1> DEFINE f == [r \in D |-> g[r]]
<1>4. f = Step(f)
  <2>1. \A r \in D : r \notin stop => f[next[r]] = g[next[r]]
    BY <1>d
  <2>2. \A r \in D : Step(f)[r] = Step(g)[r]
    <3> HIDE DEF f
    <3> QED
      BY <2>1
  <2>3. \A r \in D : f[r] = Step(f)[r]
    <3> HIDE DEF Step
    <3> QED
      BY <1>3, <2>2
  <2> HIDE DEF f
  <2>4. DOMAIN f = D /\ DOMAIN Step(f) = D /\ f = [r \in D |-> f[r]]
    BY DEF f
  <2> QED
    BY <2>3, <2>4
<1> HIDE DEF f
<1> QED
  BY <1>4 DEF Unfolded

\* What is given, and what is made of a value in V, is in V.
StaysIn(V, D, stop, tail, base, comb) ==
  /\ \A r \in D : r \in stop => base[r] \in V
  /\ \A r \in D, v \in V : r \notin stop /\ r \notin tail => comb[<<r, v>>] \in V

\* A function given by recursion has its values where those it is made of lie.
LEMMA TypedRecursion ==
  ASSUME NEW D, NEW stop, NEW tail, NEW base, NEW next, NEW comb, NEW size, NEW n,
         Descends(D, stop, next, size, n),
         NEW V, StaysIn(V, D, stop, tail, base, comb)
  PROVE  \E f \in [D -> V] : f = Unfolded(f, D, stop, tail, base, next, comb)
<1>1. PICK f : f = Unfolded(f, D, stop, tail, base, next, comb)
  BY LinearRecursion
<1>2. /\ f = [r \in D |-> f[r]]
      /\ \A r \in D : f[r] = IF r \in stop THEN base[r]
                             ELSE IF r \in tail THEN f[next[r]]
                             ELSE comb[<<r, f[next[r]]>>]
  BY <1>1 DEF Unfolded
<1>3. \A r \in D : size[r] \in Nat
  BY DEF Descends
<1>4. \A r \in D : r \notin stop => next[r] \in D /\ size[next[r]] < size[r]
  BY DEF Descends
<1> DEFINE wrong == {k \in Nat : \E r \in D : size[r] = k /\ f[r] \notin V}
<1>5. ASSUME wrong # {} PROVE FALSE
  <2>1. PICK k \in wrong : \A j \in wrong : k <= j
    BY <1>5, LeastNatural
  <2>2. PICK r \in D : size[r] = k /\ f[r] \notin V
    BY <2>1
  <2>3. r \notin stop
    BY <1>2, <2>2 DEF StaysIn
  <2>4. next[r] \in D /\ size[next[r]] < k /\ size[next[r]] \in Nat /\ k \in Nat
    BY <1>3, <1>4, <2>2, <2>3
  <2>5. size[next[r]] \notin wrong
    <3> HIDE DEF wrong
    <3> QED
      BY <2>1, <2>4
  <2>6. f[next[r]] \in V
    BY <2>4, <2>5
  <2>7. r \notin tail => comb[<<r, f[next[r]]>>] \in V
    BY <2>3, <2>6 DEF StaysIn
  <2> QED
    BY <1>2, <2>2, <2>3, <2>6, <2>7
<1>6. \A r \in D : f[r] \in V
  BY <1>3, <1>5
<1> QED
  BY <1>1, <1>2, <1>6

\* The turns of a loop: each makes a value of the one before.
Looped(f, n, first, comb) ==
  [i \in 0 .. n |-> IF i = 0 THEN first ELSE comb[<<i, f[i - 1]>>]]

\* It starts in V and stays there.
LoopIn(V, n, first, comb) ==
  n \in Nat /\ first \in V /\ \A i \in 1 .. n, v \in V : comb[<<i, v>>] \in V

\* A loop that stays in V exists.
LEMMA LoopExists ==
  ASSUME NEW n, NEW V, NEW first, NEW comb, LoopIn(V, n, first, comb)
  PROVE  \E f \in [0 .. n -> V] : f = Looped(f, n, first, comb)
<1>n. n \in Nat /\ first \in V /\ \A i \in 1 .. n, v \in V : comb[<<i, v>>] \in V
  BY DEF LoopIn
<1> DEFINE D == 0 .. n
           stop == {0}
           tail == {}
           base == [i \in D |-> first]
           next == [i \in D |-> i - 1]
           size == [i \in D |-> i]
<1>1. Descends(D, stop, next, size, n)
  <2>1. size \in [D -> 0 .. n]
    BY <1>n
  <2>2. ASSUME NEW r \in D, r \notin stop PROVE next[r] \in D /\ size[next[r]] < size[r]
    <3>1. r \in Nat /\ r - 1 \in D /\ r - 1 < r
      BY <1>n, <2>2
    <3> QED
      BY <3>1
  <2> HIDE DEF D, stop, next, size
  <2> QED
    BY <1>n, <2>1, <2>2 DEF Descends
<1>2. StaysIn(V, D, stop, tail, base, comb)
  <2>1. \A r \in D : r \notin stop => r \in 1 .. n
    BY <1>n
  <2>2. \A r \in D : base[r] \in V
    BY <1>n
  <2> HIDE DEF D, stop, base
  <2> QED
    BY <1>n, <2>1, <2>2 DEF StaysIn
<1>3. PICK f \in [0 .. n -> V] : f = Unfolded(f, D, stop, tail, base, next, comb)
  <2>1. \E f \in [D -> V] : f = Unfolded(f, D, stop, tail, base, next, comb)
    <3> HIDE DEF D, stop, tail, base, next, size
    <3> QED
      BY <1>1, <1>2, TypedRecursion
  <2> HIDE DEF stop, tail, base, next, size
  <2> QED
    BY <2>1
<1>4. Unfolded(f, D, stop, tail, base, next, comb) = Looped(f, n, first, comb)
  BY DEF Unfolded, Looped
<1> HIDE DEF D, stop, tail, base, next
<1> QED
  BY <1>3, <1>4

\* What a loop keeps: a set that no turn of it leaves.
LEMMA LoopValues ==
  ASSUME NEW n \in Nat, NEW V, NEW f, f[0] \in V,
         \A i \in 1 .. n : f[i - 1] \in V => f[i] \in V
  PROVE  \A i \in 0 .. n : f[i] \in V
<1> DEFINE wrong == {i \in 0 .. n : f[i] \notin V}
<1>1. ASSUME wrong # {} PROVE FALSE
  <2>1. PICK k \in wrong : \A j \in wrong : k <= j
    <3>1. wrong \subseteq Nat
      OBVIOUS
    <3> HIDE DEF wrong
    <3> QED
      BY <1>1, <3>1, LeastNatural
  <2>2. k \in 1 .. n /\ k - 1 \in 0 .. n /\ ~ (k <= k - 1)
    BY <2>1
  <2>3. k - 1 \notin wrong
    BY <2>1, <2>2
  <2> QED
    BY <2>1, <2>2, <2>3
<1> QED
  BY <1>1

-----------------------------------------------------------------------------
(* The filter.                                                             *)

\* It keeps the wanted items and no other, in their order.
THEOREM KeepingSifts ==
  ASSUME NEW T, NEW s \in Seq(T), NEW wanted
  PROVE  LET r == Keeping(s, wanted)
         IN /\ r \in Seq(T)
            /\ \A k \in DOMAIN r : \E i \in DOMAIN s : s[i] \in wanted /\ r[k] = s[i]
            /\ \A i \in DOMAIN s : s[i] \in wanted => \E k \in DOMAIN r : r[k] = s[i]
            /\ \A j, k \in DOMAIN r : j < k =>
                 \E a, b \in DOMAIN s : a < b /\ r[j] = s[a] /\ r[k] = s[b]
<1> DEFINE n == Len(s)
           D == 0 .. n
           In(i) == s[i] \in wanted
           Step(f) == [i \in D |-> IF i = 0 THEN <<>>
                                   ELSE IF In(i) THEN Append(f[i - 1], s[i]) ELSE f[i - 1]]
           Kept == CHOOSE f : f = Step(f)
<1>n. n \in Nat /\ DOMAIN s = 1 .. n /\ \A i \in 1 .. n : s[i] \in T
  OBVIOUS
<1>1. Keeping(s, wanted) = Kept[n]
  BY DEF Keeping
<1>2. Kept = Step(Kept)
  <2> DEFINE V == Seq(T)
             stop == {0}
             tail == {i \in D : ~ In(i)}
             base == [i \in D |-> <<>>]
             next == [i \in D |-> i - 1]
             comb == [p \in D \X V |-> Append(p[2], s[p[1]])]
             size == [i \in D |-> i]
  <2>1. Descends(D, stop, next, size, n)
    <3>1. size \in [D -> 0 .. n]
      OBVIOUS
    <3>2. ASSUME NEW r \in D, r \notin stop PROVE next[r] \in D /\ size[next[r]] < size[r]
      <4>1. r \in Nat /\ r - 1 \in D /\ r - 1 < r
        BY <1>n, <3>2
      <4> QED
        BY <4>1
    <3> HIDE DEF size, next, stop, D
    <3> QED
      BY <1>n, <3>1, <3>2 DEF Descends
  <2>2. \A r \in D : r \in stop => base[r] \in V
    OBVIOUS
  <2>3. ASSUME NEW r \in D, NEW v \in V, r \notin stop PROVE comb[<<r, v>>] \in V /\ comb[<<r, v>>] = Append(v, s[r])
    <3>1. r \in 1 .. n
      BY <1>n, <2>3
    <3>2. s[r] \in T
      BY <1>n, <3>1
    <3>3. Append(v, s[r]) \in Seq(T)
      BY <3>2
    <3>4. comb[<<r, v>>] = Append(v, s[r])
      OBVIOUS
    <3> QED
      BY <3>3, <3>4
  <2>4. PICK f \in [D -> V] : f = Unfolded(f, D, stop, tail, base, next, comb)
    <3>1. StaysIn(V, D, stop, tail, base, comb)
      <4> HIDE DEF V, stop, tail, base, comb, D
      <4> QED
        BY <2>2, <2>3 DEF StaysIn
    <3> HIDE DEF V, stop, tail, base, next, comb, size, D
    <3> QED
      BY <2>1, <3>1, TypedRecursion
  <2>5. f = Step(f)
    <3>1. ASSUME NEW i \in D PROVE f[i] = Step(f)[i]
      <4>1. f[i] = IF i \in stop THEN base[i]
                   ELSE IF i \in tail THEN f[next[i]]
                   ELSE comb[<<i, f[next[i]]>>]
        <5> HIDE DEF V, stop, tail, base, next, comb, size, D
        <5> QED
          BY <2>4 DEF Unfolded
      <4>2. Step(f)[i] = IF i = 0 THEN <<>> ELSE IF In(i) THEN Append(f[i - 1], s[i]) ELSE f[i - 1]
        OBVIOUS
      <4>3. CASE i = 0
        BY <4>1, <4>2, <4>3
      <4>4. CASE i # 0
        <5>1. i \notin stop /\ (i \in tail <=> ~ In(i)) /\ next[i] = i - 1
          BY <4>4
        <5>2. f[i - 1] \in V
          <6>1. i - 1 \in D
            BY <1>n, <4>4
          <6> HIDE DEF V, D
          <6> QED
            BY <6>1
        <5>3. comb[<<i, f[i - 1]>>] = Append(f[i - 1], s[i])
          <6> HIDE DEF V, D, comb
          <6> QED
            BY <2>3, <5>1, <5>2
        <5> HIDE DEF stop, tail, next, comb, In, D, V, Step
        <5> QED
          BY <4>1, <4>2, <4>4, <5>1, <5>3
      <4> QED
        BY <4>3, <4>4
    <3>2. f = [i \in D |-> f[i]] /\ Step(f) = [i \in D |-> Step(f)[i]]
      <4> HIDE DEF V
      <4> QED
        OBVIOUS
    <3> HIDE DEF Step, D
    <3> QED
      BY <3>1, <3>2
  <2> HIDE DEF Step
  <2> QED
    BY <2>5
<1> HIDE DEF Kept
<1>3. \A i \in D : Kept[i] = IF i = 0 THEN <<>>
                             ELSE IF In(i) THEN Append(Kept[i - 1], s[i]) ELSE Kept[i - 1]
  <2>1. \A i \in D : Step(Kept)[i] = IF i = 0 THEN <<>>
                             ELSE IF In(i) THEN Append(Kept[i - 1], s[i]) ELSE Kept[i - 1]
    OBVIOUS
  <2> HIDE DEF Step, D, In
  <2> QED
    BY <1>2, <2>1
<1> HIDE DEF Step
<1> DEFINE Good(i) == /\ Kept[i] \in Seq(T)
                      /\ \A k \in 1 .. Len(Kept[i]) : \E j \in 1 .. i : In(j) /\ Kept[i][k] = s[j]
                      /\ \A j \in 1 .. i : In(j) => \E k \in 1 .. Len(Kept[i]) : Kept[i][k] = s[j]
                      /\ \A j, k \in 1 .. Len(Kept[i]) : j < k =>
                           \E a, b \in 1 .. i : a < b /\ Kept[i][j] = s[a] /\ Kept[i][k] = s[b]
           wrong == {i \in Nat : i <= n /\ ~ Good(i)}
<1>4. ASSUME NEW i \in 1 .. n, Good(i - 1) PROVE Good(i)
  <2> DEFINE k0 == Kept[i - 1]
  <2>1. /\ k0 \in Seq(T) /\ Len(k0) \in Nat
        /\ \A k \in 1 .. Len(k0) : \E j \in 1 .. i - 1 : In(j) /\ k0[k] = s[j]
        /\ \A j \in 1 .. i - 1 : In(j) => \E k \in 1 .. Len(k0) : k0[k] = s[j]
        /\ \A j, k \in 1 .. Len(k0) : j < k =>
             \E a, b \in 1 .. i - 1 : a < b /\ k0[j] = s[a] /\ k0[k] = s[b]
    <3>1. Good(i - 1)
      BY <1>4
    <3>2. k0 \in Seq(T)
      BY <3>1
    <3>3. Len(k0) \in Nat
      BY <3>2
    <3> HIDE DEF In
    <3> QED
      BY <3>1, <3>2, <3>3
  <2>2. /\ i \in D /\ i # 0 /\ s[i] \in T /\ i \in 1 .. i
        /\ \A j \in 1 .. i : j \in 1 .. i - 1 \/ j = i
    BY <1>n
  <2>3. \A j \in 1 .. i - 1 : j \in 1 .. i /\ j < i
    BY <1>n
  <2> HIDE DEF k0, D
  <2>4. CASE ~ In(i)
    <3>1. Kept[i] = k0
      BY <1>3, <2>2, <2>4 DEF k0
    <3> HIDE DEF In
    <3> QED
      BY <2>1, <2>2, <2>3, <2>4, <3>1
  <2>5. CASE In(i)
    <3>1. Kept[i] = Append(k0, s[i])
      BY <1>3, <2>2, <2>5 DEF k0
    <3>2. /\ Kept[i] \in Seq(T) /\ Len(Kept[i]) = Len(k0) + 1
          /\ \A k \in 1 .. Len(k0) : Kept[i][k] = k0[k]
          /\ Kept[i][Len(k0) + 1] = s[i]
      BY <2>1, <2>2, <3>1, AppendProperties
    <3>3. \A k \in 1 .. Len(Kept[i]) : k \in 1 .. Len(k0) \/ k = Len(k0) + 1
      BY <2>1, <3>2
    <3>4. \A k \in 1 .. Len(k0) : k \in 1 .. Len(Kept[i])
      BY <2>1, <3>2
    <3>5. Len(k0) + 1 \in 1 .. Len(Kept[i])
      BY <2>1, <3>2
    <3>6. \A k \in 1 .. Len(Kept[i]) : \E j \in 1 .. i : In(j) /\ Kept[i][k] = s[j]
      <4> HIDE DEF In
      <4> QED
        BY <2>1, <2>2, <2>3, <2>5, <3>2, <3>3
    <3>7. \A j \in 1 .. i : In(j) => \E k \in 1 .. Len(Kept[i]) : Kept[i][k] = s[j]
      <4> HIDE DEF In
      <4>1. ASSUME NEW j \in 1 .. i - 1, In(j) PROVE \E k \in 1 .. Len(Kept[i]) : Kept[i][k] = s[j]
        <5>1. PICK k \in 1 .. Len(k0) : k0[k] = s[j]
          BY <2>1, <4>1
        <5> QED
          BY <3>2, <3>4, <5>1
      <4>2. \E k \in 1 .. Len(Kept[i]) : Kept[i][k] = s[i]
        BY <3>2, <3>5
      <4> QED
        BY <2>2, <4>1, <4>2
    <3>8. ASSUME NEW j \in 1 .. Len(Kept[i]), NEW k \in 1 .. Len(Kept[i]), j < k
          PROVE  \E a, b \in 1 .. i : a < b /\ Kept[i][j] = s[a] /\ Kept[i][k] = s[b]
      <4>1. j \in 1 .. Len(k0)
        BY <2>1, <3>2, <3>8
      <4>2. CASE k \in 1 .. Len(k0)
        <5>1. PICK a \in 1 .. i - 1, b \in 1 .. i - 1 : a < b /\ k0[j] = s[a] /\ k0[k] = s[b]
          BY <2>1, <3>8, <4>1, <4>2
        <5> QED
          BY <2>3, <3>2, <4>1, <4>2, <5>1
      <4>3. CASE k = Len(k0) + 1
        <5>1. PICK a \in 1 .. i - 1 : k0[j] = s[a]
          BY <2>1, <4>1
        <5> QED
          BY <2>2, <2>3, <3>2, <4>1, <4>3, <5>1
      <4> QED
        BY <3>3, <4>2, <4>3
    <3> HIDE DEF In
    <3> QED
      BY <3>2, <3>6, <3>7, <3>8
  <2> QED
    BY <2>4, <2>5
<1>5. Good(0)
  <2>1. Kept[0] = <<>>
    BY <1>n, <1>3
  <2>2. <<>> \in Seq(T) /\ Len(<<>>) = 0
    OBVIOUS
  <2>3. \A k \in 1 .. 0 : FALSE
    OBVIOUS
  <2> HIDE DEF In
  <2> QED
    BY <2>1, <2>2, <2>3
<1>6. ASSUME wrong # {} PROVE FALSE
  <2> HIDE DEF Good
  <2>1. PICK i \in wrong : \A j \in wrong : i <= j
    BY <1>6, LeastNatural
  <2>2. i # 0 /\ i \in Nat /\ i <= n /\ ~ Good(i)
    BY <1>5
  <2>3. i \in 1 .. n /\ i - 1 \in Nat /\ i - 1 <= n /\ ~ (i <= i - 1)
    BY <1>n, <2>2
  <2>4. Good(i - 1)
    BY <2>1, <2>3
  <2> QED
    BY <1>4, <2>2, <2>3, <2>4
<1>7. Good(n)
  <2> HIDE DEF Good
  <2> QED
    BY <1>n, <1>6
<1> DEFINE r == Kept[n]
<1>8. /\ r \in Seq(T) /\ DOMAIN r = 1 .. Len(r)
      /\ \A k \in 1 .. Len(r) : \E j \in 1 .. n : In(j) /\ r[k] = s[j]
      /\ \A j \in 1 .. n : In(j) => \E k \in 1 .. Len(r) : r[k] = s[j]
      /\ \A j, k \in 1 .. Len(r) : j < k =>
           \E a, b \in 1 .. n : a < b /\ r[j] = s[a] /\ r[k] = s[b]
  BY <1>7
<1>9. Keeping(s, wanted) = r
  BY <1>1
<1> HIDE DEF r
<1> HIDE DEF n
<1>10. ASSUME NEW k \in DOMAIN r PROVE \E i \in DOMAIN s : s[i] \in wanted /\ r[k] = s[i]
  BY <1>n, <1>8
<1>11. ASSUME NEW i \in DOMAIN s, s[i] \in wanted PROVE \E k \in DOMAIN r : r[k] = s[i]
  BY <1>n, <1>8, <1>11
<1>12. ASSUME NEW j \in DOMAIN r, NEW k \in DOMAIN r, j < k
       PROVE  \E a, b \in DOMAIN s : a < b /\ r[j] = s[a] /\ r[k] = s[b]
  <2>1. j \in 1 .. Len(r) /\ k \in 1 .. Len(r)
    BY <1>8
  <2>2. PICK a \in 1 .. n, b \in 1 .. n : a < b /\ r[j] = s[a] /\ r[k] = s[b]
    BY <1>8, <1>12, <2>1
  <2> QED
    BY <1>n, <2>2
<1>13. r \in Seq(T)
  BY <1>8
<1> QED
  BY <1>9, <1>10, <1>11, <1>12, <1>13

-----------------------------------------------------------------------------
(* The bisections.                                                         *)

\* Entries in order of time.
Sorted(entries) ==
  /\ Len(entries) \in Nat
  /\ \A i \in 1 .. Len(entries) : entries[i].time \in Int
  /\ \A i, j \in 1 .. Len(entries) : i <= j => entries[i].time <= entries[j].time

\* In entries in order of time, those up to some time come first.
LEMMA SortedCut ==
  ASSUME NEW entries, Sorted(entries), NEW time \in Int
  PROVE  \E c \in 0 .. Len(entries) : \A i \in 1 .. Len(entries) : entries[i].time <= time <=> i <= c
<1> DEFINE n == Len(entries)
           late == {i \in 1 .. n + 1 : i <= n => entries[i].time > time}
<1>1. n \in Nat /\ late \subseteq Nat /\ n + 1 \in late
  BY DEF Sorted
<1>2. PICK m \in late : \A k \in late : m <= k
  BY <1>1, LeastNatural
<1>3. m - 1 \in 0 .. n
  BY <1>1, <1>2
<1>4. ASSUME NEW i \in 1 .. n PROVE entries[i].time <= time <=> i <= m - 1
  BY <1>1, <1>2 DEF Sorted
<1> QED
  BY <1>3, <1>4

\* A bisection over the pairs lo, hi: how many entries are no later than time.
THEOREM PositionIsCut ==
  ASSUME NEW entries, Sorted(entries), NEW time \in Int,
         NEW c \in 0 .. Len(entries),
         \A i \in 1 .. Len(entries) : entries[i].time <= time <=> i <= c
  PROVE  Position(entries, time) = c
<1> DEFINE n == Len(entries)
           Pairs == (0 .. n) \X (0 .. n)
           Cut(lo, hi) == IF c < lo THEN lo ELSE IF c > hi THEN hi ELSE c
           Step(f) == [r \in Pairs |->
                         IF r[1] >= r[2] THEN r[1]
                         ELSE IF entries[(r[1] + r[2]) \div 2 + 1].time <= time
                                THEN f[<<(r[1] + r[2]) \div 2 + 1, r[2]>>]
                                ELSE f[<<r[1], (r[1] + r[2]) \div 2>>]]
           Bisect == CHOOSE f : f = Step(f)
           W == [r \in Pairs |-> IF r[1] >= r[2] THEN r[1] ELSE Cut(r[1], r[2])]
<1>n. n \in Nat
  BY DEF Sorted
<1>1. Position(entries, time) = Bisect[<<0, n>>]
  BY DEF Position
<1>m. ASSUME NEW r \in Pairs, r[1] < r[2]
      PROVE  LET mid == (r[1] + r[2]) \div 2 IN
             /\ mid \in r[1] .. r[2] - 1
             /\ <<mid + 1, r[2]>> \in Pairs /\ <<r[1], mid>> \in Pairs
             /\ entries[mid + 1].time <= time <=> mid + 1 <= c
  BY <1>n, <1>m
<1>2. W = Step(W)
  <2>1. ASSUME NEW r \in Pairs PROVE Step(W)[r] = W[r]
    <3>1. CASE r[1] >= r[2]
      BY <3>1
    <3>2. CASE r[1] < r[2]
      <4> DEFINE m == (r[1] + r[2]) \div 2
      <4>1. /\ m \in r[1] .. r[2] - 1
            /\ <<m + 1, r[2]>> \in Pairs /\ <<r[1], m>> \in Pairs
            /\ entries[m + 1].time <= time <=> m + 1 <= c
        BY <1>m, <3>2
      <4>2. Step(W)[r] = IF entries[m + 1].time <= time THEN W[<<m + 1, r[2]>>]
                         ELSE W[<<r[1], m>>]
        BY <1>n, <3>2
      <4> HIDE DEF m
      <4>3. W[<<m + 1, r[2]>>] = Cut(m + 1, r[2])
        BY <1>n, <3>2, <4>1
      <4>4. W[<<r[1], m>>] = Cut(r[1], m)
        BY <1>n, <3>2, <4>1
      <4>5. W[r] = Cut(r[1], r[2])
        BY <1>n, <3>2
      <4> HIDE DEF W, Step
      <4> QED
        BY <1>n, <3>2, <4>1, <4>2, <4>3, <4>4, <4>5
    <3> QED BY <1>n, <3>1, <3>2
  <2> QED BY <2>1
<1>3. Bisect = Step(Bisect)
  <2> HIDE DEF Step, W
  <2> QED BY <1>2
<1>4. ASSUME NEW lo \in 0 .. n, NEW hi \in 0 .. n
      PROVE  Bisect[<<lo, hi>>] =
               IF lo >= hi THEN lo
               ELSE IF (lo + hi) \div 2 + 1 <= c
                      THEN Bisect[<<(lo + hi) \div 2 + 1, hi>>]
                      ELSE Bisect[<<lo, (lo + hi) \div 2>>]
  <2> HIDE DEF Bisect
  <2> DEFINE r == <<lo, hi>>
  <2>1. r \in Pairs /\ r[1] = lo /\ r[2] = hi
    OBVIOUS
  <2> HIDE DEF r
  <2>2. Bisect[r] = Step(Bisect)[r]
    BY <1>3
  <2>4. Step(Bisect)[r] = IF lo >= hi THEN lo
                          ELSE IF entries[(lo + hi) \div 2 + 1].time <= time
                                 THEN Bisect[<<(lo + hi) \div 2 + 1, hi>>]
                                 ELSE Bisect[<<lo, (lo + hi) \div 2>>]
    BY <2>1
  <2> HIDE DEF Step
  <2>3. lo < hi => (entries[(lo + hi) \div 2 + 1].time <= time <=> (lo + hi) \div 2 + 1 <= c)
    BY <1>n
  <2> QED
    BY <2>2, <2>3, <2>4, <1>n DEF r
<1> HIDE DEF Bisect
<1>5. ASSUME NEW lo \in 0 .. n, NEW hi \in 0 .. n, lo <= hi PROVE Bisect[<<lo, hi>>] = Cut(lo, hi)
  <2> DEFINE wrong == {d \in Nat : \E a, b \in 0 .. n : b - a = d /\ Bisect[<<a, b>>] # Cut(a, b)}
  <2> SUFFICES ASSUME wrong # {} PROVE FALSE
    <3>1. hi - lo \in Nat
      BY <1>n, <1>5
    <3>2. hi - lo \notin wrong => Bisect[<<lo, hi>>] = Cut(lo, hi)
      BY <3>1
    <3> QED
      BY <3>2
  <2>1. PICK d \in wrong : \A e \in wrong : d <= e
    BY LeastNatural
  <2>2. PICK a \in 0 .. n, b \in 0 .. n : b - a = d /\ Bisect[<<a, b>>] # Cut(a, b)
    BY <2>1
  <2>3. d \in Nat
    OBVIOUS
  <2>4. ASSUME NEW x \in 0 .. n, NEW y \in 0 .. n, x <= y, y - x < d PROVE Bisect[<<x, y>>] = Cut(x, y)
    <3>1. y - x \in Nat /\ ~ (d <= y - x)
      BY <1>n, <2>3, <2>4
    <3>2. y - x \notin wrong
      BY <2>1, <3>1
    <3> QED
      BY <3>1, <3>2
  <2> HIDE DEF wrong
  <2> DEFINE mid == (a + b) \div 2
  <2>5. CASE a >= b
    <3>1. a = b /\ Cut(a, b) = a
      BY <1>n, <2>2, <2>3, <2>5
    <3>2. Bisect[<<a, b>>] = a
      BY <1>4, <2>5
    <3> QED
      BY <2>2, <3>1, <3>2
  <2>6. CASE a < b
    <3>1. mid \in a .. b - 1 /\ mid + 1 \in 0 .. n /\ mid \in 0 .. n
      BY <1>n, <2>6
    <3>2. Bisect[<<a, b>>] = IF mid + 1 <= c THEN Bisect[<<mid + 1, b>>] ELSE Bisect[<<a, mid>>]
      BY <1>4, <2>6
    <3> HIDE DEF mid
    <3>3. Bisect[<<mid + 1, b>>] = Cut(mid + 1, b)
      BY <2>2, <2>3, <2>4, <3>1, <1>n
    <3>4. Bisect[<<a, mid>>] = Cut(a, mid)
      BY <2>2, <2>3, <2>4, <3>1, <1>n
    <3> QED
      BY <2>2, <3>1, <3>2, <3>3, <3>4, <1>n
  <2> QED
    BY <2>5, <2>6, <1>n
<1>6. Cut(0, n) = c
  BY <1>n
<1> QED
  BY <1>1, <1>5, <1>6, <1>n

\* A message as near to a time as any other.
Nearest(entries, at, k) ==
  /\ k \in 1 .. Len(entries)
  /\ \A i \in 1 .. Len(entries) : Distance(entries[k].time, at) <= Distance(entries[i].time, at)

\* What is beyond one of two neighbours of a time is no nearer than that one.
LEMMA BeyondIsFarther ==
  ASSUME NEW at \in Int, NEW x \in Int, NEW near \in Int,
         (x <= near /\ near < at) \/ (at < near /\ near <= x)
  PROVE  Distance(near, at) <= Distance(x, at)
BY DEF Distance

\* Of two neighbours around a time the closer one is as near as any.
LEMMA ClosestOfTwo ==
  ASSUME NEW entries, Sorted(entries), NEW at \in Int,
         NEW lo \in 2 .. Len(entries), entries[lo - 1].time < at, at < entries[lo].time
  PROVE  \E k : Nearest(entries, at, k) /\ Closer(entries, lo, lo - 1, at) = entries[k]
<1> DEFINE hi == lo - 1
<1>n. Len(entries) \in Nat
  BY DEF Sorted
<1>1. hi \in 1 .. Len(entries) /\ lo \in 1 .. Len(entries)
  BY <1>n
<1>3. \A i \in 1 .. Len(entries) : entries[i].time \in Int
  BY DEF Sorted
<1>4. ASSUME NEW i \in 1 .. Len(entries)
      PROVE  \/ Distance(entries[hi].time, at) <= Distance(entries[i].time, at)
             \/ Distance(entries[lo].time, at) <= Distance(entries[i].time, at)
  <2>1. entries[hi].time < at /\ at < entries[lo].time
    OBVIOUS
  <2>2. entries[i].time <= entries[hi].time \/ entries[lo].time <= entries[i].time
    <3>1. \A p, q \in 1 .. Len(entries) : p <= q => entries[p].time <= entries[q].time
      BY DEF Sorted
    <3>2. i <= hi \/ lo <= i
      BY <1>n
    <3> QED
      BY <1>1, <3>1, <3>2
  <2>3. entries[hi].time \in Int /\ entries[lo].time \in Int /\ entries[i].time \in Int
    BY <1>1, <1>3
  <2> HIDE DEF hi
  <2>4. PICK l \in Int, h \in Int, x \in Int :
          l = entries[hi].time /\ h = entries[lo].time /\ x = entries[i].time
    BY <2>3
  <2>5. (x <= l => Distance(l, at) <= Distance(x, at)) /\ (h <= x => Distance(h, at) <= Distance(x, at))
    BY <2>1, <2>4, BeyondIsFarther
  <2> QED
    BY <2>2, <2>4, <2>5
<1>5. \A i \in 1 .. Len(entries) : Distance(entries[i].time, at) \in Int
  BY <1>3 DEF Distance
<1> HIDE DEF hi
<1>6. CASE Distance(entries[hi].time, at) <= Distance(entries[lo].time, at)
  <2>1. Nearest(entries, at, hi)
    BY <1>1, <1>4, <1>5, <1>6 DEF Nearest
  <2>2. Closer(entries, lo, hi, at) = entries[hi]
    BY <1>6 DEF Closer
  <2> QED
    BY <2>1, <2>2 DEF hi
<1>7. CASE ~ Distance(entries[hi].time, at) <= Distance(entries[lo].time, at)
  <2>1. Nearest(entries, at, lo)
    BY <1>1, <1>4, <1>5, <1>7 DEF Nearest
  <2>2. Closer(entries, lo, hi, at) = entries[lo]
    BY <1>7 DEF Closer
  <2> QED
    BY <2>1, <2>2 DEF hi
<1> QED
  BY <1>6, <1>7

\* findNearest finds an entry as near as any other, if there is one.
THEOREM NearestFound ==
  ASSUME NEW entries, Sorted(entries), NEW at \in Int
  PROVE  IF Len(entries) = 0 THEN FindNearest(entries, at) = <<>>
         ELSE \E k : Nearest(entries, at, k) /\ FindNearest(entries, at) = <<entries[k]>>
<1> DEFINE n == Len(entries)
           Pairs == (1 .. n + 1) \X (0 .. n)
           Mid(r) == (r[1] - 1 + r[2] - 1) \div 2 + 1
           Step(f) == [r \in Pairs |->
                         IF r[1] > r[2] THEN Closer(entries, r[1], r[2], at)
                         ELSE IF entries[Mid(r)].time = at THEN entries[Mid(r)]
                         ELSE IF entries[Mid(r)].time < at THEN f[<<Mid(r) + 1, r[2]>>]
                         ELSE f[<<r[1], Mid(r) - 1>>]]
           Bisect == CHOOSE f : f = Step(f)
<1>n. n \in Nat /\ \A i \in 1 .. n : entries[i].time \in Int
  BY DEF Sorted
<1>1. FindNearest(entries, at) =
        CASE n = 0 -> <<>>
          [] n > 0 /\ at <= entries[1].time -> <<entries[1]>>
          [] n > 0 /\ at > entries[1].time /\ at >= entries[n].time -> <<entries[n]>>
          [] OTHER -> <<Bisect[<<1, n>>]>>
  BY DEF FindNearest
<1>m. ASSUME NEW r \in Pairs, r[1] <= r[2]
      PROVE  /\ Mid(r) \in r[1] .. r[2]
             /\ <<Mid(r) + 1, r[2]>> \in Pairs /\ <<r[1], Mid(r) - 1>> \in Pairs
             /\ Mid(r) \in 1 .. n
  BY <1>n, <1>m
<1>2. Bisect = Step(Bisect)
  <2> DEFINE size == [r \in Pairs |-> IF r[1] > r[2] THEN 0 ELSE r[2] - r[1] + 1]
             stop == {r \in Pairs : r[1] > r[2] \/ entries[Mid(r)].time = at}
             base == [r \in Pairs |-> IF r[1] > r[2] THEN Closer(entries, r[1], r[2], at)
                                      ELSE entries[Mid(r)]]
             next == [r \in Pairs |-> IF entries[Mid(r)].time < at THEN <<Mid(r) + 1, r[2]>>
                                      ELSE <<r[1], Mid(r) - 1>>]
  <2>1. size \in [Pairs -> 0 .. n]
    BY <1>n
  <2>2. ASSUME NEW r \in Pairs, r \notin stop PROVE next[r] \in Pairs /\ size[next[r]] < size[r]
    <3>1. r[1] <= r[2] /\ r[1] \in Int /\ r[2] \in Int
      BY <1>n, <2>2
    <3>2. next[r] = <<Mid(r) + 1, r[2]>> \/ next[r] = <<r[1], Mid(r) - 1>>
      OBVIOUS
    <3>3. next[r] \in Pairs
      BY <1>m, <3>1, <3>2
    <3>4. size[<<Mid(r) + 1, r[2]>>] < size[r] /\ size[<<r[1], Mid(r) - 1>>] < size[r]
      <4> DEFINE m == Mid(r)
      <4>1. m \in r[1] .. r[2] /\ <<m + 1, r[2]>> \in Pairs /\ <<r[1], m - 1>> \in Pairs
        BY <1>m, <3>1
      <4> HIDE DEF m
      <4>2. size[r] = r[2] - r[1] + 1
        BY <3>1
      <4>3. /\ size[<<m + 1, r[2]>>] = IF m + 1 > r[2] THEN 0 ELSE r[2] - (m + 1) + 1
            /\ size[<<r[1], m - 1>>] = IF r[1] > m - 1 THEN 0 ELSE m - 1 - r[1] + 1
        BY <4>1
      <4> HIDE DEF size
      <4>4. size[<<m + 1, r[2]>>] < size[r]
        BY <3>1, <4>1, <4>2, <4>3
      <4>5. size[<<r[1], m - 1>>] < size[r]
        BY <3>1, <4>1, <4>2, <4>3
      <4> QED
        BY <4>4, <4>5 DEF m
    <3> HIDE DEF size, next
    <3> QED
      BY <3>2, <3>3, <3>4
  <2>3. Descends(Pairs, stop, next, size, n)
    <3> HIDE DEF size, stop, next, Pairs
    <3> QED
      BY <1>n, <2>1, <2>2 DEF Descends
  <2>4. PICK f : f = Unfolded(f, Pairs, stop, Pairs, base, next, base)
    <3> HIDE DEF size, stop, base, next, Pairs
    <3> QED
      BY <2>3, LinearRecursion
  <2>5. f = Step(f)
    <3>1. ASSUME NEW r \in Pairs PROVE f[r] = Step(f)[r]
      <4> DEFINE m == Mid(r)
      <4>1. f[r] = IF r \in stop THEN base[r] ELSE f[next[r]]
        <5> HIDE DEF stop, base, next, Pairs
        <5> QED
          BY <2>4 DEF Unfolded
      <4>2. r \in stop <=> r[1] > r[2] \/ entries[m].time = at
        OBVIOUS
      <4>3. base[r] = IF r[1] > r[2] THEN Closer(entries, r[1], r[2], at) ELSE entries[m]
        OBVIOUS
      <4>4. next[r] = IF entries[m].time < at THEN <<m + 1, r[2]>> ELSE <<r[1], m - 1>>
        OBVIOUS
      <4>5. Step(f)[r] = IF r[1] > r[2] THEN Closer(entries, r[1], r[2], at)
                         ELSE IF entries[m].time = at THEN entries[m]
                         ELSE IF entries[m].time < at THEN f[<<m + 1, r[2]>>]
                         ELSE f[<<r[1], m - 1>>]
        OBVIOUS
      <4> HIDE DEF m, stop, base, next, Step, Pairs
      <4> QED
        BY <4>1, <4>2, <4>3, <4>4, <4>5
    <3>2. DOMAIN f = Pairs /\ f = [r \in Pairs |-> f[r]]
      <4> HIDE DEF stop, base, next, Pairs
      <4> QED
        BY <2>4 DEF Unfolded
    <3>3. Step(f) = [r \in Pairs |-> Step(f)[r]]
      OBVIOUS
    <3> HIDE DEF Step, Pairs
    <3> QED
      BY <3>1, <3>2, <3>3
  <2> HIDE DEF Step
  <2> QED
    BY <2>5
<1> DEFINE Found(x) == \E k : Nearest(entries, at, k) /\ x = entries[k]
           Around(a, b) == /\ a <= b + 1
                           /\ \A i \in 1 .. n : i < a => entries[i].time < at
                           /\ \A i \in 1 .. n : i > b => entries[i].time > at
<1>3. ASSUME NEW a \in 1 .. n + 1, NEW b \in 0 .. n
      PROVE  LET m == (a - 1 + b - 1) \div 2 + 1 IN
             Bisect[<<a, b>>] = IF a > b THEN Closer(entries, a, b, at)
                                ELSE IF entries[m].time = at THEN entries[m]
                                ELSE IF entries[m].time < at THEN Bisect[<<m + 1, b>>]
                                ELSE Bisect[<<a, m - 1>>]
  <2> HIDE DEF Bisect
  <2> DEFINE r == <<a, b>>
             m == (a - 1 + b - 1) \div 2 + 1
  <2>1. r \in Pairs /\ r[1] = a /\ r[2] = b
    OBVIOUS
  <2> HIDE DEF r
  <2>2. Bisect[r] = Step(Bisect)[r]
    BY <1>2
  <2>3. Step(Bisect)[r] = IF a > b THEN Closer(entries, a, b, at)
                          ELSE IF entries[m].time = at THEN entries[m]
                          ELSE IF entries[m].time < at THEN Bisect[<<m + 1, b>>]
                          ELSE Bisect[<<a, m - 1>>]
    BY <2>1
  <2> HIDE DEF Step, m
  <2>4. Bisect[<<a, b>>] = IF a > b THEN Closer(entries, a, b, at)
                          ELSE IF entries[m].time = at THEN entries[m]
                          ELSE IF entries[m].time < at THEN Bisect[<<m + 1, b>>]
                          ELSE Bisect[<<a, m - 1>>]
    BY <2>2, <2>3 DEF r
  <2> QED
    BY <2>4 DEF m
<1> HIDE DEF Bisect
<1>4. ASSUME n > 0, entries[1].time < at, at < entries[n].time PROVE Found(Bisect[<<1, n>>])
  <2> DEFINE wrong == {d \in Nat : \E a \in 1 .. n + 1, b \in 0 .. n :
                         b - a + 1 = d /\ Around(a, b) /\ ~ Found(Bisect[<<a, b>>])}
  <2>0. Around(1, n)
    BY <1>n
  <2> SUFFICES ASSUME wrong # {} PROVE FALSE
    <3>1. 1 \in 1 .. n + 1 /\ n \in 0 .. n /\ n - 1 + 1 = n
      BY <1>n
    <3> HIDE DEF Around, Found
    <3> QED
      BY <1>n, <2>0, <3>1
  <2>1. PICK d \in wrong : \A e \in wrong : d <= e
    <3> HIDE DEF Around, Found
    <3> QED
      BY LeastNatural
  <2>2. PICK a \in 1 .. n + 1, b \in 0 .. n : b - a + 1 = d /\ Around(a, b) /\ ~ Found(Bisect[<<a, b>>])
    <3> HIDE DEF Around, Found
    <3> QED
      BY <2>1
  <2>3. d \in Nat
    OBVIOUS
  <2>4. ASSUME NEW x \in 1 .. n + 1, NEW y \in 0 .. n, Around(x, y), y - x + 1 < d
        PROVE  Found(Bisect[<<x, y>>])
    <3>1. y - x + 1 \in Nat /\ ~ (d <= y - x + 1)
      BY <1>n, <2>3, <2>4
    <3>2. y - x + 1 \notin wrong
      BY <2>1, <3>1
    <3> HIDE DEF Around, Found
    <3> QED
      BY <2>4, <3>1, <3>2
  <2> HIDE DEF wrong
  <2>5. CASE a > b
    <3>1. a = b + 1
      BY <1>n, <2>2, <2>5
    <3>2. a # 1 /\ a # n + 1
      BY <1>n, <1>4, <2>2, <3>1
    <3>3. a \in 2 .. n /\ entries[a - 1].time < at /\ at < entries[a].time /\ b = a - 1
      BY <1>n, <2>2, <3>1, <3>2
    <3>4. Bisect[<<a, b>>] = Closer(entries, a, b, at)
      BY <1>3, <2>5
    <3> QED
      BY <2>2, <3>3, <3>4, ClosestOfTwo
  <2>6. CASE a <= b
    <3> DEFINE m == (a - 1 + b - 1) \div 2 + 1
    <3>1. m \in a .. b /\ m \in 1 .. n /\ m + 1 \in 1 .. n + 1 /\ m - 1 \in 0 .. n
      BY <1>n, <2>6
    <3>2. Bisect[<<a, b>>] = IF entries[m].time = at THEN entries[m]
                             ELSE IF entries[m].time < at THEN Bisect[<<m + 1, b>>]
                             ELSE Bisect[<<a, m - 1>>]
      BY <1>3, <2>6, <1>n
    <3> HIDE DEF m
    <3>3. CASE entries[m].time = at
      <4>1. Nearest(entries, at, m)
        BY <1>n, <3>1, <3>3 DEF Nearest, Distance
      <4> QED
        BY <2>2, <3>2, <3>3, <4>1
    <3>4. CASE entries[m].time < at
      <4>1. Around(m + 1, b)
        BY <1>n, <2>2, <3>1, <3>4 DEF Sorted
      <4>2. b - (m + 1) + 1 < d
        BY <1>n, <2>2, <3>1
      <4> HIDE DEF Around, Found
      <4> QED
        BY <2>2, <2>4, <3>1, <3>2, <3>4, <4>1, <4>2
    <3>5. CASE entries[m].time > at
      <4>1. Around(a, m - 1)
        BY <1>n, <2>2, <3>1, <3>5 DEF Sorted
      <4>2. m - 1 - a + 1 < d
        BY <1>n, <2>2, <3>1
      <4>3. ~ (entries[m].time = at) /\ ~ (entries[m].time < at)
        BY <1>n, <3>1, <3>5
      <4> HIDE DEF Around, Found
      <4> QED
        BY <2>2, <2>4, <3>1, <3>2, <4>1, <4>2, <4>3
    <3> QED
      BY <1>n, <3>1, <3>3, <3>4, <3>5
  <2> QED
    BY <1>n, <2>5, <2>6
<1>5. CASE n = 0
  BY <1>1, <1>5
<1>6. CASE n > 0 /\ at <= entries[1].time
  <2>1. FindNearest(entries, at) = <<entries[1]>>
    <3>1. ~ (n = 0) /\ ~ (at > entries[1].time)
      BY <1>n, <1>6
    <3> QED
      BY <1>1, <1>6, <3>1
  <2>2. Nearest(entries, at, 1)
    <3>1. \A i \in 1 .. n : entries[1].time <= entries[i].time
      BY <1>n, <1>6 DEF Sorted
    <3>2. ASSUME NEW i \in 1 .. n
          PROVE  Distance(entries[1].time, at) <= Distance(entries[i].time, at)
      <4>1. entries[1].time \in Int /\ entries[i].time \in Int
        BY <1>n, <1>6
      <4>2. entries[1].time <= entries[i].time
        BY <3>1
      <4> QED
        BY <1>6, <4>1, <4>2 DEF Distance
    <3> QED
      BY <1>n, <1>6, <3>2 DEF Nearest
  <2> QED
    BY <1>n, <1>6, <2>1, <2>2
<1>7. CASE n > 0 /\ at > entries[1].time /\ at >= entries[n].time
  <2>1. FindNearest(entries, at) = <<entries[n]>>
    <3>1. ~ (at <= entries[1].time) /\ ~ (n = 0)
      BY <1>n, <1>7
    <3> QED
      BY <1>1, <1>7, <3>1
  <2>2. Nearest(entries, at, n)
    <3>1. \A i \in 1 .. n : entries[i].time <= entries[n].time
      BY <1>n, <1>7 DEF Sorted
    <3>2. ASSUME NEW i \in 1 .. n
          PROVE  Distance(entries[n].time, at) <= Distance(entries[i].time, at)
      <4>1. entries[n].time \in Int /\ entries[i].time \in Int
        BY <1>n, <1>7
      <4>2. entries[i].time <= entries[n].time
        BY <3>1
      <4> QED
        BY <1>7, <4>1, <4>2 DEF Distance
    <3> QED
      BY <1>n, <1>7, <3>2 DEF Nearest
  <2> QED
    BY <1>n, <1>7, <2>1, <2>2
<1>8. CASE n > 0 /\ at > entries[1].time /\ at < entries[n].time
  <2>1. ~ (at <= entries[1].time) /\ ~ (n = 0) /\ ~ (at >= entries[n].time) /\ entries[1].time < at
    BY <1>n, <1>8
  <2>2. FindNearest(entries, at) = <<Bisect[<<1, n>>]>>
    BY <1>1, <1>8, <2>1
  <2>3. Found(Bisect[<<1, n>>])
    BY <1>4, <1>8, <2>1
  <2> QED
    BY <2>1, <2>2, <2>3
<1> QED
  BY <1>n, <1>5, <1>6, <1>7, <1>8

-----------------------------------------------------------------------------
(* Insertion.                                                              *)

\* To insert is to put an element between a front and a back.
LEMMA InsertAtParts ==
  ASSUME NEW s, NEW i, NEW m
  PROVE  InsertAt(s, i, m) = SubSeq(s, 1, i - 1) \o <<m>> \o SubSeq(s, i, Len(s))
BY DEF InsertAt

\* What comes of an insertion: the elements before the place, the new one and the
\* others behind it.
LEMMA InsertAtValues ==
  ASSUME NEW T, NEW s \in Seq(T), NEW m \in T, NEW c \in 0 .. Len(s)
  PROVE  LET r == InsertAt(s, c + 1, m)
         IN /\ r \in Seq(T) /\ Len(r) = Len(s) + 1 /\ ToSet(r) = ToSet(s) \cup {m}
            /\ \A i \in 1 .. Len(s) + 1 :
                 r[i] = IF i <= c THEN s[i] ELSE IF i = c + 1 THEN m ELSE s[i - 1]
<1> DEFINE L == Len(s)
<1>1. L \in Nat /\ DOMAIN s = 1 .. L
  OBVIOUS
<1>3. \A i \in 1 .. L : s[i] \in T
  OBVIOUS
<1>4. c \in 0 .. L
  OBVIOUS
<1> DEFINE r == InsertAt(s, c + 1, m)
           front == SubSeq(s, 1, c)
           back  == SubSeq(s, c + 1, L)
<1>5. /\ front \in Seq(T) /\ Len(front) = c
      /\ \A i \in 1 .. c : front[i] = s[i]
  <2>1. 1 \in Int /\ c \in Int /\ \A i \in 1 .. c : s[i] \in T
    BY <1>1, <1>3, <1>4
  <2>2. /\ SubSeq(s, 1, c) \in Seq(T)
        /\ Len(SubSeq(s, 1, c)) = IF 1 <= c THEN c - 1 + 1 ELSE 0
        /\ \A i \in 1 .. c - 1 + 1 : SubSeq(s, 1, c)[i] = s[1 + i - 1]
    BY <2>1, SubSeqProperties
  <2>3. c - 1 + 1 = c /\ \A i \in 1 .. c : 1 + i - 1 = i
    BY <2>1
  <2>4. Len(front) = c
    BY <1>4, <2>2, <2>3
  <2> HIDE DEF front
  <2> QED
    BY <2>2, <2>3, <2>4 DEF front
<1>6. /\ back \in Seq(T) /\ Len(back) = L - c
      /\ \A i \in 1 .. L - c : back[i] = s[c + i]
  <2>1. c + 1 \in Int /\ L \in Int /\ \A i \in c + 1 .. L : s[i] \in T
    BY <1>1, <1>3, <1>4
  <2>2. /\ SubSeq(s, c + 1, L) \in Seq(T)
        /\ Len(SubSeq(s, c + 1, L)) = IF c + 1 <= L THEN L - (c + 1) + 1 ELSE 0
        /\ \A i \in 1 .. L - (c + 1) + 1 : SubSeq(s, c + 1, L)[i] = s[c + 1 + i - 1]
    BY <2>1, SubSeqProperties
  <2>3. L - (c + 1) + 1 = L - c /\ \A i \in 1 .. L - c : c + 1 + i - 1 = c + i
    BY <1>1, <1>4
  <2>6. c \in Nat /\ (c = L \/ c < L) /\ L \in Nat
    <3>1. L \in Nat /\ c \in 0 .. L
      BY <1>1, <1>4
    <3> HIDE DEF L, back, front, r
    <3> QED
      BY <3>1
  <2>5. (IF c + 1 <= L THEN L - (c + 1) + 1 ELSE 0) = L - c
    <3>1. CASE c = L
      <4>1. ~ (c + 1 <= L) /\ L - c = 0
        BY <2>6, <3>1
      <4> QED
        BY <4>1
    <3>2. CASE c < L
      <4>1. c + 1 <= L /\ L - (c + 1) + 1 = L - c
        BY <2>6, <3>2
      <4> QED
        BY <4>1
    <3> QED
      BY <2>6, <3>1, <3>2
  <2>4. Len(back) = L - c
    BY <2>2, <2>5
  <2> HIDE DEF back
  <2> QED
    BY <2>2, <2>3, <2>4 DEF back
<1>7. r = front \o <<m>> \o back
  <2>1. c + 1 - 1 = c
    BY <1>1, <1>4
  <2>2. PICK k \in Int : k = c + 1 /\ k - 1 = c
    BY <2>1
  <2>3. InsertAt(s, k, m) = SubSeq(s, 1, k - 1) \o <<m>> \o SubSeq(s, k, L)
    BY InsertAtParts
  <2> QED
    BY <2>2, <2>3
<1> HIDE DEF front, back, r
<1> DEFINE first == front \o <<m>>
<1>8. /\ first \in Seq(T) /\ Len(first) = c + 1
      /\ \A i \in 1 .. c + 1 : first[i] = IF i <= c THEN s[i] ELSE m
  <2>1. <<m>> \in Seq(T) /\ Len(<<m>>) = 1 /\ <<m>>[1] = m
    OBVIOUS
  <2>2. /\ first \in Seq(T) /\ Len(first) = Len(front) + 1
        /\ \A i \in 1 .. Len(front) + 1 :
             first[i] = IF i <= Len(front) THEN front[i] ELSE <<m>>[i - Len(front)]
    BY <1>5, <2>1, ConcatProperties
  <2>3. \A i \in 1 .. c + 1 : i <= c \/ i - c = 1
    BY <1>4
  <2>4. \A i \in 1 .. c + 1 : i <= c => i \in 1 .. c
    BY <1>4
  <2> HIDE DEF first
  <2> QED
    BY <1>5, <2>1, <2>2, <2>3, <2>4
<1> HIDE DEF first
<1>9. /\ r \in Seq(T) /\ Len(r) = L + 1
      /\ \A i \in 1 .. L + 1 : r[i] = IF i <= c THEN s[i] ELSE IF i = c + 1 THEN m ELSE s[i - 1]
  <2>1. r = first \o back
    BY <1>7 DEF first
  <2>2. /\ r \in Seq(T) /\ Len(r) = Len(first) + Len(back)
        /\ \A i \in 1 .. Len(first) + Len(back) :
             r[i] = IF i <= Len(first) THEN first[i] ELSE back[i - Len(first)]
    BY <1>6, <1>8, <2>1, ConcatProperties
  <2>3. Len(first) + Len(back) = L + 1
    BY <1>1, <1>4, <1>6, <1>8
  <2>4. ASSUME NEW i \in 1 .. L + 1
        PROVE  r[i] = IF i <= c THEN s[i] ELSE IF i = c + 1 THEN m ELSE s[i - 1]
    <3>1. CASE i <= c + 1
      <4>1. i \in 1 .. c + 1 /\ r[i] = first[i]
        BY <1>1, <1>4, <1>8, <2>2, <2>3, <3>1
      <4>2. i <= c \/ i = c + 1
        BY <1>4, <3>1
      <4> QED
        BY <1>8, <4>1, <4>2
    <3>2. CASE i > c + 1
      <4>1. i - (c + 1) \in 1 .. L - c /\ c + (i - (c + 1)) = i - 1 /\ ~ (i <= c) /\ i # c + 1
        <5>1. L \in Nat /\ c \in Nat /\ i \in Nat /\ i <= L + 1
          BY <1>1
        <5> HIDE DEF L
        <5> QED
          BY <3>2, <5>1
      <4>2. r[i] = back[i - (c + 1)]
        BY <1>8, <2>2, <2>3, <3>2
      <4> QED
        BY <1>6, <4>1, <4>2
    <3> QED
      BY <1>4, <3>1, <3>2
  <2> QED
    BY <2>2, <2>3, <2>4
<1>10. ToSet(r) = ToSet(s) \cup {m}
  <2>1. DOMAIN r = 1 .. L + 1
    BY <1>9
  <2>2. ASSUME NEW i \in 1 .. L + 1 PROVE r[i] \in ToSet(s) \cup {m}
    <3>1. i <= c \/ i = c + 1 \/ i > c + 1
      BY <1>4
    <3>2. i <= c => i \in 1 .. L
      BY <1>1, <1>4
    <3>3. i > c + 1 => i - 1 \in 1 .. L /\ ~ (i <= c) /\ i # c + 1
      BY <1>1, <1>4
    <3>4. i = c + 1 => ~ (i <= c)
      BY <1>4
    <3> QED
      BY <1>1, <1>9, <3>1, <3>2, <3>3, <3>4 DEF ToSet
  <2>3. ASSUME NEW i \in 1 .. L PROVE s[i] \in ToSet(r)
    <3>1. CASE i <= c
      <4>1. i \in 1 .. L + 1 /\ r[i] = s[i]
        BY <1>1, <1>9, <3>1
      <4> QED
        BY <2>1, <4>1 DEF ToSet
    <3>2. CASE i > c
      <4>1. i + 1 \in 1 .. L + 1 /\ ~ (i + 1 <= c) /\ i + 1 # c + 1 /\ i + 1 - 1 = i
        BY <1>1, <1>4, <3>2
      <4>2. r[i + 1] = s[i]
        BY <1>9, <4>1
      <4> QED
        BY <2>1, <4>1, <4>2 DEF ToSet
    <3> QED
      BY <1>4, <3>1, <3>2
  <2>4. m \in ToSet(r)
    <3>1. c + 1 \in 1 .. L + 1 /\ ~ (c + 1 <= c)
      BY <1>1, <1>4
    <3>2. r[c + 1] = m
      BY <1>9, <3>1
    <3> QED
      BY <2>1, <3>1, <3>2 DEF ToSet
  <2> QED
    BY <1>1, <2>1, <2>2, <2>3, <2>4 DEF ToSet
<1> QED
  BY <1>9, <1>10 DEF r

\* What is inserted at its position keeps a sequence in order of time.
LEMMA InsertKeepsSorted ==
  ASSUME NEW T, NEW s \in Seq(T), Sorted(s), NEW m \in T, m.time \in Int
  PROVE  LET r == InsertAt(s, Position(s, m.time) + 1, m)
         IN r \in Seq(T) /\ Sorted(r) /\ ToSet(r) = ToSet(s) \cup {m}
<1> DEFINE L == Len(s)
<1>1. L \in Nat /\ \A i \in 1 .. L : s[i].time \in Int
  BY DEF Sorted
<1>2. PICK c \in 0 .. L : \A i \in 1 .. L : s[i].time <= m.time <=> i <= c
  BY SortedCut
<1>3. Position(s, m.time) = c
  BY <1>2, PositionIsCut
<1> DEFINE r == InsertAt(s, c + 1, m)
<1>4. r \in Seq(T) /\ Len(r) = L + 1 /\ ToSet(r) = ToSet(s) \cup {m}
  <2>1. c \in 0 .. Len(s)
    BY <1>2
  <2> HIDE DEF L, r
  <2>2. /\ InsertAt(s, c + 1, m) \in Seq(T) /\ Len(InsertAt(s, c + 1, m)) = Len(s) + 1
        /\ ToSet(InsertAt(s, c + 1, m)) = ToSet(s) \cup {m}
    BY <2>1, InsertAtValues
  <2> QED
    BY <2>2 DEF L, r
<1>5. \A i \in 1 .. Len(s) + 1 :
        InsertAt(s, c + 1, m)[i] = IF i <= c THEN s[i] ELSE IF i = c + 1 THEN m ELSE s[i - 1]
  <2>1. c \in 0 .. Len(s)
    BY <1>2
  <2> HIDE DEF L, r
  <2> QED
    BY <2>1, InsertAtValues
<1>6. \A i \in 1 .. L + 1 : r[i] = IF i <= c THEN s[i] ELSE IF i = c + 1 THEN m ELSE s[i - 1]
  BY <1>5
<1> HIDE DEF r
<1>7. \A i, j \in 1 .. L : i <= j => s[i].time <= s[j].time
  BY DEF Sorted
<1> HIDE DEF L
<1>8. ASSUME NEW i \in 1 .. L + 1
      PROVE  /\ r[i].time \in Int
             /\ i <= c => i \in 1 .. L /\ r[i] = s[i] /\ s[i].time <= m.time
             /\ i = c + 1 => r[i] = m
             /\ i > c + 1 => i - 1 \in 1 .. L /\ r[i] = s[i - 1] /\ s[i - 1].time > m.time
  <2>1. CASE i <= c
    <3>1. i \in 1 .. L /\ r[i] = s[i] /\ ~ (i = c + 1) /\ ~ (i > c + 1)
      BY <1>1, <1>2, <1>6, <2>1
    <3> QED
      BY <1>1, <1>2, <2>1, <3>1
  <2>2. CASE i = c + 1
    <3>1. r[i] = m /\ ~ (i <= c) /\ ~ (i > c + 1)
      BY <1>1, <1>2, <1>6, <2>2
    <3> QED
      BY <2>2, <3>1
  <2>3. CASE i > c + 1
    <3>1. i - 1 \in 1 .. L /\ ~ (i <= c) /\ ~ (i = c + 1) /\ ~ (i - 1 <= c)
      BY <1>1, <1>2, <2>3
    <3>2. r[i] = s[i - 1] /\ s[i - 1].time \in Int /\ ~ (s[i - 1].time <= m.time)
      BY <1>1, <1>2, <1>6, <3>1
    <3> QED
      BY <3>1, <3>2
  <2> QED
    BY <1>1, <1>2, <2>1, <2>2, <2>3
<1>9. ASSUME NEW i \in 1 .. L + 1, NEW j \in 1 .. L + 1, i <= j
      PROVE  r[i].time <= r[j].time
  <2>1. CASE j <= c
    BY <1>1, <1>2, <1>7, <1>8, <1>9, <2>1
  <2>2. CASE j = c + 1
    <3>1. i <= c \/ i = c + 1
      BY <1>1, <1>2, <1>9, <2>2
    <3> QED
      BY <1>8, <2>2, <3>1
  <2>3. CASE j > c + 1
    <3>1. j - 1 \in 1 .. L /\ r[j] = s[j - 1] /\ s[j - 1].time > m.time /\ s[j - 1].time \in Int
      BY <1>1, <1>8, <2>3
    <3>2. CASE i <= c
      <4>1. i \in 1 .. L /\ r[i] = s[i] /\ i <= j - 1
        BY <1>1, <1>2, <1>8, <2>3, <3>2
      <4> QED
        BY <1>7, <3>1, <4>1
    <3>3. CASE i = c + 1
      BY <1>8, <3>1, <3>3
    <3>4. CASE i > c + 1
      <4>1. i - 1 \in 1 .. L /\ r[i] = s[i - 1]
        BY <1>8, <3>4
      <4>2. i - 1 <= j - 1
        BY <1>1, <1>9
      <4> QED
        BY <1>7, <3>1, <4>1, <4>2
    <3> QED
      BY <1>1, <1>2, <3>2, <3>3, <3>4
  <2> QED
    BY <1>1, <1>2, <2>1, <2>2, <2>3
<1>10. Sorted(r)
  <2>1. Len(r) \in Nat
    BY <1>1, <1>4
  <2> QED
    BY <1>4, <1>8, <1>9, <2>1 DEF Sorted
<1> QED
  BY <1>3, <1>4, <1>10 DEF r
=============================================================================
