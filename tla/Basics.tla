------------------------------- MODULE Basics -------------------------------
(* Facts about naturals, lists and recursive functions that the proofs of   *)
(* several modules use.                                                     *)
EXTENDS Integers, Sequences, SequencesExt, WellFoundedInduction, SequenceTheorems, TLAPS

\* A nonempty set of naturals has a least element.
LEMMA LeastNat ==
  ASSUME NEW T, T \subseteq Nat, T # {}
  PROVE  \E i \in T : \A j \in T : i <= j
<1> DEFINE R == OpToRel(<, Nat)
<1>1. \E i \in T : \A j \in T : ~(<<j, i>> \in R)
  <2>1. IsWellFoundedOn(R, Nat)
    BY NatLessThanWellFounded
  <2> HIDE DEF R
  <2>2. QED BY <2>1, WFMin, Zenon
<1>2. \A i, j \in Nat : <<j, i>> \in R <=> j < i
  BY DEF OpToRel
<1> HIDE DEF R
<1>3. PICK i \in T : \A j \in T : ~(<<j, i>> \in R)
  BY <1>1
<1>4. \A j \in T : ~(j < i)
  BY <1>2, <1>3
<1>5. \A j \in T : i <= j
  BY <1>4
<1>6. QED BY <1>5

----------------------------------------------------------------------------
(* Recursive functions                                                     *)

\* What holds at zero and goes from each number to the next holds up to n.
LEMMA UpTo ==
  ASSUME NEW n \in Nat, NEW P, 0 \in P, \A i \in 1 .. n : i - 1 \in P => i \in P
  PROVE  \A i \in 0 .. n : i \in P
<1> DEFINE T == {i \in 0 .. n : i \notin P}
<1> SUFFICES ASSUME T # {} PROVE FALSE
  OBVIOUS
<1>1. T \subseteq Nat
  OBVIOUS
<1>2. PICK k \in T : \A j \in T : k <= j
  <2> HIDE DEF T
  <2>1. QED BY <1>1, LeastNat
<1>3. k # 0 /\ k \in 1 .. n
  BY <1>2
<1>4. k - 1 \in 0 .. n /\ ~(k <= k - 1)
  BY <1>3
<1>5. k - 1 \in P
  BY <1>2, <1>4
<1>6. QED BY <1>2, <1>3, <1>5

\* f begins with b, goes on by step and stays within the sets S.
Unfolds(f, n, S, b, step) ==
  /\ f[0] = b /\ \A i \in 0 .. n : f[i] \in S[i]
  /\ \A i \in 1 .. n : f[i] = step[<<i, f[i - 1]>>]

\* A step from each number to the next, which stays within the sets S, defines a function.
LEMMA RecursionExists ==
  ASSUME NEW n \in Nat, NEW R, NEW S \in [0 .. n -> SUBSET R], NEW b \in S[0], NEW step,
         \A i \in 1 .. n : \A x \in S[i - 1] : step[<<i, x>>] \in S[i]
  PROVE  \E f \in [0 .. n -> R] : Unfolds(f, n, S, b, step)
<1> DEFINE Good(k, f) == /\ f[0] = b /\ \A i \in 0 .. k : f[i] \in S[i]
                         /\ \A i \in 1 .. k : f[i] = step[<<i, f[i - 1]>>]
           P == {k \in 0 .. n : \E f \in [0 .. k -> R] : Good(k, f)}
<1>1. 0 \in P
  <2> DEFINE f == [i \in 0 .. 0 |-> b]
  <2>1. f \in [0 .. 0 -> R] /\ f[0] = b /\ \A i \in 0 .. 0 : f[i] \in S[i]
    BY 0 \in 0 .. n
  <2>2. Good(0, f)
    BY <2>1
  <2>3. 0 \in 0 .. n
    OBVIOUS
  <2> HIDE DEF Good, f
  <2>4. QED BY <2>1, <2>2, <2>3
<1>2. ASSUME NEW k \in 1 .. n, k - 1 \in P PROVE k \in P
  <2>1. PICK f \in [0 .. k - 1 -> R] : Good(k - 1, f)
    BY <1>2
  <2> DEFINE y == step[<<k, f[k - 1]>>]
             g == [i \in 0 .. k |-> IF i = k THEN y ELSE f[i]]
  <2>2. /\ f[0] = b /\ \A i \in 0 .. k - 1 : f[i] \in S[i]
        /\ \A i \in 1 .. k - 1 : f[i] = step[<<i, f[i - 1]>>]
    BY <2>1
  <2>3. y \in S[k] /\ S[k] \subseteq R
    BY <2>2
  <2> HIDE DEF y
  <2>4. g \in [0 .. k -> R]
    BY <2>3
  <2>5. g[k] = y /\ \A i \in 0 .. k - 1 : g[i] = f[i]
    OBVIOUS
  <2> HIDE DEF g
  <2>6. g[0] = b
    BY <2>2, <2>5
  <2>7. \A i \in 0 .. k : g[i] \in S[i]
    BY <2>2, <2>3, <2>5
  <2>8. ASSUME NEW i \in 1 .. k PROVE g[i] = step[<<i, g[i - 1]>>]
    <3>1. CASE i = k
      <4>1. g[k] = y /\ g[k - 1] = f[k - 1]
        BY <2>5
      <4>2. QED BY <3>1, <4>1 DEF y
    <3>2. CASE i # k
      <4>1. i \in 1 .. k - 1 /\ i \in 0 .. k - 1 /\ i - 1 \in 0 .. k - 1
        BY <3>2
      <4>2. g[i] = f[i] /\ g[i - 1] = f[i - 1] /\ f[i] = step[<<i, f[i - 1]>>]
        BY <2>2, <2>5, <4>1
      <4>3. QED BY <4>2
    <3>3. QED BY <3>1, <3>2
  <2>9. Good(k, g)
    BY <2>6, <2>7, <2>8
  <2>10. QED BY <2>4, <2>9
<1>3. n \in P
  <2> HIDE DEF P
  <2>1. QED BY <1>1, <1>2, UpTo
<1>4. QED BY <1>3 DEF Unfolds

----------------------------------------------------------------------------
(* Lists                                                                   *)

\* What RemoveFirst takes out: the first of the positions that hold e.
LEMMA RemovedAt ==
  ASSUME NEW S, NEW s \in Seq(S), NEW e, e \in ToSet(s)
  PROVE  \E i \in 1 .. Len(s) : s[i] = e /\ RemoveFirst(s, e) = RemoveAt(s, i)
<1> DEFINE I == {i \in 1 .. Len(s) : s[i] = e}
           k == SelectInSeq(s, LAMBDA v : v = e)
<1>1. Len(s) \in Nat /\ DOMAIN s = 1 .. Len(s)
  BY LenProperties
<1>2. I # {} /\ I \subseteq Nat
  BY <1>1 DEF ToSet
<1>3. k = Min(I)
  BY <1>2 DEF SelectInSeq
<1> HIDE DEF k
<1>4. \E x \in I : \A y \in I : x <= y
  <2> HIDE DEF I
  <2>1. QED BY <1>2, LeastNat
<1>5. Min(I) \in I
  BY <1>4 DEF Min
<1>6. RemoveFirst(s, e) = RemoveAt(s, k)
  BY <1>2 DEF RemoveFirst, k
<1>7. QED BY <1>3, <1>5, <1>6

\* Removing a position from a list.
LEMMA RemoveAtProperties ==
  ASSUME NEW S, NEW s \in Seq(S), NEW p \in 1 .. Len(s)
  PROVE  /\ RemoveAt(s, p) \in Seq(S)
         /\ DOMAIN RemoveAt(s, p) = 1 .. (Len(s) - 1)
         /\ \A i \in 1 .. (Len(s) - 1) : RemoveAt(s, p)[i] = IF i < p THEN s[i] ELSE s[i + 1]
<1> DEFINE a == SubSeq(s, 1, p - 1)
           b == SubSeq(s, p + 1, Len(s))
           n == Len(s)
<1>1. n \in Nat /\ DOMAIN s = 1 .. n /\ \A i \in 1 .. n : s[i] \in S
  BY LenProperties, ElementOfSeq
<1>2. /\ a \in Seq(S) /\ Len(a) = p - 1 /\ \A i \in 1 .. (p - 1) : a[i] = s[i]
  BY <1>1, SubSeqProperties
<1>3. /\ b \in Seq(S) /\ Len(b) = n - p /\ \A i \in 1 .. (n - p) : b[i] = s[p + i]
  <2>1. p + 1 \in 1 .. n + 1 /\ n \in (p + 1) - 1 .. n
    BY <1>1
  <2> DEFINE q == p + 1
  <2>2. /\ b \in Seq(S) /\ Len(b) = (IF q <= n THEN n - q + 1 ELSE 0)
        /\ \A i \in 1 .. (n - q + 1) : b[i] = s[q + i - 1]
    BY <1>1, <2>1, SubSeqProperties
  <2>3. ASSUME NEW i \in 1 .. (n - p) PROVE i \in 1 .. (n - q + 1) /\ q + i - 1 = p + i
    <3> HIDE DEF n
    <3>1. n \in Int /\ p \in Int /\ i \in Int /\ 1 <= i /\ i <= n - p
      BY <1>1 DEF n
    <3>2. QED BY <3>1
  <2> HIDE DEF b
  <2>4. Len(b) = n - p
    <3>1. n \in Int /\ p \in Int /\ p <= n
      BY <1>1
    <3> HIDE DEF n
    <3>2. QED BY <2>2, <3>1
  <2>5. QED BY <2>2, <2>3, <2>4
<1> HIDE DEF a, b, n
<1> DEFINE t == a \o b
<1>4. /\ t \in Seq(S) /\ Len(t) = Len(a) + Len(b)
      /\ \A i \in 1 .. Len(a) + Len(b) : t[i] = IF i <= Len(a) THEN a[i] ELSE b[i - Len(a)]
  BY <1>2, <1>3, ConcatProperties, Zenon
<1>5. DOMAIN t = 1 .. Len(t)
  BY <1>4, LenProperties
<1> HIDE DEF t
<1>6. p \in 1 .. n
  BY DEF n
<1>7. Len(t) = n - 1
  BY <1>1, <1>2, <1>3, <1>4, <1>6
<1>8. ASSUME NEW i \in 1 .. (n - 1) PROVE t[i] = IF i < p THEN s[i] ELSE s[i + 1]
  <2>1. CASE i < p
    BY <1>1, <1>2, <1>3, <1>4, <1>6, <2>1
  <2>2. CASE i >= p
    <3>1. i - (p - 1) \in 1 .. (n - p) /\ p + (i - (p - 1)) = i + 1
      BY <1>1, <1>6, <2>2
    <3>2. t[i] = b[i - (p - 1)]
      BY <1>1, <1>2, <1>3, <1>4, <1>6, <2>2
    <3>3. b[i - (p - 1)] = s[p + (i - (p - 1))]
      BY <1>3, <3>1
    <3>4. QED BY <1>6, <2>2, <3>1, <3>2, <3>3
  <2>3. QED BY <1>6, <2>1, <2>2
<1>9. RemoveAt(s, p) = t
  BY DEF RemoveAt, t, a, b, n
<1>10. QED BY <1>4, <1>5, <1>7, <1>8, <1>9 DEF n

\* RemoveFirst takes out e and nothing else.
LEMMA RemoveFirstHolds ==
  ASSUME NEW S, NEW s \in Seq(S), NEW e, e \in ToSet(s), IsInjective(s)
  PROVE  /\ RemoveFirst(s, e) \in Seq(S) /\ IsInjective(RemoveFirst(s, e))
         /\ ToSet(RemoveFirst(s, e)) = ToSet(s) \ {e}
<1>1. PICK p \in 1 .. Len(s) : s[p] = e /\ RemoveFirst(s, e) = RemoveAt(s, p)
  BY RemovedAt
<1> DEFINE t == RemoveAt(s, p)
           n == Len(s)
<1>2. /\ t \in Seq(S) /\ DOMAIN t = 1 .. (n - 1)
      /\ \A i \in 1 .. (n - 1) : t[i] = IF i < p THEN s[i] ELSE s[i + 1]
  BY RemoveAtProperties
<1>3. n \in Nat /\ DOMAIN s = 1 .. n /\ p \in 1 .. n
  BY LenProperties
<1> HIDE DEF t, n
<1>4. IsInjective(t)
  <2> SUFFICES ASSUME NEW i \in 1 .. (n - 1), NEW j \in 1 .. (n - 1), t[i] = t[j] PROVE i = j
    BY <1>2 DEF IsInjective
  <2> DEFINE f(x) == IF x < p THEN x ELSE x + 1
  <2>1. f(i) \in DOMAIN s /\ f(j) \in DOMAIN s /\ s[f(i)] = s[f(j)]
    BY <1>2, <1>3
  <2>2. f(i) = f(j)
    BY <2>1 DEF IsInjective
  <2>3. QED BY <1>3, <2>2
<1>5. ASSUME NEW i \in 1 .. (n - 1) PROVE t[i] \in ToSet(s) \ {e}
  <2> DEFINE x == IF i < p THEN i ELSE i + 1
  <2>1. x \in DOMAIN s /\ t[i] = s[x] /\ x # p /\ p \in DOMAIN s
    BY <1>2, <1>3
  <2>2. QED BY <1>1, <2>1 DEF IsInjective, ToSet
<1>6. ASSUME NEW x \in DOMAIN s, s[x] # e PROVE s[x] \in ToSet(t)
  <2> DEFINE i == IF x < p THEN x ELSE x - 1
  <2>1. i \in 1 .. (n - 1) /\ t[i] = s[x]
    BY <1>1, <1>2, <1>3, <1>6
  <2>2. QED BY <1>2, <2>1 DEF ToSet
<1>7. ToSet(t) \subseteq ToSet(s) \ {e}
  BY <1>2, <1>5 DEF ToSet
<1>8. ToSet(s) \ {e} \subseteq ToSet(t)
  BY <1>6 DEF ToSet
<1>9. QED BY <1>1, <1>2, <1>4, <1>7, <1>8 DEF t

\* Appending an element.
LEMMA AppendList ==
  ASSUME NEW S, NEW s \in Seq(S), NEW e \in S
  PROVE  /\ Append(s, e) \in Seq(S) /\ ToSet(Append(s, e)) = ToSet(s) \cup {e}
         /\ IsInjective(s) /\ e \notin ToSet(s) => IsInjective(Append(s, e))
<1> DEFINE t == Append(s, e)
           n == Len(s)
<1>1. /\ n \in Nat /\ DOMAIN s = 1 .. n /\ t \in Seq(S) /\ Len(t) = n + 1
      /\ \A i \in 1 .. n : t[i] = s[i]
      /\ t[n + 1] = e
  BY AppendProperties, LenProperties
<1>2. DOMAIN t = 1 .. (n + 1)
  BY <1>1, LenProperties
<1> HIDE DEF t, n
<1>3. ToSet(t) = ToSet(s) \cup {e}
  BY <1>1, <1>2 DEF ToSet
<1>4. ASSUME IsInjective(s), e \notin ToSet(s) PROVE IsInjective(t)
  <2> SUFFICES ASSUME NEW i \in 1 .. (n + 1), NEW j \in 1 .. (n + 1), t[i] = t[j] PROVE i = j
    BY <1>2 DEF IsInjective
  <2>1. \A x \in 1 .. n : t[x] = s[x] /\ t[x] # e
    BY <1>1, <1>4 DEF ToSet
  <2>2. (i \in 1 .. n \/ i = n + 1) /\ (j \in 1 .. n \/ j = n + 1)
    BY <1>1
  <2>3. QED BY <1>1, <1>4, <2>1, <2>2 DEF IsInjective
<1>5. QED BY <1>1, <1>3, <1>4 DEF t

\* The first element of a list and the others.
LEMMA TailList ==
  ASSUME NEW S, NEW s \in Seq(S), s # <<>>
  PROVE  /\ Head(s) \in S /\ Tail(s) \in Seq(S) /\ ToSet(s) = {Head(s)} \cup ToSet(Tail(s))
         /\ IsInjective(s) => IsInjective(Tail(s)) /\ Head(s) \notin ToSet(Tail(s))
<1> DEFINE t == Tail(s)
           n == Len(s)
<1>1. /\ n \in Nat /\ DOMAIN s = 1 .. n /\ Len(t) = n - 1 /\ n > 0 /\ t \in Seq(S) /\ Head(s) \in S
      /\ DOMAIN t = 1 .. Len(t) /\ \A i \in 1 .. Len(t) : t[i] = s[i + 1]
  BY HeadTailProperties, LenProperties, EmptySeq
<1>2. Head(s) = s[1]
  OBVIOUS
<1> HIDE DEF t, n
<1>3. ASSUME NEW i \in DOMAIN s PROVE s[i] \in {Head(s)} \cup ToSet(t)
  <2>1. CASE i = 1
    BY <1>2, <2>1
  <2>2. CASE i # 1
    <3>1. i - 1 \in DOMAIN t /\ t[i - 1] = s[i]
      BY <1>1, <2>2
    <3>2. QED BY <3>1 DEF ToSet
  <2>3. QED BY <2>1, <2>2
<1>4. \A i \in DOMAIN t : i + 1 \in DOMAIN s /\ t[i] = s[i + 1] /\ i + 1 # 1
  BY <1>1
<1>5. ToSet(s) = {Head(s)} \cup ToSet(t)
  <2>1. ToSet(s) \subseteq {Head(s)} \cup ToSet(t)
    BY <1>3 DEF ToSet
  <2>2. ToSet(t) \subseteq ToSet(s)
    BY <1>4 DEF ToSet
  <2>3. Head(s) \in ToSet(s)
    BY <1>1, <1>2 DEF ToSet
  <2>4. QED BY <2>1, <2>2, <2>3
<1>6. ASSUME IsInjective(s) PROVE IsInjective(t) /\ Head(s) \notin ToSet(t)
  <2>1. IsInjective(t)
    <3> SUFFICES ASSUME NEW i \in DOMAIN t, NEW j \in DOMAIN t, t[i] = t[j] PROVE i = j
      BY DEF IsInjective
    <3>1. i + 1 = j + 1
      BY <1>4, <1>6 DEF IsInjective
    <3>2. QED BY <1>1, <3>1
  <2>2. 1 \in DOMAIN s
    BY <1>1
  <2>3. QED BY <1>2, <1>4, <1>6, <2>1, <2>2 DEF IsInjective, ToSet
<1>7. QED BY <1>1, <1>5, <1>6 DEF t

\* What a concatenation holds.
LEMMA ConcatList ==
  ASSUME NEW X, NEW s \in Seq(X), NEW t \in Seq(X)
  PROVE  s \o t \in Seq(X) /\ ToSet(s \o t) = ToSet(s) \cup ToSet(t)
<1> DEFINE u == s \o t
           m == Len(s)
           n == Len(t)
<1>1. /\ m \in Nat /\ n \in Nat /\ u \in Seq(X) /\ Len(u) = m + n
      /\ \A i \in 1 .. m : u[i] = s[i]
      /\ \A i \in m + 1 .. m + n : u[i] = t[i - m]
  BY ConcatProperties, LenProperties
<1>2. DOMAIN s = 1 .. m /\ DOMAIN t = 1 .. n /\ DOMAIN u = 1 .. m + n
  BY <1>1, LenProperties
<1> HIDE DEF u, m, n
<1>3. ASSUME NEW i \in 1 .. m + n PROVE u[i] \in ToSet(s) \cup ToSet(t)
  <2>1. CASE i <= m
    <3>1. i \in 1 .. m
      BY <1>1, <2>1
    <3>2. QED BY <1>1, <1>2, <3>1 DEF ToSet
  <2>2. CASE ~(i <= m)
    <3>1. i \in m + 1 .. m + n /\ i - m \in 1 .. n
      BY <1>1, <2>2
    <3>2. QED BY <1>1, <1>2, <3>1 DEF ToSet
  <2>3. QED BY <2>1, <2>2
<1>4. ASSUME NEW i \in 1 .. m PROVE s[i] \in ToSet(u)
  <2>1. i \in 1 .. m + n
    BY <1>1
  <2>2. QED BY <1>1, <1>2, <2>1 DEF ToSet
<1>5. ASSUME NEW i \in 1 .. n PROVE t[i] \in ToSet(u)
  <2>1. i + m \in 1 .. m + n /\ i + m \in m + 1 .. m + n /\ (i + m) - m = i
    BY <1>1
  <2>2. u[i + m] = t[i]
    BY <1>1, <2>1
  <2>3. QED BY <1>2, <2>1, <2>2 DEF ToSet
<1>6. ToSet(u) = ToSet(s) \cup ToSet(t)
  BY <1>2, <1>3, <1>4, <1>5 DEF ToSet
<1>7. QED BY <1>1, <1>6 DEF u

\* What FlattenSeq computes: the concatenations of the first lists.
Joins(f, s) == f[1] = s[1] /\ \A i \in 1 .. Len(s) - 1 : f[i + 1] = f[i] \o s[i + 1]

LEMMA FlattenJoins ==
  ASSUME NEW X, NEW s \in Seq(Seq(X)), Len(s) # 0
  PROVE  \E f \in [1 .. Len(s) -> Seq(X)] : Joins(f, s) /\ FlattenSeq(s) = f[Len(s)]
<1> DEFINE n == Len(s)
           m == n - 1
           R == Seq(X)
           S == [i \in 0 .. m |-> R]
           step == [p \in (1 .. m) \X R |-> p[2] \o s[p[1] + 1]]
           Q(f) == f = [i \in 1 .. n |-> IF i = 1 THEN s[i] ELSE f[i - 1] \o s[i]]
           flat == CHOOSE f : Q(f)
<1>1. n \in Nat /\ m \in Nat /\ n = m + 1 /\ 1 \in 1 .. n /\ \A i \in 1 .. n : s[i] \in R
  BY LenProperties, ElementOfSeq
<1>2. FlattenSeq(s) = flat[n]
  BY Zenon DEF FlattenSeq
<1>3. ASSUME NEW i \in 1 .. m, NEW r \in R PROVE r \o s[i + 1] \in R
  <2>1. s[i + 1] \in R
    BY <1>1
  <2>2. QED BY <2>1, ConcatProperties
<1> HIDE DEF R, flat
<1>4. S \in [0 .. m -> SUBSET R] /\ s[1] \in S[0]
  BY <1>1
<1>5. /\ \A i \in 1 .. m : \A x \in R : step[<<i, x>>] = x \o s[i + 1]
      /\ \A i \in 0 .. m : S[i] = R
  OBVIOUS
<1> HIDE DEF S, step, m, n
<1>6. \A i \in 1 .. m : \A x \in S[i - 1] : step[<<i, x>>] \in S[i]
  <2> SUFFICES ASSUME NEW i \in 1 .. m, NEW x \in S[i - 1] PROVE step[<<i, x>>] \in S[i]
    OBVIOUS
  <2>1. i - 1 \in 0 .. m /\ i \in 0 .. m
    BY <1>1
  <2>2. QED BY <1>3, <1>5, <2>1
<1>7. PICK f \in [0 .. m -> R] : Unfolds(f, m, S, s[1], step)
  BY <1>1, <1>4, <1>6, RecursionExists
<1>8. f[0] = s[1] /\ \A i \in 1 .. m : f[i] = f[i - 1] \o s[i + 1]
  <2>1. f[0] = s[1] /\ \A i \in 1 .. m : f[i] = step[<<i, f[i - 1]>>]
    BY <1>7 DEF Unfolds
  <2>2. ASSUME NEW i \in 1 .. m PROVE f[i] = f[i - 1] \o s[i + 1]
    <3>1. i - 1 \in 0 .. m
      BY <1>1
    <3>2. f[i - 1] \in R
      BY <3>1
    <3>3. QED BY <1>5, <2>1, <3>2
  <2>3. QED BY <2>1, <2>2
<1> DEFINE g == [i \in 1 .. n |-> f[i - 1]]
<1>9. Q(g)
  <2> DEFINE h == [i \in 1 .. n |-> IF i = 1 THEN s[i] ELSE g[i - 1] \o s[i]]
  <2>1. ASSUME NEW i \in 1 .. n PROVE g[i] = h[i]
    <3>1. CASE i = 1
      BY <1>8, <3>1
    <3>2. CASE i # 1
      <4>1. i - 1 \in 1 .. m /\ (i - 1) + 1 = i /\ i - 1 \in 1 .. n
        BY <1>1, <3>2
      <4>2. f[i - 1] = f[(i - 1) - 1] \o s[i]
        BY <1>8, <4>1
      <4>3. g[i] = f[i - 1] /\ g[i - 1] = f[(i - 1) - 1]
        BY <4>1
      <4>4. h[i] = g[i - 1] \o s[i]
        BY <3>2
      <4>5. QED BY <4>2, <4>3, <4>4
    <3>3. QED BY <3>1, <3>2
  <2>2. g = [i \in 1 .. n |-> g[i]] /\ h = [i \in 1 .. n |-> h[i]]
    OBVIOUS
  <2> HIDE DEF g, h
  <2>3. g = h
    BY <2>1, <2>2
  <2>4. QED BY <2>3 DEF h
<1> HIDE DEF Q
<1>10. Q(flat)
  BY <1>9 DEF flat
<1>11. flat[1] = s[1] /\ \A i \in 1 .. m : flat[i + 1] = flat[i] \o s[i + 1]
  <2>1. flat = [i \in 1 .. n |-> IF i = 1 THEN s[i] ELSE flat[i - 1] \o s[i]]
    BY <1>10 DEF Q
  <2>2. flat[1] = s[1]
    BY <1>1, <2>1
  <2>3. ASSUME NEW i \in 1 .. m PROVE flat[i + 1] = flat[i] \o s[i + 1]
    <3>1. i + 1 \in 1 .. n /\ i + 1 # 1 /\ (i + 1) - 1 = i
      BY <1>1
    <3>2. QED BY <2>1, <3>1
  <2>4. QED BY <2>2, <2>3
<1> DEFINE P == {i \in 0 .. m : flat[i + 1] = f[i]}
<1>12. 0 \in P /\ \A i \in 1 .. m : i - 1 \in P => i \in P
  <2>1. 0 \in P
    BY <1>1, <1>8, <1>11
  <2>2. ASSUME NEW i \in 1 .. m, i - 1 \in P PROVE i \in P
    <3>1. flat[i] = f[i - 1]
      BY <2>2
    <3>2. flat[i + 1] = f[i]
      BY <1>8, <1>11, <3>1
    <3>3. QED BY <3>2
  <2>3. QED BY <2>1, <2>2
<1>13. \A i \in 0 .. m : i \in P
  <2> HIDE DEF P
  <2>1. QED BY <1>1, <1>12, UpTo
<1>14. ASSUME NEW i \in 1 .. n PROVE g[i] = flat[i] /\ g[i] \in R
  <2>1. i - 1 \in 0 .. m /\ (i - 1) + 1 = i
    BY <1>1
  <2>2. flat[(i - 1) + 1] = f[i - 1] /\ f[i - 1] \in R
    BY <1>13, <2>1
  <2>3. QED BY <2>1, <2>2
<1>15. g = [i \in 1 .. n |-> g[i]]
  OBVIOUS
<1> HIDE DEF g, P
<1>16. g \in [1 .. n -> R]
  BY <1>14, <1>15
<1>17. g[1] = s[1] /\ \A i \in 1 .. n - 1 : g[i + 1] = g[i] \o s[i + 1]
  <2>1. g[1] = s[1]
    BY <1>1, <1>11, <1>14
  <2>2. ASSUME NEW i \in 1 .. n - 1 PROVE g[i + 1] = g[i] \o s[i + 1]
    <3>1. i \in 1 .. m /\ i \in 1 .. n /\ i + 1 \in 1 .. n
      BY <1>1
    <3>2. QED BY <1>11, <1>14, <3>1
  <2>3. QED BY <2>1, <2>2
<1>18. FlattenSeq(s) = g[n]
  <2>1. n \in 1 .. n
    BY <1>1
  <2>2. QED BY <1>2, <1>14, <2>1
<1>19. Joins(g, s) /\ FlattenSeq(s) = g[Len(s)] /\ g \in [1 .. Len(s) -> Seq(X)]
  BY <1>16, <1>17, <1>18 DEF Joins, n, R
<1>20. QED BY <1>19

\* FlattenSeq holds what its lists hold.
LEMMA FlattenList ==
  ASSUME NEW X, NEW s \in Seq(Seq(X)), Len(s) # 0
  PROVE  /\ FlattenSeq(s) \in Seq(X)
         /\ ToSet(FlattenSeq(s)) = UNION {ToSet(s[j]) : j \in 1 .. Len(s)}
<1> DEFINE n == Len(s)
           U(k) == UNION {ToSet(s[j]) : j \in 1 .. k}
<1>1. n \in Nat /\ 1 \in 1 .. n /\ n \in 1 .. n /\ \A i \in 1 .. n : s[i] \in Seq(X)
  BY LenProperties, ElementOfSeq
<1>2. PICK f \in [1 .. n -> Seq(X)] : Joins(f, s) /\ FlattenSeq(s) = f[n]
  BY FlattenJoins
<1>3. f[1] = s[1] /\ \A i \in 1 .. n - 1 : f[i + 1] = f[i] \o s[i + 1]
  BY <1>2 DEF Joins
<1>4. U(1) = ToSet(s[1])
  <2>1. 1 .. 1 = {1}
    OBVIOUS
  <2>2. QED BY <2>1, Zenon
<1>5. ASSUME NEW i \in 1 .. n PROVE U(i + 1) = U(i) \cup ToSet(s[i + 1])
  <2>1. 1 .. i + 1 = (1 .. i) \cup {i + 1}
    BY <1>1
  <2>2. QED BY <2>1, Zenon
<1> HIDE DEF n, U
<1> DEFINE P == {i \in 0 .. n - 1 : ToSet(f[i + 1]) = U(i + 1)}
<1>6. 0 \in P
  BY <1>1, <1>3, <1>4
<1>7. ASSUME NEW i \in 1 .. n - 1, i - 1 \in P PROVE i \in P
  <2>1. ToSet(f[i]) = U(i) /\ i \in 1 .. n /\ i + 1 \in 1 .. n
    BY <1>1, <1>7
  <2>2. f[i] \in Seq(X) /\ s[i + 1] \in Seq(X) /\ f[i + 1] = f[i] \o s[i + 1]
    BY <1>1, <1>2, <1>3, <2>1
  <2>3. ToSet(f[i] \o s[i + 1]) = ToSet(f[i]) \cup ToSet(s[i + 1])
    BY <2>2, ConcatList
  <2>4. ToSet(f[i + 1]) = U(i + 1)
    BY <1>5, <2>1, <2>2, <2>3
  <2>5. i \in 0 .. n - 1
    BY <1>1
  <2>6. QED BY <2>4, <2>5
<1>8. \A i \in 0 .. n - 1 : i \in P
  <2> HIDE DEF P
  <2>1. n - 1 \in Nat
    BY <1>1
  <2>2. QED BY <1>6, <1>7, <2>1, UpTo
<1>9. ToSet(f[n]) = U(n)
  <2>1. n - 1 \in 0 .. n - 1 /\ (n - 1) + 1 = n
    BY <1>1
  <2>2. QED BY <1>8, <2>1
<1>10. QED BY <1>1, <1>2, <1>9 DEF U, n

\* A flattened list is its first list before the others, and so on to the end.
Cuts(cut, s) ==
  /\ cut[0] = FlattenSeq(s) /\ cut[Len(s)] = <<>>
  /\ \A i \in 1 .. Len(s) : cut[i - 1] = s[i] \o cut[i]

LEMMA FlattenCuts ==
  ASSUME NEW X, NEW s \in Seq(Seq(X))
  PROVE  \E cut \in [0 .. Len(s) -> Seq(X)] : Cuts(cut, s)
<1> DEFINE n == Len(s)
           R == Seq(X)
           S == [i \in 0 .. n |-> R]
           step == [p \in (1 .. n) \X R |-> s[n - p[1] + 1] \o p[2]]
<1>1. n \in Nat /\ <<>> \in R /\ \A i \in 1 .. n : s[i] \in R
  BY LenProperties, ElementOfSeq, EmptySeq
<1>2. ASSUME NEW i \in 1 .. n, NEW r \in R PROVE s[n - i + 1] \o r \in R
  <2>1. n - i + 1 \in 1 .. n
    BY <1>1
  <2>2. s[n - i + 1] \in R
    BY <1>1, <2>1
  <2>3. QED BY <2>2, ConcatProperties
<1> HIDE DEF R
<1>3. S \in [0 .. n -> SUBSET R] /\ <<>> \in S[0]
  BY <1>1
<1>4. /\ \A i \in 1 .. n : \A x \in R : step[<<i, x>>] = s[n - i + 1] \o x
      /\ \A i \in 1 .. n : \A x \in R : step[<<i, x>>] \in R
      /\ \A i \in 0 .. n : S[i] = R
  BY <1>2
<1> HIDE DEF S, step, n
<1>5. \A i \in 1 .. n : \A x \in S[i - 1] : step[<<i, x>>] \in S[i]
  <2> SUFFICES ASSUME NEW i \in 1 .. n, NEW x \in S[i - 1] PROVE step[<<i, x>>] \in S[i]
    OBVIOUS
  <2>1. i - 1 \in 0 .. n /\ i \in 0 .. n
    BY <1>1
  <2>2. QED BY <1>4, <2>1
<1>6. PICK r \in [0 .. n -> R] : Unfolds(r, n, S, <<>>, step)
  BY <1>1, <1>3, <1>5, RecursionExists
<1>7. r[0] = <<>> /\ \A i \in 1 .. n : r[i] = s[n - i + 1] \o r[i - 1]
  <2>1. r[0] = <<>> /\ \A i \in 1 .. n : r[i] = step[<<i, r[i - 1]>>]
    BY <1>6 DEF Unfolds
  <2>2. ASSUME NEW i \in 1 .. n PROVE r[i] = s[n - i + 1] \o r[i - 1]
    <3>1. i - 1 \in 0 .. n
      BY <1>1
    <3>2. r[i - 1] \in R
      BY <3>1
    <3>3. QED BY <1>4, <2>1, <3>2
  <2>3. QED BY <2>1, <2>2
<1>8. r[n] = FlattenSeq(s)
  <2>1. CASE n = 0
    <3>1. FlattenSeq(s) = s /\ s = <<>>
      <4>1. s = <<>>
        BY <2>1, EmptySeq DEF n
      <4>2. QED BY <2>1, <4>1 DEF FlattenSeq, n
    <3>2. QED BY <1>7, <2>1, <3>1
  <2>2. CASE n # 0
    <3>1. PICK f \in [1 .. n -> R] : Joins(f, s) /\ FlattenSeq(s) = f[n]
      BY <2>2, FlattenJoins DEF n, R
    <3>2. f[1] = s[1] /\ \A i \in 1 .. n - 1 : f[i + 1] = f[i] \o s[i + 1]
      BY <3>1 DEF Joins, n
    <3> DEFINE P == {i \in 0 .. n - 1 : f[n - i] \o r[i] = f[n]}
    <3>3. 0 \in P
      <4>1. f[n] \in R /\ n - 0 = n /\ 0 \in 0 .. n - 1
        BY <1>1, <2>2
      <4>2. f[n] \o <<>> = f[n]
        BY <4>1, ConcatEmptySeq DEF R
      <4>3. QED BY <1>7, <4>1, <4>2
    <3>4. ASSUME NEW i \in 1 .. n - 1, i - 1 \in P PROVE i \in P
      <4> DEFINE j == n - i
      <4>1. /\ j \in 1 .. n - 1 /\ j \in 1 .. n /\ j + 1 \in 1 .. n /\ j + 1 = n - (i - 1)
            /\ n - i + 1 = j + 1 /\ i \in 1 .. n /\ i - 1 \in 0 .. n
        BY <1>1
      <4>2. f[j + 1] \o r[i - 1] = f[n]
        BY <3>4, <4>1
      <4>3. f[j + 1] = f[j] \o s[j + 1]
        BY <3>2, <4>1
      <4>4. r[i] = s[j + 1] \o r[i - 1]
        BY <1>7, <4>1
      <4> HIDE DEF j
      <4>5. f[j] \in R /\ s[j + 1] \in R /\ r[i - 1] \in R
        BY <1>1, <1>6, <3>1, <4>1
      <4> DEFINE a == f[j]
                 b == s[j + 1]
                 c == r[i - 1]
      <4> HIDE DEF a, b, c
      <4>6. a \in Seq(X) /\ b \in Seq(X) /\ c \in Seq(X)
        BY <4>5 DEF a, b, c, R
      <4>7. (a \o b) \o c = a \o (b \o c)
        BY <4>6, ConcatAssociative
      <4>8. f[j] \o r[i] = f[n]
        BY <4>2, <4>3, <4>4, <4>7 DEF a, b, c
      <4>9. i \in 0 .. n - 1
        BY <1>1
      <4>10. QED BY <4>8, <4>9 DEF j
    <3>5. \A i \in 0 .. n - 1 : i \in P
      <4> HIDE DEF P
      <4>1. n - 1 \in Nat
        BY <1>1, <2>2
      <4>2. QED BY <3>3, <3>4, <4>1, UpTo
    <3>6. f[1] \o r[n - 1] = f[n]
      <4>1. n - 1 \in 0 .. n - 1 /\ n - (n - 1) = 1
        BY <1>1, <2>2
      <4>2. QED BY <3>5, <4>1
    <3>7. r[n] = s[1] \o r[n - 1]
      <4>1. n \in 1 .. n /\ n - n + 1 = 1
        BY <1>1, <2>2
      <4>2. QED BY <1>7, <4>1
    <3>8. QED BY <3>1, <3>2, <3>6, <3>7
  <2>3. QED BY <2>1, <2>2
<1> DEFINE cut == [i \in 0 .. n |-> r[n - i]]
<1>9. \A i \in 0 .. n : n - i \in 0 .. n /\ cut[i] = r[n - i]
  BY <1>1
<1>10. cut \in [0 .. n -> R]
  BY <1>6, <1>9
<1> HIDE DEF cut
<1>11. cut[0] = FlattenSeq(s) /\ cut[n] = <<>>
  <2>1. n - 0 = n /\ n - n = 0 /\ 0 \in 0 .. n /\ n \in 0 .. n
    BY <1>1
  <2>2. QED BY <1>7, <1>8, <1>9, <2>1
<1>12. ASSUME NEW i \in 1 .. n PROVE cut[i - 1] = s[i] \o cut[i]
  <2>1. /\ i \in 0 .. n /\ i - 1 \in 0 .. n /\ n - (i - 1) \in 1 .. n
        /\ n - (n - (i - 1)) + 1 = i /\ (n - (i - 1)) - 1 = n - i
    BY <1>1
  <2>2. cut[i] = r[n - i] /\ cut[i - 1] = r[n - (i - 1)]
    BY <1>9, <2>1
  <2>3. r[n - (i - 1)] = s[i] \o r[n - i]
    BY <1>7, <2>1
  <2>4. QED BY <2>2, <2>3
<1>13. Cuts(cut, s)
  BY <1>11, <1>12 DEF Cuts, n
<1>14. QED BY <1>10, <1>13 DEF n, R
=============================================================================
