----------------------------- MODULE WireProofs -----------------------------
(***************************************************************************)
(* What a client encodes is what the server decodes, what a publish is     *)
(* routed by is what the routers' comments say, and the frames that were   *)
(* sent are the frames the framer returns, for tables of any depth, names, *)
(* keys and payloads of any length and any number of calls.                *)
(*                                                                         *)
(* The recursive functions of Codec and Routing are unfolded one step at a *)
(* time, once a solution of their equations is known to exist: Basics has  *)
(* the ones over an interval, ReadTableBodyIs the one over bytes.  A table *)
(* is then read back from its last entry to its first, and from the        *)
(* innermost table outwards; a pattern is laid over a message from its end *)
(* as well.  The framer is followed by what is left of the stream.         *)
(***************************************************************************)
EXTENDS Wire, Basics, FiniteSetTheorems, SequenceTheorems, TLAPS

----------------------------------------------------------------------------
(* Numbers                                                                 *)

\* Shift unfolds: f has the number and what is left of it after each byte.
ShiftOf(f, v, n) == f[0] = v /\ \A i \in 1 .. n : f[i] = f[i - 1] \div 256

\* Shift takes the last value of such a function.
LEMMA ShiftFunction ==
  ASSUME NEW v \in Int, NEW n \in Nat
  PROVE  \E f \in [0 .. n -> Int] : ShiftOf(f, v, n) /\ Shift(v, n) = f[n]
<1> DEFINE Q(f) == f = [i \in 0 .. n |-> IF i = 0 THEN v ELSE f[i - 1] \div 256]
           shifted == CHOOSE f : Q(f)
           S == [i \in 0 .. n |-> Int]
           step == [p \in (1 .. n) \X Int |-> p[2] \div 256]
<1>1. Shift(v, n) = shifted[n]
  BY Zenon DEF Shift
<1>2. S \in [0 .. n -> SUBSET Int] /\ v \in S[0]
  OBVIOUS
<1>3. \A i \in 1 .. n : \A x \in S[i - 1] : step[<<i, x>>] \in S[i]
  <2> SUFFICES ASSUME NEW i \in 1 .. n, NEW x \in S[i - 1] PROVE step[<<i, x>>] \in S[i]
    OBVIOUS
  <2>1. i - 1 \in 0 .. n /\ i \in 0 .. n
    OBVIOUS
  <2>2. x \in Int
    BY <2>1
  <2>3. QED BY <2>1, <2>2
<1>4. \A i \in 1 .. n : \A x \in Int : step[<<i, x>>] = x \div 256
  OBVIOUS
<1> HIDE DEF S, step
<1>5. PICK f \in [0 .. n -> Int] : Unfolds(f, n, S, v, step)
  BY <1>2, <1>3, RecursionExists
<1>6. f[0] = v /\ \A i \in 1 .. n : f[i] = f[i - 1] \div 256
  <2>1. f[0] = v /\ \A i \in 1 .. n : f[i] = step[<<i, f[i - 1]>>]
    BY <1>5 DEF Unfolds
  <2>2. ASSUME NEW i \in 1 .. n PROVE f[i] = f[i - 1] \div 256
    <3>1. i - 1 \in 0 .. n
      OBVIOUS
    <3>2. f[i - 1] \in Int
      BY <3>1
    <3>3. QED BY <1>4, <2>1, <3>2
  <2>3. QED BY <2>1, <2>2
<1>7. Q(f)
  <2> DEFINE h == [i \in 0 .. n |-> IF i = 0 THEN v ELSE f[i - 1] \div 256]
  <2>1. \A i \in 0 .. n : f[i] = h[i]
    BY <1>6
  <2>2. f = [i \in 0 .. n |-> f[i]] /\ h = [i \in 0 .. n |-> h[i]]
    OBVIOUS
  <2> HIDE DEF h
  <2>3. f = h
    BY <2>1, <2>2
  <2>4. QED BY <2>3 DEF h
<1> HIDE DEF Q
<1>8. Q(shifted)
  BY <1>7
<1> HIDE DEF shifted
<1>9. shifted[0] = v /\ \A i \in 1 .. n : shifted[i] = shifted[i - 1] \div 256
  <2>1. shifted = [i \in 0 .. n |-> IF i = 0 THEN v ELSE shifted[i - 1] \div 256]
    BY <1>8 DEF Q
  <2>2. shifted[0] = v
    BY <2>1
  <2>3. ASSUME NEW i \in 1 .. n PROVE shifted[i] = shifted[i - 1] \div 256
    <3>1. i \in 0 .. n /\ i # 0
      OBVIOUS
    <3>2. QED BY <2>1, <3>1
  <2>4. QED BY <2>2, <2>3
<1> DEFINE P == {i \in 0 .. n : shifted[i] = f[i]}
<1>10. 0 \in P /\ \A i \in 1 .. n : i - 1 \in P => i \in P
  <2>1. 0 \in P
    BY <1>6, <1>9
  <2>2. ASSUME NEW i \in 1 .. n, i - 1 \in P PROVE i \in P
    <3>1. shifted[i - 1] = f[i - 1] /\ i \in 0 .. n
      BY <2>2
    <3>2. shifted[i] = f[i]
      BY <1>6, <1>9, <3>1
    <3>3. QED BY <3>1, <3>2
  <2>3. QED BY <2>1, <2>2
<1>11. \A i \in 0 .. n : i \in P
  <2> HIDE DEF P
  <2>1. QED BY <1>10, UpTo
<1>12. shifted[n] = f[n]
  BY <1>11
<1>13. QED BY <1>1, <1>6, <1>12 DEF ShiftOf

\* Two such functions agree where both are defined.
LEMMA ShiftUnique ==
  ASSUME NEW v, NEW m \in Nat, NEW n \in Nat, m <= n, NEW f, NEW g,
         ShiftOf(f, v, m), ShiftOf(g, v, n)
  PROVE  f[m] = g[m]
<1> DEFINE P == {i \in 0 .. m : f[i] = g[i]}
<1>1. f[0] = v /\ g[0] = v /\ \A i \in 1 .. m : f[i] = f[i - 1] \div 256 /\ g[i] = g[i - 1] \div 256
  BY DEF ShiftOf
<1>2. 0 \in P /\ \A i \in 1 .. m : i - 1 \in P => i \in P
  BY <1>1
<1>3. \A i \in 0 .. m : i \in P
  <2> HIDE DEF P
  <2>1. QED BY <1>2, UpTo
<1>4. QED BY <1>3

\* Shifting by one byte more.
LEMMA ShiftStep ==
  ASSUME NEW v \in Int, NEW n \in Nat
  PROVE  /\ Shift(v, n) \in Int /\ Shift(v, 0) = v
         /\ Shift(v, n + 1) = Shift(v, n) \div 256
<1>1. PICK f \in [0 .. 0 -> Int] : ShiftOf(f, v, 0) /\ Shift(v, 0) = f[0]
  BY ShiftFunction
<1>2. PICK g \in [0 .. n -> Int] : ShiftOf(g, v, n) /\ Shift(v, n) = g[n]
  BY ShiftFunction
<1>3. n + 1 \in Nat /\ n <= n + 1
  OBVIOUS
<1>4. PICK h \in [0 .. n + 1 -> Int] : ShiftOf(h, v, n + 1) /\ Shift(v, n + 1) = h[n + 1]
  BY <1>3, ShiftFunction
<1>5. g[n] = h[n]
  BY <1>2, <1>3, <1>4, ShiftUnique
<1>6. h[n + 1] = h[(n + 1) - 1] \div 256
  BY <1>4 DEF ShiftOf
<1>7. QED BY <1>1, <1>2, <1>4, <1>5, <1>6 DEF ShiftOf

\* What is left of a smaller number is not larger.
LEMMA ShiftMonotone ==
  ASSUME NEW v \in Nat, NEW w \in Nat, v <= w, NEW n \in Nat
  PROVE  0 <= Shift(v, n) /\ Shift(v, n) <= Shift(w, n)
<1> DEFINE P == {j \in 0 .. n : 0 <= Shift(v, j) /\ Shift(v, j) <= Shift(w, j)}
<1>1. 0 \in P
  <2>1. Shift(v, 0) = v /\ Shift(w, 0) = w
    BY ShiftStep
  <2>2. QED BY <2>1
<1>2. ASSUME NEW j \in 1 .. n, j - 1 \in P PROVE j \in P
  <2>1. j - 1 \in Nat /\ (j - 1) + 1 = j
    OBVIOUS
  <2>2. /\ Shift(v, j - 1) \in Int /\ Shift(w, j - 1) \in Int
        /\ Shift(v, (j - 1) + 1) = Shift(v, j - 1) \div 256
        /\ Shift(w, (j - 1) + 1) = Shift(w, j - 1) \div 256
    BY <2>1, ShiftStep
  <2>3. 0 <= Shift(v, j - 1) /\ Shift(v, j - 1) <= Shift(w, j - 1)
    BY <1>2
  <2>4. \A x, y \in Int : 0 <= x /\ x <= y => 0 <= x \div 256 /\ x \div 256 <= y \div 256
    OBVIOUS
  <2>5. QED BY <2>1, <2>2, <2>3, <2>4
<1>3. \A j \in 0 .. n : j \in P
  <2> HIDE DEF P
  <2>1. QED BY <1>1, <1>2, UpTo
<1>4. QED BY <1>3

\* A smaller number fits where a larger does.
LEMMA SmallerFits ==
  ASSUME NEW v \in Nat, NEW w \in Nat, v <= w, NEW n \in Nat, FitsIn(w, n, FALSE)
  PROVE  FitsIn(v, n, FALSE)
<1>1. 0 <= Shift(v, n) /\ Shift(v, n) <= Shift(w, n) /\ Shift(v, n) \in Int
  BY ShiftMonotone, ShiftStep
<1>2. QED BY <1>1 DEF FitsIn

\* The bytes of a number.
LEMMA BigEndianBytes ==
  ASSUME NEW v \in Int, NEW n \in Nat
  PROVE  BigEndian(v, n) \in Seq(Byte) /\ Len(BigEndian(v, n)) = n
<1>1. ASSUME NEW i \in 1 .. n PROVE Shift(v, n - i) % 256 \in Byte
  <2>1. n - i \in Nat
    OBVIOUS
  <2>2. Shift(v, n - i) \in Int
    BY <2>1, ShiftStep
  <2>3. QED BY <2>2 DEF Byte
<1>2. BigEndian(v, n) \in [1 .. n -> Byte]
  BY <1>1 DEF BigEndian
<1>3. QED BY <1>2, SeqDef

\* Number unfolds: f has the number of the first bytes.
NumberOf(f, b, signed) ==
  /\ f[0] = IF signed /\ b[1] >= 128 THEN -1 ELSE 0
  /\ \A i \in 1 .. Len(b) : f[i] = f[i - 1] * 256 + b[i]

\* Number is the last value of a function that adds the bytes one by one.
LEMMA NumberFunction ==
  ASSUME NEW b \in Seq(Byte), NEW signed \in BOOLEAN,
         NEW f \in [0 .. Len(b) -> Int], NumberOf(f, b, signed)
  PROVE  Number(b, signed) = f[Len(b)]
<1> DEFINE n == Len(b)
           first == IF signed /\ b[1] >= 128 THEN -1 ELSE 0
           Q(g) == g = [i \in 0 .. n |-> IF i = 0 THEN first ELSE g[i - 1] * 256 + b[i]]
           value == CHOOSE g : Q(g)
<1>1. Number(b, signed) = value[n]
  BY Zenon DEF Number
<1>2. n \in Nat /\ f[0] = first /\ \A i \in 1 .. n : f[i] = f[i - 1] * 256 + b[i]
  BY LenProperties DEF NumberOf
<1>3. Q(f)
  <2> DEFINE h == [i \in 0 .. n |-> IF i = 0 THEN first ELSE f[i - 1] * 256 + b[i]]
  <2> HIDE DEF first
  <2>1. \A i \in 0 .. n : f[i] = h[i]
    BY <1>2
  <2>2. f = [i \in 0 .. n |-> f[i]] /\ h = [i \in 0 .. n |-> h[i]]
    OBVIOUS
  <2> HIDE DEF h
  <2>3. f = h
    BY <2>1, <2>2
  <2>4. QED BY <2>3 DEF h
<1> HIDE DEF Q, n, first
<1>4. Q(value)
  BY <1>3
<1> HIDE DEF value
<1>5. value[0] = first /\ \A i \in 1 .. n : value[i] = value[i - 1] * 256 + b[i]
  BY <1>2, <1>4 DEF Q
<1> DEFINE P == {i \in 0 .. n : value[i] = f[i]}
<1>6. 0 \in P
  BY <1>2, <1>5
<1>7. ASSUME NEW i \in 1 .. n, i - 1 \in P PROVE i \in P
  <2>1. value[i - 1] = f[i - 1]
    BY <1>7
  <2>2. f[i] = f[i - 1] * 256 + b[i]
    BY <1>2
  <2>3. QED BY <1>5, <2>1, <2>2
<1>8. \A i \in 0 .. n : i \in P
  <2> HIDE DEF P
  <2>1. QED BY <1>2, <1>6, <1>7, UpTo
<1>9. QED BY <1>1, <1>2, <1>8 DEF n

\* Decoding the bytes of a number that fits gives the number.
LEMMA NumberOfBigEndian ==
  ASSUME NEW v \in Int, NEW n \in Nat \ {0}, NEW signed \in BOOLEAN, FitsIn(v, n, signed)
  PROVE  Number(BigEndian(v, n), signed) = v
<1> DEFINE b == BigEndian(v, n)
           f == [i \in 0 .. n |-> Shift(v, n - i)]
<1>1. b \in Seq(Byte) /\ Len(b) = n
  BY BigEndianBytes
<1>2. \A i \in 1 .. n : b[i] = Shift(v, n - i) % 256
  BY DEF BigEndian
<1> HIDE DEF b
<1>3. ASSUME NEW i \in 0 .. n PROVE Shift(v, n - i) \in Int
  <2>1. n - i \in Nat
    OBVIOUS
  <2>2. QED BY <2>1, ShiftStep
<1>4. f \in [0 .. n -> Int]
  BY <1>3
<1>5. f[0] = IF signed /\ b[1] >= 128 THEN -1 ELSE 0
  <2>1. f[0] = Shift(v, n) /\ Shift(v, n - 1) \in Int
    <3>1. n - 1 \in Nat /\ n - 0 = n
      OBVIOUS
    <3>2. QED BY <3>1, ShiftStep
  <2>2. Shift(v, n) = Shift(v, n - 1) \div 256
    <3>1. n - 1 \in Nat /\ (n - 1) + 1 = n
      OBVIOUS
    <3>2. QED BY <3>1, ShiftStep
  <2>3. b[1] = Shift(v, n - 1) % 256
    BY <1>2
  <2>4. CASE signed
    <3>1. Shift(v, n - 1) \in -128 .. 127
      BY <2>4 DEF FitsIn
    <3> DEFINE x == Shift(v, n - 1)
    <3>2. \A y \in -128 .. 127 : y \div 256 = IF y % 256 >= 128 THEN -1 ELSE 0
      OBVIOUS
    <3>3. QED BY <2>1, <2>2, <2>3, <2>4, <3>1, <3>2
  <2>5. CASE ~signed
    BY <2>1, <2>5 DEF FitsIn
  <2>6. QED BY <2>4, <2>5
<1>6. ASSUME NEW i \in 1 .. n PROVE f[i] = f[i - 1] * 256 + b[i]
  <2>1. n - i \in Nat /\ (n - i) + 1 = n - (i - 1) /\ i - 1 \in 0 .. n /\ i \in 0 .. n
    OBVIOUS
  <2> DEFINE m == n - i
             x == Shift(v, m)
  <2>2. f[i] = x /\ f[i - 1] = Shift(v, m + 1) /\ b[i] = x % 256
    BY <1>2, <2>1
  <2> HIDE DEF m, f
  <2>3. Shift(v, m + 1) = x \div 256 /\ x \in Int
    <3>1. m \in Nat
      BY <2>1 DEF m
    <3>2. Shift(v, m) \in Int /\ Shift(v, m + 1) = Shift(v, m) \div 256
      BY <3>1, ShiftStep, ZenonT(60)
    <3>3. QED BY <3>2
  <2> HIDE DEF x
  <2>4. x = (x \div 256) * 256 + (x % 256)
    BY <2>3
  <2>5. QED BY <2>2, <2>3, <2>4
<1>7. f[n] = v
  <2>1. n \in 0 .. n /\ n - n = 0
    OBVIOUS
  <2>2. QED BY <2>1, ShiftStep
<1> HIDE DEF f
<1>8. Number(b, signed) = f[Len(b)]
  <2>1. NumberOf(f, b, signed)
    BY <1>1, <1>5, <1>6 DEF NumberOf
  <2>2. QED BY <1>1, <1>4, <2>1, NumberFunction
<1>9. QED BY <1>1, <1>7, <1>8 DEF b

----------------------------------------------------------------------------
(* Bytes that are read                                                     *)

\* The two parts of a sequence.
LEMMA DropSeq ==
  ASSUME NEW X, NEW b \in Seq(X), NEW n \in 0 .. Len(b)
  PROVE  /\ SubSeq(b, 1, n) \in Seq(X) /\ Len(SubSeq(b, 1, n)) = n
         /\ Drop(b, n) \in Seq(X) /\ Len(Drop(b, n)) = Len(b) - n
         /\ \A i \in 1 .. Len(b) - n : Drop(b, n)[i] = b[n + i]
<1> DEFINE k == Len(b)
           q == n + 1
<1>1. k \in Nat /\ \A i \in 1 .. k : b[i] \in X
  BY LenProperties, ElementOfSeq
<1>2. n \in 0 .. k /\ n \in Int /\ 1 \in Int /\ q \in Int /\ k \in Int
  BY <1>1
<1> HIDE DEF k
<1>3. /\ SubSeq(b, 1, n) \in Seq(X)
      /\ Len(SubSeq(b, 1, n)) = (IF 1 <= n THEN n - 1 + 1 ELSE 0)
  <2>1. \A i \in 1 .. n : b[i] \in X
    BY <1>1, <1>2
  <2>2. QED BY <1>2, <2>1, SubSeqProperties
<1>4. /\ SubSeq(b, q, k) \in Seq(X)
      /\ Len(SubSeq(b, q, k)) = (IF q <= k THEN k - q + 1 ELSE 0)
      /\ \A i \in 1 .. k - q + 1 : SubSeq(b, q, k)[i] = b[q + i - 1]
  <2>1. \A i \in q .. k : b[i] \in X
    BY <1>1, <1>2
  <2> HIDE DEF q
  <2>2. QED BY <1>2, <2>1, SubSeqProperties
<1> DEFINE t == SubSeq(b, q, k)
<1> HIDE DEF t
<1>5. Len(t) = k - n /\ \A i \in 1 .. k - n : t[i] = b[n + i]
  <2>1. ASSUME NEW i \in 1 .. k - n PROVE i \in 1 .. k - q + 1 /\ q + i - 1 = n + i
    BY <1>2
  <2>2. QED BY <1>2, <1>4, <2>1 DEF t
<1>6. Len(SubSeq(b, 1, n)) = n
  BY <1>2, <1>3
<1>7. Drop(b, n) = t
  BY DEF Drop, t, k
<1>8. QED BY <1>3, <1>4, <1>5, <1>6, <1>7 DEF t, k

\* The two parts of a concatenation.
LEMMA CutConcat ==
  ASSUME NEW X, NEW a \in Seq(X), NEW b \in Seq(X)
  PROVE  SubSeq(a \o b, 1, Len(a)) = a /\ Drop(a \o b, Len(a)) = b
<1> DEFINE c == a \o b
           m == Len(a)
           n == Len(b)
<1>1. m \in Nat /\ n \in Nat
  BY LenProperties
<1>2. /\ c \in Seq(X) /\ Len(c) = m + n
      /\ \A i \in 1 .. m + n : c[i] = IF i <= m THEN a[i] ELSE b[i - m]
  BY ConcatProperties
<1> HIDE DEF c
<1>3. m \in 0 .. Len(c) /\ 1 \in Int /\ m \in Int /\ \A i \in 1 .. m : c[i] \in X
  <2>1. m \in 0 .. Len(c)
    BY <1>1, <1>2
  <2>2. \A i \in 1 .. m : i \in 1 .. Len(c)
    BY <1>1, <1>2
  <2>3. \A i \in 1 .. Len(c) : c[i] \in X
    BY <1>2, ElementOfSeq
  <2>4. QED BY <1>1, <2>1, <2>2, <2>3
<1> DEFINE s == SubSeq(c, 1, m)
           t == Drop(c, m)
<1>4. s \in Seq(X) /\ Len(s) = m /\ t \in Seq(X) /\ Len(t) = Len(c) - m
      /\ \A i \in 1 .. Len(c) - m : t[i] = c[m + i]
  BY <1>2, <1>3, DropSeq
<1>5. \A i \in 1 .. m - 1 + 1 : s[i] = c[1 + i - 1]
  <2> HIDE DEF m
  <2>1. QED BY <1>3, SubSeqProperties
<1> HIDE DEF s, t
<1>6. s = a
  <2>1. \A i \in 1 .. Len(s) : s[i] = a[i]
    <3> HIDE DEF m, n
    <3>1. QED BY <1>1, <1>2, <1>4, <1>5
  <2>2. QED BY <1>4, <2>1, SeqEqual
<1>7. t = b
  <2>1. Len(t) = n
    <3> HIDE DEF m, n
    <3>1. QED BY <1>1, <1>2, <1>4
  <2>2. ASSUME NEW i \in 1 .. Len(t) PROVE t[i] = b[i]
    <3> HIDE DEF m, n
    <3>1. m + i \in 1 .. m + n /\ ~(m + i <= m) /\ (m + i) - m = i
      BY <1>1, <2>1
    <3>2. QED BY <1>1, <1>2, <1>4, <2>1, <3>1
  <2>3. QED BY <1>4, <2>1, <2>2, SeqEqual
<1>8. QED BY <1>6, <1>7 DEF s, t, c, m

\* A single byte.
LEMMA OneByte ==
  ASSUME NEW x \in Byte
  PROVE  <<x>> \in Seq(Byte) /\ Len(<<x>>) = 1 /\ <<x>>[1] = x
OBVIOUS

\* Concatenated bytes.
LEMMA Concat ==
  ASSUME NEW a \in Seq(Byte), NEW b \in Seq(Byte)
  PROVE  a \o b \in Seq(Byte) /\ Len(a \o b) = Len(a) + Len(b) /\ Len(a) \in Nat /\ Len(b) \in Nat
BY ConcatProperties, LenProperties

\* Encodings: the length before a string.
LEMMA StringBytes ==
  ASSUME NEW s \in Seq(Byte)
  PROVE  WriteString(s) \in Seq(Byte) /\ Len(WriteString(s)) = Len(s) + 4
<1>1. Len(s) \in Int /\ 4 \in Nat
  BY LenProperties
<1> DEFINE p == BigEndian(Len(s), 4)
<1>2. p \in Seq(Byte) /\ Len(p) = 4
  BY <1>1, BigEndianBytes
<1> HIDE DEF p
<1>3. p \o s \in Seq(Byte) /\ Len(p \o s) = Len(p) + Len(s)
  BY <1>2, Concat
<1>4. WriteString(s) = p \o s
  BY DEF WriteString, p
<1>5. QED BY <1>1, <1>2, <1>3, <1>4

\* Encodings: the length of a short string.
LEMMA ShortStringBytes ==
  ASSUME NEW s \in Seq(Byte)
  PROVE  WriteShortString(s) \in Seq(Byte) /\ Len(WriteShortString(s)) = Len(s) + 1
<1>1. Len(s) \in Nat /\ Len(s) % 256 \in Byte
  <2>1. Len(s) \in Nat
    BY LenProperties
  <2>2. \A x \in Nat : x % 256 \in Byte
    BY DEF Byte
  <2>3. QED BY <2>1, <2>2
<1> DEFINE p == <<Len(s) % 256>>
<1>2. p \in Seq(Byte) /\ Len(p) = 1
  BY <1>1, OneByte
<1> HIDE DEF p
<1>3. p \o s \in Seq(Byte) /\ Len(p \o s) = Len(p) + Len(s)
  BY <1>2, Concat
<1>4. QED BY <1>1, <1>2, <1>3 DEF WriteShortString, p

\* The only byte of a number that fits in one.
LEMMA OneByteOf ==
  ASSUME NEW v \in Int
  PROVE  BigEndian(v, 1) = <<v % 256>>
<1>1. Shift(v, 1 - 1) = v
  BY ShiftStep
<1>2. BigEndian(v, 1) = [i \in 1 .. 1 |-> Shift(v, 1 - i) % 256]
  BY DEF BigEndian
<1>3. \A i \in 1 .. 1 : Shift(v, 1 - i) = v
  BY <1>1
<1>4. QED BY <1>2, <1>3

\* A number is read and the bytes behind it are left.
LEMMA ReadsUint ==
  ASSUME NEW v \in Int, NEW n \in Nat \ {0}, FitsIn(v, n, FALSE), NEW rest \in Seq(Byte)
  PROVE  ReadUint(BigEndian(v, n) \o rest, n) = Read(v, rest)
<1> DEFINE p == BigEndian(v, n)
           b == p \o rest
<1>1. p \in Seq(Byte) /\ Len(p) = n
  BY BigEndianBytes
<1>2. Number(p, FALSE) = v
  BY NumberOfBigEndian
<1> HIDE DEF p
<1>3. SubSeq(b, 1, n) = p /\ Drop(b, n) = rest
  BY <1>1, CutConcat
<1>4. b \in Seq(Byte) /\ Len(b) = n + Len(rest) /\ Len(rest) \in Nat
  BY <1>1, Concat
<1> HIDE DEF b
<1>5. ~(Len(b) < n)
  BY <1>4
<1>6. ReadUint(b, n) = Read(v, rest)
  BY <1>2, <1>3, <1>5 DEF ReadUint
<1>7. QED BY <1>6 DEF b, p

\* The fields of a result.
LEMMA ReadFields ==
  ASSUME NEW v, NEW rest
  PROVE  Read(v, rest).ok = TRUE /\ Read(v, rest).v = v /\ Read(v, rest).rest = rest /\ Bad.ok = FALSE
BY DEF Read, Bad

\* A string behind its length is read.
LEMMA ReadsPrefixed ==
  ASSUME NEW s \in Seq(Byte), NEW n \in Nat \ {0}, FitsIn(Len(s), n, FALSE), NEW rest \in Seq(Byte)
  PROVE  ReadPrefixed((BigEndian(Len(s), n) \o s) \o rest, n) = Read(s, rest)
<1> DEFINE p == BigEndian(Len(s), n)
           q == s \o rest
           b == (p \o s) \o rest
           len == ReadUint(b, n)
<1>1. Len(s) \in Int /\ p \in Seq(Byte)
  BY LenProperties, BigEndianBytes
<1>2. b = p \o q
  <2> HIDE DEF p
  <2>1. QED BY <1>1, ConcatAssociative
<1>3. q \in Seq(Byte) /\ Len(q) = Len(s) + Len(rest) /\ Len(rest) \in Nat /\ Len(s) \in Nat
  BY Concat
<1>4. SubSeq(q, 1, Len(s)) = s /\ Drop(q, Len(s)) = rest
  BY CutConcat
<1> HIDE DEF q
<1>5. len = Read(Len(s), q)
  <2> HIDE DEF b
  <2>1. ReadUint(p \o q, n) = Read(Len(s), q)
    BY <1>1, <1>3, ReadsUint
  <2>2. QED BY <1>2, <2>1
<1> HIDE DEF b, len
<1>6. len.ok = TRUE /\ len.v = Len(s) /\ len.rest = q
  BY <1>5, ReadFields
<1>7. ~(Len(len.rest) < len.v)
  BY <1>3, <1>6
<1>8. ReadPrefixed(b, n) =
        IF ~len.ok \/ Len(len.rest) < len.v THEN Bad
        ELSE Read(SubSeq(len.rest, 1, len.v), Drop(len.rest, len.v))
  BY DEF ReadPrefixed, Contents, len
<1>9. ReadPrefixed(b, n) = Read(s, rest)
  BY <1>4, <1>6, <1>7, <1>8
<1>10. QED BY <1>9 DEF b, p

\* A string is read back as it was written, and nothing of what follows it.
LEMMA ReadsString ==
  ASSUME NEW s \in Seq(Byte), Size(s, 4), NEW rest \in Seq(Byte)
  PROVE  ReadPrefixed(WriteString(s) \o rest, 4) = Read(s, rest)
<1>1. FitsIn(Len(s), 4, FALSE)
  BY Zenon DEF Size
<1>2. 4 \in Nat \ {0}
  OBVIOUS
<1>3. QED BY <1>1, <1>2, ReadsPrefixed DEF WriteString

\* So is a short string.
LEMMA ReadsShortString ==
  ASSUME NEW s \in Seq(Byte), Size(s, 1), NEW rest \in Seq(Byte)
  PROVE  ReadShortString[WriteShortString(s) \o rest] = Read(s, rest)
<1>0. FitsIn(Len(s), 1, FALSE)
  BY Zenon DEF Size
<1>1. 1 \in Nat \ {0} /\ Len(s) \in Int
  BY LenProperties
<1>2. WriteShortString(s) = BigEndian(Len(s), 1) \o s
  BY <1>1, OneByteOf DEF WriteShortString
<1>3. ReadPrefixed(WriteShortString(s) \o rest, 1) = Read(s, rest)
  BY <1>0, <1>1, <1>2, ReadsPrefixed
<1> DEFINE b == WriteShortString(s) \o rest
<1>4. b \in Seq(Byte)
  BY ShortStringBytes, Concat
<1> HIDE DEF b
<1>5. ReadShortString = [c \in Seq(Byte) |-> ReadPrefixed(c, 1)]
  BY DEF ReadShortString
<1>6. ReadShortString[b] = ReadPrefixed(b, 1)
  BY <1>4, <1>5
<1>7. QED BY <1>3, <1>6 DEF b

----------------------------------------------------------------------------
(* What a read returns is shorter than what it reads                       *)

\* Bytes make a natural number.
LEMMA NumberNat ==
  ASSUME NEW b \in Seq(Byte)
  PROVE  Number(b, FALSE) \in Nat
<1> DEFINE n == Len(b)
           S == [i \in 0 .. n |-> Nat]
           step == [p \in (1 .. n) \X Nat |-> p[2] * 256 + b[p[1]]]
<1>1. n \in Nat /\ \A i \in 1 .. n : b[i] \in Nat
  <2>1. n \in Nat /\ \A i \in 1 .. n : b[i] \in Byte
    BY LenProperties, ElementOfSeq
  <2>2. Byte \subseteq Nat
    BY DEF Byte
  <2>3. QED BY <2>1, <2>2, Zenon
<1>2. /\ S \in [0 .. n -> SUBSET Nat] /\ 0 \in S[0]
      /\ \A i \in 0 .. n : S[i] = Nat
      /\ \A i \in 1 .. n : \A x \in Nat : step[<<i, x>>] = x * 256 + b[i]
  BY <1>1
<1> HIDE DEF S, step, n
<1>3. \A i \in 1 .. n : \A x \in S[i - 1] : step[<<i, x>>] \in S[i]
  <2> SUFFICES ASSUME NEW i \in 1 .. n, NEW x \in S[i - 1] PROVE step[<<i, x>>] \in S[i]
    OBVIOUS
  <2>1. i - 1 \in 0 .. n /\ i \in 0 .. n
    BY <1>1
  <2>2. x \in Nat /\ S[i] = Nat
    BY <1>2, <2>1
  <2>3. QED BY <1>1, <1>2, <2>2
<1>4. PICK f \in [0 .. n -> Nat] : Unfolds(f, n, S, 0, step)
  BY <1>1, <1>2, <1>3, RecursionExists
<1>5. f[0] = 0 /\ \A i \in 1 .. n : f[i] = f[i - 1] * 256 + b[i]
  <2>1. f[0] = 0 /\ \A i \in 1 .. n : f[i] = step[<<i, f[i - 1]>>]
    BY <1>4 DEF Unfolds
  <2>2. ASSUME NEW i \in 1 .. n PROVE f[i] = f[i - 1] * 256 + b[i]
    <3>1. i - 1 \in 0 .. n
      BY <1>1
    <3>2. f[i - 1] \in Nat
      BY <3>1
    <3>3. QED BY <1>2, <2>1, <3>2
  <2>3. QED BY <2>1, <2>2
<1>6. NumberOf(f, b, FALSE)
  BY <1>5 DEF NumberOf, n
<1>7. f \in [0 .. Len(b) -> Int] /\ FALSE \in BOOLEAN
  BY DEF n
<1>8. Number(b, FALSE) = f[Len(b)]
  BY <1>6, <1>7, NumberFunction
<1>9. QED BY <1>1, <1>8 DEF n

\* A read that succeeds leaves fewer bytes.
Shorter(r, b) == r.ok \in BOOLEAN /\ (r.ok => r.rest \in Seq(Byte) /\ Len(r.rest) < Len(b))

\* A read that fails leaves nothing.
LEMMA BadShorter ==
  ASSUME NEW b
  PROVE  Shorter(Bad, b)
BY DEF Shorter, Bad

\* A read that takes bytes leaves fewer.
LEMMA ReadShorter ==
  ASSUME NEW v, NEW b, NEW rest \in Seq(Byte), Len(rest) < Len(b)
  PROVE  Shorter(Read(v, rest), b)
<1> DEFINE r == Read(v, rest)
<1>1. r.ok = TRUE /\ r.rest = rest
  BY ReadFields, Zenon
<1> HIDE DEF r
<1>2. Shorter(r, b)
  BY <1>1, Zenon DEF Shorter
<1>3. QED BY <1>2 DEF r

\* A number is natural and takes bytes.
LEMMA UintShorter ==
  ASSUME NEW b \in Seq(Byte), NEW n \in Nat \ {0}
  PROVE  /\ Shorter(ReadUint(b, n), b)
         /\ ReadUint(b, n).ok => ReadUint(b, n).v \in Nat
<1>1. CASE Len(b) < n
  <2>1. ReadUint(b, n) = Bad
    BY <1>1 DEF ReadUint
  <2>2. QED BY <2>1, BadShorter, ReadFields
<1>2. CASE ~(Len(b) < n)
  <2> DEFINE v == Number(SubSeq(b, 1, n), FALSE)
             rest == Drop(b, n)
  <2>1. ReadUint(b, n) = Read(v, rest)
    BY <1>2 DEF ReadUint
  <2>2. Len(b) \in Nat /\ n \in 0 .. Len(b)
    <3>1. Len(b) \in Nat
      BY LenProperties
    <3>2. QED BY <1>2, <3>1
  <2>3. SubSeq(b, 1, n) \in Seq(Byte) /\ rest \in Seq(Byte) /\ Len(rest) = Len(b) - n
    BY <2>2, DropSeq
  <2>4. v \in Nat
    BY <2>3, NumberNat
  <2> HIDE DEF v, rest
  <2>5. Len(rest) < Len(b)
    BY <2>2, <2>3
  <2>6. Shorter(Read(v, rest), b)
    BY <2>3, <2>5, ReadShorter
  <2>7. Read(v, rest).v = v
    BY ReadFields
  <2>8. QED BY <2>1, <2>4, <2>6, <2>7
<1>3. QED BY <1>1, <1>2

\* A string is shorter than the bytes it was read from, and so is what it leaves.
LEMMA PrefixedShorter ==
  ASSUME NEW b \in Seq(Byte), NEW n \in Nat \ {0}
  PROVE  /\ Shorter(ReadPrefixed(b, n), b)
         /\ ReadPrefixed(b, n).ok =>
              ReadPrefixed(b, n).v \in Seq(Byte) /\ Len(ReadPrefixed(b, n).v) < Len(b)
<1> DEFINE len == ReadUint(b, n)
<1>1. Shorter(len, b) /\ (len.ok => len.v \in Nat)
  BY UintShorter
<1> HIDE DEF len
<1>2. ReadPrefixed(b, n) =
        IF ~len.ok \/ Len(len.rest) < len.v THEN Bad
        ELSE Read(SubSeq(len.rest, 1, len.v), Drop(len.rest, len.v))
  BY DEF ReadPrefixed, Contents, len
<1>3. CASE ~len.ok \/ Len(len.rest) < len.v
  <2>1. ReadPrefixed(b, n) = Bad
    BY <1>2, <1>3
  <2>2. QED BY <2>1, BadShorter, ReadFields
<1>4. CASE ~(~len.ok \/ Len(len.rest) < len.v)
  <2> DEFINE c == len.rest
             k == len.v
             v == SubSeq(c, 1, k)
             rest == Drop(c, k)
  <2>1. ReadPrefixed(b, n) = Read(v, rest)
    BY <1>2, <1>4
  <2>2. len.ok
    BY <1>1, <1>4 DEF Shorter
  <2>3. c \in Seq(Byte) /\ Len(c) < Len(b) /\ k \in Nat /\ ~(Len(c) < k)
    BY <1>1, <1>4, <2>2 DEF Shorter
  <2> HIDE DEF c, k
  <2>4. Len(c) \in Nat /\ Len(b) \in Nat
    BY <2>3, LenProperties
  <2>5. k \in 0 .. Len(c)
    BY <2>3, <2>4
  <2>6. v \in Seq(Byte) /\ Len(v) = k /\ rest \in Seq(Byte) /\ Len(rest) = Len(c) - k
    BY <2>3, <2>5, DropSeq
  <2> HIDE DEF v, rest
  <2>7. Len(rest) < Len(b) /\ Len(v) < Len(b)
    BY <2>3, <2>4, <2>5, <2>6
  <2>8. Shorter(Read(v, rest), b)
    BY <2>6, <2>7, ReadShorter
  <2>9. Read(v, rest).v = v
    BY ReadFields
  <2>10. QED BY <2>1, <2>6, <2>7, <2>8, <2>9
<1>5. QED BY <1>3, <1>4

\* The types of a table's values.
LEMMA FixedTypes ==
  ASSUME NEW k \in DOMAIN Fixed
  PROVE  /\ Fixed[k].n \in Nat \ {0} /\ Fixed[k].signed \in BOOLEAN /\ Fixed[k].tag \in Byte
         /\ k \notin DOMAIN Text /\ k # "table"
<1>1. DOMAIN Fixed = {"bool", "int8", "uint8", "int16", "uint16", "int32", "uint32", "int64",
                      "uint64", "float32", "float64", "time"}
  BY DEF Fixed
<1>2. DOMAIN Text = {"string", "bytes"}
  BY DEF Text
<1>3. Fixed[k].n \in Nat \ {0} /\ Fixed[k].tag \in Byte
  BY <1>1 DEF Fixed, Byte
<1>4. Fixed[k].signed \in BOOLEAN
  <2>1. Fixed[k].signed = TRUE \/ Fixed[k].signed = FALSE
    BY <1>1 DEF Fixed
  <2>2. QED BY <2>1, Zenon
<1>5. QED BY <1>1, <1>2, <1>3, <1>4

\* The values of fixed length take bytes.
LEMMA FixedShorter ==
  ASSUME NEW b \in Seq(Byte), NEW k \in DOMAIN Fixed
  PROVE  Shorter(ReadFixed(b, k), b)
<1> DEFINE n == Fixed[k].n
           v == Number(SubSeq(b, 1, n), Fixed[k].signed)
           w == IF k \in Floats THEN 2 * v ELSE IF k = "bool" /\ v # 0 THEN 1 ELSE v
           rest == Drop(b, n)
<1>1. n \in Nat \ {0}
  BY FixedTypes
<1>2. ReadFixed(b, k) = IF Len(b) < n THEN Bad ELSE Read(w, rest)
  BY DEF ReadFixed
<1> HIDE DEF n, v, w
<1>3. CASE Len(b) < n
  BY <1>2, <1>3, BadShorter
<1>4. CASE ~(Len(b) < n)
  <2>1. Len(b) \in Nat
    BY LenProperties
  <2>2. n \in 0 .. Len(b)
    BY <1>1, <1>4, <2>1
  <2>3. rest \in Seq(Byte) /\ Len(rest) = Len(b) - n
    BY <2>2, DropSeq
  <2> HIDE DEF rest
  <2>4. Len(rest) < Len(b)
    BY <1>1, <2>1, <2>3
  <2>5. QED BY <1>2, <1>4, <2>3, <2>4, ReadShorter
<1>5. QED BY <1>3, <1>4

\* A table takes at least the bytes of its size.
LEMMA TableShorter ==
  ASSUME NEW b \in Seq(Byte), NEW body
  PROVE  Shorter(readTable(b, body), b)
<1> DEFINE data == ReadPrefixed(b, 4)
           table == body[data.v]
<1>1. Shorter(data, b)
  <2>1. 4 \in Nat \ {0}
    OBVIOUS
  <2>2. QED BY <2>1, PrefixedShorter
<1>2. readTable(b, body) = IF ~data.ok \/ ~table.ok THEN Bad ELSE Read(table.v, data.rest)
  BY DEF readTable, Parsed
<1> HIDE DEF data, table
<1>3. CASE ~data.ok \/ ~table.ok
  BY <1>2, <1>3, BadShorter
<1>4. CASE ~(~data.ok \/ ~table.ok)
  <2>1. data.rest \in Seq(Byte) /\ Len(data.rest) < Len(b)
    BY <1>1, <1>4 DEF Shorter
  <2>2. QED BY <1>2, <1>4, <2>1, ReadShorter
<1>5. QED BY <1>3, <1>4

\* A value is read by the tag's type.
ValueOf(b, k, body) ==
  CASE k \in DOMAIN Fixed -> ReadFixed(b, k)
    [] k \in DOMAIN Text -> ReadPrefixed(b, 4)
    [] k = "table" -> readTable(b, body)

\* The reader of a value is the one of its kind.
LEMMA ValueOfCases ==
  ASSUME NEW b, NEW k, NEW body
  PROVE  /\ k \in DOMAIN Fixed => ValueOf(b, k, body) = ReadFixed(b, k)
         /\ k \in DOMAIN Text => ValueOf(b, k, body) = ReadPrefixed(b, 4)
         /\ k = "table" => ValueOf(b, k, body) = readTable(b, body)
<1>1. CASE k \in DOMAIN Fixed
  <2>1. k \notin DOMAIN Text /\ k # "table"
    BY <1>1, FixedTypes
  <2>2. QED BY <1>1, <2>1 DEF ValueOf
<1>2. CASE k \notin DOMAIN Fixed
  <2>1. "table" \notin DOMAIN Text
    BY DEF Text
  <2>2. QED BY <1>2, <2>1 DEF ValueOf
<1>3. QED BY <1>1, <1>2

\* A tagged value is the value of the kind its tag has.
LEMMA ReadTableValueIs ==
  ASSUME NEW b, NEW body
  PROVE  LET tag == ReadUint(b, 1)
             k == CHOOSE k \in Kinds(tag.v) : TRUE
             value == ValueOf(tag.rest, k, body)
         IN readTableValue(b, body) =
              IF ~tag.ok \/ Kinds(tag.v) = {} \/ ~value.ok THEN Bad
              ELSE Read([k |-> k, v |-> value.v], value.rest)
BY DEF readTableValue, Tagged, ValueOf

\* The kinds that have a tag.
LEMMA KindsAre ==
  ASSUME NEW tag, NEW k \in Kinds(tag)
  PROVE  k \in DOMAIN Fixed \/ k \in DOMAIN Text \/ k = "table"
BY DEF Kinds

\* A tagged value takes bytes, whatever parses the tables within it.
LEMMA TableValueShorter ==
  ASSUME NEW b \in Seq(Byte), NEW body
  PROVE  Shorter(readTableValue(b, body), b)
<1> DEFINE tag == ReadUint(b, 1)
           k == CHOOSE k \in Kinds(tag.v) : TRUE
           value == ValueOf(tag.rest, k, body)
<1>1. Shorter(tag, b)
  <2>1. 1 \in Nat \ {0}
    OBVIOUS
  <2>2. QED BY <2>1, UintShorter
<1>2. readTableValue(b, body) = IF ~tag.ok \/ Kinds(tag.v) = {} \/ ~value.ok THEN Bad
                                ELSE Read([k |-> k, v |-> value.v], value.rest)
  BY ReadTableValueIs
<1>3. Kinds(tag.v) # {} => k \in Kinds(tag.v)
  OBVIOUS
<1> HIDE DEF tag, k, value
<1>4. CASE ~tag.ok \/ Kinds(tag.v) = {} \/ ~value.ok
  BY <1>2, <1>4, BadShorter
<1>5. CASE ~(~tag.ok \/ Kinds(tag.v) = {} \/ ~value.ok)
  <2>1. tag.ok /\ Kinds(tag.v) # {} /\ value.ok
    BY <1>5
  <2> DEFINE c == tag.rest
  <2>2. c \in Seq(Byte) /\ Len(c) < Len(b)
    BY <1>1, <2>1 DEF Shorter
  <2>3. value = ValueOf(c, k, body)
    BY DEF value
  <2> HIDE DEF c
  <2>4. Shorter(value, c)
    <3>1. k \in DOMAIN Fixed \/ k \in DOMAIN Text \/ k = "table"
      BY <1>3, <2>1, KindsAre
    <3>2. 4 \in Nat \ {0}
      OBVIOUS
    <3>3. CASE k \in DOMAIN Fixed
      BY <2>2, <2>3, <3>3, ValueOfCases, FixedShorter
    <3>4. CASE k \in DOMAIN Text
      BY <2>2, <2>3, <3>2, <3>4, ValueOfCases, PrefixedShorter
    <3>5. CASE k = "table"
      BY <2>2, <2>3, <3>5, ValueOfCases, TableShorter
    <3>6. QED BY <3>1, <3>3, <3>4, <3>5
  <2>5. value.rest \in Seq(Byte) /\ Len(value.rest) < Len(c)
    BY <2>1, <2>4 DEF Shorter
  <2>6. Len(b) \in Nat /\ Len(c) \in Nat /\ Len(value.rest) \in Nat
    BY <2>2, <2>5, LenProperties
  <2>7. Len(value.rest) < Len(b)
    BY <2>2, <2>5, <2>6
  <2>8. QED BY <1>2, <1>5, <2>5, <2>7, ReadShorter
<1>6. QED BY <1>4, <1>5

----------------------------------------------------------------------------
(* The decoder of a table's entries                                        *)

\* f and g agree on everything shorter than b.
Agree(f, g, b) == \A c \in Seq(Byte) : Len(c) < Len(b) => f[c] = g[c]

\* Reading a table asks the parser only about fewer bytes.
LEMMA TableLocal ==
  ASSUME NEW b \in Seq(Byte), NEW f, NEW g, Agree(f, g, b)
  PROVE  readTable(b, f) = readTable(b, g)
<1> DEFINE data == ReadPrefixed(b, 4)
<1>1. data.ok => data.v \in Seq(Byte) /\ Len(data.v) < Len(b)
  <2>1. 4 \in Nat \ {0}
    OBVIOUS
  <2>2. QED BY <2>1, PrefixedShorter
<1>2. /\ readTable(b, f) =
           IF ~data.ok \/ ~f[data.v].ok THEN Bad ELSE Read(f[data.v].v, data.rest)
      /\ readTable(b, g) =
           IF ~data.ok \/ ~g[data.v].ok THEN Bad ELSE Read(g[data.v].v, data.rest)
  BY DEF readTable, Parsed
<1> HIDE DEF data
<1>3. CASE data.ok
  <2>1. f[data.v] = g[data.v]
    BY <1>1, <1>3 DEF Agree
  <2>2. QED BY <1>2, <2>1
<1>4. CASE ~data.ok
  BY <1>2, <1>4
<1>5. QED BY <1>3, <1>4

\* What agrees on what is shorter than b does so for what is left of b.
LEMMA AgreeShorter ==
  ASSUME NEW b \in Seq(Byte), NEW c \in Seq(Byte), Len(c) < Len(b), NEW f, NEW g, Agree(f, g, b)
  PROVE  Agree(f, g, c)
<1>1. \A a \in Seq(Byte) : Len(a) \in Nat
  BY LenProperties
<1>2. ASSUME NEW a \in Seq(Byte), Len(a) < Len(c) PROVE f[a] = g[a]
  <2>1. Len(a) < Len(b)
    BY <1>1, <1>2
  <2>2. QED BY <2>1 DEF Agree
<1>3. QED BY <1>2 DEF Agree

\* So does reading a tagged value ...
LEMMA TableValueLocal ==
  ASSUME NEW b \in Seq(Byte), NEW f, NEW g, Agree(f, g, b)
  PROVE  readTableValue(b, f) = readTableValue(b, g)
<1> DEFINE tag == ReadUint(b, 1)
           k == CHOOSE k \in Kinds(tag.v) : TRUE
           v == ValueOf(tag.rest, k, f)
           w == ValueOf(tag.rest, k, g)
<1>1. Shorter(tag, b)
  <2>1. 1 \in Nat \ {0}
    OBVIOUS
  <2>2. QED BY <2>1, UintShorter
<1>2. /\ readTableValue(b, f) = IF ~tag.ok \/ Kinds(tag.v) = {} \/ ~v.ok THEN Bad
                                ELSE Read([k |-> k, v |-> v.v], v.rest)
      /\ readTableValue(b, g) = IF ~tag.ok \/ Kinds(tag.v) = {} \/ ~w.ok THEN Bad
                                ELSE Read([k |-> k, v |-> w.v], w.rest)
  BY ReadTableValueIs
<1>3. Kinds(tag.v) # {} => k \in Kinds(tag.v)
  OBVIOUS
<1>4. ASSUME tag.ok, Kinds(tag.v) # {} PROVE v = w
  <2>1. tag.rest \in Seq(Byte) /\ Len(tag.rest) < Len(b)
    BY <1>1, <1>4 DEF Shorter
  <2> DEFINE c == tag.rest
  <2> HIDE DEF c, k
  <2>2. c \in Seq(Byte) /\ Agree(f, g, c)
    BY <2>1, AgreeShorter DEF c
  <2>3. readTable(c, f) = readTable(c, g)
    BY <2>2, TableLocal
  <2>4. k \in DOMAIN Fixed \/ k \in DOMAIN Text \/ k = "table"
    BY <1>3, <1>4, KindsAre
  <2>5. ValueOf(c, k, f) = ValueOf(c, k, g)
    BY <2>3, <2>4, ValueOfCases
  <2>6. QED BY <2>5 DEF c
<1> HIDE DEF tag, k, v, w
<1>5. CASE ~tag.ok \/ Kinds(tag.v) = {}
  BY <1>2, <1>5
<1>6. CASE tag.ok /\ Kinds(tag.v) # {}
  <2>1. v = w
    BY <1>4, <1>6
  <2>2. QED BY <1>2, <2>1
<1>7. QED BY <1>5, <1>6

\* ... reading the entries of a table ...
LEMMA EntriesLocal ==
  ASSUME NEW b \in Seq(Byte), NEW f, NEW g, Agree(f, g, b)
  PROVE  readEntries(b, f) = readEntries(b, g)
<1> DEFINE key == ReadPrefixed(b, 4)
           v == readTableValue(key.rest, f)
           w == readTableValue(key.rest, g)
<1>1. Shorter(key, b)
  <2>1. 4 \in Nat \ {0}
    OBVIOUS
  <2>2. QED BY <2>1, PrefixedShorter
<1>2. /\ readEntries(b, f) = IF ~key.ok \/ ~v.ok \/ ~f[v.rest].ok THEN Bad
                             ELSE Read(Before(key.v, v.v, f[v.rest].v), <<>>)
      /\ readEntries(b, g) = IF ~key.ok \/ ~w.ok \/ ~g[w.rest].ok THEN Bad
                             ELSE Read(Before(key.v, w.v, g[w.rest].v), <<>>)
  BY DEF readEntries, Entries
<1> HIDE DEF key
<1>3. ASSUME key.ok PROVE v = w /\ (v.ok => f[v.rest] = g[v.rest])
  <2> DEFINE c == key.rest
  <2>1. c \in Seq(Byte) /\ Len(c) < Len(b)
    BY <1>1, <1>3 DEF Shorter
  <2> HIDE DEF c
  <2>2. Agree(f, g, c)
    BY <2>1, AgreeShorter
  <2>3. readTableValue(c, f) = readTableValue(c, g)
    BY <2>1, <2>2, TableValueLocal
  <2>4. Shorter(readTableValue(c, f), c)
    BY <2>1, TableValueShorter
  <2>5. v = w /\ Shorter(v, c)
    BY <2>3, <2>4 DEF c
  <2> HIDE DEF v, w
  <2>6. ASSUME v.ok PROVE f[v.rest] = g[v.rest]
    <3>1. v.rest \in Seq(Byte) /\ Len(v.rest) < Len(c)
      BY <2>5, <2>6 DEF Shorter
    <3>2. QED BY <2>2, <3>1 DEF Agree
  <2>7. QED BY <2>5, <2>6
<1> HIDE DEF v, w
<1>4. CASE ~key.ok
  BY <1>2, <1>4
<1>5. CASE key.ok
  <2>1. v = w /\ (v.ok => f[v.rest] = g[v.rest])
    BY <1>3, <1>5
  <2>2. CASE ~v.ok
    BY <1>2, <2>1, <2>2
  <2>3. CASE v.ok
    BY <1>2, <2>1, <2>3
  <2>4. QED BY <2>2, <2>3
<1>6. QED BY <1>4, <1>5

\* One step of readTableBody, on shorter bytes f.
BodyOf(b, f) == IF b = <<>> THEN Read([k \in {} |-> 0], <<>>) ELSE readEntries(b, f)

\* ... and the whole of readTableBody.
LEMMA BodyLocal ==
  ASSUME NEW b \in Seq(Byte), NEW f, NEW g, Agree(f, g, b)
  PROVE  BodyOf(b, f) = BodyOf(b, g)
BY EntriesLocal DEF BodyOf

\* Bytes of a length below n, and the function on them.
Short(n) == {b \in Seq(Byte) : Len(b) < n}
IsBody(f, S) == f = [b \in S |-> BodyOf(b, f)]

\* A solution satisfies the equation of readTableBody where it is defined.
LEMMA BodyAt ==
  ASSUME NEW f, NEW S, IsBody(f, S), NEW b \in S
  PROVE  f[b] = BodyOf(b, f)
<1>1. f = [c \in S |-> BodyOf(c, f)]
  BY DEF IsBody
<1>2. QED BY <1>1

\* A function that satisfies the equation is a solution.
LEMMA BodyIs ==
  ASSUME NEW f, NEW S, NEW g, f = [b \in S |-> g[b]], \A b \in S : f[b] = BodyOf(b, f)
  PROVE  IsBody(f, S)
<1> DEFINE h == [b \in S |-> BodyOf(b, f)]
<1>1. \A b \in S : f[b] = h[b]
  OBVIOUS
<1>2. f = [b \in S |-> f[b]] /\ h = [b \in S |-> h[b]]
  OBVIOUS
<1> HIDE DEF h
<1>3. f = h
  BY <1>1, <1>2
<1>4. QED BY <1>3 DEF h, IsBody

\* There is a solution for the bytes up to any length.
LEMMA BodyShort ==
  ASSUME NEW n \in Nat
  PROVE  \E f : IsBody(f, Short(n))
<1> DEFINE P == {i \in 0 .. n : \E f : IsBody(f, Short(i))}
<1>0. \A b \in Seq(Byte) : Len(b) \in Nat
  BY LenProperties
<1>1. 0 \in P
  <2> DEFINE g == [b \in Short(0) |-> 0]
             f == [b \in Short(0) |-> g[b]]
  <2>1. Short(0) = {}
    BY <1>0 DEF Short
  <2>2. \A b \in Short(0) : f[b] = BodyOf(b, f)
    BY <2>1
  <2>3. f = [b \in Short(0) |-> g[b]]
    OBVIOUS
  <2> HIDE DEF f, g
  <2>4. IsBody(f, Short(0))
    BY <2>2, <2>3, BodyIs
  <2>5. QED BY <2>4
<1>2. ASSUME NEW i \in 1 .. n, i - 1 \in P PROVE i \in P
  <2>1. PICK g : IsBody(g, Short(i - 1))
    BY <1>2
  <2> DEFINE h == [b \in Short(i) |-> BodyOf(b, g)]
             f == [b \in Short(i) |-> h[b]]
  <2>2. \A b \in Short(i) : f[b] = BodyOf(b, g)
    OBVIOUS
  <2>3. f = [b \in Short(i) |-> h[b]]
    OBVIOUS
  <2> HIDE DEF f, h
  <2>4. ASSUME NEW b \in Short(i) PROVE f[b] = BodyOf(b, f)
    <3>1. b \in Seq(Byte) /\ Len(b) < i
      BY DEF Short
    <3>2. ASSUME NEW c \in Seq(Byte), Len(c) < Len(b) PROVE g[c] = f[c]
      <4>1. c \in Short(i - 1) /\ c \in Short(i)
        <5>1. Len(c) < i - 1 /\ Len(c) < i
          BY <1>0, <3>1, <3>2
        <5>2. QED BY <5>1 DEF Short
      <4>2. g[c] = BodyOf(c, g)
        BY <2>1, <4>1, BodyAt
      <4>3. QED BY <2>2, <4>1, <4>2
    <3>3. Agree(g, f, b)
      BY <3>2 DEF Agree
    <3>4. BodyOf(b, g) = BodyOf(b, f)
      BY <3>1, <3>3, BodyLocal
    <3>5. QED BY <2>2, <3>4
  <2>5. IsBody(f, Short(i))
    BY <2>3, <2>4, BodyIs
  <2>6. i \in 0 .. n
    OBVIOUS
  <2>7. QED BY <2>5, <2>6
<1>3. \A i \in 0 .. n : i \in P
  <2> HIDE DEF P
  <2>1. QED BY <1>1, <1>2, UpTo
<1>4. QED BY <1>3

\* Such functions agree.
LEMMA BodyUnique ==
  ASSUME NEW m \in Nat, NEW n \in Nat, NEW f, IsBody(f, Short(m)), NEW g, IsBody(g, Short(n)),
         NEW b \in Short(m), b \in Short(n)
  PROVE  f[b] = g[b]
<1> DEFINE P == {i \in 0 .. Len(b) : \A c \in Seq(Byte) : Len(c) <= i => f[c] = g[c]}
<1>0. \A c \in Seq(Byte) : Len(c) \in Nat
  BY LenProperties
<1>1. b \in Seq(Byte) /\ Len(b) \in Nat /\ Len(b) < m /\ Len(b) < n
  BY <1>0 DEF Short
<1>2. ASSUME NEW c \in Seq(Byte), Len(c) <= Len(b), Agree(f, g, c) PROVE f[c] = g[c]
  <2>1. c \in Short(m) /\ c \in Short(n)
    BY <1>0, <1>1, <1>2 DEF Short
  <2>2. f[c] = BodyOf(c, f) /\ g[c] = BodyOf(c, g)
    BY <2>1, BodyAt
  <2>3. BodyOf(c, f) = BodyOf(c, g)
    BY <1>2, BodyLocal
  <2>4. QED BY <2>2, <2>3
<1>3. 0 \in P
  <2>1. ASSUME NEW c \in Seq(Byte), Len(c) <= 0 PROVE f[c] = g[c]
    <3>1. \A d \in Seq(Byte) : ~(Len(d) < Len(c))
      BY <1>0, <2>1
    <3>2. Agree(f, g, c) /\ Len(c) <= Len(b)
      BY <1>0, <1>1, <2>1, <3>1 DEF Agree
    <3>3. QED BY <1>2, <3>2
  <2>2. 0 \in 0 .. Len(b)
    BY <1>1
  <2>3. QED BY <2>1, <2>2
<1>4. ASSUME NEW i \in 1 .. Len(b), i - 1 \in P PROVE i \in P
  <2>1. \A c \in Seq(Byte) : Len(c) <= i - 1 => f[c] = g[c]
    BY <1>4
  <2>2. ASSUME NEW c \in Seq(Byte), Len(c) <= i PROVE f[c] = g[c]
    <3>1. \A d \in Seq(Byte) : Len(d) < Len(c) => Len(d) <= i - 1
      BY <1>0, <1>1, <2>2
    <3>2. Agree(f, g, c) /\ Len(c) <= Len(b)
      BY <1>0, <1>1, <2>1, <2>2, <3>1 DEF Agree
    <3>3. QED BY <1>2, <3>2
  <2>3. i \in 0 .. Len(b)
    BY <1>1
  <2>4. QED BY <2>2, <2>3
<1>5. \A i \in 0 .. Len(b) : i \in P
  <2> HIDE DEF P
  <2>1. QED BY <1>1, <1>3, <1>4, UpTo
<1>6. Len(b) \in P
  BY <1>1, <1>5
<1>7. QED BY <1>1, <1>6

\* readTableBody does what its definition says, for all bytes.
LEMMA ReadTableBodyIs ==
  ASSUME NEW b \in Seq(Byte)
  PROVE  readTableBody[b] = BodyOf(b, readTableBody)
<1> DEFINE Q(f) == IsBody(f, Seq(Byte))
           part(n) == CHOOSE f : IsBody(f, Short(n))
           g == [c \in Seq(Byte) |-> part(Len(c) + 1)[c]]
           f == [c \in Seq(Byte) |-> g[c]]
<1>0. \A c \in Seq(Byte) : Len(c) \in Nat
  BY LenProperties
<1>1. ASSUME NEW n \in Nat PROVE IsBody(part(n), Short(n))
  BY BodyShort, Zenon
<1> HIDE DEF part
<1>2. \A c \in Seq(Byte) : f[c] = part(Len(c) + 1)[c]
  OBVIOUS
<1>3. f = [c \in Seq(Byte) |-> g[c]]
  OBVIOUS
<1> HIDE DEF f, g
<1>4. ASSUME NEW c \in Seq(Byte) PROVE f[c] = BodyOf(c, f)
  <2> DEFINE n == Len(c) + 1
  <2>1. n \in Nat /\ c \in Short(n)
    BY <1>0 DEF Short
  <2>2. part(n)[c] = BodyOf(c, part(n))
    BY <1>1, <2>1, BodyAt
  <2>3. ASSUME NEW d \in Seq(Byte), Len(d) < Len(c) PROVE part(n)[d] = f[d]
    <3> DEFINE m == Len(d) + 1
    <3>1. m \in Nat /\ d \in Short(m) /\ d \in Short(n)
      BY <1>0, <2>3 DEF Short
    <3>2. IsBody(part(m), Short(m)) /\ IsBody(part(n), Short(n))
      BY <1>1, <2>1, <3>1
    <3> HIDE DEF n
    <3>3. f[d] = part(m)[d]
      BY <1>2
    <3> HIDE DEF m
    <3>4. part(n)[d] = part(m)[d]
      BY <2>1, <3>1, <3>2, BodyUnique
    <3>5. QED BY <3>3, <3>4
  <2>4. Agree(part(n), f, c)
    BY <2>3 DEF Agree
  <2>5. BodyOf(c, part(n)) = BodyOf(c, f)
    BY <2>4, BodyLocal
  <2>6. QED BY <1>2, <2>2, <2>5
<1>5. Q(f)
  BY <1>3, <1>4, BodyIs
<1>6. readTableBody = CHOOSE h : Q(h)
  BY Zenon DEF readTableBody, IsBody, BodyOf
<1> HIDE DEF Q
<1>7. Q(readTableBody)
  BY <1>5, <1>6
<1>8. QED BY <1>7, BodyAt DEF Q

----------------------------------------------------------------------------
(* Tables by their depth                                                   *)

\* What the decoder returns of a value: of a float the whole part.
KeptValue(x, maps) ==
  [k |-> x.k, v |-> IF x.k = "table" THEN maps[x.v]
                    ELSE IF x.k \in Floats THEN 2 * Whole(x) ELSE x.v]

EntriesKept(t, maps) ==
  [key \in {t[i].key : i \in DOMAIN t} |->
     KeptValue(t[CHOOSE i \in DOMAIN t : t[i].key = key].value, maps)]

keptMap[d \in 0 .. MaxDepth] ==
  [t \in Table[d] |-> EntriesKept(t, IF d = 0 THEN <<>> ELSE keptMap[d - 1])]

KeptMap(t) == keptMap[MaxDepth][t]

\* The functions of the depth: the tables, their bytes, the maps they are decoded to, the
\* maps they stand for and the tables with whole floats only.
Level(kind, d, x) ==
  CASE kind = "table" -> (IF d = 0 THEN Maps({}) ELSE Maps(x))
    [] kind = "bytes" -> [t \in Table[d] |-> writeEntries(t, IF d = 0 THEN <<>> ELSE x)]
    [] kind = "kept" -> [t \in Table[d] |-> EntriesKept(t, IF d = 0 THEN <<>> ELSE x)]
    [] kind = "map" -> [t \in Table[d] |-> EntriesAsMap(t, IF d = 0 THEN <<>> ELSE x)]
    [] kind = "whole" -> WholeEntries(Table[d], IF d = 0 THEN {} ELSE x)

Nests(f, kind, n) == \A d \in 0 .. n : f[d] = Level(kind, d, f[d - 1])

\* The level of depth 0 needs none below it.
LEMMA FirstLevel ==
  ASSUME NEW kind \in {"table", "bytes", "kept", "map", "whole"}, NEW x, NEW y
  PROVE  Level(kind, 0, x) = Level(kind, 0, y)
<1>1. CASE kind = "table"
  BY <1>1 DEF Level
<1>2. CASE kind = "bytes"
  BY <1>2 DEF Level
<1>3. CASE kind = "kept"
  BY <1>3 DEF Level
<1>4. CASE kind = "map"
  BY <1>4 DEF Level
<1>5. CASE kind = "whole"
  BY <1>5 DEF Level
<1>6. QED BY <1>1, <1>2, <1>3, <1>4, <1>5

\* Each of the functions of the depth has a solution.
LEMMA NestsExists ==
  ASSUME NEW kind \in {"table", "bytes", "kept", "map", "whole"}, NEW n \in Nat
  PROVE  \E f : f = [d \in 0 .. n |-> f[d]] /\ Nests(f, kind, n)
<1> DEFINE P == {i \in 0 .. n : \E f : f = [d \in 0 .. i |-> f[d]] /\ Nests(f, kind, i)}
<1>1. 0 \in P
  <2> DEFINE f == [d \in 0 .. 0 |-> Level(kind, 0, 0)]
  <2>1. f[0] = Level(kind, 0, 0) /\ f = [d \in 0 .. 0 |-> f[d]]
    OBVIOUS
  <2> HIDE DEF f
  <2>2. Level(kind, 0, 0) = Level(kind, 0, f[0 - 1])
    BY FirstLevel
  <2>3. \A d \in 0 .. 0 : d = 0
    OBVIOUS
  <2>4. Nests(f, kind, 0)
    BY <2>1, <2>2, <2>3 DEF Nests
  <2>5. QED BY <2>1, <2>4
<1>2. ASSUME NEW i \in 1 .. n, i - 1 \in P PROVE i \in P
  <2>1. PICK g : g = [d \in 0 .. i - 1 |-> g[d]] /\ Nests(g, kind, i - 1)
    BY <1>2
  <2> DEFINE y == Level(kind, i, g[i - 1])
             f == [d \in 0 .. i |-> IF d = i THEN y ELSE g[d]]
  <2> HIDE DEF y
  <2>2. /\ f = [d \in 0 .. i |-> f[d]] /\ f[i] = y
        /\ \A d \in 0 .. i - 1 : f[d] = g[d]
    OBVIOUS
  <2> HIDE DEF f
  <2>3. ASSUME NEW d \in 0 .. i PROVE f[d] = Level(kind, d, f[d - 1])
    <3>1. CASE d = i
      <4>1. i - 1 \in 0 .. i - 1
        OBVIOUS
      <4>2. f[i - 1] = g[i - 1]
        BY <2>2, <4>1
      <4>3. QED BY <2>2, <3>1, <4>2 DEF y
    <3>2. CASE d = 0 /\ d # i
      <4>1. d \in 0 .. i - 1
        BY <3>2
      <4>2. f[d] = g[d] /\ g[d] = Level(kind, d, g[d - 1])
        BY <2>1, <2>2, <4>1 DEF Nests
      <4>3. Level(kind, 0, g[d - 1]) = Level(kind, 0, f[d - 1])
        BY FirstLevel
      <4>4. QED BY <3>2, <4>2, <4>3
    <3>3. CASE d # 0 /\ d # i
      <4>1. d \in 0 .. i - 1 /\ d - 1 \in 0 .. i - 1
        BY <3>3
      <4>2. f[d] = g[d] /\ g[d] = Level(kind, d, g[d - 1]) /\ f[d - 1] = g[d - 1]
        BY <2>1, <2>2, <4>1 DEF Nests
      <4>3. QED BY <4>2
    <3>4. QED BY <3>1, <3>2, <3>3
  <2>4. Nests(f, kind, i)
    BY <2>3 DEF Nests
  <2>5. i \in 0 .. n
    OBVIOUS
  <2>6. QED BY <2>2, <2>4, <2>5
<1>3. \A i \in 0 .. n : i \in P
  <2> HIDE DEF P
  <2>1. QED BY <1>1, <1>2, UpTo
<1>4. QED BY <1>3

\* What is below depth d.
Inner(d) == IF d = 0 THEN {} ELSE Table[d - 1]
Below(f, d) == IF d = 0 THEN <<>> ELSE f[d - 1]

\* Table unfolds: tables hold the tables of the depth below.
LEMMA TableIs ==
  ASSUME NEW d \in 0 .. MaxDepth
  PROVE  Table[d] = Maps(Inner(d))
<1> DEFINE Q(f) == f = [e \in 0 .. MaxDepth |-> IF e = 0 THEN Maps({}) ELSE Maps(f[e - 1])]
<1>1. PICK f : f = [e \in 0 .. MaxDepth |-> f[e]] /\ Nests(f, "table", MaxDepth)
  BY NestsExists, DepthAssumption
<1>2. ASSUME NEW e \in 0 .. MaxDepth PROVE f[e] = IF e = 0 THEN Maps({}) ELSE Maps(f[e - 1])
  BY <1>1 DEF Nests, Level
<1>3. Q(f)
  BY <1>1, <1>2, Zenon
<1>4. Table = CHOOSE h : Q(h)
  BY Zenon DEF Table
<1> HIDE DEF Q
<1>5. Q(Table)
  BY <1>3, <1>4
<1>6. Table[d] = IF d = 0 THEN Maps({}) ELSE Maps(Table[d - 1])
  BY <1>5 DEF Q
<1>7. QED BY <1>6 DEF Inner

\* tableBytes unfolds: the entries are written with the bytes of the tables below.
LEMMA BytesAre ==
  ASSUME NEW d \in 0 .. MaxDepth, NEW t \in Table[d]
  PROVE  tableBytes[d][t] = writeEntries(t, Below(tableBytes, d))
<1> DEFINE Q(f) == f = [e \in 0 .. MaxDepth |->
                          [u \in Table[e] |-> writeEntries(u, IF e = 0 THEN <<>> ELSE f[e - 1])]]
<1>1. PICK f : f = [e \in 0 .. MaxDepth |-> f[e]] /\ Nests(f, "bytes", MaxDepth)
  BY NestsExists, DepthAssumption
<1>2. ASSUME NEW e \in 0 .. MaxDepth
      PROVE  f[e] = [u \in Table[e] |-> writeEntries(u, IF e = 0 THEN <<>> ELSE f[e - 1])]
  BY <1>1 DEF Nests, Level
<1>3. Q(f)
  BY <1>1, <1>2, Zenon
<1>4. tableBytes = CHOOSE h : Q(h)
  BY Zenon DEF tableBytes
<1> HIDE DEF Q
<1>5. Q(tableBytes)
  BY <1>3, <1>4
<1>6. tableBytes[d] = [u \in Table[d] |-> writeEntries(u, IF d = 0 THEN <<>> ELSE tableBytes[d - 1])]
  BY <1>5 DEF Q
<1>7. QED BY <1>6 DEF Below

\* keptMap unfolds in the same way.
LEMMA KeptIs ==
  ASSUME NEW d \in 0 .. MaxDepth, NEW t \in Table[d]
  PROVE  keptMap[d][t] = EntriesKept(t, Below(keptMap, d))
<1> DEFINE Q(f) == f = [e \in 0 .. MaxDepth |->
                          [u \in Table[e] |-> EntriesKept(u, IF e = 0 THEN <<>> ELSE f[e - 1])]]
<1>1. PICK f : f = [e \in 0 .. MaxDepth |-> f[e]] /\ Nests(f, "kept", MaxDepth)
  BY NestsExists, DepthAssumption
<1>2. ASSUME NEW e \in 0 .. MaxDepth
      PROVE  f[e] = [u \in Table[e] |-> EntriesKept(u, IF e = 0 THEN <<>> ELSE f[e - 1])]
  BY <1>1 DEF Nests, Level
<1>3. Q(f)
  BY <1>1, <1>2, Zenon
<1>4. keptMap = CHOOSE h : Q(h)
  BY Zenon DEF keptMap
<1> HIDE DEF Q
<1>5. Q(keptMap)
  BY <1>3, <1>4
<1>6. keptMap[d] = [u \in Table[d] |-> EntriesKept(u, IF d = 0 THEN <<>> ELSE keptMap[d - 1])]
  BY <1>5 DEF Q
<1>7. QED BY <1>6 DEF Below

\* So does mapOf ...
LEMMA MapIs ==
  ASSUME NEW d \in 0 .. MaxDepth, NEW t \in Table[d]
  PROVE  mapOf[d][t] = EntriesAsMap(t, Below(mapOf, d))
<1> DEFINE Q(f) == f = [e \in 0 .. MaxDepth |->
                          [u \in Table[e] |-> EntriesAsMap(u, IF e = 0 THEN <<>> ELSE f[e - 1])]]
<1>1. PICK f : f = [e \in 0 .. MaxDepth |-> f[e]] /\ Nests(f, "map", MaxDepth)
  BY NestsExists, DepthAssumption
<1>2. ASSUME NEW e \in 0 .. MaxDepth
      PROVE  f[e] = [u \in Table[e] |-> EntriesAsMap(u, IF e = 0 THEN <<>> ELSE f[e - 1])]
  BY <1>1 DEF Nests, Level
<1>3. Q(f)
  BY <1>1, <1>2, Zenon
<1>4. mapOf = CHOOSE h : Q(h)
  BY Zenon DEF mapOf
<1> HIDE DEF Q
<1>5. Q(mapOf)
  BY <1>3, <1>4
<1>6. mapOf[d] = [u \in Table[d] |-> EntriesAsMap(u, IF d = 0 THEN <<>> ELSE mapOf[d - 1])]
  BY <1>5 DEF Q
<1>7. QED BY <1>6 DEF Below

\* ... and WholeFloats.
LEMMA WholeIs ==
  ASSUME NEW d \in 0 .. MaxDepth
  PROVE  WholeFloats[d] = WholeEntries(Table[d], IF d = 0 THEN {} ELSE WholeFloats[d - 1])
<1> DEFINE Q(f) == f = [e \in 0 .. MaxDepth |->
                          WholeEntries(Table[e], IF e = 0 THEN {} ELSE f[e - 1])]
<1>1. PICK f : f = [e \in 0 .. MaxDepth |-> f[e]] /\ Nests(f, "whole", MaxDepth)
  BY NestsExists, DepthAssumption
<1>2. ASSUME NEW e \in 0 .. MaxDepth
      PROVE  f[e] = WholeEntries(Table[e], IF e = 0 THEN {} ELSE f[e - 1])
  BY <1>1 DEF Nests, Level
<1>3. Q(f)
  BY <1>1, <1>2, Zenon
<1>4. WholeFloats = CHOOSE h : Q(h)
  BY Zenon DEF WholeFloats
<1> HIDE DEF Q
<1>5. Q(WholeFloats)
  BY <1>3, <1>4
<1>6. QED BY <1>5 DEF Q

----------------------------------------------------------------------------
(* The bytes of tables                                                     *)

\* The bytes of what is nested.
Wrote(body, tables) == \A u \in tables : body[u] \in Seq(Byte)

\* The three kinds of a value.
LEMMA ValueKinds ==
  ASSUME NEW tables, NEW x \in Value(tables)
  PROVE  \/ x.k \in DOMAIN Fixed /\ x \in Numeric
         \/ x.k \in DOMAIN Text /\ x.k \notin DOMAIN Fixed /\ x.k # "table" /\ x.v \in Seq(Byte)
         \/ x.k = "table" /\ x.k \notin DOMAIN Fixed /\ x.k \notin DOMAIN Text /\ x.v \in tables
<1>1. \A k \in DOMAIN Text : k \notin DOMAIN Fixed /\ k # "table"
  BY FixedTypes DEF Text
<1>2. "table" \notin DOMAIN Fixed /\ "table" \notin DOMAIN Text
  BY FixedTypes, <1>1
<1>3. CASE x \in Numeric
  BY <1>3 DEF Numeric
<1>4. CASE x \in [k : DOMAIN Text, v : Seq(Byte)]
  BY <1>1, <1>4
<1>5. CASE x \in [k : {"table"}, v : tables]
  <2>1. x.k = "table" /\ x.v \in tables
    BY <1>5
  <2>2. QED BY <1>2, <2>1
<1>6. QED BY <1>3, <1>4, <1>5 DEF Value

\* What writeTableValue writes for each.
LEMMA WriteCases ==
  ASSUME NEW tables, NEW x \in Value(tables), NEW body
  PROVE  /\ x.k \in DOMAIN Fixed =>
              writeTableValue(x, body) = <<Fixed[x.k].tag>> \o BigEndian(Whole(x), Fixed[x.k].n)
         /\ x.k \in DOMAIN Text => writeTableValue(x, body) = <<Text[x.k]>> \o WriteString(x.v)
         /\ x.k = "table" => writeTableValue(x, body) = <<TableTag>> \o WriteString(body[x.v])
<1>1. CASE x.k \in DOMAIN Fixed
  <2>1. x.k \notin DOMAIN Text /\ x.k # "table"
    BY <1>1, FixedTypes
  <2>2. QED BY <1>1, <2>1, Zenon DEF writeTableValue
<1>2. CASE x.k \in DOMAIN Text
  <2>1. x.k \notin DOMAIN Fixed /\ x.k # "table"
    BY <1>2, ValueKinds, FixedTypes
  <2>2. QED BY <1>2, <2>1, Zenon DEF writeTableValue
<1>3. CASE x.k = "table"
  <2>1. x.k \notin DOMAIN Fixed /\ x.k \notin DOMAIN Text
    BY <1>3, ValueKinds, FixedTypes
  <2>2. QED BY <1>3, <2>1, Zenon DEF writeTableValue
<1>4. QED BY <1>1, <1>2, <1>3

\* The numbers of a table are integers, the whole part of a float too.
LEMMA WholeInt ==
  ASSUME NEW x \in Numeric
  PROVE  Whole(x) \in Int /\ x.v \in Int
<1>1. x.v \in Int
  BY DEF Numeric
<1> DEFINE v == x.v
<1>2. v \div 2 \in Int
  <2> HIDE DEF v
  <2>1. v \in Int
    BY <1>1 DEF v
  <2>2. QED BY <2>1
<1>3. QED BY <1>1, <1>2 DEF Whole

\* Tags are bytes.
LEMMA TagBytes ==
  /\ TableTag \in Byte
  /\ \A k \in DOMAIN Text : Text[k] \in Byte
BY DEF TableTag, Text, Byte

\* The bytes of a value, which are at least those of the string or the table in it.
LEMMA ValueBytes ==
  ASSUME NEW tables, NEW x \in Value(tables), NEW body, Wrote(body, tables)
  PROVE  /\ writeTableValue(x, body) \in Seq(Byte) /\ Len(writeTableValue(x, body)) \in Nat
         /\ x.k \in DOMAIN Text => Len(x.v) <= Len(writeTableValue(x, body))
         /\ x.k = "table" => Len(body[x.v]) <= Len(writeTableValue(x, body))
<1> DEFINE w == writeTableValue(x, body)
<1>1. CASE x.k \in DOMAIN Fixed /\ x \in Numeric
  <2> DEFINE tag == Fixed[x.k].tag
             p == BigEndian(Whole(x), Fixed[x.k].n)
  <2>1. tag \in Byte /\ Fixed[x.k].n \in Nat /\ x.k \notin DOMAIN Text /\ x.k # "table"
    BY <1>1, FixedTypes
  <2>2. p \in Seq(Byte)
    BY <1>1, <2>1, WholeInt, BigEndianBytes
  <2>3. w = <<tag>> \o p
    BY <1>1, WriteCases
  <2> HIDE DEF p, tag
  <2>4. <<tag>> \in Seq(Byte)
    BY <2>1, OneByte
  <2>5. w \in Seq(Byte)
    BY <2>2, <2>3, <2>4, Concat
  <2>6. QED BY <2>1, <2>5, LenProperties
<1>2. CASE x.k \in DOMAIN Text /\ x.k # "table" /\ x.v \in Seq(Byte)
  <2> DEFINE tag == Text[x.k]
             p == WriteString(x.v)
  <2>1. tag \in Byte
    BY <1>2, TagBytes
  <2>2. p \in Seq(Byte) /\ Len(p) = Len(x.v) + 4
    BY <1>2, StringBytes
  <2>3. w = <<tag>> \o p
    BY <1>2, WriteCases
  <2> HIDE DEF p, tag
  <2>4. <<tag>> \in Seq(Byte) /\ Len(<<tag>>) = 1
    BY <2>1, OneByte
  <2>5. w \in Seq(Byte) /\ Len(w) = Len(<<tag>>) + Len(p)
    BY <2>2, <2>3, <2>4, Concat
  <2>6. Len(x.v) \in Nat
    BY <1>2, LenProperties
  <2>7. Len(x.v) <= Len(w) /\ Len(w) \in Nat
    BY <2>2, <2>4, <2>5, <2>6
  <2>8. QED BY <1>2, <2>5, <2>7
<1>3. CASE x.k = "table" /\ x.k \notin DOMAIN Text /\ x.v \in tables
  <2> DEFINE s == body[x.v]
             p == WriteString(s)
  <2>1. TableTag \in Byte /\ s \in Seq(Byte)
    BY <1>3, TagBytes DEF Wrote
  <2>2. w = <<TableTag>> \o p
    BY <1>3, WriteCases
  <2> HIDE DEF s
  <2>3. p \in Seq(Byte) /\ Len(p) = Len(s) + 4
    BY <2>1, StringBytes
  <2> HIDE DEF p
  <2>4. <<TableTag>> \in Seq(Byte) /\ Len(<<TableTag>>) = 1
    BY <2>1, OneByte
  <2>5. w \in Seq(Byte) /\ Len(w) = Len(<<TableTag>>) + Len(p)
    BY <2>2, <2>3, <2>4, Concat
  <2>6. Len(s) \in Nat
    BY <2>1, LenProperties
  <2>7. Len(s) <= Len(w) /\ Len(w) \in Nat
    BY <2>3, <2>4, <2>5, <2>6
  <2>8. QED BY <1>3, <2>5, <2>7 DEF s
<1>4. QED BY <1>1, <1>2, <1>3, ValueKinds

\* The bytes of an entry, which are at least those of its key and of its value.
LEMMA EntryBytes ==
  ASSUME NEW tables, NEW e \in Entry(tables), NEW body, Wrote(body, tables)
  PROVE  /\ writeEntry(e, body) \in Seq(Byte) /\ writeEntry(e, body) # <<>>
         /\ Len(writeEntry(e, body)) \in Nat
         /\ Len(e.key) <= Len(writeEntry(e, body))
         /\ Len(writeTableValue(e.value, body)) <= Len(writeEntry(e, body))
<1> DEFINE p == WriteString(e.key)
           q == writeTableValue(e.value, body)
           w == writeEntry(e, body)
<1>1. e.key \in Seq(Byte) /\ e.value \in Value(tables)
  BY DEF Entry
<1>2. p \in Seq(Byte) /\ Len(p) = Len(e.key) + 4 /\ Len(e.key) \in Nat
  BY <1>1, StringBytes, LenProperties
<1>3. q \in Seq(Byte) /\ Len(q) \in Nat
  BY <1>1, ValueBytes
<1>4. w = p \o q
  BY DEF writeEntry
<1> HIDE DEF p, q
<1>5. w \in Seq(Byte) /\ Len(w) = Len(p) + Len(q)
  BY <1>2, <1>3, <1>4, Concat
<1> HIDE DEF w
<1>6. Len(e.key) <= Len(w) /\ Len(q) <= Len(w) /\ Len(w) # 0 /\ Len(w) \in Nat
  BY <1>2, <1>3, <1>5
<1>7. w # <<>>
  BY <1>6, EmptySeq
<1>8. QED BY <1>5, <1>6, <1>7 DEF w, q

\* Intervals from one that are equal have the same end.
LEMMA SameRange ==
  ASSUME NEW m \in Nat, NEW n \in Nat, 1 .. m = 1 .. n
  PROVE  m = n
<1>1. m = 0 \/ m \in 1 .. n
  OBVIOUS
<1>2. n = 0 \/ n \in 1 .. m
  OBVIOUS
<1>3. QED BY <1>1, <1>2

\* The entries one behind the other.
EntryList(t, body) == [i \in DOMAIN t |-> writeEntry(t[i], body)]

\* The entries of a table as bytes.
LEMMA EntryListIs ==
  ASSUME NEW tables, NEW t \in Maps(tables), NEW body, Wrote(body, tables)
  PROVE  /\ EntryList(t, body) \in Seq(Seq(Byte)) /\ Len(EntryList(t, body)) = Len(t)
         /\ Len(t) \in Nat /\ \A i \in 1 .. Len(t) : t[i] \in Entry(tables)
         /\ \A i \in 1 .. Len(t) : EntryList(t, body)[i] = writeEntry(t[i], body)
         /\ writeEntries(t, body) = FlattenSeq(EntryList(t, body))
<1> DEFINE n == Len(t)
           s == [i \in 1 .. n |-> writeEntry(t[i], body)]
<1>1. t \in Seq(Entry(tables))
  BY DEF Maps
<1>2. n \in Nat /\ DOMAIN t = 1 .. n /\ \A i \in 1 .. n : t[i] \in Entry(tables)
  BY <1>1, LenProperties, ElementOfSeq
<1>3. \A i \in 1 .. n : writeEntry(t[i], body) \in Seq(Byte)
  BY <1>2, EntryBytes
<1>4. EntryList(t, body) = s
  BY <1>2 DEF EntryList
<1> HIDE DEF n
<1>5. s \in [1 .. n -> Seq(Byte)]
  BY <1>3
<1>6. s \in Seq(Seq(Byte)) /\ Len(s) = n
  <2>1. s \in Seq(Seq(Byte))
    BY <1>2, <1>5, SeqDef
  <2>2. Len(s) \in Nat /\ DOMAIN s = 1 .. Len(s)
    BY <2>1, LenProperties
  <2>3. DOMAIN s = 1 .. n
    OBVIOUS
  <2> HIDE DEF s
  <2>4. 1 .. Len(s) = 1 .. n
    BY <2>2, <2>3
  <2>5. Len(s) \in Nat /\ n \in Nat
    BY <1>2, <2>2
  <2>6. Len(s) = n
    BY <2>4, <2>5, SameRange
  <2>7. QED BY <2>1, <2>6
<1>7. writeEntries(t, body) = FlattenSeq(EntryList(t, body))
  BY Zenon DEF writeEntries, EntryList
<1>8. \A i \in 1 .. n : s[i] = writeEntry(t[i], body)
  OBVIOUS
<1>9. QED BY <1>2, <1>4, <1>6, <1>7, <1>8 DEF n

\* Every table, however deep, has bytes.
LEMMA TableBytes ==
  ASSUME NEW d \in 0 .. MaxDepth, NEW t \in Table[d]
  PROVE  tableBytes[d][t] \in Seq(Byte) /\ Wrote(Below(tableBytes, d), Inner(d))
<1> DEFINE P == {i \in 0 .. d : Wrote(Below(tableBytes, i), Inner(i))}
<1>1. 0 \in P
  BY DEF Wrote, Inner
<1>2. ASSUME NEW i \in 0 .. MaxDepth, Wrote(Below(tableBytes, i), Inner(i)), NEW u \in Table[i]
      PROVE  tableBytes[i][u] \in Seq(Byte)
  <2> DEFINE body == Below(tableBytes, i)
             s == EntryList(u, body)
  <2>1. u \in Maps(Inner(i))
    BY TableIs
  <2>2. s \in Seq(Seq(Byte)) /\ Len(s) = Len(u) /\ Len(u) \in Nat /\ writeEntries(u, body) = FlattenSeq(s)
    BY <1>2, <2>1, EntryListIs
  <2>3. tableBytes[i][u] = FlattenSeq(s)
    BY <2>2, BytesAre
  <2> HIDE DEF s
  <2>4. PICK cut \in [0 .. Len(s) -> Seq(Byte)] : Cuts(cut, s)
    BY <2>2, FlattenCuts
  <2>5. cut[0] = FlattenSeq(s) /\ 0 \in 0 .. Len(s)
    BY <2>2, <2>4 DEF Cuts
  <2>6. QED BY <2>3, <2>4, <2>5
<1>3. ASSUME NEW i \in 1 .. d, i - 1 \in P PROVE i \in P
  <2>1. i - 1 \in 0 .. MaxDepth /\ Wrote(Below(tableBytes, i - 1), Inner(i - 1)) /\ i \in 0 .. d /\ i # 0
    BY <1>3, DepthAssumption
  <2>2. \A u \in Table[i - 1] : tableBytes[i - 1][u] \in Seq(Byte)
    BY <1>2, <2>1
  <2>3. Inner(i) = Table[i - 1] /\ Below(tableBytes, i) = tableBytes[i - 1]
    BY <2>1 DEF Inner, Below
  <2>4. QED BY <2>1, <2>2, <2>3 DEF Wrote
<1>4. d \in Nat /\ d \in 0 .. d
  BY DepthAssumption
<1>5. \A i \in 0 .. d : i \in P
  <2> HIDE DEF P
  <2>1. QED BY <1>1, <1>3, <1>4, UpTo
<1>6. Wrote(Below(tableBytes, d), Inner(d))
  BY <1>4, <1>5
<1>7. QED BY <1>2, <1>6

----------------------------------------------------------------------------
(* Decoding what was encoded                                               *)

\* A tag tells the type.
LEMMA TagKinds ==
  /\ \A k \in DOMAIN Fixed : Kinds(Fixed[k].tag) = {k}
  /\ \A k \in DOMAIN Text : Kinds(Text[k]) = {k}
  /\ Kinds(TableTag) = {"table"}
<1>1. DOMAIN Fixed = {"bool", "int8", "uint8", "int16", "uint16", "int32", "uint32", "int64",
                      "uint64", "float32", "float64", "time"}
  BY DEF Fixed
<1>2. DOMAIN Text = {"string", "bytes"} /\ TableTag = 70
  BY DEF Text, TableTag
<1>3. \A j, k \in DOMAIN Fixed : Fixed[j].tag = Fixed[k].tag => j = k
  BY <1>1 DEF Fixed
<1>4. \A j \in DOMAIN Fixed : Fixed[j].tag # 83 /\ Fixed[j].tag # 120 /\ Fixed[j].tag # 70
  BY <1>1 DEF Fixed
<1>5. Text["string"] = 83 /\ Text["bytes"] = 120
  BY DEF Text
<1>6. \A k \in DOMAIN Text : Text[k] = 83 \/ Text[k] = 120
  BY <1>2, <1>5
<1>7. \A j, k \in DOMAIN Text : Text[j] = Text[k] => j = k
  BY <1>2, <1>5
<1>8. ASSUME NEW k \in DOMAIN Fixed PROVE Kinds(Fixed[k].tag) = {k}
  <2>1. {j \in DOMAIN Fixed : Fixed[j].tag = Fixed[k].tag} = {k}
    BY <1>3
  <2>2. {j \in DOMAIN Text : Text[j] = Fixed[k].tag} = {}
    BY <1>4, <1>6
  <2>3. Fixed[k].tag # TableTag
    BY <1>2, <1>4
  <2>4. QED BY <2>1, <2>2, <2>3 DEF Kinds
<1>9. ASSUME NEW k \in DOMAIN Text PROVE Kinds(Text[k]) = {k}
  <2>1. {j \in DOMAIN Fixed : Fixed[j].tag = Text[k]} = {}
    BY <1>4, <1>6
  <2>2. {j \in DOMAIN Text : Text[j] = Text[k]} = {k}
    BY <1>7
  <2>3. Text[k] # TableTag
    BY <1>2, <1>6
  <2>4. QED BY <2>1, <2>2, <2>3 DEF Kinds
<1>10. Kinds(TableTag) = {"table"}
  <2>1. {j \in DOMAIN Fixed : Fixed[j].tag = TableTag} = {}
    BY <1>2, <1>4
  <2>2. {j \in DOMAIN Text : Text[j] = TableTag} = {}
    BY <1>2, <1>6
  <2>3. QED BY <2>1, <2>2 DEF Kinds
<1>11. QED BY <1>8, <1>9, <1>10

\* A byte is read as itself.
LEMMA ReadsByte ==
  ASSUME NEW x \in Byte, NEW rest \in Seq(Byte)
  PROVE  ReadUint(<<x>> \o rest, 1) = Read(x, rest)
<1>1. x \in Int /\ x % 256 = x /\ x \div 256 = 0
  BY DEF Byte
<1>2. BigEndian(x, 1) = <<x>>
  BY <1>1, OneByteOf
<1>3. Shift(x, 0 + 1) = Shift(x, 0) \div 256 /\ Shift(x, 0) = x
  BY <1>1, ShiftStep
<1>4. FitsIn(x, 1, FALSE)
  BY <1>1, <1>3 DEF FitsIn
<1>5. 1 \in Nat \ {0}
  OBVIOUS
<1> DEFINE p == BigEndian(x, 1)
<1>6. ReadUint(p \o rest, 1) = Read(x, rest)
  BY <1>1, <1>4, <1>5, ReadsUint
<1> HIDE DEF p
<1>7. p = <<x>>
  BY <1>2 DEF p
<1>8. QED BY <1>6, <1>7

\* Behind its tag, a value is read by the tag's type.
LEMMA ReadsTagged ==
  ASSUME NEW tag \in Byte, NEW k, Kinds(tag) = {k}, NEW w \in Seq(Byte), NEW body,
         NEW v, NEW rest, ValueOf(w, k, body) = Read(v, rest)
  PROVE  readTableValue(<<tag>> \o w, body) = Read([k |-> k, v |-> v], rest)
<1> DEFINE b == <<tag>> \o w
           r == ReadUint(b, 1)
           j == CHOOSE j \in Kinds(r.v) : TRUE
           value == ValueOf(r.rest, j, body)
<1>1. r = Read(tag, w)
  BY ReadsByte
<1>2. readTableValue(b, body) = IF ~r.ok \/ Kinds(r.v) = {} \/ ~value.ok THEN Bad
                                ELSE Read([k |-> j, v |-> value.v], value.rest)
  BY ReadTableValueIs
<1> HIDE DEF b, r
<1>3. r.ok = TRUE /\ r.v = tag /\ r.rest = w
  BY <1>1, ReadFields
<1>4. j = k
  BY <1>3
<1> HIDE DEF j
<1>5. value = Read(v, rest)
  BY <1>3, <1>4
<1> HIDE DEF value
<1>6. value.ok = TRUE /\ value.v = v /\ value.rest = rest
  BY <1>5, ReadFields
<1>7. Kinds(r.v) # {}
  BY <1>3
<1>8. readTableValue(b, body) = Read([k |-> j, v |-> value.v], value.rest)
  BY <1>2, <1>3, <1>6, <1>7
<1>9. QED BY <1>4, <1>6, <1>8 DEF b

\* A number behind which other bytes follow.
LEMMA ReadsFixed ==
  ASSUME NEW x \in Numeric, NEW rest \in Seq(Byte), NEW maps
  PROVE  ReadFixed(BigEndian(Whole(x), Fixed[x.k].n) \o rest, x.k) = Read(KeptValue(x, maps).v, rest)
<1> DEFINE k == x.k
           n == Fixed[k].n
           signed == Fixed[k].signed
           p == BigEndian(Whole(x), n)
           b == p \o rest
           v == Number(SubSeq(b, 1, n), signed)
<1>1. k \in DOMAIN Fixed /\ Whole(x) \in Int /\ x.v \in Int
  BY WholeInt DEF Numeric
<1>2. n \in Nat \ {0} /\ signed \in BOOLEAN /\ k # "table"
  BY <1>1, FixedTypes
<1>3. FitsIn(Whole(x), n, signed)
  <2>1. CASE k = "bool"
    <3>1. x.v \in {0, 1}
      BY <2>1 DEF Numeric
    <3>2. n = 1 /\ signed = FALSE /\ Whole(x) = x.v
      BY <2>1 DEF Fixed, Whole, Floats
    <3>3. Shift(x.v, 0 + 1) = Shift(x.v, 0) \div 256 /\ Shift(x.v, 0) = x.v
      BY <1>1, ShiftStep
    <3>4. x.v \div 256 = 0
      BY <3>1
    <3>5. Shift(x.v, 1) = 0
      BY <3>3, <3>4
    <3>6. FitsIn(x.v, 1, FALSE)
      BY <3>5 DEF FitsIn
    <3>7. QED BY <3>2, <3>6
  <2>2. CASE k # "bool"
    BY <2>2 DEF Numeric
  <2>3. QED BY <2>1, <2>2
<1>4. Number(p, signed) = Whole(x)
  <2> HIDE DEF n, signed
  <2>1. QED BY <1>1, <1>2, <1>3, NumberOfBigEndian
<1>5. p \in Seq(Byte) /\ Len(p) = n
  <2> HIDE DEF n
  <2>1. QED BY <1>1, <1>2, BigEndianBytes
<1> HIDE DEF p
<1>6. SubSeq(b, 1, n) = p /\ Drop(b, n) = rest
  <2>1. SubSeq(b, 1, Len(p)) = p /\ Drop(b, Len(p)) = rest
    BY <1>5, CutConcat
  <2>2. QED BY <1>5, <2>1
<1>7. ~(Len(b) < n)
  <2>1. Len(b) = Len(p) + Len(rest) /\ Len(rest) \in Nat
    BY <1>5, Concat
  <2> HIDE DEF b, n
  <2>2. QED BY <1>2, <1>5, <2>1
<1>8. ReadFixed(b, k) =
        IF Len(b) < n THEN Bad
        ELSE Read(IF k \in Floats THEN 2 * v ELSE IF k = "bool" /\ v # 0 THEN 1 ELSE v, Drop(b, n))
  BY DEF ReadFixed
<1>9. v = Whole(x)
  BY <1>4, <1>6
<1> HIDE DEF b, v, n, signed
<1>10. ReadFixed(b, k) =
         Read(IF k \in Floats THEN 2 * v ELSE IF k = "bool" /\ v # 0 THEN 1 ELSE v, rest)
  BY <1>6, <1>7, <1>8
<1>11. KeptValue(x, maps).v = IF k \in Floats THEN 2 * Whole(x) ELSE x.v
  BY <1>2 DEF KeptValue
<1>12. (IF k \in Floats THEN 2 * v ELSE IF k = "bool" /\ v # 0 THEN 1 ELSE v) = KeptValue(x, maps).v
  <2>1. CASE k \in Floats
    BY <1>9, <1>11, <2>1
  <2>2. CASE k \notin Floats /\ k # "bool"
    <3>1. Whole(x) = x.v
      BY <2>2 DEF Whole
    <3>2. QED BY <1>9, <1>11, <2>2, <3>1
  <2>3. CASE k \notin Floats /\ k = "bool"
    <3>1. Whole(x) = x.v
      BY <2>3 DEF Whole
    <3>2. x.v \in {0, 1}
      BY <2>3 DEF Numeric
    <3>3. QED BY <1>9, <1>11, <2>3, <3>1, <3>2
  <2>4. QED BY <2>1, <2>2, <2>3
<1>13. ReadFixed(b, k) = Read(KeptValue(x, maps).v, rest)
  BY <1>10, <1>12
<1>14. QED BY <1>13 DEF b, p, n

\* The nested tables are decoded.
Decoded(body, maps, tables) ==
  \A u \in tables : Size(body[u], 4) => readTableBody[body[u]] = Read(maps[u], <<>>)

\* Bytes that are part of others have a size that can be told.
LEMMA PartSize ==
  ASSUME NEW s \in Seq(Byte), NEW w \in Seq(Byte), Len(s) <= Len(w), Size(w, 4)
  PROVE  Size(s, 4)
<1>1. Len(s) \in Nat /\ Len(w) \in Nat /\ 4 \in Nat
  BY LenProperties
<1>2. FitsIn(Len(w), 4, FALSE)
  BY Zenon DEF Size
<1>3. FitsIn(Len(s), 4, FALSE)
  BY <1>1, <1>2, SmallerFits
<1>4. QED BY <1>3, Zenon DEF Size

\* A decoded value keeps its kind.
LEMMA KeptValueIs ==
  ASSUME NEW x, NEW maps
  PROVE  KeptValue(x, maps) = [k |-> x.k, v |-> KeptValue(x, maps).v]
BY DEF KeptValue

\* A tagged value is read back as it was written when the tables within it are.
LEMMA ReadsValue ==
  ASSUME NEW tables, NEW x \in Value(tables), NEW body, NEW maps,
         Wrote(body, tables), Decoded(body, maps, tables),
         Size(writeTableValue(x, body), 4), NEW rest \in Seq(Byte)
  PROVE  readTableValue(writeTableValue(x, body) \o rest, readTableBody) = Read(KeptValue(x, maps), rest)
<1> DEFINE w == writeTableValue(x, body)
           v == KeptValue(x, maps).v
           Goal == readTableValue(w \o rest, readTableBody) = Read([k |-> x.k, v |-> v], rest)
<1> SUFFICES Goal
  BY KeptValueIs
<1>0. w \in Seq(Byte)
  BY ValueBytes
<1>1. CASE x.k \in DOMAIN Fixed /\ x \in Numeric
  <2> DEFINE tag == Fixed[x.k].tag
             p == BigEndian(Whole(x), Fixed[x.k].n)
             q == p \o rest
  <2>1. tag \in Byte /\ Fixed[x.k].n \in Nat /\ Kinds(tag) = {x.k}
    BY <1>1, FixedTypes, TagKinds
  <2>2. p \in Seq(Byte)
    BY <1>1, <2>1, WholeInt, BigEndianBytes
  <2>3. w = <<tag>> \o p
    BY <1>1, WriteCases
  <2>4. ReadFixed(q, x.k) = Read(v, rest)
    BY <1>1, ReadsFixed
  <2> HIDE DEF p, tag, w, v
  <2>5. <<tag>> \in Seq(Byte)
    BY <2>1, OneByte
  <2>6. w \o rest = <<tag>> \o q /\ q \in Seq(Byte)
    BY <2>2, <2>3, <2>5, ConcatAssociative, Concat
  <2> HIDE DEF q
  <2>7. ValueOf(q, x.k, readTableBody) = Read(v, rest)
    BY <1>1, <2>4, ValueOfCases
  <2>8. QED BY <2>1, <2>6, <2>7, ReadsTagged
<1>2. CASE x.k \in DOMAIN Text /\ x.k # "table" /\ x.k \notin DOMAIN Fixed /\ x.v \in Seq(Byte)
  <2> DEFINE tag == Text[x.k]
             p == WriteString(x.v)
             q == p \o rest
  <2>1. tag \in Byte /\ Kinds(tag) = {x.k}
    BY <1>2, TagBytes, TagKinds
  <2>2. p \in Seq(Byte)
    BY <1>2, StringBytes
  <2>3. w = <<tag>> \o p
    BY <1>2, WriteCases
  <2>4. Size(x.v, 4)
    BY <1>0, <1>2, ValueBytes, PartSize
  <2>5. ReadPrefixed(q, 4) = Read(x.v, rest)
    BY <1>2, <2>4, ReadsString
  <2>6. v = x.v
    <3>1. x.k \notin Floats
      BY <1>2 DEF Fixed, Floats
    <3>2. QED BY <1>2, <3>1 DEF KeptValue
  <2> HIDE DEF p, tag, w, v
  <2>7. <<tag>> \in Seq(Byte)
    BY <2>1, OneByte
  <2>8. w \o rest = <<tag>> \o q /\ q \in Seq(Byte)
    BY <2>2, <2>3, <2>7, ConcatAssociative, Concat
  <2> HIDE DEF q
  <2>9. ValueOf(q, x.k, readTableBody) = Read(v, rest)
    BY <1>2, <2>5, <2>6, ValueOfCases
  <2>10. QED BY <2>1, <2>8, <2>9, ReadsTagged
<1>3. CASE x.k = "table" /\ x.v \in tables
  <2> DEFINE s == body[x.v]
             p == WriteString(s)
             q == p \o rest
  <2>1. TableTag \in Byte /\ Kinds(TableTag) = {"table"} /\ s \in Seq(Byte)
    BY <1>3, TagBytes, TagKinds DEF Wrote
  <2>2. w = <<TableTag>> \o p
    BY <1>3, WriteCases
  <2>3. Size(s, 4)
    <3>1. Len(s) <= Len(w)
      BY <1>3, ValueBytes
    <3> HIDE DEF s
    <3>2. QED BY <1>0, <2>1, <3>1, PartSize
  <2>4. readTableBody[s] = Read(maps[x.v], <<>>)
    BY <1>3, <2>3 DEF Decoded
  <2>5. v = maps[x.v]
    BY <1>3 DEF KeptValue
  <2> HIDE DEF s, w, v
  <2>6. p \in Seq(Byte)
    BY <2>1, StringBytes
  <2>7. ReadPrefixed(q, 4) = Read(s, rest)
    BY <2>1, <2>3, ReadsString
  <2> HIDE DEF p
  <2>8. <<TableTag>> \in Seq(Byte)
    BY <2>1, OneByte
  <2>9. w \o rest = <<TableTag>> \o q /\ q \in Seq(Byte)
    BY <2>2, <2>6, <2>8, ConcatAssociative, Concat
  <2> HIDE DEF q
  <2>10. readTable(q, readTableBody) = Read(v, rest)
    <3> DEFINE data == ReadPrefixed(q, 4)
               table == readTableBody[data.v]
    <3>1. readTable(q, readTableBody) =
            IF ~data.ok \/ ~table.ok THEN Bad ELSE Read(table.v, data.rest)
      BY DEF readTable, Parsed
    <3>2. data = Read(s, rest)
      BY <2>7
    <3> HIDE DEF data
    <3>3. data.ok = TRUE /\ data.v = s /\ data.rest = rest
      BY <3>2, ReadFields
    <3>4. table = Read(v, <<>>)
      BY <2>4, <2>5, <3>3
    <3> HIDE DEF table
    <3>5. table.ok = TRUE /\ table.v = v
      BY <3>4, ReadFields
    <3>6. QED BY <3>1, <3>3, <3>5
  <2>11. ValueOf(q, "table", readTableBody) = Read(v, rest)
    BY <2>10, ValueOfCases
  <2>12. readTableValue(<<TableTag>> \o q, readTableBody) = Read([k |-> "table", v |-> v], rest)
    BY <2>1, <2>9, <2>11, ReadsTagged
  <2>13. QED BY <1>3, <2>9, <2>12
<1> HIDE DEF Goal
<1>4. QED BY <1>1, <1>2, <1>3, ValueKinds

\* One entry, and the entries behind it.
LEMMA ReadsEntry ==
  ASSUME NEW tables, NEW e \in Entry(tables), NEW body, NEW maps,
         Wrote(body, tables), Decoded(body, maps, tables),
         Size(writeEntry(e, body), 4), NEW rest \in Seq(Byte), NEW m,
         readTableBody[rest] = Read(m, <<>>)
  PROVE  readTableBody[writeEntry(e, body) \o rest] =
           Read(Before(e.key, KeptValue(e.value, maps), m), <<>>)
<1> DEFINE p == WriteString(e.key)
           q == writeTableValue(e.value, body)
           w == writeEntry(e, body)
           b == w \o rest
           key == ReadPrefixed(b, 4)
           value == readTableValue(key.rest, readTableBody)
           later == readTableBody[value.rest]
<1>1. e.key \in Seq(Byte) /\ e.value \in Value(tables)
  BY DEF Entry
<1>2. w \in Seq(Byte) /\ w # <<>> /\ Len(e.key) <= Len(w) /\ Len(q) <= Len(w)
  BY EntryBytes
<1>3. p \in Seq(Byte) /\ q \in Seq(Byte)
  BY <1>1, StringBytes, ValueBytes
<1>4. Size(e.key, 4) /\ Size(q, 4)
  <2> HIDE DEF q
  <2>1. QED BY <1>1, <1>2, <1>3, PartSize
<1>5. w = p \o q
  BY DEF writeEntry
<1>6. readTableValue(q \o rest, readTableBody) = Read(KeptValue(e.value, maps), rest)
  BY <1>1, <1>4, ReadsValue
<1> HIDE DEF q
<1>7. q \o rest \in Seq(Byte)
  BY <1>3, Concat
<1>8. ReadPrefixed(p \o (q \o rest), 4) = Read(e.key, q \o rest)
  BY <1>1, <1>4, <1>7, ReadsString
<1> HIDE DEF p, w
<1>9. b = p \o (q \o rest) /\ b \in Seq(Byte)
  <2>1. (p \o q) \o rest = p \o (q \o rest)
    BY <1>3, ConcatAssociative
  <2>2. w \o rest \in Seq(Byte)
    BY <1>2, Concat
  <2>3. QED BY <1>5, <2>1, <2>2
<1>10. b # <<>>
  <2>1. Len(b) = Len(w) + Len(rest) /\ Len(w) \in Nat \ {0} /\ Len(rest) \in Nat
    BY <1>2, Concat, EmptySeq
  <2> HIDE DEF b
  <2>2. Len(b) # 0
    BY <2>1
  <2>3. QED BY <2>2, EmptySeq
<1> HIDE DEF b
<1>11. readTableBody[b] = readEntries(b, readTableBody)
  BY <1>9, <1>10, ReadTableBodyIs DEF BodyOf
<1>12. readEntries(b, readTableBody) =
         IF ~key.ok \/ ~value.ok \/ ~later.ok THEN Bad
         ELSE Read(Before(key.v, value.v, later.v), <<>>)
  BY DEF readEntries, Entries
<1>13. key = Read(e.key, q \o rest)
  BY <1>8, <1>9
<1> HIDE DEF key
<1>14. key.ok = TRUE /\ key.v = e.key /\ key.rest = q \o rest
  BY <1>13, ReadFields
<1>15. value = Read(KeptValue(e.value, maps), rest)
  BY <1>6, <1>14
<1> HIDE DEF value
<1>16. value.ok = TRUE /\ value.v = KeptValue(e.value, maps) /\ value.rest = rest
  BY <1>15, ReadFields
<1>17. later = Read(m, <<>>)
  BY <1>16
<1> HIDE DEF later
<1>18. later.ok = TRUE /\ later.v = m
  BY <1>17, ReadFields
<1>19. readTableBody[b] = Read(Before(e.key, KeptValue(e.value, maps), m), <<>>)
  BY <1>11, <1>12, <1>14, <1>16, <1>18
<1>20. QED BY <1>19 DEF b, w

\* The map of the entries behind the i-th.
Rest(t, i, maps) ==
  [key \in {t[j].key : j \in i + 1 .. Len(t)} |->
     KeptValue(t[CHOOSE j \in DOMAIN t : t[j].key = key].value, maps)]

\* The map of the entries from the i-th on: its first entry before the others.
LEMMA RestStep ==
  ASSUME NEW tables, NEW t \in Maps(tables), NEW maps, NEW i \in 1 .. Len(t)
  PROVE  Rest(t, i - 1, maps) = Before(t[i].key, KeptValue(t[i].value, maps), Rest(t, i, maps))
<1> DEFINE n == Len(t)
           at(key) == CHOOSE j \in DOMAIN t : t[j].key = key
           K(j) == {t[l].key : l \in j + 1 .. n}
           m == Rest(t, i, maps)
<1>1. t \in Seq(Entry(tables)) /\ \A j, l \in DOMAIN t : t[j].key = t[l].key => j = l
  BY DEF Maps
<1>2. n \in Nat /\ DOMAIN t = 1 .. n /\ i \in DOMAIN t
  BY <1>1, LenProperties
<1>3. at(t[i].key) = i
  BY <1>1, <1>2
<1> HIDE DEF at, n
<1>4. (i - 1) + 1 .. n = {i} \cup (i + 1 .. n)
  BY <1>2
<1>5. K(i - 1) = {t[i].key} \cup K(i)
  BY <1>4, Zenon
<1>6. t[i].key \notin K(i)
  <2> SUFFICES ASSUME NEW l \in i + 1 .. n, t[l].key = t[i].key PROVE FALSE
    OBVIOUS
  <2>1. l \in DOMAIN t /\ l # i
    BY <1>2
  <2>2. QED BY <1>1, <1>2, <2>1
<1>7. /\ Rest(t, i - 1, maps) = [key \in K(i - 1) |-> KeptValue(t[at(key)].value, maps)]
      /\ m = [key \in K(i) |-> KeptValue(t[at(key)].value, maps)]
  BY Zenon DEF Rest, at, n
<1> HIDE DEF K, m
<1>8. DOMAIN m = K(i) /\ \A key \in K(i) : m[key] = KeptValue(t[at(key)].value, maps)
  BY <1>7
<1>9. Before(t[i].key, KeptValue(t[i].value, maps), m) =
        [key \in {t[i].key} \cup K(i) |->
           IF key \in K(i) THEN m[key] ELSE KeptValue(t[i].value, maps)]
  BY <1>8 DEF Before
<1>10. \A key \in K(i - 1) : KeptValue(t[at(key)].value, maps) =
                             IF key \in K(i) THEN m[key] ELSE KeptValue(t[i].value, maps)
  BY <1>3, <1>5, <1>8
<1>11. Rest(t, i - 1, maps) = Before(t[i].key, KeptValue(t[i].value, maps), m)
  BY <1>5, <1>7, <1>9, <1>10
<1>12. QED BY <1>11 DEF m

\* No entries at the end, all of them at the start.
LEMMA RestEnds ==
  ASSUME NEW tables, NEW t \in Maps(tables), NEW maps
  PROVE  /\ Rest(t, Len(t), maps) = [k \in {} |-> 0]
         /\ Rest(t, 0, maps) = EntriesKept(t, maps)
<1>1. Len(t) \in Nat /\ DOMAIN t = 1 .. Len(t)
  <2>1. t \in Seq(Entry(tables))
    BY DEF Maps
  <2>2. QED BY <2>1, LenProperties
<1>2. Len(t) + 1 .. Len(t) = {} /\ 0 + 1 .. Len(t) = DOMAIN t
  BY <1>1
<1>3. {t[j].key : j \in Len(t) + 1 .. Len(t)} = {}
  BY <1>2, Zenon
<1>4. Rest(t, Len(t), maps) = [k \in {} |-> 0]
  BY <1>3 DEF Rest
<1>5. Rest(t, 0, maps) = EntriesKept(t, maps)
  BY <1>2, Zenon DEF Rest, EntriesKept
<1>6. QED BY <1>4, <1>5

\* Entries whose nested tables are decoded are decoded.
LEMMA ReadsEntries ==
  ASSUME NEW tables, NEW t \in Maps(tables), NEW body, NEW maps,
         Wrote(body, tables), Decoded(body, maps, tables), Size(writeEntries(t, body), 4)
  PROVE  readTableBody[writeEntries(t, body)] = Read(EntriesKept(t, maps), <<>>)
<1> DEFINE n == Len(t)
           s == EntryList(t, body)
<1>1. /\ s \in Seq(Seq(Byte)) /\ Len(s) = n /\ n \in Nat
      /\ \A i \in 1 .. n : t[i] \in Entry(tables)
      /\ \A i \in 1 .. n : s[i] = writeEntry(t[i], body)
      /\ writeEntries(t, body) = FlattenSeq(s)
  BY EntryListIs
<1> HIDE DEF s
<1>2. PICK cut \in [0 .. Len(s) -> Seq(Byte)] : Cuts(cut, s)
  BY <1>1, FlattenCuts
<1>3. /\ cut[0] = FlattenSeq(s) /\ cut[n] = <<>>
      /\ \A i \in 1 .. n : cut[i - 1] = s[i] \o cut[i]
      /\ \A i \in 0 .. n : cut[i] \in Seq(Byte)
  BY <1>1, <1>2 DEF Cuts
<1> DEFINE Good(i) == Size(cut[i], 4) => readTableBody[cut[i]] = Read(Rest(t, i, maps), <<>>)
           P == {j \in 0 .. n : Good(n - j)}
<1>4. Good(n)
  <2>1. <<>> \in Seq(Byte)
    BY EmptySeq
  <2>2. readTableBody[<<>>] = Read([k \in {} |-> 0], <<>>)
    BY <2>1, ReadTableBodyIs DEF BodyOf
  <2>3. QED BY <1>3, <2>2, RestEnds
<1>5. ASSUME NEW i \in 1 .. n, Good(i) PROVE Good(i - 1)
  <2> SUFFICES ASSUME Size(cut[i - 1], 4)
               PROVE  readTableBody[cut[i - 1]] = Read(Rest(t, i - 1, maps), <<>>)
    OBVIOUS
  <2>1. i \in 0 .. n /\ i - 1 \in 0 .. n
    BY <1>1
  <2> DEFINE w == s[i]
             c == cut[i]
             d == cut[i - 1]
  <2>2. d = w \o c /\ w = writeEntry(t[i], body) /\ t[i] \in Entry(tables)
        /\ c \in Seq(Byte) /\ d \in Seq(Byte)
    BY <1>1, <1>3, <2>1
  <2>3. w \in Seq(Byte)
    BY <2>2, EntryBytes
  <2>4. Size(d, 4)
    OBVIOUS
  <2>5. Size(c, 4) => readTableBody[c] = Read(Rest(t, i, maps), <<>>)
    BY <1>5
  <2> HIDE DEF w, c
  <2>6. Len(d) = Len(w) + Len(c) /\ Len(w) \in Nat /\ Len(c) \in Nat
    BY <2>2, <2>3, Concat
  <2> HIDE DEF d
  <2>7. Len(w) <= Len(d) /\ Len(c) <= Len(d)
    BY <2>6
  <2>8. Size(w, 4) /\ Size(c, 4)
    BY <2>2, <2>3, <2>4, <2>7, PartSize
  <2>9. readTableBody[w \o c] = Read(Before(t[i].key, KeptValue(t[i].value, maps), Rest(t, i, maps)), <<>>)
    BY <2>2, <2>5, <2>8, ReadsEntry
  <2>10. Rest(t, i - 1, maps) = Before(t[i].key, KeptValue(t[i].value, maps), Rest(t, i, maps))
    BY RestStep
  <2>11. QED BY <2>2, <2>9, <2>10 DEF d
<1> HIDE DEF n, Good
<1>6. 0 \in P
  <2>1. n - 0 = n /\ 0 \in 0 .. n
    BY <1>1
  <2>2. QED BY <1>4, <2>1
<1>7. ASSUME NEW j \in 1 .. n, j - 1 \in P PROVE j \in P
  <2>1. n - (j - 1) \in 1 .. n /\ (n - (j - 1)) - 1 = n - j /\ j \in 0 .. n
    BY <1>1
  <2>2. Good(n - (j - 1))
    BY <1>7
  <2>3. Good((n - (j - 1)) - 1)
    BY <1>5, <2>1, <2>2
  <2>4. QED BY <2>1, <2>3
<1>8. \A j \in 0 .. n : j \in P
  <2> HIDE DEF P
  <2>1. QED BY <1>1, <1>6, <1>7, UpTo
<1>9. Good(0)
  <2>1. n \in 0 .. n /\ n - n = 0
    BY <1>1
  <2>2. QED BY <1>8, <2>1
<1>10. readTableBody[cut[0]] = Read(Rest(t, 0, maps), <<>>)
  BY <1>1, <1>3, <1>9 DEF Good
<1>11. QED BY <1>1, <1>3, <1>10, RestEnds

\* Tables of any depth are decoded to the maps that were encoded.
LEMMA ReadsTableBytes ==
  ASSUME NEW d \in 0 .. MaxDepth, NEW t \in Table[d], Size(tableBytes[d][t], 4)
  PROVE  readTableBody[tableBytes[d][t]] = Read(keptMap[d][t], <<>>)
<1> DEFINE P == {i \in 0 .. d : Decoded(Below(tableBytes, i), Below(keptMap, i), Inner(i))}
<1>1. 0 \in P
  BY DEF Decoded, Inner
<1>2. ASSUME NEW i \in 0 .. MaxDepth, Decoded(Below(tableBytes, i), Below(keptMap, i), Inner(i)),
             NEW u \in Table[i], Size(tableBytes[i][u], 4)
      PROVE  readTableBody[tableBytes[i][u]] = Read(keptMap[i][u], <<>>)
  <2> DEFINE body == Below(tableBytes, i)
             maps == Below(keptMap, i)
  <2>1. u \in Maps(Inner(i)) /\ Wrote(body, Inner(i))
    BY TableIs, TableBytes
  <2>2. tableBytes[i][u] = writeEntries(u, body) /\ keptMap[i][u] = EntriesKept(u, maps)
    BY BytesAre, KeptIs
  <2> HIDE DEF body, maps
  <2>3. Decoded(body, maps, Inner(i)) /\ Size(writeEntries(u, body), 4)
    BY <1>2, <2>2 DEF body, maps
  <2>4. readTableBody[writeEntries(u, body)] = Read(EntriesKept(u, maps), <<>>)
    BY <2>1, <2>3, ReadsEntries
  <2>5. QED BY <2>2, <2>4
<1>3. ASSUME NEW i \in 1 .. d, i - 1 \in P PROVE i \in P
  <2> DEFINE j == i - 1
  <2>1. /\ j \in 0 .. MaxDepth /\ Decoded(Below(tableBytes, j), Below(keptMap, j), Inner(j))
        /\ i \in 0 .. d /\ i # 0
    BY <1>3, DepthAssumption
  <2>2. /\ Inner(i) = Table[j] /\ Below(tableBytes, i) = tableBytes[j]
        /\ Below(keptMap, i) = keptMap[j]
    BY <2>1 DEF Inner, Below
  <2> HIDE DEF j
  <2>3. \A u \in Table[j] : Size(tableBytes[j][u], 4) =>
          readTableBody[tableBytes[j][u]] = Read(keptMap[j][u], <<>>)
    BY <1>2, <2>1
  <2>4. QED BY <2>1, <2>2, <2>3 DEF Decoded
<1>4. d \in Nat /\ d \in 0 .. d
  BY DepthAssumption
<1>5. \A i \in 0 .. d : i \in P
  <2> HIDE DEF P
  <2>1. QED BY <1>1, <1>3, <1>4, UpTo
<1>6. Decoded(Below(tableBytes, d), Below(keptMap, d), Inner(d))
  BY <1>4, <1>5
<1>7. QED BY <1>2, <1>6

\* Of a value without a fraction the decoder returns what was encoded.
LEMMA WholeValue ==
  ASSUME NEW tables, NEW x \in Value(tables), x.k \in Floats => x.v % 2 = 0,
         NEW maps, NEW kept, x.k = "table" => maps[x.v] = kept[x.v]
  PROVE  AsValue(x, maps) = KeptValue(x, kept)
<1>1. CASE x.k = "table"
  BY <1>1 DEF AsValue, KeptValue
<1>2. CASE x.k # "table" /\ x.k \notin Floats
  BY <1>2 DEF AsValue, KeptValue
<1>3. CASE x.k # "table" /\ x.k \in Floats
  <2>1. x.k \notin DOMAIN Text
    BY <1>3 DEF Floats, Text
  <2>2. x \in Numeric
    BY <1>3, <2>1, ValueKinds
  <2>3. x.v \in Int /\ Whole(x) = x.v \div 2
    BY <1>3, <2>2, WholeInt DEF Whole
  <2>4. 2 * (x.v \div 2) = x.v
    BY <1>3, <2>3
  <2>5. 2 * Whole(x) = x.v
    BY <2>3, <2>4
  <2>6. QED BY <1>3, <2>5 DEF AsValue, KeptValue
<1>4. QED BY <1>1, <1>2, <1>3

\* Tables without a fraction are decoded to the maps they stand for, at any depth.
LEMMA WholeKept ==
  ASSUME NEW t \in WholeFloats[MaxDepth]
  PROVE  AsMap(t) = KeptMap(t)
<1> DEFINE Same(i) == \A u \in WholeFloats[i] : mapOf[i][u] = keptMap[i][u]
           P == {i \in 0 .. MaxDepth : Same(i)}
<1>1. ASSUME NEW i \in 0 .. MaxDepth, i # 0 => Same(i - 1), NEW u \in WholeFloats[i]
      PROVE  mapOf[i][u] = keptMap[i][u]
  <2> DEFINE maps == Below(mapOf, i)
             kept == Below(keptMap, i)
  <2>1. /\ u \in Table[i]
        /\ \A j \in DOMAIN u :
             /\ u[j].value.k \in Floats => u[j].value.v % 2 = 0
             /\ u[j].value.k = "table" =>
                  u[j].value.v \in (IF i = 0 THEN {} ELSE WholeFloats[i - 1])
    BY <1>1, WholeIs DEF WholeEntries
  <2>2. mapOf[i][u] = EntriesAsMap(u, maps) /\ keptMap[i][u] = EntriesKept(u, kept)
    BY <2>1, MapIs, KeptIs
  <2>3. u \in Seq(Entry(Inner(i)))
    BY <2>1, TableIs DEF Maps
  <2>4. ASSUME NEW j \in DOMAIN u
        PROVE  AsValue(u[j].value, maps) = KeptValue(u[j].value, kept)
    <3> DEFINE x == u[j].value
    <3>1. u[j] \in Entry(Inner(i))
      BY <2>3, <2>4, ElementOfSeq, LenProperties
    <3>2. x \in Value(Inner(i))
      BY <3>1 DEF Entry
    <3>3. x.k = "table" => maps[x.v] = kept[x.v]
      BY <1>1, <2>1, <2>4 DEF Below
    <3>4. x.k \in Floats => x.v % 2 = 0
      BY <2>1, <2>4
    <3> HIDE DEF x, maps, kept
    <3>5. AsValue(x, maps) = KeptValue(x, kept)
      BY <3>2, <3>3, <3>4, WholeValue
    <3>6. QED BY <3>5 DEF x
  <2> HIDE DEF maps, kept
  <2> DEFINE at(key) == CHOOSE j \in DOMAIN u : u[j].key = key
             K == {u[j].key : j \in DOMAIN u}
  <2>5. \A key \in K : at(key) \in DOMAIN u
    OBVIOUS
  <2>6. \A key \in K : AsValue(u[at(key)].value, maps) = KeptValue(u[at(key)].value, kept)
    <3> HIDE DEF at, K
    <3>1. QED BY <2>4, <2>5
  <2>7. /\ EntriesAsMap(u, maps) = [key \in K |-> AsValue(u[at(key)].value, maps)]
        /\ EntriesKept(u, kept) = [key \in K |-> KeptValue(u[at(key)].value, kept)]
    BY Zenon DEF EntriesAsMap, EntriesKept
  <2> HIDE DEF at, K
  <2>8. EntriesAsMap(u, maps) = EntriesKept(u, kept)
    BY <2>6, <2>7
  <2>9. QED BY <2>2, <2>8
<1>2. MaxDepth \in Nat /\ 0 \in 0 .. MaxDepth /\ MaxDepth \in 0 .. MaxDepth
  BY DepthAssumption
<1>3. 0 \in P
  BY <1>1, <1>2
<1>4. ASSUME NEW i \in 1 .. MaxDepth, i - 1 \in P PROVE i \in P
  <2>1. i \in 0 .. MaxDepth /\ Same(i - 1)
    BY <1>2, <1>4
  <2>2. QED BY <1>1, <2>1
<1>5. \A i \in 0 .. MaxDepth : i \in P
  <2> HIDE DEF P
  <2>1. QED BY <1>2, <1>3, <1>4, UpTo
<1>6. QED BY <1>2, <1>5 DEF AsMap, KeptMap

\* ReadTable reads back the table WriteTable wrote, whatever follows it.
LEMMA ReadsTable ==
  ASSUME NEW t \in Table[MaxDepth], Size(tableBytes[MaxDepth][t], 4), NEW rest \in Seq(Byte)
  PROVE  /\ WriteTable(t) \in Seq(Byte)
         /\ ReadTable(WriteTable(t) \o rest) = Read(KeptMap(t), rest)
<1> DEFINE s == tableBytes[MaxDepth][t]
           b == WriteString(s) \o rest
           data == ReadPrefixed(b, 4)
           table == readTableBody[data.v]
<1>1. MaxDepth \in 0 .. MaxDepth
  BY DepthAssumption
<1>2. s \in Seq(Byte) /\ readTableBody[s] = Read(KeptMap(t), <<>>)
  BY <1>1, TableBytes, ReadsTableBytes DEF KeptMap
<1>3. WriteTable(t) = WriteString(s)
  BY DEF WriteTable
<1> HIDE DEF s
<1>4. WriteString(s) \in Seq(Byte)
  BY <1>2, StringBytes
<1>5. data = Read(s, rest)
  BY <1>2, ReadsString DEF s
<1>6. ReadTable(b) = IF ~data.ok \/ ~table.ok THEN Bad ELSE Read(table.v, data.rest)
  BY DEF ReadTable, readTable, Parsed
<1> HIDE DEF b, data
<1>7. data.ok = TRUE /\ data.v = s /\ data.rest = rest
  BY <1>5, ReadFields
<1>8. table = Read(KeptMap(t), <<>>)
  BY <1>2, <1>7
<1> HIDE DEF table
<1>9. table.ok = TRUE /\ table.v = KeptMap(t)
  BY <1>8, ReadFields
<1>10. ReadTable(b) = Read(KeptMap(t), rest)
  BY <1>6, <1>7, <1>9
<1>11. QED BY <1>3, <1>4, <1>10 DEF b

\* The result of a successful Queue.Bind.
Bound(r) == [queue |-> r.queue, exchange |-> r.exchange, key |-> r.key, args |-> KeptMap(r.args)]

\* handleQueueBind decodes the arguments that were encoded.
LEMMA DecodesBind ==
  ASSUME NEW r \in Requests
  PROVE  DecodeBind(EncodeBind(r)) = Read(Bound(r), <<>>)
<1> DEFINE z == BigEndian(0, 2)
           q == WriteShortString(r.queue)
           x == WriteShortString(r.exchange)
           k == WriteShortString(r.key)
           o == <<0>>
           a == WriteTable(r.args)
           b == EncodeBind(r)
<1>1. /\ r \in [queue : Seq(Byte), exchange : Seq(Byte), key : Seq(Byte), args : Table[MaxDepth]]
      /\ Size(r.queue, 1) /\ Size(r.exchange, 1) /\ Size(r.key, 1)
      /\ Size(tableBytes[MaxDepth][r.args], 4)
  BY RequestAssumption
<1>2. /\ r.queue \in Seq(Byte) /\ r.exchange \in Seq(Byte) /\ r.key \in Seq(Byte)
      /\ r.args \in Table[MaxDepth]
  BY <1>1
<1>3. <<>> \in Seq(Byte)
  BY EmptySeq
<1>4. a \in Seq(Byte) /\ ReadTable(a \o <<>>) = Read(KeptMap(r.args), <<>>)
  BY <1>1, <1>2, <1>3, ReadsTable
<1>5. q \in Seq(Byte) /\ x \in Seq(Byte) /\ k \in Seq(Byte)
  BY <1>2, ShortStringBytes
<1>6. z \in Seq(Byte) /\ Len(z) = 2
  <2>1. 0 \in Int /\ 2 \in Nat
    OBVIOUS
  <2>2. QED BY <2>1, BigEndianBytes
<1>7. 0 \in Byte /\ o \in Seq(Byte)
  BY OneByte DEF Byte
<1> DEFINE c1 == o \o a
           c2 == k \o c1
           c3 == x \o c2
           c4 == q \o c3
<1> HIDE DEF z, q, x, k, o, a
<1>8. a \o <<>> = a
  BY <1>4, ConcatEmptySeq
<1>9. c1 \in Seq(Byte)
  BY <1>4, <1>7, Concat
<1> HIDE DEF c1
<1>10. c2 \in Seq(Byte)
  BY <1>5, <1>9, Concat
<1> HIDE DEF c2
<1>11. c3 \in Seq(Byte)
  BY <1>5, <1>10, Concat
<1> HIDE DEF c3
<1>12. c4 \in Seq(Byte)
  BY <1>5, <1>11, Concat
<1> HIDE DEF c4
<1>13. b = z \o c4
  <2> DEFINE u1 == z \o q
             u2 == u1 \o x
             u3 == u2 \o k
  <2>1. b = (u3 \o o) \o a
    BY DEF EncodeBind, z, q, x, k, o, a
  <2>2. u1 \in Seq(Byte)
    BY <1>5, <1>6, Concat
  <2> HIDE DEF b, u1
  <2>3. u2 \in Seq(Byte)
    BY <1>5, <2>2, Concat
  <2> HIDE DEF u2
  <2>4. u3 \in Seq(Byte)
    BY <1>5, <2>3, Concat
  <2> HIDE DEF u3
  <2>5. (u3 \o o) \o a = u3 \o (o \o a)
    BY <1>4, <1>7, <2>4, ConcatAssociative
  <2>6. (u2 \o k) \o c1 = u2 \o (k \o c1)
    BY <1>5, <1>9, <2>3, ConcatAssociative
  <2>7. (u1 \o x) \o c2 = u1 \o (x \o c2)
    BY <1>5, <1>10, <2>2, ConcatAssociative
  <2>8. (z \o q) \o c3 = z \o (q \o c3)
    BY <1>5, <1>6, <1>11, ConcatAssociative
  <2>9. b = u3 \o c1
    BY <2>1, <2>5 DEF c1
  <2>10. b = u2 \o c2
    BY <2>6, <2>9 DEF c2, u3
  <2>11. b = u1 \o c3
    BY <2>7, <2>10 DEF c3, u2
  <2>12. QED BY <2>8, <2>11 DEF c4, u1
<1>14. Drop(b, 2) = c4
  <2>1. Drop(z \o c4, Len(z)) = c4
    BY <1>6, <1>12, CutConcat
  <2>2. QED BY <1>6, <1>13, <2>1
<1> DEFINE queue == ReadShortString[Drop(b, 2)]
           exchange == ReadShortString[queue.rest]
           key == ReadShortString[exchange.rest]
           bits == ReadUint(key.rest, 1)
           args == ReadTable(bits.rest)
<1>15. DecodeBind(b) =
         IF ~queue.ok \/ ~exchange.ok \/ ~key.ok \/ ~bits.ok \/ ~args.ok THEN Bad
         ELSE Read([queue |-> queue.v, exchange |-> exchange.v, key |-> key.v, args |-> args.v],
                   args.rest)
  BY DEF DecodeBind, Arguments
<1> HIDE DEF b
<1>16. queue = Read(r.queue, c3)
  <2>1. ReadShortString[q \o c3] = Read(r.queue, c3)
    BY <1>1, <1>2, <1>11, ReadsShortString DEF q
  <2>2. QED BY <1>14, <2>1 DEF c4
<1> HIDE DEF queue
<1>17. queue.ok = TRUE /\ queue.v = r.queue /\ queue.rest = c3
  BY <1>16, ReadFields
<1>18. exchange = Read(r.exchange, c2)
  <2>1. ReadShortString[x \o c2] = Read(r.exchange, c2)
    BY <1>1, <1>2, <1>10, ReadsShortString DEF x
  <2>2. QED BY <1>17, <2>1 DEF c3
<1> HIDE DEF exchange
<1>19. exchange.ok = TRUE /\ exchange.v = r.exchange /\ exchange.rest = c2
  BY <1>18, ReadFields
<1>20. key = Read(r.key, c1)
  <2>1. ReadShortString[k \o c1] = Read(r.key, c1)
    BY <1>1, <1>2, <1>9, ReadsShortString DEF k
  <2>2. QED BY <1>19, <2>1 DEF c2
<1> HIDE DEF key
<1>21. key.ok = TRUE /\ key.v = r.key /\ key.rest = c1
  BY <1>20, ReadFields
<1>22. bits = Read(0, a)
  <2>1. ReadUint(o \o a, 1) = Read(0, a)
    BY <1>4, <1>7, ReadsByte DEF o
  <2>2. QED BY <1>21, <2>1 DEF c1
<1> HIDE DEF bits
<1>23. bits.ok = TRUE /\ bits.rest = a
  BY <1>22, ReadFields
<1>24. args = Read(KeptMap(r.args), <<>>)
  BY <1>4, <1>8, <1>23
<1> HIDE DEF args
<1>25. args.ok = TRUE /\ args.v = KeptMap(r.args) /\ args.rest = <<>>
  BY <1>24, ReadFields
<1>26. DecodeBind(b) = Read([queue |-> queue.v, exchange |-> exchange.v, key |-> key.v, args |-> args.v],
                            args.rest)
  BY <1>15, <1>17, <1>19, <1>21, <1>23, <1>25
<1>27. QED BY <1>17, <1>19, <1>21, <1>25, <1>26 DEF b, Bound

----------------------------------------------------------------------------
(* The bindings that handlers make                                         *)

\* Without a client nothing is read, and the bindings are those asked for, in order.
DirectCalls ==
  sent = <<>> =>
    /\ hand = <<>> /\ asked \in Seq(Requests)
    /\ bindings = [i \in 1 .. Len(asked) |-> Bound(asked[i])]

ServedClient == sent # <<>> => asked = <<>> /\ routed = <<>>

BindInv == DirectCalls /\ ServedClient

\* A direct call binds what it was asked to.
LEMMA CallBinds ==
  ASSUME BindInv, NEW r \in Requests, Call(r)
  PROVE  BindInv'
<1>1. /\ sent = <<>> /\ hand = <<>> /\ asked \in Seq(Requests)
      /\ bindings = [i \in 1 .. Len(asked) |-> Bound(asked[i])]
  BY DEF Call, BindInv, DirectCalls
<1>2. /\ asked' = Append(asked, r) /\ handleQueueBind(EncodeBind(r))
      /\ sent' = sent /\ hand' = hand
  BY DEF Call, wire
<1> DEFINE b == DecodeBind(EncodeBind(r))
<1>3. b = Read(Bound(r), <<>>)
  BY DecodesBind
<1>4. b.ok = TRUE /\ b.v = Bound(r)
  <2> HIDE DEF b
  <2>1. QED BY <1>3, ReadFields
<1>5. handleQueueBind(EncodeBind(r)) =
        (IF b.ok THEN bindings' = Append(bindings, b.v) /\ UNCHANGED conn
         ELSE conn' = "failed" /\ UNCHANGED bindings)
  BY DEF handleQueueBind
<1> HIDE DEF b
<1>6. bindings' = Append(bindings, Bound(r))
  BY <1>2, <1>4, <1>5
<1> DEFINE n == Len(asked)
           S == {Bound(q) : q \in Requests}
           f == [i \in 1 .. Len(asked') |-> Bound(asked'[i])]
<1>7. /\ n \in Nat /\ asked' \in Seq(Requests) /\ Len(asked') = n + 1
      /\ \A i \in 1 .. n : asked'[i] = asked[i] /\ asked[i] \in Requests
      /\ asked'[n + 1] = r
  BY <1>1, <1>2, AppendProperties, LenProperties, ElementOfSeq
<1>8. /\ bindings \in [1 .. n -> S]
  BY <1>1, <1>7
<1>9. bindings \in Seq(S) /\ Len(bindings) = n /\ Bound(r) \in S
  BY <1>7, <1>8, SeqDef
<1>10. /\ bindings' \in Seq(S) /\ Len(bindings') = n + 1
       /\ \A i \in 1 .. n : bindings'[i] = bindings[i]
       /\ bindings'[n + 1] = Bound(r)
  BY <1>6, <1>9, AppendProperties
<1>11. DOMAIN bindings' = 1 .. n + 1
  BY <1>10, LenProperties
<1> HIDE DEF n, S
<1>12. ASSUME NEW i \in 1 .. n + 1 PROVE bindings'[i] = Bound(asked'[i])
  <2>1. CASE i = n + 1
    BY <1>7, <1>10, <2>1
  <2>2. CASE i # n + 1
    <3>1. i \in 1 .. n
      BY <1>7, <2>2
    <3>2. bindings[i] = Bound(asked[i])
      BY <1>1, <3>1 DEF n
    <3>3. QED BY <1>7, <1>10, <3>1, <3>2
  <2>3. QED BY <2>1, <2>2
<1>13. bindings' = [i \in 1 .. n + 1 |-> bindings'[i]]
  <2>1. bindings' \in [1 .. Len(bindings') -> S]
    BY <1>10, LenProperties
  <2>2. QED BY <1>10, <2>1
<1>14. bindings' = f
  BY <1>7, <1>12, <1>13
<1>15. QED BY <1>1, <1>2, <1>7, <1>14 DEF BindInv, DirectCalls, ServedClient

\* No other step makes bindings unless a client is served.
LEMMA BindStep ==
  BindInv /\ [Next]_vars => BindInv'
<1> SUFFICES ASSUME BindInv, [Next]_vars PROVE BindInv'
  OBVIOUS
<1> USE DEF BindInv, DirectCalls, ServedClient
<1>1. ASSUME Arrive PROVE BindInv'
  BY <1>1 DEF Arrive
<1>2. ASSUME HangUp PROVE BindInv'
  BY <1>2 DEF HangUp
<1>3. ASSUME NextFrame PROVE BindInv'
  BY <1>3 DEF NextFrame, Reading, wire
<1>4. ASSUME FrameRefused PROVE BindInv'
  BY <1>4 DEF FrameRefused, Reading, wire
<1>5. ASSUME EndOfStream PROVE BindInv'
  BY <1>5 DEF EndOfStream, Reading, wire
<1>6. ASSUME Dispatch PROVE BindInv'
  <2>1. hand # <<>> /\ sent' = sent /\ asked' = asked /\ routed' = routed
    BY <1>6 DEF Dispatch, wire
  <2>2. QED BY <2>1
<1>7. ASSUME NEW r \in Requests, Call(r) PROVE BindInv'
  <2> USE DEF BindInv, DirectCalls, ServedClient
  <2>1. QED BY <1>7, CallBinds
<1>8. ASSUME NEW type, NEW m \in Messages, Publish(type, m) PROVE BindInv'
  BY <1>8 DEF Publish, wire
<1>9. ASSUME UNCHANGED vars PROVE BindInv'
  BY <1>9 DEF vars, wire
<1> HIDE DEF BindInv
<1>10. QED BY <1>1, <1>2, <1>3, <1>4, <1>5, <1>6, <1>7, <1>8, <1>9 DEF Next, Serve

\* Nothing is bound at the start.
LEMMA BindInit ==
  Init => BindInv
<1> SUFFICES ASSUME Init PROVE BindInv
  OBVIOUS
<1>1. hand = <<>> /\ asked = <<>> /\ routed = <<>> /\ bindings = <<>>
  BY DEF Init
<1>2. <<>> \in Seq(Requests) /\ Len(<<>>) = 0
  BY EmptySeq
<1>3. [i \in 1 .. 0 |-> Bound(asked[i])] = <<>>
  OBVIOUS
<1>4. QED BY <1>1, <1>2, <1>3 DEF BindInv, DirectCalls, ServedClient

\* The bindings are those of the direct calls in every state.
LEMMA BindInvariant ==
  Spec => []BindInv
BY BindInit, BindStep, PTL DEF Spec

\* Handlers called directly make the bindings that were asked for, whatever the names, the
\* keys and the arguments, nested to any depth, as long as their sizes fit the prefixes
\* and no float among the arguments has a fraction.
THEOREM BindTheorem ==
  Spec => []CallsBindAsAsked
<1>1. ASSUME BindInv PROVE CallsBindAsAsked
  <2>1. CASE sent = <<>>
    <3>1. /\ asked \in Seq(Requests)
          /\ bindings = [i \in 1 .. Len(asked) |-> Bound(asked[i])]
      BY <1>1, <2>1 DEF BindInv, DirectCalls
    <3> DEFINE n == Len(asked)
               S == {bindings[i] : i \in 1 .. n}
    <3>2. n \in Nat /\ DOMAIN asked = 1 .. n
      BY <3>1, LenProperties
    <3>3. bindings \in [1 .. n -> S]
      BY <3>1
    <3>4. Len(bindings) = n
      BY <3>2, <3>3, SeqDef
    <3>5. ASSUME NEW i \in DOMAIN asked PROVE bindings[i] = Bound(asked[i])
      BY <3>1, <3>2
    <3>6. ASSUME NEW i \in DOMAIN asked, asked[i].args \in WholeFloats[MaxDepth]
          PROVE  bindings[i] = AsAsked(asked[i])
      <4>1. AsMap(asked[i].args) = KeptMap(asked[i].args)
        BY <3>6, WholeKept
      <4>2. QED BY <3>5, <4>1 DEF Bound, AsAsked
    <3>7. QED BY <3>4, <3>6 DEF CallsBindAsAsked
  <2>2. CASE sent # <<>>
    <3>1. asked = <<>>
      BY <1>1, <2>2 DEF BindInv, ServedClient
    <3>2. DOMAIN asked = {}
      BY <3>1
    <3>3. QED BY <2>2, <3>2 DEF CallsBindAsAsked
  <2>3. QED BY <2>1, <2>2
<1>2. QED BY <1>1, BindInvariant, PTL

----------------------------------------------------------------------------
(* Topics                                                                  *)

\* The words of a key are finitely many.
LEMMA SplitLen ==
  ASSUME NEW s \in Seq(Byte)
  PROVE  Len(Split(s)) \in Nat
<1> DEFINE ends == {i \in DOMAIN s : s[i] = Dot} \cup {Len(s) + 1}
           End(n) == IF n = 0 THEN 0 ELSE CHOOSE e \in ends : Cardinality({d \in ends : d <= e}) = n
           f == [n \in 1 .. Cardinality(ends) |-> SubSeq(s, End(n - 1) + 1, End(n) - 1)]
<1>1. Split(s) = f
  BY Zenon DEF Split
<1>2. Len(s) \in Nat /\ DOMAIN s = 1 .. Len(s)
  BY LenProperties
<1>3. ends \in SUBSET (1 .. Len(s) + 1)
  BY <1>2
<1> HIDE DEF ends
<1>4. IsFiniteSet(1 .. Len(s) + 1)
  BY <1>2, FS_Interval
<1>5. Cardinality(ends) \in Nat
  BY <1>3, <1>4, FS_Subset, FS_CardinalityType
<1> DEFINE X == {f[n] : n \in 1 .. Cardinality(ends)}
<1>6. f \in [1 .. Cardinality(ends) -> X]
  OBVIOUS
<1> HIDE DEF f, X
<1>7. f \in Seq(X)
  BY <1>5, <1>6, SeqDef
<1>8. QED BY <1>1, <1>7, LenProperties

\* The pattern # is one word.
LEMMA SplitHash ==
  Split(<<Hash>>) = <<<<Hash>>>>
<1> DEFINE s == <<Hash>>
           ends == {i \in DOMAIN s : s[i] = Dot} \cup {Len(s) + 1}
           End(n) == IF n = 0 THEN 0 ELSE CHOOSE e \in ends : Cardinality({d \in ends : d <= e}) = n
           f == [n \in 1 .. Cardinality(ends) |-> SubSeq(s, End(n - 1) + 1, End(n) - 1)]
<1>1. Split(s) = f
  BY Zenon DEF Split
<1>2. ends = {2}
  BY DotAssumption
<1> HIDE DEF ends
<1>3. Cardinality(ends) = 1
  BY <1>2, FS_Singleton
<1>4. End(0) = 0
  OBVIOUS
<1>5. End(1) = 2
  <2>1. {d \in ends : d <= 2} = {2}
    BY <1>2
  <2>2. Cardinality({d \in ends : d <= 2}) = 1
    BY <2>1, FS_Singleton
  <2>3. End(1) = CHOOSE e \in ends : Cardinality({d \in ends : d <= e}) = 1
    OBVIOUS
  <2> HIDE DEF End
  <2>4. End(1) \in ends
    BY <1>2, <2>2, <2>3
  <2>5. QED BY <1>2, <2>4
<1> HIDE DEF End
<1>6. SubSeq(s, 0 + 1, 2 - 1) = <<Hash>>
  <2>1. s \in Seq({Hash}) /\ Len(s) = 1
    OBVIOUS
  <2>2. SubSeq(s, 1, Len(s)) = s
    BY <2>1, SubSeqFull
  <2>3. QED BY <2>1, <2>2
<1>7. f = [n \in 1 .. 1 |-> SubSeq(s, End(n - 1) + 1, End(n) - 1)]
  BY <1>3
<1>8. \A n \in 1 .. 1 : SubSeq(s, End(n - 1) + 1, End(n) - 1) = <<Hash>>
  <2>1. \A n \in 1 .. 1 : n = 1 /\ n - 1 = 0
    OBVIOUS
  <2>2. QED BY <1>4, <1>5, <1>6, <2>1
<1>9. f = [n \in 1 .. 1 |-> <<Hash>>]
  BY <1>7, <1>8
<1>10. [n \in 1 .. 1 |-> <<Hash>>] = <<<<Hash>>>>
  OBVIOUS
<1>11. QED BY <1>1, <1>9, <1>10

\* A word of the pattern over the message's words from a to b.
Lay(msg, word, a, b) ==
  \/ word = <<Hash>> /\ b >= a
  \/ b = a + 1 /\ (word = <<Star>> \/ word = msg[b])

\* The last n words of the pattern can be laid over the message's behind the i-th.
Reach(msg, pat, n, i) ==
  \E ends \in [0 .. n -> 0 .. Len(msg)] :
    /\ ends[0] = i /\ ends[n] = Len(msg)
    /\ \A j \in 1 .. n : Lay(msg, pat[Len(pat) - n + j], ends[j - 1], ends[j])

\* Nothing of the pattern is left: the message must have ended.
LEMMA ReachEnd ==
  ASSUME NEW msg, NEW pat, Len(msg) \in Nat, NEW i
  PROVE  Reach(msg, pat, 0, i) <=> i = Len(msg)
<1>1. ASSUME i = Len(msg) PROVE Reach(msg, pat, 0, i)
  <2> DEFINE ends == [j \in 0 .. 0 |-> Len(msg)]
  <2>1. ends \in [0 .. 0 -> 0 .. Len(msg)] /\ ends[0] = Len(msg)
    OBVIOUS
  <2> HIDE DEF ends
  <2>2. 1 .. 0 = {}
    OBVIOUS
  <2>3. QED BY <1>1, <2>1, <2>2 DEF Reach
<1>2. ASSUME Reach(msg, pat, 0, i) PROVE i = Len(msg)
  BY <1>2 DEF Reach
<1>3. QED BY <1>1, <1>2

\* The next word of the pattern takes some words of the message.
LEMMA ReachStep ==
  ASSUME NEW msg, NEW pat, Len(msg) \in Nat, Len(pat) \in Nat, NEW n \in 1 .. Len(pat),
         NEW i \in 0 .. Len(msg)
  PROVE  Reach(msg, pat, n, i) <=>
           \E b \in 0 .. Len(msg) : Lay(msg, pat[Len(pat) - n + 1], i, b) /\ Reach(msg, pat, n - 1, b)
<1> DEFINE L == Len(msg)
           N == Len(pat)
<1> HIDE DEF L, N
<1>0. L \in Nat /\ N \in Nat /\ n \in 1 .. N /\ i \in 0 .. L
  BY DEF L, N
<1>1. ASSUME Reach(msg, pat, n, i)
      PROVE  \E b \in 0 .. L : Lay(msg, pat[N - n + 1], i, b) /\ Reach(msg, pat, n - 1, b)
  <2>1. PICK ends \in [0 .. n -> 0 .. L] :
          /\ ends[0] = i /\ ends[n] = L
          /\ \A j \in 1 .. n : Lay(msg, pat[N - n + j], ends[j - 1], ends[j])
    BY <1>1 DEF Reach, L, N
  <2> DEFINE g == [j \in 0 .. n - 1 |-> ends[j + 1]]
  <2>2. \A j \in 0 .. n - 1 : g[j] = ends[j + 1] /\ j + 1 \in 0 .. n
    BY <1>0
  <2>3. g \in [0 .. n - 1 -> 0 .. L]
    BY <2>2
  <2> HIDE DEF g
  <2>4. g[0] = ends[1] /\ g[n - 1] = L
    <3>1. 0 \in 0 .. n - 1 /\ n - 1 \in 0 .. n - 1 /\ (n - 1) + 1 = n /\ 0 + 1 = 1
      BY <1>0
    <3>2. QED BY <2>1, <2>2, <3>1
  <2>5. ASSUME NEW j \in 1 .. n - 1 PROVE Lay(msg, pat[N - (n - 1) + j], g[j - 1], g[j])
    <3>1. /\ j + 1 \in 1 .. n /\ N - (n - 1) + j = N - n + (j + 1) /\ j - 1 \in 0 .. n - 1
          /\ j \in 0 .. n - 1 /\ (j - 1) + 1 = j /\ (j + 1) - 1 = j
      BY <1>0
    <3>2. g[j - 1] = ends[j] /\ g[j] = ends[j + 1]
      BY <2>2, <3>1
    <3>3. Lay(msg, pat[N - n + (j + 1)], ends[(j + 1) - 1], ends[j + 1])
      BY <2>1, <3>1
    <3>4. QED BY <3>1, <3>2, <3>3
  <2>6. Reach(msg, pat, n - 1, ends[1])
    BY <2>3, <2>4, <2>5 DEF Reach, L, N
  <2>7. 1 \in 1 .. n /\ 1 \in 0 .. n /\ 1 - 1 = 0
    BY <1>0
  <2>8. ends[1] \in 0 .. L /\ Lay(msg, pat[N - n + 1], i, ends[1])
    BY <2>1, <2>7
  <2>9. QED BY <2>6, <2>8
<1>2. ASSUME NEW b \in 0 .. L, Lay(msg, pat[N - n + 1], i, b), Reach(msg, pat, n - 1, b)
      PROVE  Reach(msg, pat, n, i)
  <2>1. PICK g \in [0 .. n - 1 -> 0 .. L] :
          /\ g[0] = b /\ g[n - 1] = L
          /\ \A j \in 1 .. n - 1 : Lay(msg, pat[N - (n - 1) + j], g[j - 1], g[j])
    BY <1>2 DEF Reach, L, N
  <2> DEFINE ends == [j \in 0 .. n |-> IF j = 0 THEN i ELSE g[j - 1]]
  <2>2. \A j \in 1 .. n : ends[j] = g[j - 1] /\ j - 1 \in 0 .. n - 1
    BY <1>0
  <2>3. ends[0] = i
    BY <1>0
  <2>4. ends \in [0 .. n -> 0 .. L]
    <3>1. ASSUME NEW j \in 0 .. n PROVE (IF j = 0 THEN i ELSE g[j - 1]) \in 0 .. L
      <4>1. CASE j = 0
        BY <1>0, <4>1
      <4>2. CASE j # 0
        <5>1. j - 1 \in 0 .. n - 1
          BY <1>0, <4>2
        <5>2. QED BY <4>2, <5>1
      <4>3. QED BY <4>1, <4>2
    <3>2. QED BY <3>1
  <2> HIDE DEF ends
  <2>5. ends[n] = L
    <3>1. n \in 1 .. n
      BY <1>0
    <3>2. QED BY <2>1, <2>2, <3>1
  <2>6. ASSUME NEW j \in 1 .. n PROVE Lay(msg, pat[N - n + j], ends[j - 1], ends[j])
    <3>1. CASE j = 1
      <4>1. ends[j] = b /\ ends[j - 1] = i
        BY <2>1, <2>2, <2>3, <3>1
      <4>2. QED BY <1>2, <3>1, <4>1
    <3>2. CASE j # 1
      <4>1. /\ j - 1 \in 1 .. n - 1 /\ j - 1 \in 1 .. n
            /\ N - (n - 1) + (j - 1) = N - n + j
        BY <1>0, <3>2
      <4>2. ends[j] = g[j - 1] /\ ends[j - 1] = g[(j - 1) - 1]
        BY <2>2, <4>1
      <4>3. Lay(msg, pat[N - (n - 1) + (j - 1)], g[(j - 1) - 1], g[j - 1])
        BY <2>1, <4>1
      <4>4. QED BY <4>1, <4>2, <4>3
    <3>3. QED BY <3>1, <3>2
  <2>7. QED BY <2>3, <2>4, <2>5, <2>6 DEF Reach, L, N
<1>3. QED BY <1>1, <1>2 DEF L, N

\* Where the message may be when n words of the pattern are left.
From(msg, pat, n, x) ==
  LET word == pat[Len(pat) - n + 1] IN
  {i \in 0 .. Len(msg) :
     IF word = <<Hash>> THEN n = 1 \/ \E j \in i .. Len(msg) : j \in x
     ELSE /\ i < Len(msg) /\ (word = <<Star>> \/ word = msg[i + 1])
          /\ i + 1 \in x}

\* The recursion of matchParts computes exactly the reachable places.
LEMMA FromReaches ==
  ASSUME NEW msg, NEW pat, Len(msg) \in Nat, Len(pat) \in Nat, NEW n \in 1 .. Len(pat),
         NEW x \in SUBSET (0 .. Len(msg)),
         \A i \in 0 .. Len(msg) : i \in x <=> Reach(msg, pat, n - 1, i),
         NEW i \in 0 .. Len(msg)
  PROVE  i \in From(msg, pat, n, x) <=> Reach(msg, pat, n, i)
<1> DEFINE L == Len(msg)
           word == pat[Len(pat) - n + 1]
<1>1. Reach(msg, pat, n, i) <=> \E b \in 0 .. L : Lay(msg, word, i, b) /\ b \in x
  BY ReachStep
<1>2. i \in From(msg, pat, n, x) <=>
        IF word = <<Hash>> THEN n = 1 \/ \E j \in i .. L : j \in x
        ELSE i < L /\ (word = <<Star>> \/ word = msg[i + 1]) /\ i + 1 \in x
  BY DEF From
<1>3. n = 1 => L \in x
  BY ReachEnd
<1> HIDE DEF word
<1>4. CASE word = <<Hash>>
  <2>1. ASSUME NEW b \in 0 .. L, Lay(msg, word, i, b), b \in x PROVE b \in i .. L
    BY <1>4, <2>1 DEF Lay
  <2>2. \A j \in i .. L : j \in 0 .. L /\ Lay(msg, word, i, j)
    BY <1>4 DEF Lay
  <2>3. L \in i .. L
    OBVIOUS
  <2>4. QED BY <1>1, <1>2, <1>3, <1>4, <2>1, <2>2, <2>3
<1>5. CASE word # <<Hash>>
  <2>1. ASSUME NEW b \in 0 .. L, Lay(msg, word, i, b)
        PROVE  b = i + 1 /\ i < L /\ (word = <<Star>> \/ word = msg[i + 1])
    BY <1>5, <2>1 DEF Lay
  <2>2. ASSUME i < L, word = <<Star>> \/ word = msg[i + 1]
        PROVE  i + 1 \in 0 .. L /\ Lay(msg, word, i, i + 1)
    BY <2>2 DEF Lay
  <2>3. QED BY <1>1, <1>2, <1>5, <2>1, <2>2
<1>6. QED BY <1>4, <1>5

\* matchParts finds out whether the pattern can be laid over the message.
LEMMA MatchPartsReaches ==
  ASSUME NEW msg, NEW pat, Len(msg) \in Nat, Len(pat) \in Nat
  PROVE  matchParts(msg, pat) <=> Reach(msg, pat, Len(pat), 0)
<1> DEFINE L == Len(msg)
           N == Len(pat)
           R == SUBSET (0 .. L)
           Q(f) == f = [n \in 0 .. N |-> IF n = 0 THEN {L} ELSE From(msg, pat, n, f[n - 1])]
           from == CHOOSE f : Q(f)
           S == [n \in 0 .. N |-> R]
           step == [p \in (1 .. N) \X R |-> From(msg, pat, p[1], p[2])]
<1>1. matchParts(msg, pat) <=> 0 \in from[N]
  BY Zenon DEF matchParts, From
<1>2. \A n, x : From(msg, pat, n, x) \in R
  BY DEF From
<1>3. {L} \in R
  OBVIOUS
<1> HIDE DEF L, N, R, from
<1>4. L \in Nat /\ N \in Nat
  BY DEF L, N
<1>5. S \in [0 .. N -> SUBSET R] /\ {L} \in S[0]
  BY <1>3, <1>4
<1>6. /\ \A n \in 1 .. N : \A x \in R : step[<<n, x>>] = From(msg, pat, n, x)
      /\ \A n \in 0 .. N : S[n] = R
  OBVIOUS
<1> HIDE DEF S, step
<1>7. \A n \in 1 .. N : \A x \in S[n - 1] : step[<<n, x>>] \in S[n]
  <2> SUFFICES ASSUME NEW n \in 1 .. N, NEW x \in S[n - 1] PROVE step[<<n, x>>] \in S[n]
    OBVIOUS
  <2>1. n - 1 \in 0 .. N /\ n \in 0 .. N
    BY <1>4
  <2>2. QED BY <1>2, <1>6, <2>1
<1>8. PICK f \in [0 .. N -> R] : Unfolds(f, N, S, {L}, step)
  BY <1>4, <1>5, <1>7, RecursionExists
<1>9. f[0] = {L} /\ \A n \in 1 .. N : f[n] = From(msg, pat, n, f[n - 1]) /\ f[n - 1] \in R
  <2>1. f[0] = {L} /\ \A n \in 1 .. N : f[n] = step[<<n, f[n - 1]>>]
    BY <1>8 DEF Unfolds
  <2>2. ASSUME NEW n \in 1 .. N PROVE f[n] = From(msg, pat, n, f[n - 1]) /\ f[n - 1] \in R
    <3>1. n - 1 \in 0 .. N
      BY <1>4
    <3>2. f[n - 1] \in R
      BY <3>1
    <3>3. QED BY <1>6, <2>1, <3>2
  <2>3. QED BY <2>1, <2>2
<1>10. Q(f)
  <2> DEFINE h == [n \in 0 .. N |-> IF n = 0 THEN {L} ELSE From(msg, pat, n, f[n - 1])]
  <2>1. ASSUME NEW n \in 0 .. N PROVE f[n] = h[n]
    <3>1. CASE n = 0
      BY <1>9, <3>1
    <3>2. CASE n # 0
      <4>1. n \in 1 .. N
        BY <1>4, <3>2
      <4>2. QED BY <1>9, <3>2, <4>1
    <3>3. QED BY <3>1, <3>2
  <2>2. f = [n \in 0 .. N |-> f[n]] /\ h = [n \in 0 .. N |-> h[n]]
    OBVIOUS
  <2> HIDE DEF h
  <2>3. f = h
    BY <2>1, <2>2
  <2>4. QED BY <2>3 DEF h
<1> HIDE DEF Q
<1>11. Q(from)
  BY <1>10 DEF from
<1>12. from[0] = {L} /\ \A n \in 1 .. N : from[n] = From(msg, pat, n, from[n - 1])
  <2>1. from = [n \in 0 .. N |-> IF n = 0 THEN {L} ELSE From(msg, pat, n, from[n - 1])]
    BY <1>11 DEF Q
  <2>2. from[0] = {L}
    BY <1>4, <2>1
  <2>3. ASSUME NEW n \in 1 .. N PROVE from[n] = From(msg, pat, n, from[n - 1])
    <3>1. n \in 0 .. N /\ n # 0
      BY <1>4
    <3>2. QED BY <2>1, <3>1
  <2>4. QED BY <2>2, <2>3
<1> DEFINE P == {n \in 0 .. N : from[n] \in R /\ \A i \in 0 .. L : i \in from[n] <=> Reach(msg, pat, n, i)}
<1>13. 0 \in P
  <2>1. \A i \in 0 .. L : i \in {L} <=> Reach(msg, pat, 0, i)
    BY <1>4, ReachEnd DEF L
  <2>2. 0 \in 0 .. N
    BY <1>4
  <2>3. QED BY <1>3, <1>12, <2>1, <2>2
<1>14. ASSUME NEW n \in 1 .. N, n - 1 \in P PROVE n \in P
  <2> DEFINE x == from[n - 1]
  <2>1. x \in R /\ \A i \in 0 .. L : i \in x <=> Reach(msg, pat, n - 1, i)
    BY <1>14
  <2>2. from[n] = From(msg, pat, n, x)
    BY <1>12
  <2> HIDE DEF x
  <2>3. \A i \in 0 .. L : i \in From(msg, pat, n, x) <=> Reach(msg, pat, n, i)
    BY <1>4, <2>1, FromReaches DEF L, N, R
  <2>4. n \in 0 .. N
    BY <1>4
  <2>5. QED BY <1>2, <2>2, <2>3, <2>4
<1>15. \A n \in 0 .. N : n \in P
  <2> HIDE DEF P
  <2>1. QED BY <1>4, <1>13, <1>14, UpTo
<1>16. 0 \in from[N] <=> Reach(msg, pat, N, 0)
  <2>1. N \in 0 .. N /\ 0 \in 0 .. L
    BY <1>4
  <2>2. QED BY <1>15, <2>1
<1>17. QED BY <1>1, <1>16 DEF N

\* matchTopicPattern matches what the comment says: * stands for one word, # for any number.
LEMMA TopicMatches ==
  ASSUME NEW key \in Seq(Byte), NEW pattern \in Seq(Byte)
  PROVE  matchTopicPattern(key, pattern) <=> TopicReference(Split(key), Split(pattern))
<1> DEFINE msg == Split(key)
           pat == Split(pattern)
<1>1. Len(msg) \in Nat /\ Len(pat) \in Nat
  BY SplitLen
<1> HIDE DEF msg, pat
<1>2. Reach(msg, pat, Len(pat), 0) <=> TopicReference(msg, pat)
  <2>1. ASSUME NEW j \in 1 .. Len(pat) PROVE Len(pat) - Len(pat) + j = j
    BY <1>1
  <2>2. QED BY <2>1 DEF Reach, TopicReference, Lay
<1>3. matchParts(msg, pat) <=> TopicReference(msg, pat)
  BY <1>1, <1>2, MatchPartsReaches
<1>4. pattern = <<Hash>> => TopicReference(msg, pat)
  <2> SUFFICES ASSUME pattern = <<Hash>> PROVE TopicReference(msg, pat)
    OBVIOUS
  <2>1. pat = <<<<Hash>>>>
    BY SplitHash DEF pat
  <2>2. Len(pat) = 1 /\ pat[1] = <<Hash>>
    BY <2>1
  <2> DEFINE ends == [j \in 0 .. 1 |-> IF j = 0 THEN 0 ELSE Len(msg)]
  <2>3. /\ ends \in [0 .. 1 -> 0 .. Len(msg)] /\ ends[0] = 0 /\ ends[1] = Len(msg)
    BY <1>1
  <2> HIDE DEF ends
  <2>4. \A i \in 1 .. 1 : pat[i] = <<Hash>> /\ ends[i] >= ends[i - 1]
    BY <1>1, <2>2, <2>3
  <2>5. QED BY <2>2, <2>3, <2>4 DEF TopicReference
<1>5. QED BY <1>3, <1>4 DEF matchTopicPattern, msg, pat

----------------------------------------------------------------------------
(* Headers                                                                 *)

\* Values of one supported kind are equal when their contents are.
LEMMA SameKindEqual ==
  ASSUME NEW a, NEW b, a.k = b.k,
         a.k \in {"string", "bool"} \cup SignedKinds \cup UnsignedKinds \cup FloatKinds
  PROVE  valuesEqual(a, b) <=> a.v = b.v
<1> USE DEF SignedKinds, UnsignedKinds, FloatKinds, toInt64, toUint64, toFloat64
<1>1. CASE a.k \in {"string", "bool"}
  BY <1>1 DEF valuesEqual
<1>2. CASE a.k \in SignedKinds
  BY <1>2 DEF valuesEqual
<1>3. CASE a.k \in UnsignedKinds
  BY <1>3 DEF valuesEqual
<1>4. CASE a.k \in FloatKinds
  BY <1>4 DEF valuesEqual
<1>5. QED BY <1>1, <1>2, <1>3, <1>4

\* matchHeaders matches what the comment says, for values it can compare.
LEMMA HeadersMatch ==
  ASSUME NEW headers, NEW args, Comparable(headers, args)
  PROVE  matchHeaders(headers, args) <=> HeadersReference(headers, args)
<1>1. ASSUME NEW k \in Asked(args)
      PROVE  HasEqual(headers, args, k) <=> k \in Agreeing(headers, args)
  <2>1. CASE k \notin DOMAIN headers
    BY <2>1 DEF HasEqual, Agreeing
  <2>2. CASE k \in DOMAIN headers
    <3>1. /\ headers[k].k = args[k].k
          /\ headers[k].k \in {"string", "bool"} \cup SignedKinds \cup UnsignedKinds \cup FloatKinds
      BY <1>1, <2>2 DEF Comparable
    <3>2. valuesEqual(headers[k], args[k]) <=> headers[k].v = args[k].v
      BY <3>1, SameKindEqual
    <3>3. QED BY <1>1, <2>2, <3>1, <3>2 DEF HasEqual, Agreeing
  <2>3. QED BY <2>1, <2>2
<1>2. Agreeing(headers, args) \subseteq Asked(args)
  BY DEF Agreeing
<1>3. (\E k \in Asked(args) : HasEqual(headers, args, k)) <=> Agreeing(headers, args) # {}
  BY <1>1, <1>2
<1>4. (\A k \in Asked(args) : HasEqual(headers, args, k)) <=> Agreeing(headers, args) = Asked(args)
  BY <1>1, <1>2
<1>5. QED BY <1>3, <1>4 DEF matchHeaders, HeadersReference, Asked

\* The routers match what their comments say.
LEMMA MatchesReference ==
  ASSUME NEW type \in {"direct", "fanout", "topic", "headers"}, NEW m, m.key \in Seq(Byte),
         NEW b, b.key \in Seq(Byte), type = "headers" => Comparable(m.headers, b.args)
  PROVE  Matches(type, m, b) <=> Reference(type, m, b)
<1>1. CASE type = "direct"
  BY <1>1 DEF Matches, Reference, MatchDirect
<1>2. CASE type = "fanout"
  BY <1>2 DEF Matches, Reference, MatchFanout
<1>3. CASE type = "topic"
  <2>1. matchTopicPattern(m.key, b.key) <=> TopicReference(Split(m.key), Split(b.key))
    BY TopicMatches
  <2>2. QED BY <1>3, <2>1 DEF Matches, Reference
<1>4. CASE type = "headers"
  <2>1. matchHeaders(m.headers, b.args) <=> HeadersReference(m.headers, b.args)
    BY <1>4, HeadersMatch
  <2>2. QED BY <1>4, <2>1 DEF Matches, Reference
<1>5. QED BY <1>1, <1>2, <1>3, <1>4

----------------------------------------------------------------------------
(* Routes                                                                  *)

\* The queues of the first i bindings that match.
Matched(type, m, by, i) == {by[j].queue : j \in {l \in 1 .. i : Matches(type, m, by[l])}}

\* One binding of Route, after the queues q.
AddQueue(type, m, b, q) ==
  IF Matches(type, m, b) /\ b.queue \notin ToSet(q) THEN Append(q, b.queue) ELSE q

\* A list without duplicates has as many elements as positions.
LEMMA InjectiveLen ==
  ASSUME NEW X, NEW s \in Seq(X), IsInjective(s)
  PROVE  Len(s) = Cardinality(ToSet(s))
<1> DEFINE n == Len(s)
           T == ToSet(s)
<1>1. n \in Nat /\ DOMAIN s = 1 .. n /\ s \in [1 .. n -> X]
  BY LenProperties
<1>2. s \in [1 .. n -> T] /\ \A t \in T : \E i \in 1 .. n : s[i] = t
  BY <1>1 DEF ToSet
<1> HIDE DEF n, T
<1>3. s \in Bijection(1 .. n, T)
  BY <1>1, <1>2 DEF Bijection, Injection, Surjection
<1>4. ExistsBijection(1 .. n, T)
  BY <1>3 DEF ExistsBijection
<1>5. Cardinality(T) = n
  BY <1>1, <1>4, FS_CountingElements
<1>6. QED BY <1>5 DEF n, T

\* The queues of Route: those of the bindings that match, each once.
LEMMA RouteMatched ==
  ASSUME NEW type, NEW m, NEW X, NEW by \in Seq(X)
  PROVE  /\ ToSet(Route(type, m, by)) = Matched(type, m, by, Len(by))
         /\ Len(Route(type, m, by)) = Cardinality(ToSet(Route(type, m, by)))
<1> DEFINE n == Len(by)
           Y == {by[j].queue : j \in 1 .. n}
           R == Seq(Y)
           G(i) == {q \in R : IsInjective(q) /\ ToSet(q) = Matched(type, m, by, i)}
           Q(f) == f = [i \in 0 .. n |-> IF i = 0 THEN <<>> ELSE AddQueue(type, m, by[i], f[i - 1])]
           queues == CHOOSE f : Q(f)
           S == [i \in 0 .. n |-> G(i)]
           step == [p \in (1 .. n) \X R |-> AddQueue(type, m, by[p[1]], p[2])]
<1>1. Route(type, m, by) = queues[n]
  BY Zenon DEF Route, AddQueue
<1>2. n \in Nat
  BY LenProperties
<1>3. <<>> \in G(0)
  <2>1. <<>> \in R
    BY EmptySeq
  <2>2. IsInjective(<<>>) /\ ToSet(<<>>) = {}
    BY DEF IsInjective, ToSet
  <2>3. Matched(type, m, by, 0) = {}
    BY DEF Matched
  <2>4. QED BY <2>1, <2>2, <2>3
<1>4. ASSUME NEW i \in 1 .. n, NEW q \in G(i - 1) PROVE AddQueue(type, m, by[i], q) \in G(i)
  <2> DEFINE x == by[i].queue
             A == Matched(type, m, by, i - 1)
  <2>1. q \in R /\ IsInjective(q) /\ ToSet(q) = A /\ x \in Y
    OBVIOUS
  <2>2. 1 .. i = (1 .. i - 1) \cup {i}
    BY <1>2
  <2>3. CASE Matches(type, m, by[i])
    <3>1. {l \in 1 .. i : Matches(type, m, by[l])} = {l \in 1 .. i - 1 : Matches(type, m, by[l])} \cup {i}
      BY <2>2, <2>3
    <3>2. Matched(type, m, by, i) = A \cup {x}
      BY <3>1, Zenon DEF Matched
    <3> HIDE DEF x, A, Y
    <3>3. CASE x \in ToSet(q)
      <4>1. AddQueue(type, m, by[i], q) = q
        BY <3>3 DEF AddQueue, x
      <4>2. A \cup {x} = A
        BY <2>1, <3>3
      <4>3. QED BY <2>1, <3>2, <4>1, <4>2
    <3>4. CASE x \notin ToSet(q)
      <4>1. AddQueue(type, m, by[i], q) = Append(q, x)
        BY <2>3, <3>4 DEF AddQueue, x
      <4>2. Append(q, x) \in R /\ ToSet(Append(q, x)) = ToSet(q) \cup {x} /\ IsInjective(Append(q, x))
        BY <2>1, <3>4, AppendList
      <4>3. QED BY <2>1, <3>2, <4>1, <4>2
    <3>5. QED BY <3>3, <3>4
  <2>4. CASE ~Matches(type, m, by[i])
    <3>1. {l \in 1 .. i : Matches(type, m, by[l])} = {l \in 1 .. i - 1 : Matches(type, m, by[l])}
      BY <2>2, <2>4
    <3>2. Matched(type, m, by, i) = A
      BY <3>1, Zenon DEF Matched
    <3>3. AddQueue(type, m, by[i], q) = q
      BY <2>4 DEF AddQueue
    <3>4. QED BY <2>1, <3>2, <3>3
  <2>5. QED BY <2>3, <2>4
<1>5. \A i : G(i) \subseteq R
  OBVIOUS
<1> HIDE DEF G, R, queues, n
<1>6. S \in [0 .. n -> SUBSET R] /\ <<>> \in S[0]
  BY <1>2, <1>3, <1>5
<1>7. /\ \A i \in 1 .. n : \A x \in R : step[<<i, x>>] = AddQueue(type, m, by[i], x)
      /\ \A i \in 0 .. n : S[i] = G(i)
  OBVIOUS
<1> HIDE DEF S, step
<1>8. \A i \in 1 .. n : \A x \in S[i - 1] : step[<<i, x>>] \in S[i]
  <2> SUFFICES ASSUME NEW i \in 1 .. n, NEW x \in S[i - 1] PROVE step[<<i, x>>] \in S[i]
    OBVIOUS
  <2>1. i - 1 \in 0 .. n /\ i \in 0 .. n
    BY <1>2
  <2>2. x \in G(i - 1) /\ x \in R
    BY <1>5, <1>7, <2>1
  <2>3. QED BY <1>4, <1>7, <2>1, <2>2
<1>9. PICK f \in [0 .. n -> R] : Unfolds(f, n, S, <<>>, step)
  BY <1>2, <1>6, <1>8, RecursionExists
<1>10. /\ f[0] = <<>> /\ \A i \in 0 .. n : f[i] \in G(i)
       /\ \A i \in 1 .. n : f[i] = AddQueue(type, m, by[i], f[i - 1])
  <2>1. /\ f[0] = <<>> /\ \A i \in 0 .. n : f[i] \in S[i]
        /\ \A i \in 1 .. n : f[i] = step[<<i, f[i - 1]>>]
    BY <1>9 DEF Unfolds
  <2>2. ASSUME NEW i \in 1 .. n PROVE f[i] = AddQueue(type, m, by[i], f[i - 1])
    <3>1. i - 1 \in 0 .. n
      BY <1>2
    <3>2. f[i - 1] \in R
      BY <3>1
    <3>3. QED BY <1>7, <2>1, <3>2
  <2>3. QED BY <1>7, <2>1, <2>2
<1>11. Q(f)
  <2> DEFINE h == [i \in 0 .. n |-> IF i = 0 THEN <<>> ELSE AddQueue(type, m, by[i], f[i - 1])]
  <2>1. ASSUME NEW i \in 0 .. n PROVE f[i] = h[i]
    <3>1. CASE i = 0
      BY <1>10, <3>1
    <3>2. CASE i # 0
      <4>1. i \in 1 .. n
        BY <1>2, <3>2
      <4>2. QED BY <1>10, <3>2, <4>1
    <3>3. QED BY <3>1, <3>2
  <2>2. f = [i \in 0 .. n |-> f[i]] /\ h = [i \in 0 .. n |-> h[i]]
    OBVIOUS
  <2> HIDE DEF h
  <2>3. f = h
    BY <2>1, <2>2
  <2>4. QED BY <2>3 DEF h
<1> HIDE DEF Q
<1>12. Q(queues)
  BY <1>11 DEF queues
<1>13. queues[0] = <<>> /\ \A i \in 1 .. n : queues[i] = AddQueue(type, m, by[i], queues[i - 1])
  <2>1. queues = [i \in 0 .. n |-> IF i = 0 THEN <<>> ELSE AddQueue(type, m, by[i], queues[i - 1])]
    BY <1>12 DEF Q
  <2>2. queues[0] = <<>>
    BY <1>2, <2>1
  <2>3. ASSUME NEW i \in 1 .. n PROVE queues[i] = AddQueue(type, m, by[i], queues[i - 1])
    <3>1. i \in 0 .. n /\ i # 0
      BY <1>2
    <3>2. QED BY <2>1, <3>1
  <2>4. QED BY <2>2, <2>3
<1> DEFINE P == {i \in 0 .. n : queues[i] = f[i]}
<1>14. 0 \in P
  BY <1>2, <1>10, <1>13
<1>15. ASSUME NEW i \in 1 .. n, i - 1 \in P PROVE i \in P
  <2>1. queues[i - 1] = f[i - 1] /\ i \in 0 .. n
    BY <1>2, <1>15
  <2>2. queues[i] = f[i]
    BY <1>10, <1>13, <2>1
  <2>3. QED BY <2>1, <2>2
<1>16. \A i \in 0 .. n : i \in P
  <2> HIDE DEF P
  <2>1. QED BY <1>2, <1>14, <1>15, UpTo
<1>17. queues[n] \in G(n)
  <2>1. n \in 0 .. n
    BY <1>2
  <2>2. QED BY <1>10, <1>16, <2>1
<1> DEFINE q == queues[n]
<1>18. q \in Seq(Y) /\ IsInjective(q) /\ ToSet(q) = Matched(type, m, by, n)
  BY <1>17 DEF G, R
<1> HIDE DEF q, Y
<1>19. Len(q) = Cardinality(ToSet(q))
  BY <1>18, InjectiveLen
<1>20. QED BY <1>1, <1>18, <1>19 DEF q, n

----------------------------------------------------------------------------
(* Publishing                                                              *)

\* The last publish used the router and the bindings that were there.
Published(p) ==
  \E type \in {"direct", "fanout", "topic", "headers"}, m \in Messages, q \in Seq(Requests) :
    LET by == [i \in 1 .. Len(q) |-> Bound(q[i])] IN
    p = [type |-> type, m |-> m, queues |-> Route(type, m, by), by |-> by]

RouteInv == BindInv /\ \A i \in DOMAIN routed : Published(routed[i])

\* Every step keeps the record of the last publish as Route made it.
LEMMA RouteStep ==
  RouteInv /\ [Next]_vars => RouteInv'
<1> SUFFICES ASSUME RouteInv, [Next]_vars PROVE RouteInv'
  OBVIOUS
<1>1. BindInv'
  BY BindStep DEF RouteInv
<1>2. CASE routed' = routed
  BY <1>1, <1>2 DEF RouteInv
<1>3. ASSUME NEW type \in {"direct", "fanout", "topic", "headers"}, NEW m \in Messages, Publish(type, m)
      PROVE  RouteInv'
  <2>1. /\ asked \in Seq(Requests) /\ bindings = [i \in 1 .. Len(asked) |-> Bound(asked[i])]
    BY <1>3 DEF RouteInv, BindInv, DirectCalls, Publish
  <2> DEFINE p == [type |-> type, m |-> m, queues |-> Route(type, m, bindings), by |-> bindings]
  <2>2. routed' = <<p>>
    BY <1>3 DEF Publish
  <2>3. Published(p)
    BY <2>1 DEF Published
  <2> HIDE DEF p
  <2>4. DOMAIN routed' = {1} /\ routed'[1] = p
    BY <2>2
  <2>5. \A i \in DOMAIN routed' : Published(routed'[i])
    BY <2>3, <2>4
  <2>6. QED BY <1>1, <2>5 DEF RouteInv, Published
<1>4. ASSUME NEW r \in Requests, Call(r) PROVE routed' = routed
  BY <1>4 DEF Call
<1>5. Arrive \/ HangUp \/ Serve \/ UNCHANGED vars => routed' = routed
  BY DEF Arrive, HangUp, Serve, NextFrame, FrameRefused, EndOfStream, Dispatch, vars
<1>6. QED BY <1>2, <1>3, <1>4, <1>5 DEF Next

\* Routing keys are bytes.
LEMMA KeyBytes ==
  /\ \A m \in Messages : m.key \in Seq(Byte)
  /\ \A r \in Requests : r.key \in Seq(Byte)
<1>1. ASSUME NEW r \in Requests PROVE r.key \in Seq(Byte)
  <2>1. r \in [queue : Seq(Byte), exchange : Seq(Byte), key : Seq(Byte), args : Table[MaxDepth]]
    BY RequestAssumption
  <2>2. QED BY <2>1
<1>2. \A m \in Messages : m.key \in Seq(Byte)
  BY MessageAssumption
<1>3. QED BY <1>1, <1>2

\* What Route makes is what the routers' comments ask for.
LEMMA PublishedAsDefined ==
  ASSUME NEW p, Published(p),
         p.type = "headers" => \A j \in DOMAIN p.by : Comparable(p.m.headers, p.by[j].args)
  PROVE  /\ ToSet(p.queues) = {b.queue : b \in {x \in ToSet(p.by) : Reference(p.type, p.m, x)}}
         /\ Len(p.queues) = Cardinality(ToSet(p.queues))
<1>1. PICK type \in {"direct", "fanout", "topic", "headers"}, m \in Messages, q \in Seq(Requests) :
        LET by == [i \in 1 .. Len(q) |-> Bound(q[i])] IN
        p = [type |-> type, m |-> m, queues |-> Route(type, m, by), by |-> by]
  BY DEF Published
<1> DEFINE n == Len(q)
           by == [i \in 1 .. n |-> Bound(q[i])]
           X == {by[i] : i \in 1 .. n}
<1>2. p.type = type /\ p.m = m /\ p.queues = Route(type, m, by) /\ p.by = by
  BY <1>1
<1>3. n \in Nat /\ \A i \in 1 .. n : q[i] \in Requests
  BY LenProperties, ElementOfSeq
<1>4. /\ DOMAIN by = 1 .. n /\ by \in [1 .. n -> X]
      /\ \A i \in 1 .. n : by[i].key = q[i].key
  BY DEF Bound
<1>5. m.key \in Seq(Byte) /\ \A r \in Requests : r.key \in Seq(Byte)
  <2>1. ASSUME NEW r \in Requests PROVE r.key \in Seq(Byte)
    BY KeyBytes
  <2>2. m.key \in Seq(Byte)
    BY KeyBytes
  <2>3. QED BY <2>1, <2>2
<1> HIDE DEF n, by, X
<1>6. by \in Seq(X)
  BY <1>3, <1>4, SeqDef
<1>7. Len(by) = n
  <2>1. Len(by) \in Nat /\ DOMAIN by = 1 .. Len(by)
    BY <1>6, LenProperties
  <2>2. 1 .. Len(by) = 1 .. n /\ Len(by) \in Nat /\ n \in Nat
    BY <1>3, <1>4, <2>1
  <2>3. QED BY <2>2, SameRange
<1>8. ASSUME NEW j \in 1 .. n PROVE Matches(type, m, by[j]) <=> Reference(type, m, by[j])
  <2>1. by[j].key \in Seq(Byte)
    BY <1>3, <1>4, <1>5
  <2>2. type = "headers" => Comparable(m.headers, by[j].args)
    BY <1>2, <1>4
  <2>3. QED BY <1>5, <2>1, <2>2, MatchesReference
<1>9. /\ ToSet(Route(type, m, by)) = Matched(type, m, by, n)
      /\ Len(Route(type, m, by)) = Cardinality(ToSet(Route(type, m, by)))
  BY <1>6, <1>7, RouteMatched
<1>10. Matched(type, m, by, n) = {b.queue : b \in {x \in ToSet(by) : Reference(type, m, x)}}
  <2>1. ToSet(by) = {by[j] : j \in 1 .. n}
    BY <1>4 DEF ToSet
  <2>2. {l \in 1 .. n : Matches(type, m, by[l])} = {l \in 1 .. n : Reference(type, m, by[l])}
    BY <1>8
  <2>3. Matched(type, m, by, n) = {by[j].queue : j \in {l \in 1 .. n : Reference(type, m, by[l])}}
    BY <2>2, Zenon DEF Matched
  <2>4. QED BY <2>1, <2>3
<1>11. QED BY <1>2, <1>9, <1>10

\* A publish goes to the queues of the bindings that match by what the routers' comments
\* say, each once, for any bindings the handlers made and any message.
THEOREM RoutedTheorem ==
  Spec => []RoutedAsDefined
<1>1. Init => RouteInv
  <2>1. Init => DOMAIN routed = {}
    BY DEF Init
  <2>2. QED BY <2>1, BindInit DEF RouteInv
<1>2. ASSUME RouteInv PROVE RoutedAsDefined
  <2>1. \A i \in DOMAIN routed : Published(routed[i])
    BY <1>2 DEF RouteInv
  <2>2. QED BY <2>1, PublishedAsDefined DEF RoutedAsDefined
<1>3. QED BY <1>1, <1>2, RouteStep, PTL DEF Spec

----------------------------------------------------------------------------
(* Frames                                                                  *)

\* c is a before b.
Joined(c, a, b) == c = a \o b

\* What is left of a sequence starts with b: b is at its place, and c is left behind it.
LEMMA TakePart ==
  ASSUME NEW s \in Seq(Byte), NEW t \in 0 .. Len(s), NEW b \in Seq(Byte), NEW c \in Seq(Byte),
         Joined(Drop(s, t), b, c)
  PROVE  /\ t + Len(b) \in 0 .. Len(s) /\ SubSeq(s, t + 1, t + Len(b)) = b
         /\ Drop(s, t + Len(b)) = c
<1> DEFINE d == Drop(s, t)
           m == Len(b)
           u == t + m
           p == SubSeq(s, t + 1, u)
           r == Drop(s, u)
           n == Len(s)
           l == Len(c)
<1>1. n \in Nat /\ m \in Nat /\ l \in Nat /\ t \in 0 .. n
  BY LenProperties
<1>2. Len(d) = n - t /\ \A i \in 1 .. n - t : d[i] = s[t + i]
  BY DropSeq
<1>3. Len(d) = m + l /\ \A i \in 1 .. m + l : d[i] = IF i <= m THEN b[i] ELSE c[i - m]
  <2>1. d = b \o c
    BY DEF Joined
  <2>2. QED BY <2>1, ConcatProperties
<1> HIDE DEF d, m, n, l
<1>4. u \in 0 .. n /\ n - t = m + l /\ n - u = l
  BY <1>1, <1>2, <1>3
<1>5. r \in Seq(Byte) /\ Len(r) = n - u /\ \A i \in 1 .. n - u : r[i] = s[u + i]
  <2> HIDE DEF u
  <2>1. QED BY <1>4, DropSeq DEF n
<1>6. /\ p \in Seq(Byte) /\ Len(p) = (IF t + 1 <= u THEN u - (t + 1) + 1 ELSE 0)
      /\ \A i \in 1 .. u - (t + 1) + 1 : p[i] = s[(t + 1) + i - 1]
  <2>1. t + 1 \in Int /\ u \in Int /\ \A i \in t + 1 .. u : i \in 1 .. n
    BY <1>1, <1>4
  <2>2. \A i \in t + 1 .. u : s[i] \in Byte
    BY <2>1, ElementOfSeq DEF n
  <2> DEFINE v == t + 1
  <2> HIDE DEF u, v
  <2>3. v \in Int /\ u \in Int /\ \A i \in v .. u : s[i] \in Byte
    BY <2>1, <2>2 DEF v
  <2>4. /\ SubSeq(s, v, u) \in Seq(Byte)
        /\ Len(SubSeq(s, v, u)) = (IF v <= u THEN u - v + 1 ELSE 0)
        /\ \A i \in 1 .. u - v + 1 : SubSeq(s, v, u)[i] = s[v + i - 1]
    BY <2>3, SubSeqProperties
  <2>5. QED BY <2>4 DEF v
<1> HIDE DEF p, r
<1>7. p = b
  <2>1. Len(p) = m
    BY <1>1, <1>6
  <2>2. ASSUME NEW i \in 1 .. m PROVE p[i] = b[i]
    <3>1. i \in 1 .. u - (t + 1) + 1 /\ (t + 1) + i - 1 = t + i
      BY <1>1
    <3>2. i \in 1 .. n - t /\ i \in 1 .. m + l /\ i <= m
      BY <1>1, <1>4
    <3>3. QED BY <1>2, <1>3, <1>6, <3>1, <3>2
  <2>3. QED BY <1>6, <2>1, <2>2, SeqEqual DEF m
<1>8. r = c
  <2>1. Len(r) = l
    BY <1>4, <1>5
  <2>2. ASSUME NEW i \in 1 .. l PROVE r[i] = c[i]
    <3>1. m + i \in 1 .. n - t /\ m + i \in 1 .. m + l /\ ~(m + i <= m) /\ (m + i) - m = i
      BY <1>1, <1>4
    <3>2. i \in 1 .. n - u /\ u + i = t + (m + i)
      BY <1>1, <1>4
    <3>3. QED BY <1>2, <1>3, <1>5, <3>1, <3>2
  <2>3. QED BY <1>5, <2>1, <2>2, SeqEqual DEF l
<1>9. QED BY <1>4, <1>7, <1>8 DEF p, r, m, n

\* Joined bytes are bytes.
LEMMA JoinedBytes ==
  ASSUME NEW a \in Seq(Byte), NEW b \in Seq(Byte), NEW c, Joined(c, a, b)
  PROVE  c \in Seq(Byte)
BY Concat DEF Joined

\* The first two of three sequences, or the last two, may be joined first.
LEMMA Reassociate ==
  ASSUME NEW a \in Seq(Byte), NEW b \in Seq(Byte), NEW c \in Seq(Byte),
         NEW ab, Joined(ab, a, b), NEW bc, Joined(bc, b, c)
  PROVE  \A x : Joined(x, ab, c) <=> Joined(x, a, bc)
<1>1. (a \o b) \o c = a \o (b \o c)
  BY ConcatAssociative
<1>2. QED BY <1>1, Zenon DEF Joined

\* A number of 16 bits fits in two bytes.
LEMMA ChannelFits ==
  ASSUME NEW c \in Channel
  PROVE  c \in Int /\ FitsIn(c, 2, FALSE)
<1>1. c \in Nat /\ c < 65536 /\ c \in Int /\ 0 \in Nat /\ 1 \in Nat
  BY SMT DEF Channel
<1>2. Shift(c, 0) = c /\ Shift(c, 0 + 1) = Shift(c, 0) \div 256
  BY <1>1, ShiftStep
<1>3. Shift(c, 1 + 1) = Shift(c, 1) \div 256
  BY <1>1, ShiftStep
<1>4. (c \div 256) \in Nat /\ c \div 256 < 256
  BY <1>1, SMT
<1>5. \A q \in Nat : q < 256 => q \div 256 = 0
  BY SMT
<1>6. 0 + 1 = 1 /\ 1 + 1 = 2
  OBVIOUS
<1>7. Shift(c, 1) = c \div 256
  BY <1>2, <1>6
<1>8. Shift(c, 2) = 0
  BY <1>3, <1>4, <1>5, <1>6, <1>7
<1>9. QED BY <1>1, <1>8 DEF FitsIn

\* The element at a place, as the sequence of that place alone.
LEMMA OneAt ==
  ASSUME NEW s \in Seq(Byte), NEW i \in 1 .. Len(s)
  PROVE  SubSeq(s, i, i)[1] = s[i]
<1>1. i \in Int /\ s[i] \in Byte /\ \A j \in i .. i : s[j] \in Byte
  BY LenProperties, ElementOfSeq
<1>2. \A j \in 1 .. i - i + 1 : SubSeq(s, i, i)[j] = s[i + j - 1]
  BY <1>1, SubSeqProperties
<1>3. 1 \in 1 .. i - i + 1 /\ i + 1 - 1 = i
  BY <1>1
<1>4. QED BY <1>2, <1>3

\* A frame at a place: NextFrame's fields are the frame's, the octet at its end is there,
\* and what is left is what follows the frame.
FrameAt(s, t, type, channel, payload, rest) ==
  /\ s[t + 1] = type
  /\ Number(SubSeq(s, t + 2, t + 3), FALSE) = channel
  /\ Number(SubSeq(s, t + 4, t + 7), FALSE) = Len(payload)
  /\ SubSeq(s, t + 8, t + 7 + Len(payload)) = payload
  /\ t + (7 + Len(payload) + 1) \in 0 .. Len(s)
  /\ s[t + (7 + Len(payload) + 1)] = FrameEnd
  /\ Drop(s, t + (7 + Len(payload) + 1)) = rest

\* What is left of the stream starts with an encoded frame: the framer finds it there.
LEMMA ReadsFrame ==
  ASSUME NEW s \in Seq(Byte), NEW t \in 0 .. Len(s), NEW rest \in Seq(Byte),
         NEW type \in FrameTypes, NEW channel \in Channel,
         NEW payload \in Seq(Byte), Size(payload, 4),
         Joined(Drop(s, t), EncodeFrame(type, channel, payload), rest)
  PROVE  FrameAt(s, t, type, channel, payload, rest)
<1> DEFINE n == Len(s)
           k == Len(payload)
           a == <<type>>
           b == BigEndian(channel, 2)
           c == BigEndian(k, 4)
           d == payload
           e == <<FrameEnd>>
<1>1. k \in Nat /\ k \in Int /\ n \in Nat
  BY LenProperties
<1>2. type \in Byte /\ channel \in Int /\ FrameEnd \in Byte
  <2>1. type \in Byte /\ FrameEnd \in Byte
    BY DEF FrameTypes, Byte, FrameEnd
  <2>2. channel \in Int
    BY ChannelFits
  <2>3. QED BY <2>1, <2>2
<1>3. a \in Seq(Byte) /\ Len(a) = 1 /\ a[1] = type
  BY <1>2, OneByte
<1>4. e \in Seq(Byte) /\ Len(e) = 1 /\ e[1] = FrameEnd
  BY <1>2, OneByte
<1>5. b \in Seq(Byte) /\ Len(b) = 2 /\ c \in Seq(Byte) /\ Len(c) = 4
  <2>1. 2 \in Nat /\ 4 \in Nat
    OBVIOUS
  <2>2. b \in Seq(Byte) /\ Len(b) = 2
    BY <1>2, <2>1, BigEndianBytes
  <2>3. c \in Seq(Byte) /\ Len(c) = 4
    BY <1>1, <2>1, BigEndianBytes
  <2>4. QED BY <2>2, <2>3, Zenon
<1>6. Number(b, FALSE) = channel /\ Number(c, FALSE) = k
  <2>1. 2 \in Nat \ {0} /\ 4 \in Nat \ {0} /\ FALSE \in BOOLEAN
    OBVIOUS
  <2>2. FitsIn(channel, 2, FALSE)
    BY ChannelFits
  <2>3. FitsIn(k, 4, FALSE)
    BY Zenon DEF Size
  <2>4. QED BY <1>1, <1>2, <2>1, <2>2, <2>3, NumberOfBigEndian
<1>7. EncodeFrame(type, channel, payload) = ((a \o b) \o (c \o d)) \o e
  BY Zenon DEF EncodeFrame, WriteString
<1> HIDE DEF a, b, c, e, n, k
<1>8. PICK ab, w : Joined(ab, a, b) /\ Joined(w, c, d)
  BY Zenon DEF Joined
<1>9. PICK abw : Joined(abw, ab, w)
  BY Zenon DEF Joined
<1>10. PICK abwe : Joined(abwe, abw, e)
  BY Zenon DEF Joined
<1>11. PICK er : Joined(er, e, rest)
  BY Zenon DEF Joined
<1>12. PICK der : Joined(der, d, er)
  BY Zenon DEF Joined
<1>13. PICK cder : Joined(cder, c, der)
  BY Zenon DEF Joined
<1>14. PICK bcder : Joined(bcder, b, cder)
  BY Zenon DEF Joined
<1>15. Joined(Drop(s, t), abwe, rest)
  BY <1>7, <1>8, <1>9, <1>10, Zenon DEF Joined
<1>16. /\ Joined(Drop(s, t), a, bcder)
       /\ er \in Seq(Byte) /\ der \in Seq(Byte) /\ cder \in Seq(Byte) /\ bcder \in Seq(Byte)
  <2>1. w \in Seq(Byte) /\ ab \in Seq(Byte) /\ er \in Seq(Byte)
    BY <1>3, <1>4, <1>5, <1>8, <1>11, JoinedBytes
  <2>2. abw \in Seq(Byte) /\ der \in Seq(Byte)
    BY <1>9, <1>12, <2>1, JoinedBytes
  <2>3. cder \in Seq(Byte)
    BY <1>5, <1>13, <2>2, JoinedBytes
  <2>4. bcder \in Seq(Byte)
    BY <1>5, <1>14, <2>3, JoinedBytes
  <2>5. Joined(Drop(s, t), abw, er)
    BY <1>15, <1>4, <1>10, <1>11, <2>2, Reassociate
  <2>6. Joined(cder, w, er)
    BY <1>5, <1>8, <1>12, <1>13, <2>1, Reassociate
  <2>7. Joined(Drop(s, t), ab, cder)
    BY <1>9, <2>1, <2>5, <2>6, Reassociate
  <2>8. Joined(Drop(s, t), a, bcder)
    BY <1>3, <1>5, <1>8, <1>14, <2>3, <2>7, Reassociate
  <2>9. QED BY <2>1, <2>2, <2>3, <2>4, <2>8
<1> DEFINE t1 == t + Len(a)
           t3 == t1 + Len(b)
           t7 == t3 + Len(c)
           tk == t7 + Len(d)
           te == tk + Len(e)
<1>17. t1 \in 0 .. Len(s) /\ SubSeq(s, t + 1, t1) = a /\ Drop(s, t1) = bcder
  BY <1>3, <1>16, TakePart
<1>18. t3 \in 0 .. Len(s) /\ SubSeq(s, t1 + 1, t3) = b /\ Drop(s, t3) = cder
  <2> HIDE DEF t1
  <2>1. Joined(Drop(s, t1), b, cder)
    BY <1>14, <1>17
  <2>2. QED BY <1>5, <1>16, <1>17, <2>1, TakePart
<1>19. t7 \in 0 .. Len(s) /\ SubSeq(s, t3 + 1, t7) = c /\ Drop(s, t7) = der
  <2> HIDE DEF t3
  <2>1. Joined(Drop(s, t3), c, der)
    BY <1>13, <1>18
  <2>2. QED BY <1>5, <1>16, <1>18, <2>1, TakePart
<1>20. tk \in 0 .. Len(s) /\ SubSeq(s, t7 + 1, tk) = d /\ Drop(s, tk) = er
  <2> HIDE DEF t7
  <2>1. Joined(Drop(s, t7), d, er)
    BY <1>12, <1>19
  <2>2. QED BY <1>16, <1>19, <2>1, TakePart
<1>21. te \in 0 .. Len(s) /\ SubSeq(s, tk + 1, te) = e /\ Drop(s, te) = rest
  <2> HIDE DEF tk
  <2>1. Joined(Drop(s, tk), e, rest)
    BY <1>11, <1>20
  <2>2. QED BY <1>4, <1>20, <2>1, TakePart
<1>22. /\ t \in Int /\ t1 = t + 1 /\ t1 + 1 = t + 2 /\ t3 = t + 3 /\ t3 + 1 = t + 4
       /\ t7 = t + 7 /\ t7 + 1 = t + 8 /\ tk = t + 7 + k /\ tk + 1 = te
       /\ te = t + (7 + k + 1)
  <2>1. t \in Int /\ Len(d) = k
    BY <1>1 DEF k, n
  <2>2. QED BY <1>1, <1>3, <1>4, <1>5, <2>1
<1>23. t + 1 \in 1 .. Len(s) /\ te \in 1 .. Len(s)
  BY <1>1, <1>17, <1>21, <1>22 DEF n
<1> HIDE DEF t1, t3, t7, tk, te
<1>24. s[t + 1] = type
  <2>1. SubSeq(s, t + 1, t + 1)[1] = s[t + 1]
    BY <1>23, OneAt
  <2>2. QED BY <1>3, <1>17, <1>22, <2>1
<1>25. s[te] = FrameEnd
  <2>1. SubSeq(s, te, te)[1] = s[te]
    BY <1>23, OneAt
  <2>2. QED BY <1>4, <1>21, <1>22, <2>1
<1>26. /\ Number(SubSeq(s, t + 2, t + 3), FALSE) = channel
       /\ Number(SubSeq(s, t + 4, t + 7), FALSE) = k
  BY <1>6, <1>18, <1>19, <1>22
<1>27. SubSeq(s, t + 8, t + 7 + k) = payload
  BY <1>20, <1>22
<1>28. /\ t + (7 + k + 1) \in 0 .. Len(s) /\ s[t + (7 + k + 1)] = FrameEnd
       /\ Drop(s, t + (7 + k + 1)) = rest
  BY <1>21, <1>22, <1>25
<1>29. QED BY <1>24, <1>26, <1>27, <1>28 DEF k, FrameAt

\* What the client sends, frame by frame.
Encoded == [i \in DOMAIN sent |-> EncodeFrame(sent[i].type, sent[i].channel, sent[i].payload)]

\* What NextFrame has not taken are the frames it has not returned.
Left == \A cut : Cuts(cut, Encoded) => Drop(stream, taken) = cut[Len(frames)]

\* The frames returned are the first that were sent.
Returned ==
  frames \in Seq(Frame) /\ Len(frames) <= Len(sent) /\ \A i \in 1 .. Len(frames) : frames[i] = sent[i]

\* Why the loop ended: the next frame does not fit, or not all of it came.
Ended ==
  /\ conn = "refused" => Len(frames) < Len(sent) /\ ~Fits(sent[Len(frames) + 1])
  /\ conn = "eof" /\ arrived = Len(stream) => Len(frames) = Len(sent)
  /\ conn = "eof" => hungUp

FrameInv ==
  /\ sent \in Scripts /\ stream = FlattenSeq(Encoded)
  /\ arrived \in 0 .. Len(stream) /\ taken \in 0 .. arrived
  /\ Left /\ Returned /\ Ended

\* The bytes of a frame: there are some.
LEMMA FrameBytes ==
  ASSUME NEW type \in FrameTypes, NEW channel \in Channel, NEW payload \in Seq(Byte)
  PROVE  EncodeFrame(type, channel, payload) \in Seq(Byte) /\ EncodeFrame(type, channel, payload) # <<>>
<1> DEFINE a == <<type>>
           b == BigEndian(channel, 2)
           w == WriteString(payload)
           e == <<FrameEnd>>
<1>1. type \in Byte /\ FrameEnd \in Byte
  BY DEF FrameTypes, Byte, FrameEnd
<1>2. a \in Seq(Byte) /\ e \in Seq(Byte) /\ e # <<>>
  BY <1>1, OneByte
<1>3. channel \in Int
  BY ChannelFits
<1>4. 2 \in Nat
  OBVIOUS
<1>5. b \in Seq(Byte)
  BY <1>3, <1>4, BigEndianBytes
<1>6. w \in Seq(Byte)
  BY StringBytes
<1>7. EncodeFrame(type, channel, payload) = ((a \o b) \o w) \o e
  BY Zenon DEF EncodeFrame
<1> HIDE DEF a, b, w, e
<1>8. PICK ab : Joined(ab, a, b)
  BY Zenon DEF Joined
<1>9. PICK abw : Joined(abw, ab, w)
  BY Zenon DEF Joined
<1>10. Joined(EncodeFrame(type, channel, payload), abw, e)
  BY <1>7, <1>8, <1>9, Zenon DEF Joined
<1>11. ab \in Seq(Byte)
  BY <1>2, <1>5, <1>8, JoinedBytes
<1>12. abw \in Seq(Byte)
  BY <1>6, <1>9, <1>11, JoinedBytes
<1>13. EncodeFrame(type, channel, payload) \in Seq(Byte)
  BY <1>2, <1>10, <1>12, JoinedBytes
<1>14. abw \o e # <<>>
  BY <1>2, <1>12, ConcatEmptySeq
<1>15. QED BY <1>10, <1>13, <1>14, Zenon DEF Joined

\* The frames of a script.
LEMMA FrameOf ==
  ASSUME sent \in Scripts, NEW i \in 1 .. Len(sent)
  PROVE  /\ sent[i] \in Frame /\ sent[i].type \in FrameTypes /\ sent[i].channel \in Channel
         /\ sent[i].payload \in Seq(Byte) /\ Size(sent[i].payload, 4)
         /\ Len(sent) \in Nat /\ DOMAIN sent = 1 .. Len(sent) /\ sent \in Seq(Frame)
<1>1. sent \in Seq(Frame) /\ \A j \in DOMAIN sent : Size(sent[j].payload, 4)
  BY ScriptAssumption
<1>2. Len(sent) \in Nat /\ DOMAIN sent = 1 .. Len(sent)
  BY <1>1, LenProperties
<1>3. sent[i] \in Frame
  BY <1>1, ElementOfSeq
<1>4. sent[i].type \in FrameTypes /\ sent[i].channel \in Channel /\ sent[i].payload \in Seq(Byte)
  BY <1>3, Zenon DEF Frame
<1>5. QED BY <1>1, <1>2, <1>3, <1>4, Zenon

\* The encoded frames, and the stream cut between them.
LEMMA StreamCuts ==
  ASSUME sent \in Scripts
  PROVE  /\ Len(sent) \in Nat /\ Len(Encoded) = Len(sent) /\ FlattenSeq(Encoded) \in Seq(Byte)
         /\ \E cut : Cuts(cut, Encoded)
         /\ \A cut : Cuts(cut, Encoded) => \A i \in 0 .. Len(sent) : cut[i] \in Seq(Byte)
<1> DEFINE n == Len(sent)
           E == Encoded
<1>1. sent \in Seq(Frame)
  BY ScriptAssumption
<1>2. n \in Nat /\ DOMAIN sent = 1 .. n
  BY <1>1, LenProperties
<1>3. E = [i \in 1 .. n |-> EncodeFrame(sent[i].type, sent[i].channel, sent[i].payload)]
  BY <1>2 DEF Encoded
<1>4. ASSUME NEW i \in 1 .. n
      PROVE  EncodeFrame(sent[i].type, sent[i].channel, sent[i].payload) \in Seq(Byte)
  <2>1. sent[i].type \in FrameTypes /\ sent[i].channel \in Channel /\ sent[i].payload \in Seq(Byte)
    BY FrameOf
  <2>2. QED BY <2>1, FrameBytes
<1> HIDE DEF n, E
<1>5. E \in [1 .. n -> Seq(Byte)]
  BY <1>3, <1>4
<1>6. E \in Seq(Seq(Byte)) /\ Len(E) = n
  BY <1>2, <1>5, SeqDef
<1>7. PICK g \in [0 .. Len(E) -> Seq(Byte)] : Cuts(g, E)
  BY <1>6, FlattenCuts
<1>8. FlattenSeq(E) \in Seq(Byte)
  <2>1. 0 \in 0 .. Len(E)
    BY <1>2, <1>6
  <2>2. g[0] = FlattenSeq(E)
    BY <1>7 DEF Cuts
  <2>3. QED BY <1>7, <2>1, <2>2
<1>9. ASSUME NEW cut, Cuts(cut, E), NEW i \in 0 .. n PROVE cut[i] \in Seq(Byte)
  <2> DEFINE P == {j \in 0 .. n : cut[n - j] = g[n - j]}
  <2>1. 0 \in P
    <3>1. cut[Len(E)] = <<>> /\ g[Len(E)] = <<>>
      BY <1>7, <1>9 DEF Cuts
    <3>2. n - 0 = Len(E) /\ 0 \in 0 .. n
      BY <1>2, <1>6
    <3>3. QED BY <3>1, <3>2
  <2>2. ASSUME NEW j \in 1 .. n, j - 1 \in P PROVE j \in P
    <3> DEFINE k == n - j + 1
    <3>1. k \in 1 .. n /\ k - 1 = n - j /\ n - (j - 1) = k /\ j \in 0 .. n
      BY <1>2
    <3> HIDE DEF k
    <3>2. cut[k - 1] = E[k] \o cut[k] /\ g[k - 1] = E[k] \o g[k]
      BY <1>6, <1>7, <1>9, <3>1 DEF Cuts
    <3>3. cut[k] = g[k]
      BY <2>2, <3>1
    <3>4. cut[k - 1] = g[k - 1]
      BY <3>2, <3>3, Zenon
    <3>5. QED BY <3>1, <3>4
  <2>3. \A j \in 0 .. n : j \in P
    <3> HIDE DEF P
    <3>1. QED BY <1>2, <2>1, <2>2, UpTo
  <2>4. n - i \in 0 .. n /\ n - (n - i) = i
    BY <1>2
  <2>5. cut[i] = g[i]
    BY <2>3, <2>4
  <2>6. g[i] \in Seq(Byte)
    BY <1>6, <1>7
  <2>7. QED BY <2>5, <2>6
<1>10. QED BY <1>2, <1>6, <1>7, <1>8, <1>9 DEF n, E

\* There are bytes left: they start with the next frame, whose fields NextFrame reads.
LEMMA NextIs ==
  ASSUME FrameInv, Drop(stream, taken) # <<>>
  PROVE  LET f == sent[Len(frames) + 1] IN
         /\ Len(frames) + 1 \in 1 .. Len(sent)
         /\ stream[taken + 1] = f.type
         /\ Number(SubSeq(stream, taken + 2, taken + 3), FALSE) = f.channel
         /\ PayloadLength = Len(f.payload)
         /\ SubSeq(stream, taken + 8, taken + 7 + PayloadLength) = f.payload
         /\ taken + Total \in 0 .. Len(stream) /\ stream[taken + Total] = FrameEnd
         /\ \A cut : Cuts(cut, Encoded) => Drop(stream, taken + Total) = cut[Len(frames) + 1]
<1> DEFINE n == Len(sent)
           k == Len(frames)
           f == sent[k + 1]
           E == Encoded
<1>1. sent \in Scripts /\ stream = FlattenSeq(E) /\ Left /\ Returned
  BY DEF FrameInv
<1>2. n \in Nat /\ Len(E) = n /\ FlattenSeq(E) \in Seq(Byte)
  BY <1>1, StreamCuts
<1>3. PICK cut : Cuts(cut, E)
  BY <1>1, StreamCuts
<1>4. \A g : Cuts(g, E) => \A i \in 0 .. n : g[i] \in Seq(Byte)
  BY <1>1, StreamCuts
<1>5. k \in Nat /\ k <= n
  BY <1>1, LenProperties DEF Returned
<1>6. \A g : Cuts(g, E) => Drop(stream, taken) = g[k]
  BY <1>1 DEF Left
<1>7. stream \in Seq(Byte) /\ taken \in 0 .. Len(stream)
  <2>1. stream \in Seq(Byte)
    BY <1>1, <1>2
  <2>2. Len(stream) \in Nat
    BY <2>1, LenProperties
  <2>3. arrived \in 0 .. Len(stream) /\ taken \in 0 .. arrived
    BY DEF FrameInv
  <2>4. QED BY <2>1, <2>2, <2>3
<1> HIDE DEF n, k, E
<1>8. k # n
  <2>1. cut[n] = <<>>
    BY <1>2, <1>3 DEF Cuts
  <2>2. QED BY <1>3, <1>6, <2>1
<1>9. k + 1 \in 1 .. n /\ k + 1 \in 0 .. n /\ (k + 1) - 1 = k
  BY <1>2, <1>5, <1>8
<1>10. f.type \in FrameTypes /\ f.channel \in Channel /\ f.payload \in Seq(Byte) /\ Size(f.payload, 4)
  BY <1>1, <1>9, FrameOf DEF n
<1>11. E[k + 1] = EncodeFrame(f.type, f.channel, f.payload)
  <2>1. DOMAIN sent = 1 .. n
    BY <1>1, <1>9, FrameOf DEF n
  <2>2. QED BY <1>9, <2>1 DEF E, Encoded
<1> HIDE DEF f
<1> DEFINE type == f.type
           channel == f.channel
           payload == f.payload
<1>12. ASSUME NEW g, Cuts(g, E)
       PROVE  /\ g[k + 1] \in Seq(Byte)
              /\ Joined(Drop(stream, taken), EncodeFrame(type, channel, payload), g[k + 1])
  <2>1. g[(k + 1) - 1] = E[k + 1] \o g[k + 1]
    BY <1>2, <1>9, <1>12 DEF Cuts
  <2>2. g[k] = EncodeFrame(type, channel, payload) \o g[k + 1]
    BY <1>9, <1>11, <2>1, Zenon
  <2>3. Drop(stream, taken) = g[k]
    BY <1>6, <1>12
  <2>4. g[k + 1] \in Seq(Byte)
    BY <1>4, <1>9, <1>12
  <2>5. QED BY <2>2, <2>3, <2>4, Zenon DEF Joined
<1>13. type \in FrameTypes /\ channel \in Channel /\ payload \in Seq(Byte) /\ Size(payload, 4)
  BY <1>10
<1> HIDE DEF type, channel, payload
<1> DEFINE l == Len(payload)
           total == 7 + l + 1
<1>14. ASSUME NEW g, Cuts(g, E)
       PROVE  /\ stream[taken + 1] = type
              /\ Number(SubSeq(stream, taken + 2, taken + 3), FALSE) = channel
              /\ Number(SubSeq(stream, taken + 4, taken + 7), FALSE) = l
              /\ SubSeq(stream, taken + 8, taken + 7 + l) = payload
              /\ taken + total \in 0 .. Len(stream)
              /\ stream[taken + total] = FrameEnd
              /\ Drop(stream, taken + total) = g[k + 1]
  <2> DEFINE rest == g[k + 1]
  <2>1. rest \in Seq(Byte) /\ Joined(Drop(stream, taken), EncodeFrame(type, channel, payload), rest)
    BY <1>12, <1>14
  <2> HIDE DEF rest
  <2>2. FrameAt(stream, taken, type, channel, payload, rest)
    BY <1>7, <1>13, <2>1, ReadsFrame
  <2>3. QED BY <2>2, Zenon DEF rest, FrameAt, l, total
<1> HIDE DEF l, total
<1>15. PayloadLength = l
  BY <1>3, <1>14 DEF PayloadLength
<1>16. Total = total
  BY <1>15, Zenon DEF Total, total
<1>17. /\ k + 1 \in 1 .. n /\ stream[taken + 1] = type
       /\ Number(SubSeq(stream, taken + 2, taken + 3), FALSE) = channel
       /\ PayloadLength = l /\ SubSeq(stream, taken + 8, taken + 7 + PayloadLength) = payload
       /\ taken + Total \in 0 .. Len(stream) /\ stream[taken + Total] = FrameEnd
       /\ \A g : Cuts(g, E) => Drop(stream, taken + Total) = g[k + 1]
  BY <1>3, <1>9, <1>14, <1>15, <1>16, Zenon
<1>18. QED BY <1>17, Zenon DEF n, k, f, E, type, channel, payload, l

\* As long as not all bytes are taken there are bytes left.
LEMMA BytesLeft ==
  ASSUME FrameInv
  PROVE  /\ stream \in Seq(Byte) /\ Len(stream) \in Nat /\ arrived \in 0 .. Len(stream)
         /\ taken \in 0 .. arrived /\ taken \in 0 .. Len(stream)
         /\ taken < Len(stream) => Drop(stream, taken) # <<>>
<1>1. stream \in Seq(Byte)
  BY StreamCuts DEF FrameInv
<1>2. Len(stream) \in Nat
  BY <1>1, LenProperties
<1>3. arrived \in 0 .. Len(stream) /\ taken \in 0 .. arrived
  BY DEF FrameInv
<1>4. taken \in 0 .. Len(stream)
  BY <1>2, <1>3
<1>5. Len(Drop(stream, taken)) = Len(stream) - taken
  BY <1>1, <1>4, DropSeq
<1>6. taken < Len(stream) => Len(stream) - taken # 0
  BY <1>2, <1>4
<1>7. taken < Len(stream) => Drop(stream, taken) # <<>>
  BY <1>5, <1>6
<1>8. QED BY <1>1, <1>2, <1>3, <1>4, <1>7

\* NextFrame returns the next frame that was sent, and takes its bytes.
LEMMA FramesNext ==
  ASSUME FrameInv, NextFrame
  PROVE  FrameInv'
<1> DEFINE k == Len(frames)
           f == sent[k + 1]
<1>1. /\ conn = "open" /\ Peek(7) /\ Peek(Total) /\ taken' = taken + Total
      /\ frames' = frames \o hand'
      /\ sent' = sent /\ stream' = stream /\ arrived' = arrived /\ hungUp' = hungUp /\ conn' = conn
  BY DEF NextFrame, Reading, wire
<1>2. hand' = <<[type |-> stream[taken + 1],
                 channel |-> Number(SubSeq(stream, taken + 2, taken + 3), FALSE),
                 payload |-> SubSeq(stream, taken + 8, taken + 7 + PayloadLength)]>>
  BY DEF NextFrame
<1>3. /\ Len(stream) \in Nat /\ arrived \in 0 .. Len(stream) /\ taken \in 0 .. arrived
      /\ taken < Len(stream) => Drop(stream, taken) # <<>>
  BY BytesLeft
<1>4. arrived - taken >= 7 /\ arrived - taken >= Total
  BY <1>1 DEF Peek
<1>5. taken < Len(stream)
  BY <1>3, <1>4
<1>6. /\ k + 1 \in 1 .. Len(sent)
      /\ stream[taken + 1] = f.type
      /\ Number(SubSeq(stream, taken + 2, taken + 3), FALSE) = f.channel
      /\ PayloadLength = Len(f.payload)
      /\ SubSeq(stream, taken + 8, taken + 7 + PayloadLength) = f.payload
      /\ taken + Total \in 0 .. Len(stream)
      /\ \A cut : Cuts(cut, Encoded) => Drop(stream, taken + Total) = cut[k + 1]
  BY <1>3, <1>5, NextIs, Zenon
<1>7. sent \in Scripts /\ Returned
  BY DEF FrameInv
<1>8. f \in Frame /\ Len(sent) \in Nat
  BY <1>6, <1>7, FrameOf
<1>9. hand' = <<f>>
  <2>1. f = [type |-> f.type, channel |-> f.channel, payload |-> f.payload]
    BY <1>8 DEF Frame
  <2> HIDE DEF f
  <2>2. QED BY <1>2, <1>6, <2>1, Zenon
<1>10. frames' = Append(frames, f)
  <2>1. frames \in Seq(Frame)
    BY <1>7 DEF Returned
  <2>2. QED BY <1>1, <1>8, <1>9, <2>1, AppendIsConcat
<1>11. /\ frames' \in Seq(Frame) /\ Len(frames') = k + 1
       /\ \A i \in 1 .. k + 1 : frames'[i] = sent[i]
  <2>1. frames \in Seq(Frame) /\ k <= Len(sent) /\ \A i \in 1 .. k : frames[i] = sent[i]
    BY <1>7 DEF Returned
  <2>2. k \in Nat
    BY <2>1, LenProperties
  <2>3. /\ Append(frames, f) \in Seq(Frame) /\ Len(Append(frames, f)) = k + 1
        /\ \A i \in 1 .. k : Append(frames, f)[i] = frames[i]
        /\ Append(frames, f)[k + 1] = f
    BY <1>8, <2>1, AppendProperties
  <2>4. ASSUME NEW i \in 1 .. k + 1 PROVE i \in 1 .. k \/ i = k + 1
    BY <2>2
  <2>5. QED BY <1>10, <2>1, <2>3, <2>4
<1>12. Returned'
  <2>1. k + 1 <= Len(sent)
    BY <1>6, <1>8
  <2>2. QED BY <1>1, <1>11, <2>1 DEF Returned
<1>13. Left'
  <2>1. Encoded' = Encoded
    BY <1>1 DEF Encoded
  <2>2. QED BY <1>1, <1>6, <1>11, <2>1, Zenon DEF Left
<1>14. Ended'
  BY <1>1 DEF Ended
<1>15. arrived' \in 0 .. Len(stream') /\ taken' \in 0 .. arrived'
  <2>1. Len(f.payload) \in Nat
    BY <1>6, <1>7, FrameOf, LenProperties
  <2>2. Total \in Nat
    BY <1>6, <2>1 DEF Total
  <2>3. taken + Total \in 0 .. arrived
    BY <1>3, <1>4, <2>2
  <2>4. QED BY <1>1, <1>3, <2>3
<1>16. sent' \in Scripts /\ stream' = FlattenSeq(Encoded')
  <2>1. Encoded' = Encoded
    BY <1>1 DEF Encoded
  <2>2. stream = FlattenSeq(Encoded)
    BY DEF FrameInv
  <2>3. QED BY <1>1, <1>7, <2>1, <2>2
<1>17. QED BY <1>12, <1>13, <1>14, <1>15, <1>16 DEF FrameInv

\* A frame is refused only when it does not fit.
LEMMA FramesRefused ==
  ASSUME FrameInv, FrameRefused
  PROVE  Ended'
<1> DEFINE k == Len(frames)
           f == sent[k + 1]
           l == Len(f.payload)
<1>1. /\ Peek(7) /\ conn' = "refused" /\ sent' = sent /\ frames' = frames
      /\ \/ ~HeaderAllowed
         \/ Total > BufSize
         \/ stream[taken + Total] # FrameEnd
  BY DEF FrameRefused, wire
<1>2. /\ Len(stream) \in Nat /\ arrived \in 0 .. Len(stream) /\ taken \in 0 .. arrived
      /\ taken < Len(stream) => Drop(stream, taken) # <<>>
  BY BytesLeft
<1>3. arrived - taken >= 7
  BY <1>1 DEF Peek
<1>4. taken < Len(stream)
  BY <1>2, <1>3
<1>5. /\ k + 1 \in 1 .. Len(sent) /\ stream[taken + 1] = f.type
      /\ PayloadLength = l /\ stream[taken + Total] = FrameEnd
  BY <1>2, <1>4, NextIs, Zenon
<1>6. sent \in Scripts /\ Returned
  BY DEF FrameInv
<1>7. f.type \in FrameTypes /\ f.payload \in Seq(Byte) /\ Len(sent) \in Nat
  BY <1>5, <1>6, FrameOf
<1>8. l \in Nat /\ k \in Nat
  BY <1>6, <1>7, LenProperties DEF Returned
<1>9. ~Fits(f)
  <2>1. CASE ~HeaderAllowed
    <3>1. ~(l <= MaxSize)
      BY <1>5, <1>7, <2>1 DEF HeaderAllowed, isValidFrameType
    <3>2. QED BY <3>1 DEF Fits
  <2>2. CASE Total > BufSize
    <3>1. 7 + l + 1 > BufSize
      BY <1>5, <2>2 DEF Total
    <3>2. ~(l + 8 <= BufSize)
      <4> HIDE DEF l
      <4>1. QED BY <1>8, <3>1, LimitAssumption
    <3>3. QED BY <3>2 DEF Fits
  <2>3. QED BY <1>1, <1>5, <2>1, <2>2
<1>10. k < Len(sent)
  BY <1>5, <1>7, <1>8
<1>11. QED BY <1>1, <1>9, <1>10 DEF Ended, Fits

\* The loop meets the end of a stream that arrived whole only behind its last frame.
LEMMA FramesEnd ==
  ASSUME FrameInv, EndOfStream
  PROVE  Ended'
<1>1. /\ hungUp /\ (Peek(7) => ~Peek(Total)) /\ conn' = "eof"
      /\ sent' = sent /\ frames' = frames /\ arrived' = arrived /\ stream' = stream /\ hungUp' = hungUp
  BY DEF EndOfStream, wire
<1>2. /\ Len(stream) \in Nat /\ arrived \in 0 .. Len(stream) /\ taken \in 0 .. arrived
      /\ taken < Len(stream) => Drop(stream, taken) # <<>>
  BY BytesLeft
<1>3. sent \in Scripts /\ Returned
  BY DEF FrameInv
<1>4. ASSUME arrived = Len(stream) PROVE Len(frames) = Len(sent)
  <2> SUFFICES ASSUME Len(frames) # Len(sent) PROVE FALSE
    OBVIOUS
  <2> DEFINE k == Len(frames)
             f == sent[k + 1]
             l == Len(f.payload)
  <2>1. k \in Nat /\ k <= Len(sent) /\ Len(sent) \in Nat
    BY <1>3, StreamCuts, LenProperties DEF Returned
  <2>2. PICK cut : Cuts(cut, Encoded)
    BY <1>3, StreamCuts
  <2>3. /\ Len(Encoded) = Len(sent)
        /\ \A i \in 0 .. Len(sent) : cut[i] \in Seq(Byte)
    BY <1>3, <2>2, StreamCuts
  <2>4. k + 1 \in 1 .. Len(sent) /\ k + 1 \in 0 .. Len(sent) /\ (k + 1) - 1 = k
    BY <2>1
  <2>5. cut[k] = EncodeFrame(f.type, f.channel, f.payload) \o cut[k + 1]
    <3>1. cut[(k + 1) - 1] = Encoded[k + 1] \o cut[k + 1]
      BY <2>2, <2>3, <2>4 DEF Cuts
    <3>2. DOMAIN sent = 1 .. Len(sent)
      BY <1>3, <2>4, FrameOf
    <3>3. Encoded[k + 1] = EncodeFrame(f.type, f.channel, f.payload)
      BY <2>4, <3>2 DEF Encoded
    <3>4. QED BY <2>4, <3>1, <3>3, Zenon
  <2>6. Drop(stream, taken) # <<>>
    <3>1. Drop(stream, taken) = cut[k]
      BY <2>2 DEF FrameInv, Left
    <3>2. f.type \in FrameTypes /\ f.channel \in Channel /\ f.payload \in Seq(Byte)
      BY <1>3, <2>4, FrameOf
    <3> DEFINE e == EncodeFrame(f.type, f.channel, f.payload)
    <3>3. e \in Seq(Byte) /\ e # <<>>
      BY <3>2, FrameBytes
    <3>4. cut[k + 1] \in Seq(Byte)
      BY <2>3, <2>4
    <3> HIDE DEF e
    <3>5. e \o cut[k + 1] # <<>>
      BY <3>3, <3>4, ConcatEmptySeq
    <3>6. QED BY <2>5, <3>1, <3>5 DEF e
  <2>7. taken + Total \in 0 .. Len(stream) /\ PayloadLength = l /\ k + 1 \in 1 .. Len(sent)
    BY <2>6, NextIs, Zenon
  <2>8. l \in Nat
    BY <1>3, <2>4, FrameOf, LenProperties
  <2> HIDE DEF l, k
  <2>9. Total = 7 + l + 1
    BY <2>7 DEF Total
  <2>10. Peek(7) /\ Peek(Total)
    BY <1>2, <1>4, <2>7, <2>8, <2>9 DEF Peek
  <2>11. QED BY <1>1, <2>10
<1>5. QED BY <1>1, <1>4 DEF Ended

\* A step that neither takes bytes nor ends the loop with a refusal or an end of stream.
LEMMA FramesKept ==
  ASSUME FrameInv, sent' = sent, stream' = stream, taken' = taken, frames' = frames,
         arrived' \in arrived .. Len(stream), Ended'
  PROVE  FrameInv'
<1>1. Encoded' = Encoded
  BY DEF Encoded
<1>2. Left' /\ Returned'
  BY <1>1 DEF FrameInv, Left, Returned
<1>3. Len(stream) \in Nat /\ arrived \in 0 .. Len(stream) /\ taken \in 0 .. arrived
  BY BytesLeft
<1>4. arrived' \in 0 .. Len(stream) /\ taken \in 0 .. arrived'
  BY <1>3
<1>5. QED BY <1>1, <1>2, <1>4 DEF FrameInv

\* Every step keeps what is left in step with what was returned.
LEMMA FrameStep ==
  FrameInv /\ [Next]_vars => FrameInv'
<1> SUFFICES ASSUME FrameInv, [Next]_vars PROVE FrameInv'
  OBVIOUS
<1>1. /\ Len(stream) \in Nat /\ arrived \in 0 .. Len(stream) /\ arrived \in arrived .. Len(stream)
      /\ Ended
  BY BytesLeft DEF FrameInv
<1>2. ASSUME Arrive PROVE FrameInv'
  <2>1. /\ ~hungUp /\ arrived' = arrived + 1 /\ arrived < Len(stream)
        /\ sent' = sent /\ stream' = stream /\ taken' = taken /\ frames' = frames
        /\ conn' = conn /\ hungUp' = hungUp
    BY <1>2 DEF Arrive
  <2>2. arrived' \in arrived .. Len(stream)
    BY <1>1, <2>1
  <2>3. Ended'
    BY <1>1, <2>1 DEF Ended, Fits
  <2>4. QED BY <2>1, <2>2, <2>3, FramesKept
<1>3. ASSUME HangUp PROVE FrameInv'
  <2>1. /\ sent' = sent /\ stream' = stream /\ taken' = taken /\ frames' = frames
        /\ conn' = conn /\ arrived' = arrived /\ hungUp' = TRUE
    BY <1>3 DEF HangUp
  <2>2. Ended'
    BY <1>1, <2>1 DEF Ended, Fits
  <2>3. QED BY <1>1, <2>1, <2>2, FramesKept
<1>4. ASSUME NextFrame PROVE FrameInv'
  BY <1>4, FramesNext
<1>5. ASSUME FrameRefused PROVE FrameInv'
  <2>1. sent' = sent /\ stream' = stream /\ taken' = taken /\ frames' = frames /\ arrived' = arrived
    BY <1>5 DEF FrameRefused, wire
  <2>2. Ended'
    BY <1>5, FramesRefused
  <2>3. QED BY <1>1, <2>1, <2>2, FramesKept
<1>6. ASSUME EndOfStream PROVE FrameInv'
  <2>1. sent' = sent /\ stream' = stream /\ taken' = taken /\ frames' = frames /\ arrived' = arrived
    BY <1>6 DEF EndOfStream, wire
  <2>2. Ended'
    BY <1>6, FramesEnd
  <2>3. QED BY <1>1, <2>1, <2>2, FramesKept
<1>7. ASSUME Dispatch PROVE FrameInv'
  <2>1. sent' = sent /\ stream' = stream /\ taken' = taken /\ frames' = frames /\ arrived' = arrived
    BY <1>7 DEF Dispatch, wire
  <2>2. conn' \in {"open", "failed"}
    BY <1>7 DEF Dispatch, handleQueueBind
  <2>3. Ended'
    BY <2>2 DEF Ended
  <2>4. QED BY <1>1, <2>1, <2>3, FramesKept
<1>8. ASSUME NEW r \in Requests, Call(r) PROVE FrameInv'
  <2>1. sent' = sent /\ stream' = stream /\ taken' = taken /\ frames' = frames /\ arrived' = arrived
    BY <1>8 DEF Call, wire
  <2>2. conn' \in {"open", "failed"}
    BY <1>8 DEF Call, handleQueueBind
  <2>3. Ended'
    BY <2>2 DEF Ended
  <2>4. QED BY <1>1, <2>1, <2>3, FramesKept
<1>9. ASSUME NEW type, NEW m \in Messages, Publish(type, m) PROVE FrameInv'
  <2>1. /\ sent' = sent /\ stream' = stream /\ taken' = taken /\ frames' = frames
        /\ arrived' = arrived /\ conn' = conn /\ hungUp' = hungUp
    BY <1>9 DEF Publish, wire
  <2>2. Ended'
    BY <1>1, <2>1 DEF Ended, Fits
  <2>3. QED BY <1>1, <2>1, <2>2, FramesKept
<1>10. ASSUME UNCHANGED vars PROVE FrameInv'
  <2>1. /\ sent' = sent /\ stream' = stream /\ taken' = taken /\ frames' = frames
        /\ arrived' = arrived /\ conn' = conn /\ hungUp' = hungUp
    BY <1>10 DEF vars, wire
  <2>2. Ended'
    BY <1>1, <2>1 DEF Ended, Fits
  <2>3. QED BY <1>1, <2>1, <2>2, FramesKept
<1>11. QED BY <1>2, <1>3, <1>4, <1>5, <1>6, <1>7, <1>8, <1>9, <1>10 DEF Next, Serve

\* Nothing is taken at the start: the whole stream is left.
LEMMA FrameInit ==
  Init => FrameInv
<1> SUFFICES ASSUME Init PROVE FrameInv
  OBVIOUS
<1>1. /\ sent \in Scripts /\ stream = FlattenSeq(Encoded) /\ arrived = 0 /\ taken = 0
      /\ frames = <<>> /\ conn = "open"
  BY DEF Init, Encoded
<1>2. stream \in Seq(Byte) /\ Len(sent) \in Nat
  BY <1>1, StreamCuts
<1>3. Len(stream) \in Nat
  BY <1>2, LenProperties
<1>4. Len(frames) = 0 /\ frames \in Seq(Frame)
  BY <1>1, EmptySeq
<1>5. Left
  <2>1. SUFFICES ASSUME NEW cut, Cuts(cut, Encoded) PROVE Drop(stream, 0) = cut[0]
    BY <1>1, <1>4 DEF Left
  <2>2. cut[0] = stream
    BY <1>1, <2>1 DEF Cuts
  <2>3. Drop(stream, 0) = stream
    <3>1. 0 \in 0 .. Len(stream)
      BY <1>3
    <3> DEFINE d == Drop(stream, 0)
    <3>2. d \in Seq(Byte) /\ Len(d) = Len(stream) - 0 /\ \A i \in 1 .. Len(stream) - 0 : d[i] = stream[0 + i]
      BY <1>2, <3>1, DropSeq
    <3> HIDE DEF d
    <3>3. Len(d) = Len(stream) /\ \A i \in 1 .. Len(d) : d[i] = stream[i]
      BY <1>3, <3>2
    <3>4. d = stream
      BY <1>2, <3>2, <3>3, SeqEqual
    <3>5. QED BY <3>4 DEF d
  <2>4. QED BY <2>2, <2>3
<1>6. Returned
  BY <1>2, <1>4 DEF Returned
<1>7. Ended
  BY <1>1 DEF Ended
<1>8. QED BY <1>1, <1>3, <1>5, <1>6, <1>7 DEF FrameInv

\* Framer.NextFrame, however the network cuts the stream: the frames it returns are the
\* first that were sent, whole and in order; it refuses one only when that is larger than
\* the limit or the buffer; and when the client hangs up behind its last byte, the end of
\* the stream is met only once every frame was returned.
FramesSound ==
  /\ Len(frames) <= Len(sent) /\ \A i \in DOMAIN frames : frames[i] = sent[i]
  /\ conn = "refused" => Len(frames) < Len(sent) /\ ~Fits(sent[Len(frames) + 1])
  /\ conn = "eof" /\ arrived = Len(stream) => frames = sent

\* The framer never cuts, merges, drops or refuses a frame that fits, for every script,
\* payload and size of the buffer.
THEOREM FramesTheorem ==
  Spec => []FramesSound
<1>1. Spec => []FrameInv
  BY FrameInit, FrameStep, PTL DEF Spec
<1>2. ASSUME FrameInv PROVE FramesSound
  <2>1. sent \in Scripts /\ Returned /\ Ended
    BY <1>2 DEF FrameInv
  <2>2. sent \in Seq(Frame)
    BY <2>1, ScriptAssumption
  <2>3. /\ frames \in Seq(Frame) /\ Len(frames) <= Len(sent)
        /\ \A i \in 1 .. Len(frames) : frames[i] = sent[i]
    BY <2>1 DEF Returned
  <2>4. DOMAIN frames = 1 .. Len(frames)
    BY <2>3, LenProperties
  <2>5. Len(frames) = Len(sent) => frames = sent
    BY <2>2, <2>3, SeqEqual
  <2>6. QED BY <2>1, <2>3, <2>4, <2>5 DEF Ended, FramesSound
<1>3. QED BY <1>1, <1>2, PTL
=============================================================================
