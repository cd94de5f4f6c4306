--------------------------- MODULE SequenceFacts ---------------------------
(***************************************************************************)
(* Facts the proofs of the components share: the least-number principle,   *)
(* stated without an operator parameter, its mirror image for bounded sets,*)
(* and what filtering an array returns, by positions and by values.        *)
(***************************************************************************)
EXTENDS Arrays, SequenceTheorems, WellFoundedInduction, TLAPS

(* A non-empty set of naturals has a least element.                        *)
LEMMA LeastNatural ==
    ASSUME NEW T, T \subseteq Nat, T # {}
    PROVE  \E x \in T : \A y \in T : x <= y
<1> DEFINE R == {p \in Nat \X Nat : p[1] < p[2]}
<1>1. IsWellFoundedOn(OpToRel(<, Nat), Nat)
  BY NatLessThanWellFounded
<1>2. IsWellFoundedOn(R, Nat)
  BY <1>1 DEF OpToRel
<1>3. \A a, b \in Nat : a < b => <<a, b>> \in R
  OBVIOUS
<1> HIDE DEF R
<1>4. PICK x \in T : \A y \in T : ~(<<y, x>> \in R)
  BY <1>2, WFMin
<1>5. ASSUME NEW y \in T PROVE x <= y
  <2>1. x \in Nat /\ y \in Nat
    OBVIOUS
  <2>2. ~(y < x)
    BY <1>3, <1>4, <2>1, Zenon
  <2>3. QED BY <2>1, <2>2
<1>6. QED BY <1>5

(* A non-empty set of naturals below some b has a greatest element.        *)
LEMMA GreatestBelow ==
    ASSUME NEW T, T \subseteq Nat, T # {}, NEW b \in Nat, \A x \in T : x <= b
    PROVE  \E x \in T : \A y \in T : y <= x
<1> DEFINE D == {d \in Nat : \E x \in T : d = b - x}
<1>1. \A y \in T : b - y \in D
  <2> SUFFICES ASSUME NEW y \in T PROVE b - y \in D
    OBVIOUS
  <2>1. y \in Nat /\ y <= b
    OBVIOUS
  <2>2. b - y \in Nat
    BY <2>1
  <2>3. QED BY <2>2
<1>2. D \subseteq Nat /\ D # {}
  BY <1>1
<1> HIDE DEF D
<1>3. PICK d \in D : \A e \in D : d <= e
  BY <1>2, LeastNatural
<1>4. PICK x \in T : d = b - x
  BY <1>3 DEF D
<1>5. ASSUME NEW y \in T PROVE y <= x
  <2>1. b - x <= b - y
    BY <1>1, <1>3, <1>4
  <2>2. x \in Nat /\ y \in Nat
    OBVIOUS
  <2>3. QED BY <2>1, <2>2
<1>6. QED BY <1>5

-----------------------------------------------------------------------------
(* Filtering *)

(* f is the recursive function in the definition of Filtered, up to N.     *)
IsTable(f, s, K, N) ==
    f = [n \in 0..N |-> IF n = 0 THEN <<>>
                        ELSE IF n \in K THEN Append(f[n - 1], s[n])
                        ELSE f[n - 1]]

(* There is such a function: by induction on N.                            *)
LEMMA TableExists ==
    ASSUME NEW s, NEW K, NEW N \in Nat
    PROVE  \E f : IsTable(f, s, K, N)
<1> DEFINE T == {n \in Nat : ~ \E f : IsTable(f, s, K, n)}
<1>1. SUFFICES ASSUME T # {} PROVE FALSE
  OBVIOUS
<1>2. PICK m \in T : \A n \in T : m <= n
  BY <1>1, LeastNatural
<1>3. m # 0
  <2> DEFINE g == [n \in 0..0 |-> <<>>]
  <2>1. IsTable(g, s, K, 0)
    BY DEF IsTable
  <2>2. QED BY <2>1
<1>4. m - 1 \in Nat /\ m - 1 \notin T
  BY <1>2, <1>3
<1>5. PICK f : IsTable(f, s, K, m - 1)
  BY <1>4
<1> DEFINE e == IF m \in K THEN Append(f[m - 1], s[m]) ELSE f[m - 1]
           g == [n \in 0..m |-> IF n = m THEN e ELSE f[n]]
<1>6. \A n \in 0..m : g[n] = IF n = 0 THEN <<>>
                        ELSE IF n \in K THEN Append(g[n - 1], s[n])
                        ELSE g[n - 1]
  <2> TAKE n \in 0..m
  <2> HIDE DEF e
  <2>1. CASE n = m
    <3>1. g[n] = e /\ g[n - 1] = f[m - 1]
      BY <2>1, <1>3, <1>4
    <3>2. QED BY <3>1, <2>1, <1>3 DEF e
  <2>2. CASE n # m
    <3>1. n \in 0..(m - 1) /\ (n # 0 => n - 1 \in 0..(m - 1))
      BY <2>2
    <3>2. f[n] = IF n = 0 THEN <<>>
                        ELSE IF n \in K THEN Append(f[n - 1], s[n])
                        ELSE f[n - 1]
      BY <1>5, <3>1, Zenon DEF IsTable
    <3>3. g[n] = f[n] /\ (n # 0 => g[n - 1] = f[n - 1])
      BY <3>1, <2>2
    <3>4. QED BY <3>2, <3>3
  <2>3. QED BY <2>1, <2>2
<1>7. IsTable(g, s, K, m)
  <2> HIDE DEF e
  <2>1. g = [n \in 0..m |-> g[n]]
    OBVIOUS
  <2> HIDE DEF g
  <2>2. QED BY <2>1, <1>6, Zenon DEF IsTable
<1>8. QED BY <1>2, <1>7

(* The definition of Filtered means this function.                         *)
LEMMA FilteredByTable ==
    ASSUME NEW s, NEW K, Len(s) \in Nat
    PROVE  \E f : IsTable(f, s, K, Len(s)) /\ Filtered(s, K) = f[Len(s)]
<1>1. \E f : IsTable(f, s, K, Len(s))
  BY TableExists
<1>2. Filtered(s, K) = (CHOOSE f : IsTable(f, s, K, Len(s)))[Len(s)]
  BY Zenon DEF Filtered, IsTable
<1>3. IsTable((CHOOSE f : IsTable(f, s, K, Len(s))), s, K, Len(s))
  BY <1>1, Zenon
<1>4. QED BY <1>2, <1>3, Zenon

(* The table up to n holds the elements kept among the first n.            *)
LEMMA TablePositions ==
    ASSUME NEW S, NEW s \in Seq(S), NEW K, NEW f, IsTable(f, s, K, Len(s)),
           NEW n \in 0..Len(s)
    PROVE  /\ f[n] \in Seq(S)
           /\ \E h \in [1..Len(f[n]) -> K \cap 1..n] :
                /\ \A i \in 1..Len(f[n]) : f[n][i] = s[h[i]]
                /\ \A i, j \in 1..Len(f[n]) : i < j => h[i] < h[j]
                /\ \A k \in K \cap 1..n : \E i \in 1..Len(f[n]) : h[i] = k
<1> DEFINE Kept(h, m) ==
             /\ h \in [1..Len(f[m]) -> K \cap 1..m]
             /\ \A i \in 1..Len(f[m]) : f[m][i] = s[h[i]]
             /\ \A i, j \in 1..Len(f[m]) : i < j => h[i] < h[j]
             /\ \A k \in K \cap 1..m : \E i \in 1..Len(f[m]) : h[i] = k
           Good(m) == f[m] \in Seq(S) /\ \E h : Kept(h, m)
           T == {m \in 0..Len(s) : ~Good(m)}
<1>0. \A m \in 0..Len(s) : f[m] = IF m = 0 THEN <<>>
                        ELSE IF m \in K THEN Append(f[m - 1], s[m])
                        ELSE f[m - 1]
  BY Zenon DEF IsTable
<1>1. SUFFICES ASSUME T # {} PROVE FALSE
  OBVIOUS
<1>2. PICK m \in T : \A k \in T : m <= k
  <2>1. T \subseteq Nat
    OBVIOUS
  <2> HIDE DEF T
  <2>2. QED BY <1>1, <2>1, LeastNatural
<1>3. m \in 0..Len(s) /\ ~Good(m)
  BY <1>2
<1>4. m # 0
  <2> SUFFICES ASSUME m = 0 PROVE FALSE
    OBVIOUS
  <2>1. f[0] = <<>> /\ Len(f[0]) = 0
    BY <1>0
  <2>2. Kept([i \in 1..0 |-> 0], 0)
    BY <2>1
  <2> HIDE DEF Kept
  <2>3. Good(0)
    BY <2>1, <2>2
  <2> HIDE DEF Good
  <2>4. QED BY <1>3, <2>3
<1>5. m - 1 \in 0..Len(s) /\ Good(m - 1)
  <2>1. m - 1 \in 0..Len(s) /\ m - 1 < m
    BY <1>3, <1>4
  <2> HIDE DEF Good
  <2>2. QED BY <2>1, <1>2, <1>3
<1> DEFINE t == f[m - 1]
<1>6. t \in Seq(S) /\ Len(t) \in Nat
  BY <1>5
<1>7. PICK h : Kept(h, m - 1)
  BY <1>5
<1>8. CASE m \notin K
  <2>1. f[m] = t
    BY <1>0, <1>3, <1>4, <1>8
  <2>2. K \cap 1..m = K \cap 1..(m - 1)
    BY <1>3, <1>8
  <2>3. Kept(h, m)
    BY <1>7, <2>1, <2>2, Zenon
  <2>4. QED BY <2>1, <2>3, <1>6, <1>3
<1>9. CASE m \in K
  <2>1. f[m] = Append(t, s[m]) /\ s[m] \in S
    <3>1. m \in 1..Len(s)
      BY <1>3, <1>4
    <3>2. f[m] = IF m = 0 THEN <<>>
                 ELSE IF m \in K THEN Append(f[m - 1], s[m]) ELSE f[m - 1]
      BY <1>0, <1>3, Zenon
    <3>3. s[m] \in S
      BY <3>1
    <3>4. QED BY <1>4, <1>9, <3>2, <3>3, Zenon
  <2> DEFINE L == Len(t)
             g == [i \in 1..(L + 1) |-> IF i = L + 1 THEN m ELSE h[i]]
  <2>2. /\ Append(t, s[m]) \in Seq(S) /\ Len(Append(t, s[m])) = L + 1
        /\ \A i \in 1..L : Append(t, s[m])[i] = t[i]
        /\ Append(t, s[m])[L + 1] = s[m]
    BY <1>6, <2>1, AppendProperties
  <2>3. /\ \A i \in 1..L : h[i] \in K /\ h[i] \in 1..(m - 1) /\ t[i] = s[h[i]]
        /\ \A i, j \in 1..L : i < j => h[i] < h[j]
        /\ \A k \in K \cap 1..(m - 1) : \E i \in 1..L : h[i] = k
    BY <1>7
  <2> HIDE DEF Kept, t
  <2>4. L \in Nat
    BY <1>6
  <2>5. \A i \in 1..L : g[i] = h[i] /\ i \in 1..(L + 1)
    BY <2>4
  <2>6. g[L + 1] = m /\ L + 1 \in 1..(L + 1)
    BY <2>4
  <2>7. \A i \in 1..(L + 1) : i \in 1..L \/ i = L + 1
    BY <2>4
  <2> HIDE DEF L
  <2>8. g \in [1..(L + 1) -> K \cap 1..m]
    <3> SUFFICES ASSUME NEW i \in 1..(L + 1) PROVE g[i] \in K \cap 1..m
      OBVIOUS
    <3>1. CASE i \in 1..L
      <4>1. h[i] \in K /\ h[i] \in 1..(m - 1) /\ g[i] = h[i]
        BY <3>1, <2>3, <2>5
      <4>2. h[i] \in 1..m
        BY <4>1, <1>3
      <4>3. QED BY <4>1, <4>2
    <3>2. CASE i = L + 1
      BY <3>2, <2>6, <1>3, <1>4, <1>9
    <3>3. QED BY <3>1, <3>2, <2>7
  <2> HIDE DEF g
  <2>9. \A i \in 1..(L + 1) : f[m][i] = s[g[i]]
    <3> SUFFICES ASSUME NEW i \in 1..(L + 1) PROVE f[m][i] = s[g[i]]
      OBVIOUS
    <3>1. CASE i \in 1..L
      BY <3>1, <2>1, <2>2, <2>3, <2>5
    <3>2. CASE i = L + 1
      BY <3>2, <2>1, <2>2, <2>6
    <3>3. QED BY <3>1, <3>2, <2>7
  <2>10. \A i, j \in 1..(L + 1) : i < j => g[i] < g[j]
    <3> SUFFICES ASSUME NEW i \in 1..(L + 1), NEW j \in 1..(L + 1), i < j
                 PROVE  g[i] < g[j]
      OBVIOUS
    <3>1. i \in 1..L /\ g[i] = h[i] /\ h[i] \in 1..(m - 1)
      BY <2>3, <2>4, <2>5
    <3>2. CASE j \in 1..L
      BY <3>1, <3>2, <2>3, <2>5
    <3>3. CASE j = L + 1
      BY <3>1, <3>3, <2>6, <1>3
    <3>4. QED BY <3>2, <3>3, <2>7
  <2>11. \A k \in K \cap 1..m : \E i \in 1..(L + 1) : g[i] = k
    <3> SUFFICES ASSUME NEW k \in K \cap 1..m
                 PROVE  \E i \in 1..(L + 1) : g[i] = k
      OBVIOUS
    <3>1. k = m \/ k \in K \cap 1..(m - 1)
      BY <1>3
    <3>2. QED BY <3>1, <2>3, <2>5, <2>6
  <2>12. Kept(g, m)
    <3>1. Len(f[m]) = L + 1
      BY <2>1, <2>2
    <3>2. QED BY <3>1, <2>8, <2>9, <2>10, <2>11 DEF Kept
  <2>13. f[m] \in Seq(S)
    BY <2>1, <2>2
  <2>14. QED BY <2>12, <2>13, <1>3
<1>10. QED BY <1>8, <1>9

(* What filter returns: the elements at the positions, in their order.     *)
LEMMA FilteredPositions ==
    ASSUME NEW S, NEW s \in Seq(S), NEW K
    PROVE  /\ Filtered(s, K) \in Seq(S)
           /\ \E h \in [1..Len(Filtered(s, K)) -> K \cap 1..Len(s)] :
                /\ \A i \in 1..Len(Filtered(s, K)) : Filtered(s, K)[i] = s[h[i]]
                /\ \A i, j \in 1..Len(Filtered(s, K)) : i < j => h[i] < h[j]
                /\ \A k \in K \cap 1..Len(s) :
                       \E i \in 1..Len(Filtered(s, K)) : h[i] = k
<1>1. Len(s) \in Nat
  OBVIOUS
<1>2. PICK f : IsTable(f, s, K, Len(s)) /\ Filtered(s, K) = f[Len(s)]
  BY <1>1, FilteredByTable
<1> DEFINE t == f[Len(s)]
<1>3. /\ t \in Seq(S)
      /\ \E h \in [1..Len(t) -> K \cap 1..Len(s)] :
            /\ \A i \in 1..Len(t) : t[i] = s[h[i]]
            /\ \A i, j \in 1..Len(t) : i < j => h[i] < h[j]
            /\ \A k \in K \cap 1..Len(s) : \E i \in 1..Len(t) : h[i] = k
  <2>1. Len(s) \in 0..Len(s)
    BY <1>1
  <2>2. QED BY <1>2, <2>1, TablePositions
<1>4. t = Filtered(s, K)
  BY <1>2
<1> HIDE DEF t
<1>5. QED BY <1>3, <1>4

(* Two tables agree as long as the elements and the positions do.          *)
LEMMA TablesAgree ==
    ASSUME NEW s, NEW t, NEW K, NEW J, NEW M \in Nat, NEW N \in Nat, N <= M,
           NEW f, NEW g, IsTable(f, s, K, N), IsTable(g, t, J, M),
           \A n \in 1..N : s[n] = t[n] /\ (n \in K <=> n \in J)
    PROVE  f[N] = g[N]
<1> DEFINE T == {n \in 0..N : f[n] # g[n]}
<1>1. SUFFICES ASSUME T # {} PROVE FALSE
  <2>1. N \in 0..N
    OBVIOUS
  <2>2. QED BY <2>1
<1>2. PICK m \in T : \A k \in T : m <= k
  <2>1. T \subseteq Nat
    OBVIOUS
  <2> HIDE DEF T
  <2>2. QED BY <1>1, <2>1, LeastNatural
<1>3. \A n \in 0..N : f[n] = IF n = 0 THEN <<>>
                        ELSE IF n \in K THEN Append(f[n - 1], s[n])
                        ELSE f[n - 1]
  BY Zenon DEF IsTable
<1>4. \A n \in 0..M : g[n] = IF n = 0 THEN <<>>
                        ELSE IF n \in J THEN Append(g[n - 1], t[n])
                        ELSE g[n - 1]
  BY Zenon DEF IsTable
<1>5. m \in 0..N /\ m \in 0..M /\ f[m] # g[m]
  BY <1>2
<1>6. m # 0
  BY <1>3, <1>4, <1>5
<1>7. m \in 1..N /\ m - 1 \in 0..N /\ m - 1 \notin T
  BY <1>2, <1>5, <1>6
<1>8. f[m - 1] = g[m - 1]
  BY <1>7
<1>9. QED BY <1>3, <1>4, <1>5, <1>6, <1>7, <1>8

(* Only the positions within the sequence count.                           *)
LEMMA FilteredAgree ==
    ASSUME NEW s, NEW K, NEW J, Len(s) \in Nat,
           \A n \in 1..Len(s) : n \in K <=> n \in J
    PROVE  Filtered(s, K) = Filtered(s, J)
<1>1. PICK f : IsTable(f, s, K, Len(s)) /\ Filtered(s, K) = f[Len(s)]
  BY FilteredByTable
<1>2. PICK g : IsTable(g, s, J, Len(s)) /\ Filtered(s, J) = g[Len(s)]
  BY FilteredByTable
<1>3. f[Len(s)] = g[Len(s)]
  BY <1>1, <1>2, TablesAgree
<1>4. QED BY <1>1, <1>2, <1>3

(* A filter of the empty sequence.                                         *)
LEMMA FilteredEmpty ==
    ASSUME NEW K
    PROVE  Filtered(<<>>, K) = <<>>
<1>1. Len(<<>>) = 0
  OBVIOUS
<1>2. PICK f : IsTable(f, <<>>, K, 0) /\ Filtered(<<>>, K) = f[0]
  BY <1>1, FilteredByTable
<1>3. f[0] = <<>>
  <2>1. 0 \in 0..0
    OBVIOUS
  <2>2. QED BY <2>1, <1>2, Zenon DEF IsTable
<1>4. QED BY <1>2, <1>3

(* A filter of a sequence with another element at its end.                 *)
LEMMA FilteredAppend ==
    ASSUME NEW S, NEW s \in Seq(S), NEW x \in S, NEW K
    PROVE  Filtered(Append(s, x), K) =
               IF Len(s) + 1 \in K THEN Append(Filtered(s, K), x) ELSE Filtered(s, K)
<1> DEFINE t == Append(s, x)
           N == Len(s)
<1>1. /\ N \in Nat /\ Len(t) = N + 1 /\ t[N + 1] = x
      /\ \A n \in 1..N : s[n] = t[n]
  BY AppendProperties
<1> HIDE DEF t
<1>2. PICK f : IsTable(f, s, K, N) /\ Filtered(s, K) = f[N]
  BY <1>1, FilteredByTable
<1>3. PICK g : IsTable(g, t, K, N + 1) /\ Filtered(t, K) = g[N + 1]
  BY <1>1, FilteredByTable
<1> HIDE DEF N
<1>4. N + 1 \in Nat /\ N <= N + 1 /\ N + 1 # 0 /\ N + 1 \in 0..(N + 1) /\ (N + 1) - 1 = N
  BY <1>1
<1>5. f[N] = g[N]
  BY <1>1, <1>2, <1>3, <1>4, TablesAgree
<1>6. g[N + 1] = IF N + 1 \in K THEN Append(g[N], t[N + 1]) ELSE g[N]
  <2>1. g[N + 1] = IF N + 1 = 0 THEN <<>>
                   ELSE IF N + 1 \in K THEN Append(g[(N + 1) - 1], t[N + 1])
                   ELSE g[(N + 1) - 1]
    BY <1>3, <1>4, Zenon DEF IsTable
  <2>2. QED BY <2>1, <1>4
<1>7. QED BY <1>1, <1>2, <1>3, <1>5, <1>6 DEF t, N

(* A filter that keeps everything, and one that keeps nothing.             *)
LEMMA FilteredAll ==
    ASSUME NEW S, NEW s \in Seq(S), NEW K, 1..Len(s) \subseteq K
    PROVE  Filtered(s, K) = s
<1> DEFINE N == Len(s)
           g == [n \in 0..N |-> SubSeq(s, 1, n)]
<1>1. N \in Nat /\ DOMAIN s = 1..N /\ \A n \in 1..N : s[n] \in S /\ n \in K
  OBVIOUS
<1>2. PICK f : IsTable(f, s, K, N) /\ Filtered(s, K) = f[N]
  BY <1>1, FilteredByTable
<1> DEFINE T == {n \in 0..N : f[n] # SubSeq(s, 1, n)}
<1>3. T = {}
  <2> SUFFICES ASSUME T # {} PROVE FALSE
    OBVIOUS
  <2>1. PICK m \in T : \A k \in T : m <= k
    <3>1. T \subseteq Nat
      BY <1>1
    <3> HIDE DEF T
    <3>2. QED BY <3>1, LeastNatural
  <2>2. f[m] = IF m = 0 THEN <<>> ELSE IF m \in K THEN Append(f[m - 1], s[m]) ELSE f[m - 1]
    BY <1>2, <2>1, Zenon DEF IsTable
  <2>3. SubSeq(s, 1, 0) = <<>>
    OBVIOUS
  <2>4. m \in 1..N /\ m - 1 \in 0..N /\ m - 1 \notin T
    <3>1. m \in 0..N /\ f[m] # SubSeq(s, 1, m)
      BY <2>1
    <3>2. m # 0
      BY <2>2, <2>3, <3>1
    <3>3. m \in 1..N /\ m - 1 \in 0..N /\ ~(m <= m - 1)
      BY <1>1, <3>1, <3>2
    <3> HIDE DEF T
    <3>4. QED BY <2>1, <3>3
  <2>5. f[m - 1] = SubSeq(s, 1, m - 1)
    BY <2>4
  <2>6. Append(SubSeq(s, 1, m - 1), s[m]) = SubSeq(s, 1, m)
    <3>1. s \in Seq(S) /\ m \in 1..Len(s)
      BY <2>4
    <3>2. QED BY <3>1
  <2>7. f[m] = SubSeq(s, 1, m)
    BY <1>1, <2>2, <2>4, <2>5, <2>6
  <2>8. QED BY <2>1, <2>7
<1>4. f[N] = SubSeq(s, 1, N)
  BY <1>1, <1>3
<1>5. SubSeq(s, 1, Len(s)) = s
  OBVIOUS
<1>6. QED BY <1>2, <1>4, <1>5

LEMMA FilteredNone ==
    ASSUME NEW S, NEW s \in Seq(S), NEW K, K \cap 1..Len(s) = {}
    PROVE  Filtered(s, K) = <<>>
<1> DEFINE t == Filtered(s, K)
<1>1. t \in Seq(S) /\ \E h \in [1..Len(t) -> K \cap 1..Len(s)] : TRUE
  BY FilteredPositions
<1> HIDE DEF t
<1>2. Len(t) \in Nat
  BY <1>1
<1>3. Len(t) = 0
  <2>1. ASSUME Len(t) # 0 PROVE FALSE
    <3>1. 1 \in 1..Len(t)
      BY <1>2, <2>1
    <3>2. QED BY <1>1, <3>1
  <2>2. QED BY <2>1
<1>4. t = <<>>
  BY <1>1, <1>3
<1>5. QED BY <1>4 DEF t

(* A filter of two sequences, one after the other.                         *)
LEMMA FilteredConcat ==
    ASSUME NEW S, NEW s \in Seq(S), NEW t \in Seq(S), NEW K, NEW J, NEW L,
           \A n \in 1..Len(s) : n \in K <=> n \in J,
           \A n \in 1..Len(t) : Len(s) + n \in K <=> n \in L
    PROVE  Filtered(s \o t, K) = Filtered(s, J) \o Filtered(t, L)
<1>0. \A a, b, c \in Seq(S) : (a \o b) \o c = a \o (b \o c)
  BY SMTT(30)
<1>d. \A a \in Seq(S), x \in S : Append(a, x) = a \o <<x>>
  BY AppendIsConcat
<1> DEFINE N == Len(s)
           M == Len(t)
           u == s \o t
<1>1. /\ N \in Nat /\ M \in Nat /\ Len(u) = N + M
      /\ \A n \in 1..N : u[n] = s[n]
      /\ \A n \in 1..M : u[N + n] = t[n]
      /\ \A n \in 1..M : t[n] \in S
  BY ConcatProperties
<1> HIDE DEF u
<1>2. PICK f : IsTable(f, u, K, N + M) /\ Filtered(u, K) = f[N + M]
  <2>1. Len(u) \in Nat
    BY <1>1
  <2>2. \E f : IsTable(f, u, K, Len(u)) /\ Filtered(u, K) = f[Len(u)]
    BY <2>1, FilteredByTable
  <2>3. QED BY <1>1, <2>2
<1>3. PICK g : IsTable(g, s, J, N) /\ Filtered(s, J) = g[N]
  BY <1>1, FilteredByTable
<1>4. PICK h : IsTable(h, t, L, M) /\ Filtered(t, L) = h[M]
  BY <1>1, FilteredByTable
<1>5. g[N] \in Seq(S)
  BY <1>3, FilteredPositions
<1>6. \A n \in 0..M : h[n] \in Seq(S)
  BY <1>4, TablePositions
<1>a. \A n \in 1..N : n \in K <=> n \in J
  OBVIOUS
<1>b. \A n \in 1..M : N + n \in K <=> n \in L
  OBVIOUS
<1>c. N \in Nat /\ M \in Nat
  BY <1>1
<1> HIDE DEF N, M
<1>7. f[N] = g[N]
  <2>1. N + M \in Nat /\ N <= N + M /\ \A n \in 1..N : s[n] = u[n] /\ (n \in J <=> n \in K)
    BY <1>1, <1>a
  <2>2. QED BY <1>1, <1>2, <1>3, <2>1, TablesAgree
<1> DEFINE Differ(n) == f[N + n] # g[N] \o h[n]
           T == {n \in 0..M : Differ(n)}
<1> HIDE DEF Differ
<1>8. T = {}
  <2> SUFFICES ASSUME T # {} PROVE FALSE
    OBVIOUS
  <2>1. PICK m \in T : \A k \in T : m <= k
    <3>1. T \subseteq Nat
      BY <1>c
    <3> HIDE DEF T
    <3>2. QED BY <3>1, LeastNatural
  <2>2. m \in 0..M /\ f[N + m] # g[N] \o h[m]
    BY <2>1 DEF Differ
  <2>3. m # 0
    <3>1. h[0] = <<>>
      <4>1. 0 \in 0..M
        BY <1>1
      <4>2. QED BY <1>4, <4>1, Zenon DEF IsTable
    <3>2. g[N] \o <<>> = g[N]
      BY <1>5
    <3>3. N + 0 = N
      BY <1>1
    <3>4. QED BY <1>7, <2>2, <3>1, <3>2, <3>3
  <2>4. /\ m \in 1..M /\ m - 1 \in 0..M /\ N + m \in 0..(N + M) /\ N + m # 0
        /\ (N + m) - 1 = N + (m - 1) /\ m - 1 \notin T
    <3>1. m \in 0..M /\ m # 0
      BY <2>2, <2>3
    <3>2. /\ m \in 1..M /\ m - 1 \in 0..M /\ N + m \in 0..(N + M) /\ N + m # 0
          /\ (N + m) - 1 = N + (m - 1) /\ ~(m <= m - 1)
      BY <1>c, <3>1
    <3> HIDE DEF T
    <3>3. QED BY <2>1, <3>2
  <2>5. f[N + (m - 1)] = g[N] \o h[m - 1]
    BY <2>4 DEF Differ
  <2>6. h[m] = IF m \in L THEN Append(h[m - 1], t[m]) ELSE h[m - 1]
    <3>1. h[m] = IF m = 0 THEN <<>> ELSE IF m \in L THEN Append(h[m - 1], t[m]) ELSE h[m - 1]
      BY <1>4, <2>2, Zenon DEF IsTable
    <3>2. QED BY <2>3, <3>1
  <2>7. f[N + m] = IF N + m \in K THEN Append(f[N + (m - 1)], u[N + m]) ELSE f[N + (m - 1)]
    <3>1. f[N + m] = IF N + m = 0 THEN <<>>
                     ELSE IF N + m \in K THEN Append(f[(N + m) - 1], u[N + m])
                     ELSE f[(N + m) - 1]
      BY <1>2, <2>4, Zenon DEF IsTable
    <3>2. QED BY <2>4, <3>1
  <2>8. u[N + m] = t[m] /\ t[m] \in S /\ (N + m \in K <=> m \in L)
    BY <1>1, <1>b, <2>4
  <2>9. h[m - 1] \in Seq(S)
    BY <1>6, <2>4
  <2>10. Append(f[N + (m - 1)], t[m]) = g[N] \o Append(h[m - 1], t[m])
    <3>1. g[N] \o h[m - 1] \in Seq(S) /\ <<t[m]>> \in Seq(S)
      BY <1>5, <2>8, <2>9
    <3>2. /\ Append(g[N] \o h[m - 1], t[m]) = (g[N] \o h[m - 1]) \o <<t[m]>>
          /\ Append(h[m - 1], t[m]) = h[m - 1] \o <<t[m]>>
      BY <1>d, <2>8, <2>9, <3>1, Zenon
    <3>3. (g[N] \o h[m - 1]) \o <<t[m]>> = g[N] \o (h[m - 1] \o <<t[m]>>)
      BY <1>0, <1>5, <2>9, <3>1, Zenon
    <3>4. QED BY <2>5, <3>2, <3>3, Zenon
  <2>11. QED BY <2>2, <2>5, <2>6, <2>7, <2>8, <2>10
<1>9. f[N + M] = g[N] \o h[M]
  <2>1. M \in 0..M
    BY <1>c
  <2>2. ~Differ(M)
    BY <1>8, <2>1
  <2>3. QED BY <2>2 DEF Differ
<1>10. QED BY <1>2, <1>3, <1>4, <1>9 DEF u

(* A sequence is what is before an element, the element and what is after. *)
LEMMA SplitAt ==
    ASSUME NEW S, NEW s \in Seq(S), NEW i \in 1..Len(s)
    PROVE  s = SubSeq(s, 1, i - 1) \o (<<s[i]>> \o SubSeq(s, i + 1, Len(s)))
<1> DEFINE g == SubSeq(s, 1, i - 1)
           r == SubSeq(s, i + 1, Len(s))
           m == <<s[i]>> \o r
<1>1. g \in Seq(S) /\ r \in Seq(S) /\ Len(g) = i - 1 /\ Len(r) = Len(s) - i
  OBVIOUS
<1>2. m \in Seq(S) /\ Len(m) = Len(s) - i + 1 /\ m[1] = s[i] /\ \A k \in 1..Len(r) : m[k+1] = r[k]
  BY SMTT(30)
<1>3. (\A k \in 1..Len(g) : g[k] = s[k]) /\ \A k \in 1..Len(r) : r[k] = s[i + k]
  OBVIOUS
<1> HIDE DEF g, r, m
<1>0. i \in Int /\ Len(s) \in Nat /\ 1 <= i /\ i <= Len(s)
  OBVIOUS
<1>c. /\ g \o m \in Seq(S) /\ Len(g \o m) = Len(g) + Len(m)
      /\ \A k \in 1..(Len(g) + Len(m)) : (g \o m)[k] = IF k <= Len(g) THEN g[k] ELSE m[k - Len(g)]
  BY <1>1, <1>2, ConcatProperties, Zenon
<1>4. g \o m \in Seq(S) /\ Len(g \o m) = Len(s)
  BY <1>0, <1>1, <1>2, <1>c
<1>5. ASSUME NEW k \in 1..Len(s) PROVE (g \o m)[k] = s[k]
  <2>1. CASE k < i
    BY <1>0, <1>c, <1>1, <1>2, <1>3, <2>1
  <2>2. CASE k = i
    BY <1>0, <1>c, <1>1, <1>2, <1>3, <2>2
  <2>3. CASE k > i
    <3>1. k - i \in 1..Len(r) /\ k - Len(g) = (k - i) + 1 /\ i + (k - i) = k
      BY <1>0, <1>c, <1>1, <2>3
    <3>2. m[(k - i) + 1] = s[k]
      BY <1>2, <1>3, <3>1
    <3>3. (g \o m)[k] = m[k - Len(g)]
      BY <1>0, <1>c, <1>1, <1>2, <2>3
    <3>4. QED BY <3>1, <3>2, <3>3
  <2>4. k < i \/ k = i \/ k > i
    BY <1>0
  <2>5. QED BY <2>1, <2>2, <2>3, <2>4, Zenon
<1>6. QED BY <1>4, <1>5, SeqEqual DEF m, g, r

(***************************************************************************)
(* The elements of a sequence that are in a set: a filter by a predicate.  *)
(***************************************************************************)
Among(s, P) == Filtered(s, {i \in DOMAIN s : s[i] \in P})

LEMMA AmongEmpty == \A P : Among(<<>>, P) = <<>>
BY FilteredEmpty DEF Among

LEMMA AmongType ==
    ASSUME NEW S, NEW s \in Seq(S), NEW P
    PROVE  /\ Among(s, P) \in Seq(S)
           /\ \A i \in 1..Len(Among(s, P)) : \E k \in 1..Len(s) :
                  s[k] \in P /\ Among(s, P)[i] = s[k]
           /\ \A k \in 1..Len(s) : s[k] \in P =>
                  \E i \in 1..Len(Among(s, P)) : Among(s, P)[i] = s[k]
<1> DEFINE K == {i \in DOMAIN s : s[i] \in P}
           t == Filtered(s, K)
<1>2. DOMAIN s = 1..Len(s)
  OBVIOUS
<1>3. \A k : k \in K <=> k \in 1..Len(s) /\ s[k] \in P
  BY <1>2
<1> HIDE DEF K
<1>1. /\ t \in Seq(S)
      /\ \E h \in [1..Len(t) -> K \cap 1..Len(s)] :
           /\ \A i \in 1..Len(t) : t[i] = s[h[i]]
           /\ \A i, j \in 1..Len(t) : i < j => h[i] < h[j]
           /\ \A k \in K \cap 1..Len(s) : \E i \in 1..Len(t) : h[i] = k
  BY FilteredPositions
<1> HIDE DEF t
<1>4. PICK h \in [1..Len(t) -> K \cap 1..Len(s)] :
           /\ \A i \in 1..Len(t) : t[i] = s[h[i]]
           /\ \A k \in K \cap 1..Len(s) : \E i \in 1..Len(t) : h[i] = k
  BY <1>1
<1>5. \A i \in 1..Len(t) : \E k \in 1..Len(s) : s[k] \in P /\ t[i] = s[k]
  BY <1>3, <1>4
<1>6. \A k \in 1..Len(s) : s[k] \in P => \E i \in 1..Len(t) : t[i] = s[k]
  BY <1>3, <1>4
<1>7. QED BY <1>1, <1>5, <1>6 DEF Among, t, K

LEMMA AmongHas ==
    ASSUME NEW S, NEW s \in Seq(S), NEW P, NEW k \in 1..Len(s), s[k] \in P
    PROVE  \E i \in 1..Len(Among(s, P)) : Among(s, P)[i] = s[k]
BY AmongType

LEMMA AmongNone ==
    ASSUME NEW S, NEW s \in Seq(S), NEW P, \A k \in 1..Len(s) : s[k] \notin P
    PROVE  Among(s, P) = <<>>
<1>1. {i \in DOMAIN s : s[i] \in P} \cap 1..Len(s) = {}
  OBVIOUS
<1>2. QED BY <1>1, FilteredNone DEF Among

LEMMA AmongAll ==
    ASSUME NEW S, NEW s \in Seq(S), NEW P, \A k \in 1..Len(s) : s[k] \in P
    PROVE  Among(s, P) = s
<1>1. 1..Len(s) \subseteq {i \in DOMAIN s : s[i] \in P}
  OBVIOUS
<1>2. QED BY <1>1, FilteredAll DEF Among

LEMMA AmongConcat ==
    ASSUME NEW S, NEW s \in Seq(S), NEW t \in Seq(S), NEW P
    PROVE  Among(s \o t, P) = Among(s, P) \o Among(t, P)
<1> DEFINE u == s \o t
           K == {i \in DOMAIN u : u[i] \in P}
           J == {i \in DOMAIN s : s[i] \in P}
           L == {i \in DOMAIN t : t[i] \in P}
<1>1. /\ u \in Seq(S) /\ Len(u) = Len(s) + Len(t) /\ Len(s) \in Nat /\ Len(t) \in Nat
      /\ \A n \in 1..Len(s) : u[n] = s[n]
      /\ \A n \in 1..Len(t) : u[Len(s) + n] = t[n]
  BY ConcatProperties
<1>2. DOMAIN u = 1..Len(u) /\ DOMAIN s = 1..Len(s) /\ DOMAIN t = 1..Len(t)
  BY <1>1
<1> HIDE DEF u
<1>3. \A n \in 1..Len(s) : n \in K <=> n \in J
  BY <1>1, <1>2
<1>4. \A n \in 1..Len(t) : Len(s) + n \in K <=> n \in L
  BY <1>1, <1>2
<1> HIDE DEF K, J, L
<1>5. Filtered(s \o t, K) = Filtered(s, J) \o Filtered(t, L)
  BY <1>3, <1>4, FilteredConcat
<1>6. QED BY <1>5 DEF Among, K, J, L, u

LEMMA AmongOne ==
    ASSUME NEW S, NEW x \in S, NEW P
    PROVE  Among(<<x>>, P) = IF x \in P THEN <<x>> ELSE <<>>
<1>1. <<x>> \in Seq(S) /\ Len(<<x>>) = 1 /\ <<x>>[1] = x
  OBVIOUS
<1>2. CASE x \in P
  <2>1. \A k \in 1..Len(<<x>>) : <<x>>[k] \in P
    BY <1>1, <1>2
  <2>2. QED BY <1>1, <1>2, <2>1, AmongAll
<1>3. CASE x \notin P
  <2>1. \A k \in 1..Len(<<x>>) : <<x>>[k] \notin P
    BY <1>1, <1>3
  <2>2. QED BY <1>1, <1>3, <2>1, AmongNone
<1>4. QED BY <1>2, <1>3

LEMMA AmongAppend ==
    ASSUME NEW S, NEW s \in Seq(S), NEW x \in S, NEW P
    PROVE  Among(Append(s, x), P) = IF x \in P THEN Append(Among(s, P), x) ELSE Among(s, P)
<1> DEFINE w == <<x>>
<1>1. Append(s, x) = s \o w /\ w \in Seq(S) /\ Among(s, P) \in Seq(S)
  BY AppendIsConcat, AmongType
<1> HIDE DEF w
<1>2. Among(s \o w, P) = Among(s, P) \o Among(w, P)
  BY <1>1, AmongConcat
<1> USE DEF w
<1>3. Among(<<x>>, P) = IF x \in P THEN <<x>> ELSE <<>>
  BY AmongOne
<1>4. Among(s, P) \o <<x>> = Append(Among(s, P), x) /\ Among(s, P) \o <<>> = Among(s, P)
  BY <1>1, AppendIsConcat
<1>5. QED BY <1>1, <1>2, <1>3, <1>4

(* What is kept twice is kept once.                                        *)
LEMMA AmongTwice ==
    ASSUME NEW S, NEW s \in Seq(S), NEW P, NEW Q,
           \A x \in S : x \in P => x \in Q
    PROVE  Among(Among(s, Q), P) = Among(s, P)
<1> DEFINE f(n) == SubSeq(s, 1, n)
           Differ(n) == Among(Among(f(n), Q), P) # Among(f(n), P)
           T == {n \in 0..Len(s) : Differ(n)}
<1>0. Len(s) \in Nat /\ (\A n \in 1..Len(s) : s[n] \in S)
  OBVIOUS
<1>1. f(0) = <<>> /\ f(Len(s)) = s
  OBVIOUS
<1>2. \A n \in 0..Len(s) : f(n) \in Seq(S)
  OBVIOUS
<1>3. \A n \in 1..Len(s) : f(n) = Append(f(n - 1), s[n])
  OBVIOUS
<1> HIDE DEF f
<1>4. T = {}
  <2> SUFFICES ASSUME T # {} PROVE FALSE
    OBVIOUS
  <2>1. PICK m \in T : \A k \in T : m <= k
    <3>1. T \subseteq Nat
      BY <1>0
    <3> HIDE DEF T
    <3>2. QED BY <3>1, LeastNatural
  <2>2. m \in 0..Len(s) /\ Differ(m)
    BY <2>1
  <2>3. m # 0
    BY <1>1, <2>2, AmongEmpty
  <2>4. m \in 1..Len(s) /\ m - 1 \in 0..Len(s) /\ ~Differ(m - 1)
    <3>1. m \in 1..Len(s) /\ m - 1 \in 0..Len(s) /\ ~(m <= m - 1)
      BY <1>0, <2>2, <2>3
    <3>2. m - 1 \in T => m <= m - 1
      BY <2>1
    <3>3. QED BY <3>1, <3>2
  <2> DEFINE g == f(m - 1)
             x == s[m]
             a == Among(g, Q)
  <2>5. g \in Seq(S) /\ x \in S /\ f(m) = Append(g, x) /\ Among(a, P) = Among(g, P)
    BY <1>0, <1>2, <1>3, <2>4
  <2> HIDE DEF g, x
  <2>6. a \in Seq(S) /\ (x \in P => x \in Q)
    BY <2>5, AmongType
  <2>7. Among(Append(g, x), Q) = IF x \in Q THEN Append(a, x) ELSE a
    BY <2>5, AmongAppend
  <2>8. Among(Append(g, x), P) = IF x \in P THEN Append(Among(g, P), x) ELSE Among(g, P)
    BY <2>5, AmongAppend
  <2> HIDE DEF a
  <2>9. Among(Append(a, x), P) = IF x \in P THEN Append(Among(a, P), x) ELSE Among(a, P)
    BY <2>5, <2>6, AmongAppend
  <2>10. Among(Among(Append(g, x), Q), P) = Among(Append(g, x), P)
    BY <2>5, <2>6, <2>7, <2>8, <2>9
  <2>11. QED BY <2>2, <2>5, <2>10
<1>5. ~Differ(Len(s))
  BY <1>0, <1>4
<1>6. QED BY <1>1, <1>5
=============================================================================
