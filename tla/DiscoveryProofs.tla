-------------------------- MODULE DiscoveryProofs --------------------------
(***************************************************************************)
(* Proofs about the discovery functions, for every document: the rows of   *)
(* odata_metadata and the names of odata_entity_sets are those that a      *)
(* definition by their places gives, and a scan of them keeps the promise  *)
(* of AbstractQuery.                                                       *)
(***************************************************************************)
EXTENDS DiscoveryFunction, Induction, FiniteSetTheorems

(***************************************************************************)
(* Places in order                                                         *)
(***************************************************************************)
Place == Nat \X Nat \X Nat

\* h names the places of P from the first to the last.
Enumerates(h, m, P) ==
    /\ m \in Nat
    /\ h \in [1 .. m -> P]
    /\ \A x \in P : \E n \in 1 .. m : h[n] = x
    /\ \A i, j \in 1 .. m : i < j => Earlier(h[i], h[j])

\* The places before x.
Before(P, x) == {y \in P : Earlier(y, x)}

\* A set has as many elements as have been named, each once.
LEMMA Counted ==
    ASSUME NEW S, NEW k \in Nat, NEW f \in [1 .. k -> S],
           \A x \in S : \E i \in 1 .. k : f[i] = x,
           \A i, j \in 1 .. k : f[i] = f[j] => i = j
    PROVE  Cardinality(S) = k
<1>1. f \in Bijection(1 .. k, S)
  BY DEF Bijection, Injection, IsInjective, Surjection
<1>2. ExistsBijection(1 .. k, S)
  BY <1>1 DEF ExistsBijection
<1>3. QED
  BY <1>2, FS_CountingElements

\* Of two places at most one is earlier, and none is earlier than itself.
LEMMA EarlierOrders ==
    ASSUME NEW x \in Place, NEW y \in Place
    PROVE  ~Earlier(x, x) /\ (Earlier(x, y) => ~Earlier(y, x))
  BY DEF Earlier, Place

\* A place is preceded by as many as were named before it.
LEMMA Precedes ==
    ASSUME NEW P \in SUBSET Place, NEW m, NEW h, Enumerates(h, m, P), NEW n \in 1 .. m
    PROVE  Cardinality(Before(P, h[n])) = n - 1
<1> DEFINE before == Before(P, h[n])
           first == [i \in 1 .. n - 1 |-> h[i]]
<1>1. m \in Nat /\ n - 1 \in Nat /\ \A i \in 1 .. n - 1 : i \in 1 .. m /\ i < n
  BY DEF Enumerates
<1>2. \A i \in 1 .. m : h[i] \in P /\ h[i] \in Place
  BY DEF Enumerates
<1>3. first \in [1 .. n - 1 -> before]
  <2>1. ASSUME NEW i \in 1 .. n - 1 PROVE h[i] \in before
    BY <1>1, <1>2 DEF Enumerates, Before
  <2>2. QED
    BY <2>1
<1>4. ASSUME NEW y \in before PROVE \E i \in 1 .. n - 1 : first[i] = y
  <2>1. PICK i \in 1 .. m : h[i] = y
    BY DEF Enumerates, Before
  <2>2. Earlier(h[i], h[n])
    BY <2>1 DEF Before
  <2>3. i # n /\ ~(n < i)
    <3>1. ~Earlier(h[n], h[n]) /\ ~Earlier(h[n], h[i])
      BY <1>2, <2>2, EarlierOrders
    <3>2. QED
      BY <2>2, <3>1 DEF Enumerates
  <2>4. i \in 1 .. n - 1
    BY <1>1, <2>3
  <2>5. QED
    BY <2>1, <2>4
<1>5. ASSUME NEW i \in 1 .. n - 1, NEW j \in 1 .. n - 1, first[i] = first[j] PROVE i = j
  <2>1. h[i] = h[j] /\ ~Earlier(h[i], h[i])
    BY <1>1, <1>2, <1>5, EarlierOrders
  <2>2. ~(i < j) /\ ~(j < i)
    BY <1>1, <2>1 DEF Enumerates
  <2>3. QED
    BY <2>2
<1> HIDE DEF first, before
<1>6. Cardinality(before) = n - 1
  <2> DEFINE k == n - 1
  <2>1. k \in Nat /\ first \in [1 .. k -> before]
    BY <1>1, <1>3
  <2>2. \A i, j \in 1 .. k : first[i] = first[j] => i = j
    BY <1>5
  <2>3. \A y \in before : \E i \in 1 .. k : first[i] = y
    BY <1>4
  <2> HIDE DEF k
  <2>4. Cardinality(before) = k
    BY <2>1, <2>2, <2>3, Counted
  <2>5. QED
    BY <2>4 DEF k
<1>7. QED
  BY <1>6 DEF before

\* The places in order are the places as they were named.
LEMMA OrderNamed ==
    ASSUME NEW P \in SUBSET Place, NEW m, NEW h, Enumerates(h, m, P)
    PROVE  InOrder(P) = h
<1>1. m \in Nat /\ h \in [1 .. m -> P]
  BY DEF Enumerates
<1>2. Cardinality(P) = m
  <2>1. ASSUME NEW i \in 1 .. m, NEW j \in 1 .. m, h[i] = h[j] PROVE i = j
    <3>1. ~Earlier(h[i], h[i])
      BY <1>1, EarlierOrders
    <3>2. ~(i < j) /\ ~(j < i)
      BY <2>1, <3>1 DEF Enumerates
    <3>3. QED
      BY <3>2
  <2>2. \A x \in P : \E i \in 1 .. m : h[i] = x
    BY DEF Enumerates
  <2>3. QED
    BY <1>1, <2>1, <2>2, Counted
<1> DEFINE Nth(x, n) == Cardinality(Before(P, x)) = n - 1
<1>3. ASSUME NEW n \in 1 .. m
      PROVE  (CHOOSE x \in P : Nth(x, n)) = h[n]
  <2>1. h[n] \in P /\ Nth(h[n], n)
    BY <1>1, Precedes
  <2>2. ASSUME NEW x \in P, Nth(x, n) PROVE x = h[n]
    <3>1. PICK i \in 1 .. m : h[i] = x
      BY DEF Enumerates
    <3>2. Nth(h[i], i)
      BY Precedes
    <3>3. i - 1 = n - 1
      BY <2>2, <3>1, <3>2
    <3>4. QED
      BY <3>1, <3>3
  <2> HIDE DEF Nth
  <2>3. QED
    BY <2>1, <2>2
<1>4. InOrder(P) = [n \in 1 .. m |-> CHOOSE x \in P : Nth(x, n)]
  BY <1>2 DEF InOrder, Before
<1> HIDE DEF Nth
<1>5. QED
  BY <1>1, <1>3, <1>4

(***************************************************************************)
(* The elements of a sequence of sequences, one sequence after the other   *)
(***************************************************************************)
\* f[k] is the first k sequences of ss in one.
Joins(f, A, ss) ==
    /\ f \in [0 .. Len(ss) -> Seq(A)]
    /\ f[0] = << >>
    /\ \A k \in 1 .. Len(ss) : f[k] = f[k - 1] \o ss[k]

\* FlattenSeq is all of them in one.
LEMMA FlattenDefined ==
    ASSUME NEW A, NEW ss \in Seq(Seq(A))
    PROVE  \E f : Joins(f, A, ss) /\ SeqExt!FlattenSeq(ss) = f[Len(ss)]
<1> DEFINE n == Len(ss)
           V == Seq(A)
           step == [k \in 1 .. n |-> [joined \in V |-> joined \o ss[k]]]
           Equation(h) == h = [i \in 1 .. Len(ss) |-> IF i = 1 THEN ss[i] ELSE h[i - 1] \o ss[i]]
           all == CHOOSE h : Equation(h)
<1>1. n \in Nat /\ << >> \in V /\ \A k \in 1 .. n : ss[k] \in V
  <2> HIDE DEF V
  <2>1. n \in Nat /\ \A k \in 1 .. n : ss[k] \in V
    BY LenProperties, ElementOfSeq DEF V
  <2>2. QED
    BY <2>1 DEF V
<1>2. step \in [1 .. n -> [V -> V]]
  <2>1. ASSUME NEW k \in 1 .. n, NEW joined \in V PROVE joined \o ss[k] \in V
    BY <1>1, ConcatProperties
  <2> HIDE DEF V
  <2>2. QED
    BY <2>1
<1>3. PICK f : Turns(f, V, << >>, step, n)
  <2> HIDE DEF n, step, V
  <2>1. QED
    BY <1>1, <1>2, Recursion
<1>4. ASSUME NEW k \in 1 .. n PROVE f[k] = f[k - 1] \o ss[k]
  <2>1. k - 1 \in 0 .. n - 1 /\ (k - 1) + 1 = k /\ k - 1 \in 0 .. n
    BY <1>1
  <2>2. f[k - 1] \in V
    BY <1>3, <2>1 DEF Turns
  <2>3. f[(k - 1) + 1] = step[(k - 1) + 1][f[k - 1]]
    <3> HIDE DEF step
    <3>1. QED
      BY <1>3, <2>1 DEF Turns
  <2> HIDE DEF V
  <2>4. QED
    BY <2>1, <2>2, <2>3
<1>5. Joins(f, A, ss)
  <2>1. f \in [0 .. n -> V] /\ f[0] = << >>
    <3> HIDE DEF step
    <3>1. QED
      BY <1>3 DEF Turns
  <2>2. QED
    BY <1>4, <2>1 DEF Joins
<1>6. CASE n = 0
  <2>1. ss = << >>
    BY <1>6, EmptySeq
  <2>2. SeqExt!FlattenSeq(ss) = ss
    BY <1>6 DEF SeqExt!FlattenSeq
  <2>3. f[n] = << >>
    BY <1>5, <1>6 DEF Joins
  <2>4. QED
    BY <1>5, <2>1, <2>2, <2>3
<1>7. CASE n # 0
  <2>1. SeqExt!FlattenSeq(ss) = all[n]
    BY <1>7 DEF SeqExt!FlattenSeq
  <2> DEFINE g == [k \in 1 .. n |-> f[k]]
  <2>2. Equation(g)
    <3>1. ASSUME NEW i \in 1 .. n
          PROVE  g[i] = IF i = 1 THEN ss[i] ELSE g[i - 1] \o ss[i]
      <4>1. g[i] = f[i - 1] \o ss[i]
        BY <1>4
      <4>2. CASE i = 1
        <5>1. f[i - 1] = << >>
          BY <1>5, <4>2 DEF Joins
        <5>2. ss[i] \in V
          BY <1>1
        <5>3. << >> \o ss[i] = ss[i]
          BY <5>2, ConcatEmptySeq
        <5>4. QED
          BY <4>1, <4>2, <5>1, <5>3
      <4>3. CASE i # 1
        <5>1. i - 1 \in 1 .. n
          BY <1>1, <4>3
        <5>2. QED
          BY <4>1, <4>3, <5>1
      <4>4. QED
        BY <4>2, <4>3
    <3>2. g = [i \in 1 .. n |-> g[i]]
      OBVIOUS
    <3> HIDE DEF g
    <3>3. QED
      BY <3>1, <3>2
  <2>3. Equation(all)
    <3> HIDE DEF Equation
    <3>1. QED
      BY <2>2
  <2> HIDE DEF all
  <2>4. \A i \in 1 .. n : all[i] = IF i = 1 THEN ss[i] ELSE all[i - 1] \o ss[i]
    BY <2>3
  <2> HIDE DEF Equation
  <2> DEFINE same == {k \in Nat : k + 1 <= n => all[k + 1] = f[k + 1]}
  <2>5. 0 \in same
    <3> SUFFICES ASSUME 1 <= n PROVE all[1] = f[1]
      OBVIOUS
    <3>1. 1 \in 1 .. n
      BY <1>1
    <3>2. all[1] = ss[1] /\ f[1] = f[1 - 1] \o ss[1]
      BY <1>4, <2>4, <3>1
    <3>3. f[1 - 1] = << >> /\ ss[1] \in V
      BY <1>1, <1>5, <3>1 DEF Joins
    <3>4. << >> \o ss[1] = ss[1]
      BY <3>3, ConcatEmptySeq
    <3>5. QED
      BY <3>2, <3>3, <3>4
  <2>6. ASSUME NEW k \in Nat, k \in same, (k + 1) + 1 <= n
        PROVE  all[(k + 1) + 1] = f[(k + 1) + 1]
    <3>1. (k + 1) + 1 \in 1 .. n /\ (k + 1) + 1 # 1 /\ ((k + 1) + 1) - 1 = k + 1 /\ k + 1 <= n
      BY <1>1, <2>6
    <3>2. all[(k + 1) + 1] = all[k + 1] \o ss[(k + 1) + 1]
      <4>1. all[(k + 1) + 1] = all[((k + 1) + 1) - 1] \o ss[(k + 1) + 1]
        BY <2>4, <3>1
      <4>2. QED
        BY <3>1, <4>1
    <3>3. f[(k + 1) + 1] = f[k + 1] \o ss[(k + 1) + 1]
      <4>1. f[(k + 1) + 1] = f[((k + 1) + 1) - 1] \o ss[(k + 1) + 1]
        BY <1>4, <3>1
      <4>2. QED
        BY <3>1, <4>1
    <3>4. all[k + 1] = f[k + 1]
      BY <2>6, <3>1
    <3>5. QED
      BY <3>2, <3>3, <3>4
  <2>7. ASSUME NEW k \in Nat, k \in same PROVE k + 1 \in same
    BY <2>6, <2>7
  <2> HIDE DEF same
  <2>8. n - 1 \in same
    <3>1. n - 1 \in Nat
      BY <1>1, <1>7
    <3>2. QED
      BY <2>5, <2>7, <3>1, NatInduced
  <2>9. all[n] = f[n]
    BY <1>1, <1>7, <2>8 DEF same
  <2>10. QED
    BY <1>5, <2>1, <2>9
<1>8. QED
  BY <1>6, <1>7

\* The elements of the first k sequences of ss, as they stand in F: element n is
\* element q[n] of sequence p[n].
Locates(p, q, F, ss, k) ==
    /\ p \in [1 .. Len(F) -> 1 .. k]
    /\ q \in [1 .. Len(F) -> Nat]
    /\ \A n \in 1 .. Len(F) : q[n] \in 1 .. Len(ss[p[n]]) /\ F[n] = ss[p[n]][q[n]]
    /\ \A i, j \in 1 .. Len(F) : i < j => p[i] < p[j] \/ (p[i] = p[j] /\ q[i] < q[j])
    /\ \A i \in 1 .. k : \A j \in 1 .. Len(ss[i]) :
          \E n \in 1 .. Len(F) : p[n] = i /\ q[n] = j

\* One sequence more joins, and its elements stand after the others.
LEMMA LocatesGrow ==
    ASSUME NEW A, NEW ss \in Seq(Seq(A)), NEW k \in 0 .. Len(ss) - 1,
           NEW F \in Seq(A), NEW p, NEW q, Locates(p, q, F, ss, k)
    PROVE  \E more, others : Locates(more, others, F \o ss[k + 1], ss, k + 1)
<1> DEFINE m == Len(F)
           s == ss[k + 1]
           G == F \o s
           more == [n \in 1 .. m + Len(s) |-> IF n <= m THEN p[n] ELSE k + 1]
           others == [n \in 1 .. m + Len(s) |-> IF n <= m THEN q[n] ELSE n - m]
<1>1. m \in Nat /\ k \in Nat /\ Len(ss) \in Nat /\ k + 1 \in 1 .. Len(ss)
  BY LenProperties
<1>2. s \in Seq(A) /\ Len(s) \in Nat
  <2> DEFINE V == Seq(A)
  <2>1. ss[k + 1] \in V
    <3> HIDE DEF V
    <3>1. ss \in Seq(V)
      BY DEF V
    <3>2. QED
      BY <1>1, <3>1, ElementOfSeq
  <2>2. QED
    BY <2>1, LenProperties
<1>3. /\ Len(G) = m + Len(s)
      /\ \A n \in 1 .. m : G[n] = F[n]
      /\ \A n \in 1 .. Len(s) : G[m + n] = s[n]
  <2> HIDE DEF s
  <2>1. /\ Len(F \o s) = Len(F) + Len(s)
        /\ \A i \in 1 .. Len(F) + Len(s) : (F \o s)[i] = IF i <= Len(F) THEN F[i] ELSE s[i - Len(F)]
    BY <1>2, ConcatProperties
  <2>2. QED
    BY <1>1, <1>2, <2>1
<1>4. \A n \in 1 .. m : /\ p[n] \in 1 .. k /\ q[n] \in 1 .. Len(ss[p[n]]) /\ q[n] \in Nat
                        /\ F[n] = ss[p[n]][q[n]]
  BY DEF Locates
<1>5. \A n \in 1 .. m : more[n] = p[n] /\ others[n] = q[n]
  BY <1>1, <1>2
<1>6. \A n \in 1 .. Len(s) : more[m + n] = k + 1 /\ others[m + n] = n
  BY <1>1, <1>2
<1>7. /\ more \in [1 .. m + Len(s) -> 1 .. k + 1]
      /\ others \in [1 .. m + Len(s) -> Nat]
  BY <1>1, <1>2, <1>4
<1>8. \A n \in 1 .. m + Len(s) : n \in 1 .. m \/ \E j \in 1 .. Len(s) : n = m + j
  <2>1. ASSUME NEW n \in 1 .. m + Len(s), n \notin 1 .. m
        PROVE  n - m \in 1 .. Len(s) /\ n = m + (n - m)
    BY <1>1, <1>2, <2>1
  <2>2. QED
    BY <2>1
<1> HIDE DEF G, more, others, m
<1>9. ASSUME NEW n \in 1 .. m + Len(s)
      PROVE  others[n] \in 1 .. Len(ss[more[n]]) /\ G[n] = ss[more[n]][others[n]]
  <2>1. CASE n \in 1 .. m
    BY <1>3, <1>4, <1>5, <2>1
  <2>2. CASE \E j \in 1 .. Len(s) : n = m + j
    BY <1>3, <1>6, <2>2
  <2>3. QED
    BY <1>8, <2>1, <2>2
<1> HIDE DEF s
<1>10. ASSUME NEW i \in 1 .. m + Len(s), NEW j \in 1 .. m + Len(s), i < j
       PROVE  more[i] < more[j] \/ (more[i] = more[j] /\ others[i] < others[j])
  <2>1. CASE i \in 1 .. m /\ j \in 1 .. m
    BY <1>5, <1>10, <2>1 DEF Locates, m
  <2>2. ASSUME NEW b \in 1 .. Len(s), j = m + b, i \in 1 .. m
        PROVE  more[i] < more[j]
    <3>1. more[i] \in 1 .. k /\ more[j] = k + 1
      BY <1>4, <1>5, <1>6, <2>2
    <3>2. QED
      BY <1>1, <3>1
  <2>3. ASSUME NEW a \in 1 .. Len(s), i = m + a
        PROVE  more[i] = more[j] /\ others[i] < others[j]
    <3>1. j \notin 1 .. m
      BY <1>1, <1>2, <1>10, <2>3
    <3>2. PICK b \in 1 .. Len(s) : j = m + b
      BY <1>8, <3>1
    <3>3. a < b
      BY <1>1, <1>2, <1>10, <2>3, <3>2
    <3>4. QED
      BY <1>6, <2>3, <3>2, <3>3
  <2>4. QED
    BY <1>8, <2>1, <2>2, <2>3
<1>11. ASSUME NEW i \in 1 .. k + 1, NEW j \in 1 .. Len(ss[i])
       PROVE  \E n \in 1 .. m + Len(s) : more[n] = i /\ others[n] = j
  <2>1. CASE i = k + 1
    <3>1. j \in 1 .. Len(s)
      BY <2>1 DEF s
    <3>2. m + j \in 1 .. m + Len(s) /\ more[m + j] = i /\ others[m + j] = j
      BY <1>1, <1>2, <1>6, <2>1, <3>1
    <3>3. QED
      BY <3>2
  <2>2. CASE i \in 1 .. k
    <3>1. PICK n \in 1 .. m : p[n] = i /\ q[n] = j
      BY <2>2 DEF Locates, m
    <3>2. n \in 1 .. m + Len(s) /\ more[n] = i /\ others[n] = j
      BY <1>1, <1>2, <1>5, <3>1
    <3>3. QED
      BY <3>2
  <2>3. QED
    BY <1>1, <2>1, <2>2
<1>12. Locates(more, others, G, ss, k + 1)
  BY <1>3, <1>7, <1>9, <1>10, <1>11 DEF Locates
<1>13. QED
  BY <1>12 DEF G, s

\* FlattenSeq has every element of every sequence, in their order.
LEMMA FlattenLocates ==
    ASSUME NEW A, NEW ss \in Seq(Seq(A))
    PROVE  /\ SeqExt!FlattenSeq(ss) \in Seq(A)
           /\ \E p, q : Locates(p, q, SeqExt!FlattenSeq(ss), ss, Len(ss))
<1>1. PICK f : Joins(f, A, ss) /\ SeqExt!FlattenSeq(ss) = f[Len(ss)]
  BY FlattenDefined
<1>2. Len(ss) \in Nat
  BY LenProperties
<1> DEFINE Located(k) == \E p, q : Locates(p, q, f[k], ss, k)
           located == {k \in Nat : k <= Len(ss) => Located(k)}
<1>3. 0 \in located
  <2> DEFINE none == [n \in 1 .. 0 |-> 0]
  <2>1. f[0] = << >>
    BY <1>1 DEF Joins
  <2>2. Locates(none, none, << >>, ss, 0)
    BY DEF Locates
  <2> HIDE DEF none
  <2>3. QED
    BY <2>1, <2>2
<1>4. ASSUME NEW k \in Nat, k \in located, k + 1 <= Len(ss)
      PROVE  Located(k + 1)
  <2>1. k \in 0 .. Len(ss) - 1 /\ k \in 0 .. Len(ss) /\ k + 1 \in 1 .. Len(ss) /\ (k + 1) - 1 = k
    BY <1>2, <1>4
  <2>2. f[k] \in Seq(A)
    BY <1>1, <2>1 DEF Joins
  <2>3. f[k + 1] = f[k] \o ss[k + 1]
    <3>1. f[k + 1] = f[(k + 1) - 1] \o ss[k + 1]
      BY <1>1, <2>1 DEF Joins
    <3>2. QED
      BY <2>1, <3>1
  <2>4. PICK p, q : Locates(p, q, f[k], ss, k)
    <3> HIDE DEF Located
    <3>1. Located(k)
      BY <1>2, <1>4
    <3>2. QED
      BY <3>1 DEF Located
  <2>5. \E more, others : Locates(more, others, f[k] \o ss[k + 1], ss, k + 1)
    BY <2>1, <2>2, <2>4, LocatesGrow
  <2>6. QED
    BY <2>3, <2>5
<1> HIDE DEF Located
<1>5. ASSUME NEW k \in Nat, k \in located PROVE k + 1 \in located
  BY <1>4, <1>5
<1> HIDE DEF located
<1>6. Len(ss) \in located
  BY <1>2, <1>3, <1>5, NatInduced
<1>7. Located(Len(ss))
  BY <1>2, <1>6 DEF located
<1>8. f[Len(ss)] \in Seq(A)
  BY <1>1, <1>2 DEF Joins
<1>9. QED
  BY <1>1, <1>7, <1>8 DEF Located

(***************************************************************************)
(* What EntitySets and Metadata return                                     *)
(***************************************************************************)
Listed(d) == IF Named(d.value) # << >> THEN Named(d.value) ELSE InEnvelope(d)

\* The names that are not empty stand at the places of the definition.
LEMMA NamesEnumerated ==
    ASSUME NEW names \in Seq(AnyName)
    PROVE  /\ Named(names) \in Seq(AnyName)
           /\ LET order == InOrder(NamePlaces(names))
              IN  /\ DOMAIN order = 1 .. Len(Named(names))
                  /\ \A n \in 1 .. Len(Named(names)) : Named(names)[n] = names[order[n][3]]
<1> DEFINE kept == Without(names, {NoName})
           m == Len(kept)
<1>1. kept = Named(names) /\ kept \in Seq(AnyName)
  BY WithoutTyped DEF Named
<1>2. m \in Nat /\ Len(names) \in Nat /\ DOMAIN names = 1 .. Len(names)
  BY <1>1, LenProperties
<1>3. PICK h : Names(h, kept, names, {NoName}, Len(names))
  BY WithoutNames
<1> HIDE DEF kept
<1> DEFINE g == [n \in 1 .. m |-> <<1, 1, h[n]>>]
           P == NamePlaces(names)
<1>4. ASSUME NEW n \in 1 .. m
      PROVE  /\ h[n] \in DOMAIN names /\ h[n] \in Nat
             /\ names[h[n]] # NoName /\ kept[n] = names[h[n]]
  <2> HIDE DEF g, P
  <2>1. h[n] \in 1 .. Len(names)
    BY <1>3 DEF Names
  <2>2. kept[n] = names[h[n]] /\ names[h[n]] \notin {NoName}
    BY <1>3 DEF Names
  <2>3. QED
    BY <1>2, <2>1, <2>2
<1>5. P \in SUBSET Place
  BY <1>2 DEF NamePlaces, Place
<1>6. g \in [1 .. m -> P]
  <2>1. ASSUME NEW n \in 1 .. m PROVE <<1, 1, h[n]>> \in P
    BY <1>4 DEF NamePlaces
  <2>2. QED
    BY <2>1
<1>7. \A n \in 1 .. m : g[n] = <<1, 1, h[n]>>
  OBVIOUS
<1> HIDE DEF g
<1>8. ASSUME NEW x \in P PROVE \E n \in 1 .. m : g[n] = x
  <2>1. PICK k \in 1 .. Len(names) : x = <<1, 1, k>> /\ names[k] \notin {NoName}
    BY <1>2 DEF NamePlaces
  <2>2. PICK n \in 1 .. m : h[n] = k
    BY <1>3, <2>1 DEF Names
  <2>3. QED
    BY <1>7, <2>1, <2>2
<1>9. ASSUME NEW i \in 1 .. m, NEW j \in 1 .. m, i < j PROVE Earlier(g[i], g[j])
  <2>1. h[i] < h[j]
    BY <1>3, <1>9 DEF Names
  <2>2. /\ g[i][1] = 1 /\ g[i][2] = 1 /\ g[i][3] = h[i]
        /\ g[j][1] = 1 /\ g[j][2] = 1 /\ g[j][3] = h[j]
    BY <1>7
  <2>3. QED
    BY <2>1, <2>2 DEF Earlier
<1>10. Enumerates(g, m, P)
  BY <1>2, <1>6, <1>8, <1>9 DEF Enumerates
<1>11. InOrder(P) = g
  BY <1>5, <1>10, OrderNamed
<1>12. \A n \in 1 .. m : g[n][3] = h[n]
  BY <1>7
<1>13. DOMAIN g = 1 .. m /\ \A n \in 1 .. m : kept[n] = names[g[n][3]]
  BY <1>4, <1>6, <1>12
<1> HIDE DEF m, P
<1>14. QED
  BY <1>1, <1>11, <1>13 DEF P, m

\* The names listed are those the definition reads off the document.
LEMMA ListsAdvertised ==
    ASSUME NEW d \in ServiceDoc
    PROVE  Listed(d) = Advertised(d) /\ Advertised(d) \in Seq(AnyName)
<1> DEFINE named == Named(d.value)
           order == InOrder(NamePlaces(d.value))
           read == [n \in DOMAIN order |-> d.value[order[n][3]]]
<1>1. d.value \in Seq(AnyName) /\ d.sets \in Seq(AnyName)
  BY DEF ServiceDoc
<1>2. /\ named \in Seq(AnyName) /\ DOMAIN order = 1 .. Len(named)
      /\ \A n \in 1 .. Len(named) : named[n] = d.value[order[n][3]]
  BY <1>1, NamesEnumerated
<1>3. Advertised(d) = IF order # << >> THEN read
                      ELSE IF d.d = "object" THEN d.sets ELSE << >>
  BY DEF Advertised
<1>4. Listed(d) = IF named # << >> THEN named
                  ELSE IF d.d = "object" THEN d.sets ELSE << >>
  BY DEF Listed, InEnvelope
<1> HIDE DEF named
<1>5. read = named
  <2>1. DOMAIN read = DOMAIN named /\ named = [n \in DOMAIN named |-> named[n]]
    BY <1>2, LenProperties
  <2>2. \A n \in DOMAIN named : read[n] = named[n]
    BY <1>2, LenProperties
  <2>3. read = [n \in DOMAIN read |-> read[n]]
    OBVIOUS
  <2> HIDE DEF read
  <2>4. QED
    BY <2>1, <2>2, <2>3
<1> HIDE DEF read
<1>6. order = << >> <=> named = << >>
  <2>1. named = << >> <=> Len(named) = 0
    BY <1>2, EmptySeq
  <2>2. DOMAIN order = {} <=> order = << >>
    BY DEF InOrder
  <2>3. Len(named) \in Nat
    BY <1>2, LenProperties
  <2> HIDE DEF order
  <2>4. QED
    BY <1>2, <2>1, <2>2, <2>3
<1> HIDE DEF order
<1>7. Listed(d) = Advertised(d)
  BY <1>3, <1>4, <1>5, <1>6
<1>8. << >> \in Seq(AnyName)
  OBVIOUS
<1>9. Listed(d) \in Seq(AnyName)
  BY <1>1, <1>2, <1>4, <1>8
<1>10. QED
  BY <1>7, <1>9

\* A row for each property of a type.
LEMMA RowsTyped ==
    ASSUME NEW type \in EntityType
    PROVE  /\ type.properties \in Seq([name : AnyName, type : AnyName])
           /\ Len(type.properties) \in Nat
           /\ Rows(type) \in Seq(Item) /\ Len(Rows(type)) = Len(type.properties)
           /\ \A k \in 1 .. Len(type.properties) :
                  Rows(type)[k] = [entityType |-> type.name,
                                   property   |-> type.properties[k].name,
                                   type       |-> type.properties[k].type]
<1> DEFINE properties == type.properties
           Property == [name : AnyName, type : AnyName]
<1>1. properties \in Seq(Property) /\ type.name \in AnyName
  BY DEF EntityType
<1> HIDE DEF properties
<1>2. Len(properties) \in Nat /\ \A k \in 1 .. Len(properties) : properties[k] \in Property
  <2> HIDE DEF Property
  <2>1. QED
    BY <1>1, LenProperties, ElementOfSeq
<1>3. ASSUME NEW k \in 1 .. Len(properties)
      PROVE  PropertyRow(type, properties[k]) \in Item
  <2>1. properties[k].name \in AnyName /\ properties[k].type \in AnyName
    BY <1>2
  <2>2. QED
    BY <1>1, <2>1 DEF PropertyRow, Item
<1>4. Rows(type) = [k \in 1 .. Len(properties) |-> PropertyRow(type, properties[k])]
  BY DEF Rows, properties
<1>5. Rows(type) \in [1 .. Len(properties) -> Item]
  BY <1>3, <1>4
<1>6. Rows(type) \in Seq(Item) /\ Len(Rows(type)) = Len(properties)
  <2> DEFINE rows == Rows(type)
  <2> HIDE DEF rows
  <2>1. rows \in [1 .. Len(properties) -> Item]
    BY <1>5 DEF rows
  <2>2. rows \in Seq(Item) /\ Len(rows) = Len(properties)
    BY <1>2, <2>1, SeqDef, LenProperties
  <2>3. QED
    BY <2>2 DEF rows
<1>7. \A k \in 1 .. Len(properties) : Rows(type)[k] = PropertyRow(type, properties[k])
  BY <1>4
<1>8. QED
  BY <1>1, <1>2, <1>6, <1>7 DEF properties, PropertyRow

\* The places of properties, one by one.
LEMMA PlacesTyped ==
    ASSUME NEW schemas \in Seq(Seq(EntityType))
    PROVE  /\ \A i \in 1 .. Len(schemas) : schemas[i] \in Seq(EntityType)
           /\ PropertyPlaces(schemas) \in SUBSET Place
           /\ \A i, j, k : <<i, j, k>> \in PropertyPlaces(schemas) <=>
                  /\ i \in 1 .. Len(schemas)
                  /\ j \in 1 .. Len(schemas[i])
                  /\ k \in 1 .. Len(schemas[i][j].properties)
           /\ \A x \in PropertyPlaces(schemas) : \E i, j, k : x = <<i, j, k>>
<1> DEFINE V == Seq(EntityType)
<1>1. DOMAIN schemas = 1 .. Len(schemas) /\ \A i \in 1 .. Len(schemas) : schemas[i] \in V
  <2> HIDE DEF V
  <2>1. schemas \in Seq(V)
    BY DEF V
  <2>2. QED
    BY <2>1, LenProperties, ElementOfSeq
<1>2. ASSUME NEW i \in 1 .. Len(schemas)
      PROVE  /\ DOMAIN schemas[i] = 1 .. Len(schemas[i])
             /\ \A j \in 1 .. Len(schemas[i]) : schemas[i][j] \in EntityType
  <2>1. schemas[i] \in Seq(EntityType)
    BY <1>1
  <2>2. QED
    BY <2>1, LenProperties, ElementOfSeq
<1>3. ASSUME NEW i \in 1 .. Len(schemas), NEW j \in 1 .. Len(schemas[i])
      PROVE  DOMAIN schemas[i][j].properties = 1 .. Len(schemas[i][j].properties)
  <2>1. schemas[i][j].properties \in Seq([name : AnyName, type : AnyName])
    BY <1>2, RowsTyped
  <2>2. QED
    BY <2>1, LenProperties
<1>4. \A i, j, k : <<i, j, k>> \in PropertyPlaces(schemas) <=>
          /\ i \in 1 .. Len(schemas)
          /\ j \in 1 .. Len(schemas[i])
          /\ k \in 1 .. Len(schemas[i][j].properties)
  BY <1>1, <1>2, <1>3 DEF PropertyPlaces
<1>5. \A x \in PropertyPlaces(schemas) : \E i, j, k : x = <<i, j, k>>
  BY DEF PropertyPlaces
<1>6. ASSUME NEW x \in PropertyPlaces(schemas) PROVE x \in Place
  <2>1. PICK i, j, k : x = <<i, j, k>>
    BY <1>5
  <2>2. i \in Nat /\ j \in Nat /\ k \in Nat
    BY <1>4, <2>1
  <2>3. QED
    BY <2>1, <2>2 DEF Place
<1>7. QED
  BY <1>1, <1>4, <1>5, <1>6

\* Rows of the types in one: n stands at property c[n] of type b[n] of schema a[n].
LEMMA RowsLocated ==
    ASSUME NEW schemas \in Seq(Seq(EntityType))
    PROVE  /\ Flat(schemas) \in Seq(Item)
           /\ \E h : /\ Enumerates(h, Len(Flat(schemas)), PropertyPlaces(schemas))
                     /\ \A n \in 1 .. Len(Flat(schemas)) :
                            Flat(schemas)[n] =
                                LET type == schemas[h[n][1]][h[n][2]]
                                    declared == type.properties[h[n][3]]
                                IN  [entityType |-> type.name, property |-> declared.name,
                                     type |-> declared.type]
<1> DEFINE types == SeqExt!FlattenSeq(schemas)
           byType == [t \in DOMAIN types |-> Rows(types[t])]
           rows == SeqExt!FlattenSeq(byType)
           m == Len(rows)
           P == PropertyPlaces(schemas)
           RowAt(i, j, k) == [entityType |-> schemas[i][j].name,
                              property   |-> schemas[i][j].properties[k].name,
                              type       |-> schemas[i][j].properties[k].type]
<1>1. types \in Seq(EntityType) /\ \E p, q : Locates(p, q, types, schemas, Len(schemas))
  BY FlattenLocates
<1>2. PICK a, b : Locates(a, b, types, schemas, Len(schemas))
  BY <1>1
<1>3. rows = Flat(schemas)
  BY DEF Flat
<1> HIDE DEF types
<1>4. /\ DOMAIN types = 1 .. Len(types) /\ Len(types) \in Nat
      /\ \A t \in 1 .. Len(types) : types[t] \in EntityType
  BY <1>1, LenProperties, ElementOfSeq
<1>5. byType \in Seq(Seq(Item)) /\ Len(byType) = Len(types)
  <2> DEFINE V == Seq(Item)
  <2>1. \A t \in 1 .. Len(types) : Rows(types[t]) \in V
    BY <1>4, RowsTyped
  <2> HIDE DEF V
  <2>2. byType \in [1 .. Len(types) -> V]
    BY <1>4, <2>1
  <2> HIDE DEF byType
  <2>3. byType \in Seq(V) /\ Len(byType) = Len(types)
    BY <1>4, <2>2, SeqDef, LenProperties
  <2>4. QED
    BY <2>3 DEF V
<1>6. \A t \in 1 .. Len(types) : byType[t] = Rows(types[t])
  BY <1>4
<1> HIDE DEF byType
<1>7. rows \in Seq(Item) /\ \E p, q : Locates(p, q, rows, byType, Len(byType))
  BY <1>5, FlattenLocates
<1>8. PICK d, c : Locates(d, c, rows, byType, Len(byType))
  BY <1>7
<1> HIDE DEF rows
<1>9. m \in Nat
  BY <1>7, LenProperties
<1>10. ASSUME NEW n \in 1 .. m
       PROVE  /\ d[n] \in 1 .. Len(types)
              /\ c[n] \in 1 .. Len(types[d[n]].properties)
              /\ a[d[n]] \in 1 .. Len(schemas)
              /\ b[d[n]] \in 1 .. Len(schemas[a[d[n]]])
              /\ types[d[n]] = schemas[a[d[n]]][b[d[n]]]
              /\ rows[n] = RowAt(a[d[n]], b[d[n]], c[n])
  <2>1. d[n] \in 1 .. Len(types) /\ c[n] \in 1 .. Len(byType[d[n]])
        /\ rows[n] = byType[d[n]][c[n]]
    BY <1>5, <1>8 DEF Locates
  <2>2. /\ a[d[n]] \in 1 .. Len(schemas)
        /\ b[d[n]] \in 1 .. Len(schemas[a[d[n]]])
        /\ types[d[n]] = schemas[a[d[n]]][b[d[n]]]
    BY <1>2, <2>1 DEF Locates
  <2>3. byType[d[n]] = Rows(types[d[n]]) /\ types[d[n]] \in EntityType
    BY <1>4, <1>6, <2>1
  <2>4. c[n] \in 1 .. Len(types[d[n]].properties)
    BY <2>1, <2>3, RowsTyped
  <2>5. Rows(types[d[n]])[c[n]] =
            [entityType |-> types[d[n]].name,
             property   |-> types[d[n]].properties[c[n]].name,
             type       |-> types[d[n]].properties[c[n]].type]
    BY <2>3, <2>4, RowsTyped
  <2>6. rows[n] = RowAt(a[d[n]], b[d[n]], c[n])
    BY <2>1, <2>2, <2>3, <2>5
  <2>7. QED
    BY <2>1, <2>2, <2>4, <2>6
<1> DEFINE h == [n \in 1 .. m |-> <<a[d[n]], b[d[n]], c[n]>>]
<1>11. ASSUME NEW n \in 1 .. m
       PROVE  <<a[d[n]], b[d[n]], c[n]>> \in P
  <2>1. /\ a[d[n]] \in 1 .. Len(schemas) /\ b[d[n]] \in 1 .. Len(schemas[a[d[n]]])
        /\ c[n] \in 1 .. Len(schemas[a[d[n]]][b[d[n]]].properties)
    BY <1>10
  <2>2. QED
    BY <2>1, PlacesTyped
<1> HIDE DEF m, P, RowAt
<1>12. h \in [1 .. m -> P]
  BY <1>11
<1>13. \A n \in 1 .. m : h[n][1] = a[d[n]] /\ h[n][2] = b[d[n]] /\ h[n][3] = c[n]
                         /\ h[n] = <<a[d[n]], b[d[n]], c[n]>>
  OBVIOUS
<1> HIDE DEF h
<1>14. ASSUME NEW x \in P PROVE \E n \in 1 .. m : h[n] = x
  <2>1. PICK i, j, k : x = <<i, j, k>>
    BY PlacesTyped DEF P
  <2>2. /\ i \in 1 .. Len(schemas) /\ j \in 1 .. Len(schemas[i])
        /\ k \in 1 .. Len(schemas[i][j].properties)
    BY <2>1, PlacesTyped DEF P
  <2>3. PICK t \in 1 .. Len(types) : a[t] = i /\ b[t] = j
    BY <1>2, <2>2 DEF Locates
  <2>4. types[t] = schemas[i][j] /\ byType[t] = Rows(types[t]) /\ types[t] \in EntityType
    BY <1>2, <1>4, <1>6, <2>3 DEF Locates
  <2>5. k \in 1 .. Len(byType[t])
    BY <2>2, <2>4, RowsTyped
  <2>6. PICK n \in 1 .. m : d[n] = t /\ c[n] = k
    BY <1>5, <1>8, <2>3, <2>5 DEF Locates, m
  <2>7. QED
    BY <1>13, <2>1, <2>3, <2>6
<1>15. ASSUME NEW n \in 1 .. m, NEW o \in 1 .. m, n < o PROVE Earlier(h[n], h[o])
  <2>1. d[n] < d[o] \/ (d[n] = d[o] /\ c[n] < c[o])
    BY <1>8, <1>15 DEF Locates, m
  <2>2. d[n] \in 1 .. Len(types) /\ d[o] \in 1 .. Len(types)
    BY <1>10
  <2>3. CASE d[n] = d[o] /\ c[n] < c[o]
    BY <1>13, <2>3 DEF Earlier
  <2>4. CASE d[n] < d[o]
    <3>1. \/ a[d[n]] < a[d[o]]
          \/ a[d[n]] = a[d[o]] /\ b[d[n]] < b[d[o]]
      BY <1>2, <2>2, <2>4 DEF Locates
    <3>2. QED
      BY <1>13, <3>1 DEF Earlier
  <2>5. QED
    BY <2>1, <2>3, <2>4
<1>16. Enumerates(h, m, P)
  BY <1>9, <1>12, <1>14, <1>15 DEF Enumerates
<1>17. \A n \in 1 .. m : rows[n] = RowAt(h[n][1], h[n][2], h[n][3])
  BY <1>10, <1>13
<1>18. QED
  BY <1>3, <1>7, <1>16, <1>17 DEF m, P, RowAt

\* The rows of the loops of Metadata are those the definition reads off the document.
LEMMA FlatDeclared ==
    ASSUME NEW schemas \in Seq(Seq(EntityType))
    PROVE  Flat(schemas) = Declared(schemas) /\ Declared(schemas) \in Seq(Item)
<1> DEFINE rows == Flat(schemas)
           m == Len(rows)
           RowAt(x) == LET type == schemas[x[1]][x[2]]
                           declared == type.properties[x[3]]
                       IN  [entityType |-> type.name, property |-> declared.name,
                            type |-> declared.type]
<1>1. PICK h : /\ Enumerates(h, m, PropertyPlaces(schemas))
               /\ \A n \in 1 .. m : rows[n] = RowAt(h[n])
  BY RowsLocated
<1>2. rows \in Seq(Item) /\ DOMAIN rows = 1 .. m /\ rows = [n \in DOMAIN rows |-> rows[n]]
  BY RowsLocated, LenProperties
<1>3. InOrder(PropertyPlaces(schemas)) = h
  BY <1>1, PlacesTyped, OrderNamed
<1>4. DOMAIN h = 1 .. m
  BY <1>1 DEF Enumerates
<1>5. Declared(schemas) = [n \in DOMAIN h |-> RowAt(h[n])]
  BY <1>3 DEF Declared
<1> HIDE DEF rows, m, RowAt
<1>6. rows = Declared(schemas)
  BY <1>1, <1>2, <1>4, <1>5
<1>7. QED
  BY <1>2, <1>6 DEF rows

(***************************************************************************)
(* The composition.  The inductive invariant: what was fetched is right,   *)
(* that of the cursor, and what joins them: the rows being scanned are the *)
(* answer.                                                                 *)
(***************************************************************************)
Scanned == INSTANCE ScanProofs WITH Results <- {}

DocumentRows ==
    IF doc \in ServiceDoc THEN Advertised(doc)
    ELSE Declared(IF doc.schemas = << >> THEN doc.bare ELSE doc.schemas)

FetchedRight ==
    /\ doc \in Documents
    /\ pc \in {"get", "done", "failed"}
    /\ pc = "done" => result = DocumentRows

Joined ==
    /\ urlNull \in BOOLEAN
    /\ pc # "get" => ~urlNull
    /\ phase \in {"open", "finished"} => fetched = Answer

DInv == FetchedRight /\ Scanned!IInv /\ Joined

\* The scan of the composition is the scan that ScanProofs is about.
LEMMA SameScan ==
    /\ Cursor!Init <=> Scanned!Init
    /\ \A rows : Cursor!Open(rows) <=> Scanned!Open(rows)
    /\ Cursor!OpenFails <=> Scanned!OpenFails
    /\ Cursor!Resume <=> Scanned!Resume
    /\ Cursor!Emit <=> Scanned!Emit
    /\ Cursor!Finish <=> Scanned!Finish
    /\ Cursor!Deliver <=> Scanned!Deliver
    /\ Cursor!LoseExchange <=> Scanned!LoseExchange
    /\ Cursor!Broken <=> Scanned!Broken
    /\ Cursor!State = Scanned!State
    /\ Cursor!Reply = Scanned!Reply
<1> USE DEF Cursor!Encode, Scanned!Encode, Cursor!Exported, Scanned!Exported,
            Cursor!Decode, Scanned!Decode, Cursor!Consumed, Scanned!Consumed,
            Cursor!End, Scanned!End, Cursor!Slice, Scanned!Slice,
            Cursor!Advanced, Scanned!Advanced
<1>1. Cursor!State = Scanned!State /\ Cursor!Reply = Scanned!Reply
  BY DEF Cursor!State, Scanned!State, Cursor!Reply, Scanned!Reply
<1>2. Cursor!Init <=> Scanned!Init
  BY DEF Cursor!Init, Scanned!Init
<1>3. \A rows : Cursor!Open(rows) <=> Scanned!Open(rows)
  BY DEF Cursor!Open, Scanned!Open
<1>4. Cursor!OpenFails <=> Scanned!OpenFails
  BY DEF Cursor!OpenFails, Scanned!OpenFails
<1>5. Cursor!Resume <=> Scanned!Resume
  BY DEF Cursor!Resume, Scanned!Resume
<1>6. Cursor!Emit <=> Scanned!Emit
  BY DEF Cursor!Emit, Scanned!Emit
<1>7. Cursor!Finish <=> Scanned!Finish
  BY DEF Cursor!Finish, Scanned!Finish
<1>8. Cursor!Deliver <=> Scanned!Deliver
  BY DEF Cursor!Deliver, Scanned!Deliver
<1>9. Cursor!LoseExchange <=> Scanned!LoseExchange
  BY DEF Cursor!LoseExchange, Scanned!LoseExchange
<1>10. Cursor!Broken <=> Scanned!Broken
  BY DEF Cursor!Broken, Scanned!Broken
<1>11. QED
  BY <1>1, <1>2, <1>3, <1>4, <1>5, <1>6, <1>7, <1>8, <1>9, <1>10

\* What ScanProofs assumes of its constants holds of those it has here.
LEMMA ScanAssumed ==
    /\ {} \subseteq Seq(Item)
    /\ rowsPerTick \in Nat \ {0}
    /\ MaxLosses \in Nat
    /\ None \notin Scanned!State \cup Scanned!Reply
  BY SameScan, CursorAssumption

\* A document is one of the two kinds.
LEMMA OneKind ==
    ASSUME NEW d \in Documents
    PROVE  /\ d \in ServiceDoc \/ d \in Edmx
           /\ ~(d \in ServiceDoc /\ d \in Edmx)
<1>1. d \in ServiceDoc \/ d \in Edmx
  BY DocumentsAssumption
<1>2. d \in ServiceDoc => DOMAIN d = {"json", "value", "d", "sets"}
  BY DEF ServiceDoc
<1>3. d \in Edmx => DOMAIN d = {"xml", "schemas", "bare"}
  BY DEF Edmx
<1>4. QED
  BY <1>1, <1>2, <1>3

\* The schemas that Metadata takes the rows of.
LEMMA SchemasTyped ==
    ASSUME NEW d \in Edmx
    PROVE  /\ d.schemas \in Seq(Seq(EntityType)) /\ d.bare \in Seq(Seq(EntityType))
           /\ (IF d.schemas # << >> THEN d.schemas ELSE d.bare)
                  = (IF d.schemas = << >> THEN d.bare ELSE d.schemas)
  BY DEF Edmx

\* What the definition reads off a document is a sequence of rows.
LEMMA DocumentRowsTyped ==
    ASSUME doc \in Documents
    PROVE  DocumentRows \in Seq(Item)
<1>1. CASE doc \in ServiceDoc
  <2>1. DocumentRows \in Seq(AnyName)
    BY <1>1, ListsAdvertised DEF DocumentRows
  <2>2. AnyName \subseteq Item
    BY DEF Item
  <2>3. QED
    BY <2>1, <2>2, ElementOfSeq, LenProperties, SeqDef
<1>2. CASE doc \in Edmx
  <2> DEFINE schemas == IF doc.schemas = << >> THEN doc.bare ELSE doc.schemas
  <2>1. schemas \in Seq(Seq(EntityType))
    BY <1>2, SchemasTyped
  <2>2. DocumentRows = Declared(schemas)
    BY <1>2, OneKind DEF DocumentRows
  <2> HIDE DEF schemas
  <2>3. QED
    BY <2>1, <2>2, FlatDeclared
<1>3. QED
  BY <1>1, <1>2, OneKind

\* A fetch that succeeds returns what the definition reads off the document.
LEMMA FetchesRight ==
    ASSUME FetchedRight, Fetch
    PROVE  FetchedRight' /\ UNCHANGED doc
<1>1. UNCHANGED doc /\ DocumentRows' = DocumentRows
  BY DEF Fetch, GetFails, EntitySets, Metadata, DocumentRows
<1>2. CASE GetFails
  BY <1>1, <1>2 DEF GetFails, Fail, FetchedRight
<1>3. CASE EntitySets
  <2>1. doc \in ServiceDoc /\ (pc' = "failed" \/ (pc' = "done" /\ result' = Listed(doc)))
    BY <1>3 DEF EntitySets, Fail, Return, Listed
  <2>2. Listed(doc) = DocumentRows
    BY <2>1, ListsAdvertised DEF DocumentRows
  <2>3. QED
    BY <1>1, <2>1, <2>2 DEF FetchedRight
<1>4. CASE Metadata
  <2> DEFINE schemas == IF doc.schemas = << >> THEN doc.bare ELSE doc.schemas
  <2>1. /\ doc \in Edmx
        /\ \/ pc' = "failed"
           \/ /\ pc' = "done"
              /\ result' = Flat(IF doc.schemas # << >> THEN doc.schemas ELSE doc.bare)
    BY <1>4 DEF Metadata, Fail, Return
  <2>2. /\ schemas \in Seq(Seq(EntityType))
        /\ schemas = IF doc.schemas # << >> THEN doc.schemas ELSE doc.bare
    BY <2>1, SchemasTyped
  <2>3. DocumentRows = Declared(schemas)
    BY <2>1, OneKind DEF DocumentRows, FetchedRight
  <2> HIDE DEF schemas
  <2>4. pc' = "failed" \/ (pc' = "done" /\ result' = Flat(schemas))
    BY <2>1, <2>2
  <2>5. Flat(schemas) = Declared(schemas)
    BY <2>2, FlatDeclared
  <2>6. QED
    BY <1>1, <2>3, <2>4, <2>5 DEF FetchedRight
<1>5. QED
  BY <1>1, <1>2, <1>3, <1>4 DEF Fetch

\* The right answer: nothing without a service_url, else what the document holds.
LEMMA AnswerRight ==
    ASSUME FetchedRight, Joined
    PROVE  /\ Answer \in Seq(Item)
           /\ urlNull => Answer = << >>
           /\ ~urlNull => Answer = DocumentRows
<1>1. urlNull => Answer = << >>
  BY DEF Answer
<1>2. ~urlNull => Answer = DocumentRows
  BY DEF Answer, DocumentRows
<1>3. DocumentRows \in Seq(Item)
  BY DocumentRowsTyped DEF FetchedRight
<1>4. << >> \in Seq(Item)
  OBVIOUS
<1>5. QED
  BY <1>1, <1>2, <1>3, <1>4

(***************************************************************************)
(* The inductive invariant                                                 *)
(***************************************************************************)
\* A scan that is asked for has fetched nothing.
LEMMA FInitDInv == FInit => DInv
<1> SUFFICES ASSUME FInit PROVE DInv
  OBVIOUS
<1>1. FetchedRight
  BY DEF FInit, Init, FetchedRight
<1>2. Scanned!IInv
  BY ScanAssumed, SameScan, Scanned!InitIInv DEF FInit
<1>3. Joined
  BY DEF FInit, Init, Cursor!Init, Joined
<1>4. QED
  BY <1>1, <1>2, <1>3 DEF DInv

\* NewState returns the answer or fails.
LEMMA OpensAnswer ==
    ASSUME DInv, BindFails \/ NullState \/ NewState
    PROVE  /\ UNCHANGED <<urlNull, discoveryVars>> /\ phase = "idle"
           /\ Scanned!Open(Answer) \/ Scanned!OpenFails
<1>1. UNCHANGED <<urlNull, discoveryVars>>
  BY DEF BindFails, NullState, NewState
<1>2. Scanned!Open(Answer) \/ Scanned!OpenFails
  <2>1. CASE BindFails
    BY <2>1, SameScan DEF BindFails
  <2>2. CASE NullState
    <3>1. Answer = << >>
      BY <2>2, AnswerRight DEF NullState, DInv
    <3>2. QED
      BY <2>2, <3>1, SameScan DEF NullState
  <2>3. CASE NewState
    <3>1. pc = "done" => result = Answer
      BY AnswerRight DEF DInv, Joined, FetchedRight
    <3>2. QED
      BY <2>3, <3>1, SameScan DEF NewState, NewStateFails
  <2>4. QED
    BY <2>1, <2>2, <2>3
<1>3. phase = "idle"
  BY <1>2 DEF Scanned!Open, Scanned!OpenFails
<1>4. QED
  BY <1>1, <1>2, <1>3

\* After it the fetch is over and the cursor moves.
LEMMA CursorMoves ==
    ASSUME ScanStep \/ Disturbance
    PROVE  /\ UNCHANGED <<urlNull, discoveryVars>>
           /\ \/ Scanned!Resume \/ Scanned!Emit \/ Scanned!Finish \/ Scanned!Deliver
              \/ Scanned!LoseExchange \/ Scanned!Broken
  BY SameScan DEF ScanStep, Disturbance

\* The answer changes with nothing but the argument and the document.
LEMMA SameAnswer ==
    ASSUME UNCHANGED <<urlNull, doc>>
    PROVE  Answer' = Answer /\ DocumentRows' = DocumentRows
  BY DEF Answer, DocumentRows

\* While the fetch stands still, what joins it to the cursor lasts if the rows fetched
\* do, or are the answer.
LEMMA JoinLasts ==
    ASSUME FetchedRight, Joined, UNCHANGED <<urlNull, discoveryVars>>,
           \/ fetched' = fetched /\ phase' = phase
           \/ fetched' = fetched /\ phase = "open"
           \/ fetched' = Answer
           \/ phase' = "failed"
    PROVE  FetchedRight' /\ Joined'
<1>1. Answer' = Answer /\ DocumentRows' = DocumentRows
  BY SameAnswer DEF discoveryVars
<1>2. FetchedRight'
  BY <1>1 DEF FetchedRight, discoveryVars
<1>3. Joined'
  BY <1>1 DEF Joined, discoveryVars
<1>4. QED
  BY <1>2, <1>3

\* Every step keeps the invariant.
LEMMA DInvStep == DInv /\ [Next]_vars => DInv'
<1> SUFFICES ASSUME DInv, [Next]_vars PROVE DInv'
  OBVIOUS
<1>1. Scanned!Next \/ UNCHANGED Scanned!vars => Scanned!IInv'
  BY ScanAssumed, Scanned!IInvStep DEF DInv
<1>2. CASE BindFails \/ NullState \/ NewState
  <2>1. /\ UNCHANGED <<urlNull, discoveryVars>> /\ phase = "idle"
        /\ Scanned!Open(Answer) \/ Scanned!OpenFails
    BY <1>2, OpensAnswer
  <2>2. Answer \in Seq(Item)
    BY AnswerRight DEF DInv
  <2>3. Scanned!IInv'
    <3>1. CASE Scanned!Open(Answer)
      BY <2>2, <3>1, ScanAssumed, Scanned!OpenKeepsIInv DEF DInv
    <3>2. CASE Scanned!OpenFails
      BY <1>1, <3>2 DEF Scanned!Next
    <3>3. QED
      BY <2>1, <3>1, <3>2
  <2>4. fetched' = Answer \/ phase' = "failed"
    BY <2>1 DEF Scanned!Open, Scanned!OpenFails
  <2>5. QED
    BY <2>1, <2>3, <2>4, JoinLasts DEF DInv
<1>3. CASE FetchRows
  <2>1. phase = "idle" /\ ~urlNull /\ Fetch /\ UNCHANGED <<urlNull, scanVars>>
    BY <1>3 DEF FetchRows
  <2>2. FetchedRight' /\ UNCHANGED doc
    BY <2>1, FetchesRight DEF DInv
  <2>3. Scanned!IInv'
    BY <1>1, <2>1 DEF scanVars, Scanned!vars
  <2>4. Joined'
    BY <2>1 DEF DInv, Joined, scanVars
  <2>5. QED
    BY <2>2, <2>3, <2>4 DEF DInv
<1>4. CASE ScanStep \/ Disturbance
  <2>1. /\ UNCHANGED <<urlNull, discoveryVars>>
        /\ \/ Scanned!Resume \/ Scanned!Emit \/ Scanned!Finish \/ Scanned!Deliver
           \/ Scanned!LoseExchange \/ Scanned!Broken
    BY <1>4, CursorMoves
  <2>2. Scanned!IInv'
    BY <1>1, <2>1 DEF Scanned!Next
  <2>3. \/ fetched' = fetched /\ phase' = phase
        \/ fetched' = fetched /\ phase = "open"
        \/ phase' = "failed"
    <3>1. CASE Scanned!Resume \/ Scanned!Emit \/ Scanned!Finish \/ Scanned!Deliver
      BY <3>1, ScanAssumed, Scanned!WhatATickShows DEF DInv
    <3>2. CASE Scanned!LoseExchange \/ Scanned!Broken
      BY <3>2 DEF Scanned!LoseExchange, Scanned!Broken
    <3>3. QED
      BY <2>1, <3>1, <3>2
  <2>4. QED
    BY <2>1, <2>2, <2>3, JoinLasts DEF DInv
<1>5. CASE UNCHANGED vars
  <2>1. UNCHANGED <<urlNull, discoveryVars>> /\ UNCHANGED scanVars
    BY <1>5 DEF vars
  <2>2. Scanned!IInv'
    BY <1>1, <2>1 DEF scanVars, Scanned!vars
  <2>3. QED
    BY <2>1, <2>2, JoinLasts DEF DInv, scanVars
<1>6. QED
  BY <1>2, <1>3, <1>4, <1>5 DEF Next, Terminated

\* DInv holds in every state of a scan.
LEMMA DInvHolds == Spec => []DInv
<1>1. QED
  BY FInitDInv, DInvStep, PTL DEF Spec

\* The names of a service document that were returned are the ones under "value",
\* or those of d.EntitySets where there are none, in their order (client.go,
\* EntitySets).
THEOREM NamesAreListed == Spec => []NamesListed
<1>1. DInv => NamesListed
  BY DEF DInv, FetchedRight, NamesListed, DocumentRows
<1>2. QED
  BY <1>1, DInvHolds, PTL

\* The rows of a $metadata document that were returned are its properties, each once,
\* schema by schema and type by type (client.go, the loops of Metadata).
THEOREM RowsInDocumentOrder == Spec => []DocumentOrder
<1>1. DInv => DocumentOrder
  BY OneKind DEF DInv, FetchedRight, DocumentOrder, DocumentRows
<1>2. QED
  BY <1>1, DInvHolds, PTL

(***************************************************************************)
(* The refinement                                                          *)
(***************************************************************************)
\* At first the promise is that of the document the service has.
LEMMA PromisedAtFirst == FInit => Promise!Init
<1> SUFFICES ASSUME FInit PROVE Promise!Init
  OBVIOUS
<1>1. phase = "idle" /\ got = << >>
  BY DEF FInit, Cursor!Init
<1>2. Answer \in Seq(Item)
  BY FInitDInv, AnswerRight DEF DInv
<1>3. QED
  BY <1>1, <1>2 DEF Promise!Init

\* Every step is one of the promise: what NewState returns is the answer, a tick or
\* an HTTP response gives the next rows of it or ends the scan when all are given,
\* a failure fails, and the rest the client does not see.
LEMMA PromisedStep == DInv /\ [Next]_vars => [Promise!Next]_(Promise!vars)
<1> SUFFICES ASSUME DInv, [Next]_vars PROVE [Promise!Next]_(Promise!vars)
  OBVIOUS
<1>1. ASSUME UNCHANGED <<urlNull, discoveryVars, phase, got>>
      PROVE  UNCHANGED Promise!vars
  BY <1>1, SameAnswer DEF Promise!vars, discoveryVars
<1>2. CASE BindFails \/ NullState \/ NewState
  <2>1. /\ UNCHANGED <<urlNull, discoveryVars>> /\ phase = "idle"
        /\ Scanned!Open(Answer) \/ Scanned!OpenFails
    BY <1>2, OpensAnswer
  <2>2. Answer' = Answer
    BY <2>1, SameAnswer DEF discoveryVars
  <2>3. CASE Scanned!Open(Answer)
    BY <2>1, <2>2, <2>3 DEF Scanned!Open, Promise!Next, Promise!Fetched
  <2>4. CASE Scanned!OpenFails
    BY <2>1, <2>2, <2>4 DEF Scanned!OpenFails, Promise!Next, Promise!Fail
  <2>5. QED
    BY <2>1, <2>3, <2>4
<1>3. CASE FetchRows
  <2>1. doc' = doc /\ UNCHANGED <<urlNull, scanVars>>
    BY <1>3, FetchesRight DEF FetchRows, DInv
  <2>2. QED
    BY <2>1, SameAnswer DEF scanVars, Promise!vars
<1>4. CASE ScanStep \/ Disturbance
  <2>1. /\ UNCHANGED <<urlNull, discoveryVars>>
        /\ \/ Scanned!Resume \/ Scanned!Emit \/ Scanned!Finish \/ Scanned!Deliver
           \/ Scanned!LoseExchange \/ Scanned!Broken
    BY <1>4, CursorMoves
  <2>2. Answer' = Answer
    BY <2>1, SameAnswer DEF discoveryVars
  <2>3. CASE Scanned!Resume \/ Scanned!Emit \/ Scanned!Finish \/ Scanned!Deliver
    <3>1. /\ fetched' = fetched
          /\ \/ UNCHANGED <<phase, got>>
             \/ /\ phase = "open" /\ phase' = phase
                /\ \E n \in Len(got) + 1 .. Len(fetched) : got' = Scanned!Upto(n)
             \/ phase = "open" /\ phase' = "finished" /\ got = fetched /\ got' = got
      BY <2>3, ScanAssumed, Scanned!WhatATickShows DEF DInv
    <3>2. CASE UNCHANGED <<phase, got>>
      BY <1>1, <2>1, <3>2
    <3>3. CASE /\ phase = "open" /\ phase' = phase
               /\ \E n \in Len(got) + 1 .. Len(fetched) : got' = Scanned!Upto(n)
      <4>1. fetched = Answer
        BY <3>3 DEF DInv, Joined
      <4>2. \E n \in Len(got) + 1 .. Len(Answer) : got' = SubSeq(Answer, 1, n)
        BY <3>3, <4>1 DEF Scanned!Upto
      <4>3. QED
        BY <2>2, <3>3, <4>2 DEF Promise!Next, Promise!Give
    <3>4. CASE phase = "open" /\ phase' = "finished" /\ got = fetched /\ got' = got
      <4>1. got = Answer
        BY <3>4 DEF DInv, Joined
      <4>2. QED
        BY <2>2, <3>4, <4>1 DEF Promise!Next, Promise!Finish
    <3>5. QED
      BY <3>1, <3>2, <3>3, <3>4
  <2>4. CASE Scanned!LoseExchange
    BY <1>1, <2>1, <2>4 DEF Scanned!LoseExchange
  <2>5. CASE Scanned!Broken
    BY <2>2, <2>5 DEF Scanned!Broken, Promise!Next, Promise!Fail
  <2>6. QED
    BY <2>1, <2>3, <2>4, <2>5
<1>5. CASE UNCHANGED vars
  BY <1>1, <1>5 DEF vars, discoveryVars, scanVars
<1>6. QED
  BY <1>2, <1>3, <1>4, <1>5 DEF Next, Terminated

\* A scan of odata_entity_sets or odata_metadata gives its client what the document
\* holds, in its order, each once, and says that it is finished only when all is given,
\* or fails: never a wrong or a short list presented as complete (functions.go,
\* NewState and Process; client.go, EntitySets and Metadata).
THEOREM PromiseIsKept == Spec => KeepsPromise
<1>1. QED
  BY PromisedAtFirst, PromisedStep, DInvHolds, PTL DEF Spec, KeepsPromise, Promise!Spec
=============================================================================
