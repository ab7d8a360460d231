----------------------------- MODULE Induction -----------------------------
(***************************************************************************)
(* Induction over the natural numbers, stated of a set rather than of an   *)
(* operator, so that a proof can cite it with the set of the numbers for   *)
(* which its claim holds.  It follows from the well-foundedness of < alone.*)
(* With it, what recursive functions compute: that they exist, and what    *)
(* Selection's Without keeps.                                              *)
(***************************************************************************)
EXTENDS Selection, SequenceTheorems, WellFoundedInduction, TLAPS

\* Every set of natural numbers that is not empty has a least element.
LEMMA LeastElement ==
    ASSUME NEW S \in SUBSET Nat, S # {}
    PROVE  \E least \in S : \A n \in S : least <= n
<1> DEFINE below == {pair \in Nat \X Nat : pair[1] < pair[2]}
<1>1. IsWellFoundedOn(below, Nat)
  BY NatLessThanWellFounded DEF OpToRel
<1> HIDE DEF below
<1>2. PICK least \in S : \A n \in S : <<n, least>> \notin below
  BY <1>1, WFMin
<1>3. ASSUME NEW n \in S PROVE least <= n
  <2>1. <<n, least>> \notin below
    BY <1>2
  <2>2. n \in Nat /\ least \in Nat
    OBVIOUS
  <2>3. QED
    BY <2>1, <2>2 DEF below
<1>4. QED
  BY <1>3

\* A set that holds 0, and with each number the next, holds all of them.
LEMMA NatInduced ==
    ASSUME NEW S, 0 \in S, \A n \in Nat : n \in S => n + 1 \in S
    PROVE  \A n \in Nat : n \in S
<1> SUFFICES ASSUME NEW gap \in Nat, gap \notin S PROVE FALSE
  OBVIOUS
<1> DEFINE missing == {n \in Nat : n \notin S}
<1>1. PICK least \in missing : \A n \in missing : least <= n
  <2>1. missing \in SUBSET Nat /\ missing # {}
    OBVIOUS
  <2> HIDE DEF missing
  <2>2. QED
    BY <2>1, LeastElement
<1>2. least \in Nat \ {0}
  OBVIOUS
<1>3. least - 1 \in Nat /\ least - 1 \in S
  BY <1>1, <1>2
<1>4. QED
  BY <1>2, <1>3

\* Every bounded set of natural numbers that is not empty has a greatest element.
LEMMA GreatestElement ==
    ASSUME NEW n \in Nat, NEW S \in SUBSET (0 .. n), S # {}
    PROVE  \E greatest \in S : \A m \in S : m <= greatest
<1> DEFINE mirrored == {n - m : m \in S}
<1>1. mirrored \in SUBSET Nat /\ mirrored # {}
  <2>1. \A m \in S : n - m \in Nat
    OBVIOUS
  <2>2. PICK m \in S : TRUE
    OBVIOUS
  <2>3. n - m \in mirrored
    OBVIOUS
  <2>4. QED
    BY <2>1, <2>3
<1> HIDE DEF mirrored
<1>2. PICK least \in mirrored : \A m \in mirrored : least <= m
  BY <1>1, LeastElement
<1>3. PICK greatest \in S : least = n - greatest
  BY DEF mirrored
<1>4. ASSUME NEW m \in S PROVE m <= greatest
  <2>1. n - m \in mirrored
    BY DEF mirrored
  <2>2. n - greatest <= n - m
    BY <1>2, <1>3, <2>1
  <2>3. m \in 0 .. n /\ greatest \in 0 .. n
    OBVIOUS
  <2>4. QED
    BY <2>2, <2>3
<1>5. QED
  BY <1>4

(***************************************************************************)
(* Recursion: what a step function for each turn makes of a start.         *)
(***************************************************************************)
Turns(f, A, start, step, n) ==
    /\ f \in [0 .. n -> A]
    /\ f[0] = start
    /\ \A k \in 0 .. n - 1 : f[k + 1] = step[k + 1][f[k]]

\* A function that is defined by recursion on the turns of a loop exists.
LEMMA Recursion ==
    ASSUME NEW n \in Nat, NEW A, NEW start \in A, NEW step \in [1 .. n -> [A -> A]]
    PROVE  \E f : Turns(f, A, start, step, n)
<1> DEFINE done == {m \in Nat : m <= n => \E f : Turns(f, A, start, step, m)}
<1>1. 0 \in done
  <2> DEFINE f == [k \in 0 .. 0 |-> start]
  <2>1. f \in [0 .. 0 -> A] /\ f[0] = start
    OBVIOUS
  <2> HIDE DEF f
  <2>2. Turns(f, A, start, step, 0)
    BY <2>1 DEF Turns
  <2>3. QED
    BY <2>2
<1>2. ASSUME NEW m \in Nat, m \in done PROVE m + 1 \in done
  <2> SUFFICES ASSUME m + 1 <= n PROVE \E g : Turns(g, A, start, step, m + 1)
    OBVIOUS
  <2>1. PICK f : Turns(f, A, start, step, m)
    BY <1>2
  <2> DEFINE more == step[m + 1][f[m]]
             g == [k \in 0 .. m + 1 |-> IF k = m + 1 THEN more ELSE f[k]]
  <2>2. f[m] \in A /\ m + 1 \in 1 .. n
    BY <2>1 DEF Turns
  <2>3. more \in A /\ more = step[m + 1][f[m]]
    BY <2>2
  <2> HIDE DEF more
  <2>4. \A k \in 0 .. m : f[k] \in A
    BY <2>1 DEF Turns
  <2>5. g \in [0 .. m + 1 -> A]
    BY <2>3, <2>4
  <2>6. g[m + 1] = more /\ \A k \in 0 .. m : g[k] = f[k]
    OBVIOUS
  <2>7. g[0] = start
    BY <2>1, <2>6 DEF Turns
  <2> HIDE DEF g
  <2>8. ASSUME NEW k \in 0 .. (m + 1) - 1 PROVE g[k + 1] = step[k + 1][g[k]]
    <3>1. CASE k = m
      BY <2>3, <2>6, <3>1
    <3>2. CASE k \in 0 .. m - 1
      <4>1. g[k] = f[k] /\ g[k + 1] = f[k + 1]
        BY <2>6, <3>2
      <4>2. QED
        BY <2>1, <3>2, <4>1 DEF Turns
    <3>3. k = m \/ k \in 0 .. m - 1
      OBVIOUS
    <3>4. QED
      BY <3>1, <3>2, <3>3
  <2>9. Turns(g, A, start, step, m + 1)
    BY <2>5, <2>7, <2>8 DEF Turns
  <2>10. QED
    BY <2>9
<1> HIDE DEF done
<1>3. n \in done
  BY <1>1, <1>2, NatInduced
<1>4. QED
  BY <1>3 DEF done

(***************************************************************************)
(* What Without keeps.                                                     *)
(***************************************************************************)
\* f[k] is what is kept of the first k elements of s.
Keeps(f, A, s, dropped) ==
    /\ f \in [0 .. Len(s) -> Seq(A)]
    /\ f[0] = << >>
    /\ \A k \in 1 .. Len(s) :
          f[k] = IF s[k] \in dropped THEN f[k - 1] ELSE Append(f[k - 1], s[k])

\* Without is what its loop keeps of the whole sequence.
LEMMA WithoutDefined ==
    ASSUME NEW A, NEW s \in Seq(A), NEW dropped
    PROVE  \E f : Keeps(f, A, s, dropped) /\ Without(s, dropped) = f[Len(s)]
<1> DEFINE n == Len(s)
           step == [k \in 1 .. n |-> [kept \in Seq(A) |->
                       IF s[k] \in dropped THEN kept ELSE Append(kept, s[k])]]
           Equation(h) ==
               h = [k \in 0 .. Len(s) |->
                       IF k = 0 THEN << >>
                       ELSE IF s[k] \in dropped THEN h[k - 1] ELSE Append(h[k - 1], s[k])]
           all == CHOOSE h : Equation(h)
<1>1. n \in Nat /\ << >> \in Seq(A)
  BY LenProperties
<1>2. step \in [1 .. n -> [Seq(A) -> Seq(A)]]
  <2>1. ASSUME NEW k \in 1 .. n, NEW kept \in Seq(A)
        PROVE  (IF s[k] \in dropped THEN kept ELSE Append(kept, s[k])) \in Seq(A)
    BY ElementOfSeq, AppendProperties
  <2>2. QED
    BY <2>1
<1>3. PICK f : Turns(f, Seq(A), << >>, step, n)
  <2> HIDE DEF n, step
  <2>1. QED
    BY <1>1, <1>2, Recursion
<1>4. ASSUME NEW k \in 1 .. n
      PROVE  f[k] = IF s[k] \in dropped THEN f[k - 1] ELSE Append(f[k - 1], s[k])
  <2>1. k - 1 \in 0 .. n - 1 /\ (k - 1) + 1 = k /\ k - 1 \in 0 .. n
    BY <1>1
  <2>2. f[k - 1] \in Seq(A)
    BY <1>3, <2>1 DEF Turns
  <2>3. f[(k - 1) + 1] = step[(k - 1) + 1][f[k - 1]]
    <3> HIDE DEF step
    <3>1. QED
      BY <1>3, <2>1 DEF Turns
  <2>4. QED
    BY <2>1, <2>2, <2>3
<1>5. Equation(f)
  <2>1. ASSUME NEW k \in 0 .. n
        PROVE  f[k] = IF k = 0 THEN << >>
                      ELSE IF s[k] \in dropped THEN f[k - 1] ELSE Append(f[k - 1], s[k])
    <3>1. CASE k = 0
      BY <1>3, <3>1 DEF Turns
    <3>2. CASE k # 0
      <4>1. k \in 1 .. n
        BY <1>1, <3>2
      <4>2. QED
        BY <1>4, <3>2, <4>1
    <3>3. QED
      BY <3>1, <3>2
  <2>2. f = [k \in 0 .. n |-> f[k]]
    <3> HIDE DEF step
    <3>1. QED
      BY <1>3 DEF Turns
  <2>3. QED
    BY <2>1, <2>2
<1>6. Equation(all)
  <2> HIDE DEF Equation
  <2>1. QED
    BY <1>5
<1>7. Without(s, dropped) = all[n]
  BY DEF Without
<1> HIDE DEF all
<1>8. ASSUME NEW k \in 0 .. n
      PROVE  all[k] = IF k = 0 THEN << >>
                      ELSE IF s[k] \in dropped THEN all[k - 1] ELSE Append(all[k - 1], s[k])
  BY <1>6
<1>9. all[0] = << >> /\ \A k \in 1 .. n :
          all[k] = IF s[k] \in dropped THEN all[k - 1] ELSE Append(all[k - 1], s[k])
  BY <1>1, <1>8
<1> DEFINE typed == {k \in Nat : k <= n => all[k] \in Seq(A)}
<1>10. \A k \in Nat : k \in typed
  <2>1. 0 \in typed
    BY <1>1, <1>9
  <2>2. ASSUME NEW k \in Nat, k \in typed, k + 1 <= n
        PROVE  all[k + 1] \in Seq(A)
    <3>1. k + 1 \in 1 .. n /\ (k + 1) - 1 = k /\ all[k] \in Seq(A)
      BY <1>1, <2>2
    <3>2. all[k + 1] = IF s[k + 1] \in dropped THEN all[k] ELSE Append(all[k], s[k + 1])
      <4>1. all[k + 1] = IF s[k + 1] \in dropped THEN all[(k + 1) - 1]
                         ELSE Append(all[(k + 1) - 1], s[k + 1])
        BY <1>9, <3>1
      <4>2. QED
        BY <3>1, <4>1
    <3>3. s[k + 1] \in A
      BY <3>1, ElementOfSeq
    <3>4. QED
      BY <3>1, <3>2, <3>3, AppendProperties
  <2>3. ASSUME NEW k \in Nat, k \in typed PROVE k + 1 \in typed
    BY <2>2, <2>3
  <2> HIDE DEF typed
  <2>4. QED
    BY <2>1, <2>3, NatInduced
<1>11. all = [k \in 0 .. n |-> all[k]]
  BY <1>6
<1>12. all \in [0 .. n -> Seq(A)]
  <2>1. \A k \in 0 .. n : all[k] \in Seq(A)
    BY <1>1, <1>10
  <2>2. QED
    BY <1>11, <2>1
<1>13. Keeps(all, A, s, dropped)
  BY <1>9, <1>12 DEF Keeps
<1>14. QED
  BY <1>7, <1>13

\* What is kept is a sequence of the same kind.
LEMMA WithoutTyped ==
    ASSUME NEW A, NEW s \in Seq(A), NEW dropped
    PROVE  Without(s, dropped) \in Seq(A)
<1>1. PICK f : Keeps(f, A, s, dropped) /\ Without(s, dropped) = f[Len(s)]
  BY WithoutDefined
<1>2. Len(s) \in 0 .. Len(s)
  BY LenProperties
<1>3. QED
  BY <1>1, <1>2 DEF Keeps

\* h names the elements that are kept of the first k of s, from first to last.
Names(h, kept, s, dropped, k) ==
    /\ h \in [1 .. Len(kept) -> 1 .. k]
    /\ \A n \in 1 .. Len(kept) : kept[n] = s[h[n]] /\ s[h[n]] \notin dropped
    /\ \A i, j \in 1 .. Len(kept) : i < j => h[i] < h[j]
    /\ \A j \in 1 .. k : s[j] \notin dropped => \E n \in 1 .. Len(kept) : h[n] = j

\* One element more is kept, and named.
LEMMA NamesGrow ==
    ASSUME NEW A, NEW s \in Seq(A), NEW dropped, NEW k \in 0 .. Len(s) - 1,
           NEW kept \in Seq(A), NEW h, Names(h, kept, s, dropped, k),
           s[k + 1] \notin dropped
    PROVE  \E g : Names(g, Append(kept, s[k + 1]), s, dropped, k + 1)
<1> DEFINE m == Len(kept)
           g == [n \in 1 .. m + 1 |-> IF n = m + 1 THEN k + 1 ELSE h[n]]
           more == Append(kept, s[k + 1])
<1>1. m \in Nat /\ k \in Nat /\ Len(s) \in Nat /\ k + 1 \in 1 .. Len(s)
  BY LenProperties
<1>2. s[k + 1] \in A
  BY <1>1, ElementOfSeq
<1>3. /\ Len(more) = m + 1 /\ more[m + 1] = s[k + 1]
      /\ \A n \in 1 .. m : more[n] = kept[n]
  BY <1>2, AppendProperties
<1>4. \A n \in 1 .. m : h[n] \in 1 .. k
  BY DEF Names
<1>5. g[m + 1] = k + 1 /\ \A n \in 1 .. m : g[n] = h[n]
  BY <1>1
<1>6. g \in [1 .. m + 1 -> 1 .. k + 1]
  BY <1>1, <1>4
<1>7. \A n \in 1 .. m + 1 : n = m + 1 \/ n \in 1 .. m
  BY <1>1
<1> HIDE DEF g, more, m
<1>8. ASSUME NEW n \in 1 .. m + 1
      PROVE  more[n] = s[g[n]] /\ s[g[n]] \notin dropped
  <2>1. CASE n = m + 1
    BY <1>3, <1>5, <2>1
  <2>2. CASE n \in 1 .. m
    BY <1>3, <1>5, <2>2 DEF Names, m
  <2>3. QED
    BY <1>7, <2>1, <2>2
<1>9. ASSUME NEW i \in 1 .. m + 1, NEW j \in 1 .. m + 1, i < j
      PROVE  g[i] < g[j]
  <2>1. i \in 1 .. m
    BY <1>1, <1>9
  <2>2. CASE j = m + 1
    BY <1>1, <1>4, <1>5, <2>1, <2>2
  <2>3. CASE j \in 1 .. m
    BY <1>5, <1>9, <2>1, <2>3 DEF Names, m
  <2>4. QED
    BY <1>7, <2>2, <2>3
<1>10. ASSUME NEW j \in 1 .. k + 1, s[j] \notin dropped
       PROVE  \E n \in 1 .. m + 1 : g[n] = j
  <2>1. CASE j = k + 1
    BY <1>1, <1>5, <2>1
  <2>2. CASE j \in 1 .. k
    <3>1. PICK n \in 1 .. m : h[n] = j
      BY <1>10, <2>2 DEF Names, m
    <3>2. n \in 1 .. m + 1 /\ g[n] = j
      BY <1>1, <1>5, <3>1
    <3>3. QED
      BY <3>2
  <2>3. QED
    BY <1>1, <2>1, <2>2
<1>11. Names(g, more, s, dropped, k + 1)
  BY <1>3, <1>6, <1>8, <1>9, <1>10 DEF Names
<1>12. QED
  BY <1>11 DEF more

\* What is kept of a sequence can be named.
LEMMA WithoutNames ==
    ASSUME NEW A, NEW s \in Seq(A), NEW dropped
    PROVE  \E h : Names(h, Without(s, dropped), s, dropped, Len(s))
<1>1. PICK f : Keeps(f, A, s, dropped) /\ Without(s, dropped) = f[Len(s)]
  BY WithoutDefined
<1>2. Len(s) \in Nat
  BY LenProperties
<1> DEFINE Named(k) == \E h : Names(h, f[k], s, dropped, k)
           named == {k \in Nat : k <= Len(s) => Named(k)}
<1>3. 0 \in named
  <2> DEFINE h == [n \in 1 .. 0 |-> 0]
  <2>1. f[0] = << >>
    BY <1>1 DEF Keeps
  <2>2. Names(h, << >>, s, dropped, 0)
    BY DEF Names
  <2> HIDE DEF h
  <2>3. QED
    BY <2>1, <2>2
<1>4. ASSUME NEW k \in Nat, k \in named, k + 1 <= Len(s)
      PROVE  Named(k + 1)
  <2>1. k \in 0 .. Len(s) - 1 /\ k \in 0 .. Len(s) /\ k + 1 \in 1 .. Len(s) /\ (k + 1) - 1 = k
    BY <1>2, <1>4
  <2>2. f[k] \in Seq(A)
    BY <1>1, <2>1 DEF Keeps
  <2>3. f[k + 1] = IF s[k + 1] \in dropped THEN f[k] ELSE Append(f[k], s[k + 1])
    <3>1. f[k + 1] = IF s[k + 1] \in dropped THEN f[(k + 1) - 1]
                     ELSE Append(f[(k + 1) - 1], s[k + 1])
      BY <1>1, <2>1 DEF Keeps
    <3>2. QED
      BY <2>1, <3>1
  <2>4. PICK h : Names(h, f[k], s, dropped, k)
    <3> HIDE DEF Named
    <3>1. Named(k)
      BY <1>2, <1>4
    <3>2. QED
      BY <3>1 DEF Named
  <2>5. CASE s[k + 1] \in dropped
    <3>1. h \in [1 .. Len(f[k]) -> 1 .. k + 1]
      BY <2>1, <2>4 DEF Names
    <3>2. \A j \in 1 .. k + 1 : j = k + 1 \/ j \in 1 .. k
      BY <2>1
    <3>3. Names(h, f[k], s, dropped, k + 1)
      BY <2>4, <2>5, <3>1, <3>2 DEF Names
    <3>4. QED
      BY <2>3, <2>5, <3>3
  <2>6. CASE s[k + 1] \notin dropped
    <3>1. \E g : Names(g, Append(f[k], s[k + 1]), s, dropped, k + 1)
      BY <2>1, <2>2, <2>4, <2>6, NamesGrow
    <3>2. QED
      BY <2>3, <2>6, <3>1
  <2>7. QED
    BY <2>5, <2>6
<1> HIDE DEF Named
<1>5. ASSUME NEW k \in Nat, k \in named PROVE k + 1 \in named
  BY <1>4, <1>5
<1> HIDE DEF named
<1>6. Len(s) \in named
  BY <1>2, <1>3, <1>5, NatInduced
<1>7. QED
  BY <1>1, <1>2, <1>6 DEF named, Named

\* What is kept was there, and was not to be dropped.
LEMMA WithoutKeeps ==
    ASSUME NEW A, NEW s \in Seq(A), NEW dropped, NEW j \in 1 .. Len(Without(s, dropped))
    PROVE  \E i \in 1 .. Len(s) : s[i] = Without(s, dropped)[j] /\ s[i] \notin dropped
<1>1. PICK h : Names(h, Without(s, dropped), s, dropped, Len(s))
  BY WithoutNames
<1>2. QED
  BY <1>1 DEF Names

\* Where a part t of s, from element d + 1 on, differs from s only in elements to be
\* dropped, and so is every element of s outside it, as much is kept of s as of t.
LEMMA SameKept ==
    ASSUME NEW A, NEW s \in Seq(A), NEW t \in Seq(A), NEW dropped, NEW d \in Nat,
           d + Len(t) <= Len(s),
           \A i \in 1 .. d : s[i] \in dropped,
           \A i \in 1 .. Len(t) : s[d + i] = t[i] \/ (s[d + i] \in dropped /\ t[i] \in dropped),
           \A i \in d + Len(t) + 1 .. Len(s) : s[i] \in dropped
    PROVE  Without(s, dropped) = Without(t, dropped)
<1>1. PICK f : Keeps(f, A, s, dropped) /\ Without(s, dropped) = f[Len(s)]
  BY WithoutDefined
<1>2. PICK g : Keeps(g, A, t, dropped) /\ Without(t, dropped) = g[Len(t)]
  BY WithoutDefined
<1>3. Len(s) \in Nat /\ Len(t) \in Nat
  BY LenProperties
<1>4. ASSUME NEW k \in Nat, k + 1 <= Len(s)
      PROVE  f[k + 1] = IF s[k + 1] \in dropped THEN f[k] ELSE Append(f[k], s[k + 1])
  <2>1. k + 1 \in 1 .. Len(s) /\ (k + 1) - 1 = k
    BY <1>3, <1>4
  <2>2. f[k + 1] = IF s[k + 1] \in dropped THEN f[(k + 1) - 1]
                   ELSE Append(f[(k + 1) - 1], s[k + 1])
    BY <1>1, <2>1 DEF Keeps
  <2>3. QED
    BY <2>1, <2>2
<1>5. ASSUME NEW k \in Nat, k + 1 <= Len(t)
      PROVE  g[k + 1] = IF t[k + 1] \in dropped THEN g[k] ELSE Append(g[k], t[k + 1])
  <2>1. k + 1 \in 1 .. Len(t) /\ (k + 1) - 1 = k
    BY <1>3, <1>5
  <2>2. g[k + 1] = IF t[k + 1] \in dropped THEN g[(k + 1) - 1]
                   ELSE Append(g[(k + 1) - 1], t[k + 1])
    BY <1>2, <2>1 DEF Keeps
  <2>3. QED
    BY <2>1, <2>2
<1> DEFINE before == {k \in Nat : k <= d => f[k] = << >>}
           within == {k \in Nat : k <= Len(t) => f[d + k] = g[k]}
           after == {k \in Nat : d + Len(t) + k <= Len(s) => f[d + Len(t) + k] = g[Len(t)]}
<1>6. d \in before
  <2>1. 0 \in before
    BY <1>1 DEF Keeps
  <2>2. ASSUME NEW k \in Nat, k \in before PROVE k + 1 \in before
    BY <1>3, <1>4, <2>2
  <2> HIDE DEF before
  <2>3. QED
    BY <2>1, <2>2, NatInduced
<1>7. Len(t) \in within
  <2>1. 0 \in within
    BY <1>2, <1>6 DEF Keeps
  <2>2. ASSUME NEW k \in Nat, k \in within, k + 1 <= Len(t)
        PROVE  f[d + (k + 1)] = g[k + 1]
    <3>1. k + 1 \in 1 .. Len(t) /\ d + k \in Nat /\ (d + k) + 1 = d + (k + 1)
      BY <1>3, <2>2
    <3>2. f[d + k] = g[k]
      BY <1>3, <2>2
    <3>3. f[(d + k) + 1] = IF s[(d + k) + 1] \in dropped THEN f[d + k]
                           ELSE Append(f[d + k], s[(d + k) + 1])
      BY <1>3, <1>4, <2>2, <3>1
    <3>4. \/ s[d + (k + 1)] = t[k + 1]
          \/ s[d + (k + 1)] \in dropped /\ t[k + 1] \in dropped
      BY <3>1
    <3>5. QED
      BY <1>5, <2>2, <3>1, <3>2, <3>3, <3>4
  <2>3. ASSUME NEW k \in Nat, k \in within PROVE k + 1 \in within
    BY <2>2, <2>3
  <2> HIDE DEF within
  <2>4. QED
    BY <1>3, <2>1, <2>3, NatInduced
<1>8. Len(s) - (d + Len(t)) \in after
  <2>1. 0 \in after
    BY <1>3, <1>7
  <2>2. ASSUME NEW k \in Nat, k \in after, d + Len(t) + (k + 1) <= Len(s)
        PROVE  f[d + Len(t) + (k + 1)] = g[Len(t)]
    <3>1. /\ d + Len(t) + k \in Nat
          /\ (d + Len(t) + k) + 1 = d + Len(t) + (k + 1)
          /\ d + Len(t) + (k + 1) \in d + Len(t) + 1 .. Len(s)
      BY <1>3, <2>2
    <3>2. s[d + Len(t) + (k + 1)] \in dropped
      BY <3>1
    <3>3. f[(d + Len(t) + k) + 1] = IF s[(d + Len(t) + k) + 1] \in dropped
                                    THEN f[d + Len(t) + k]
                                    ELSE Append(f[d + Len(t) + k], s[(d + Len(t) + k) + 1])
      BY <1>4, <2>2, <3>1
    <3>4. QED
      BY <1>3, <2>2, <3>1, <3>2, <3>3
  <2>3. ASSUME NEW k \in Nat, k \in after PROVE k + 1 \in after
    BY <2>2, <2>3
  <2>4. Len(s) - (d + Len(t)) \in Nat
    BY <1>3
  <2> HIDE DEF after
  <2>5. QED
    BY <2>1, <2>3, <2>4, NatInduced
<1>9. d + Len(t) + (Len(s) - (d + Len(t))) = Len(s)
  BY <1>3
<1>10. f[Len(s)] = g[Len(t)]
  BY <1>3, <1>8, <1>9
<1>11. QED
  BY <1>1, <1>2, <1>10

\* The same where t is compared with the beginning of s.
LEMMA SameKeptAtFront ==
    ASSUME NEW A, NEW s \in Seq(A), NEW t \in Seq(A), NEW dropped,
           Len(t) <= Len(s),
           \A i \in 1 .. Len(t) : s[i] = t[i] \/ (s[i] \in dropped /\ t[i] \in dropped),
           \A i \in Len(t) + 1 .. Len(s) : s[i] \in dropped
    PROVE  Without(s, dropped) = Without(t, dropped)
<1> DEFINE d == 0
<1>1. Len(s) \in Nat /\ Len(t) \in Nat
  BY LenProperties
<1>2. d \in Nat /\ d + Len(t) <= Len(s) /\ \A i \in 1 .. d : s[i] \in dropped
  BY <1>1
<1>3. \A i \in 1 .. Len(t) : s[d + i] = t[i] \/ (s[d + i] \in dropped /\ t[i] \in dropped)
  BY <1>1
<1>4. \A i \in d + Len(t) + 1 .. Len(s) : s[i] \in dropped
  BY <1>1
<1> HIDE DEF d
<1>5. QED
  BY <1>2, <1>3, <1>4, SameKept
=============================================================================
