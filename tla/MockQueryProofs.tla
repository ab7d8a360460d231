-------------------------- MODULE MockQueryProofs --------------------------
(***************************************************************************)
(* Proofs of the properties of MockQuery, for every service_url, entity    *)
(* set and options, every max_rows and both kinds of next link.            *)
(***************************************************************************)
EXTENDS MockQuery, Induction

(***************************************************************************)
(* The path of a request                                                   *)
(***************************************************************************)
\* Decoding changes nothing but escaped slashes.
LEMMA DecodedTyped ==
    ASSUME NEW s \in Seq(Token)
    PROVE  /\ Decoded(s) \in Seq(Token) /\ Len(Decoded(s)) = Len(s)
           /\ \A i \in 1 .. Len(s) : Decoded(s)[i] = IF s[i] = "%2F" THEN "/" ELSE s[i]
<1>1. Len(s) \in Nat /\ DOMAIN s = 1 .. Len(s) /\ \A i \in 1 .. Len(s) : s[i] \in Token
  BY LenProperties, ElementOfSeq
<1>2. "/" \in Token
  BY DEF Token
<1>3. Decoded(s) = [i \in 1 .. Len(s) |-> IF s[i] = "%2F" THEN "/" ELSE s[i]]
  BY <1>1 DEF Decoded
<1>4. Decoded(s) \in [1 .. Len(s) -> Token]
  BY <1>1, <1>2, <1>3
<1>5. Decoded(s) \in Seq(Token) /\ Len(Decoded(s)) = Len(s)
  <2> HIDE DEF Decoded
  <2>1. QED
    BY <1>1, <1>4, SeqDef, LenProperties
<1>6. QED
  BY <1>3, <1>5

\* What TrimRight cuts off is slashes, and it leaves none at the end.
LEMMA TrimmedRight ==
    ASSUME NEW s \in Seq(Token)
    PROVE  \E n \in 0 .. Len(s) :
               /\ TrimRight(s) = SubSeq(s, 1, n)
               /\ n = 0 \/ s[n] # "/"
               /\ \A i \in n + 1 .. Len(s) : s[i] = "/"
<1> DEFINE Ends(n) == /\ n = 0 \/ s[n] # "/"
                      /\ \A i \in n + 1 .. Len(s) : s[i] = "/"
           S == {n \in 0 .. Len(s) : n = 0 \/ s[n] # "/"}
<1>1. Len(s) \in Nat
  BY LenProperties
<1>2. \E n \in 0 .. Len(s) : Ends(n)
  <2>1. S \in SUBSET (0 .. Len(s)) /\ S # {}
    <3>1. 0 \in S
      BY <1>1
    <3>2. QED
      BY <3>1
  <2>2. PICK n \in S : \A m \in S : m <= n
    <3> HIDE DEF S
    <3>1. QED
      BY <1>1, <2>1, GreatestElement
  <2>3. ASSUME NEW i \in n + 1 .. Len(s) PROVE s[i] = "/"
    <3>1. i \in 0 .. Len(s) /\ ~(i <= n)
      BY <1>1
    <3>2. i \notin S
      BY <2>2, <3>1
    <3>3. QED
      BY <3>1, <3>2
  <2>4. QED
    BY <2>3
<1>3. TrimRight(s) = SubSeq(s, 1, CHOOSE n \in 0 .. Len(s) : Ends(n))
  BY DEF TrimRight
<1> HIDE DEF Ends
<1>4. QED
  <2> DEFINE n == CHOOSE n \in 0 .. Len(s) : Ends(n)
  <2>1. n \in 0 .. Len(s) /\ Ends(n)
    BY <1>2
  <2>2. TrimRight(s) = SubSeq(s, 1, n)
    BY <1>3
  <2> HIDE DEF n
  <2>3. QED
    BY <2>1, <2>2 DEF Ends

\* What TrimLeft cuts off is slashes, and it leaves none at the front.
LEMMA TrimmedLeft ==
    ASSUME NEW s \in Seq(Token)
    PROVE  \E n \in 1 .. Len(s) + 1 :
               /\ TrimLeft(s) = SubSeq(s, n, Len(s))
               /\ n = Len(s) + 1 \/ s[n] # "/"
               /\ \A i \in 1 .. n - 1 : s[i] = "/"
<1> DEFINE Begins(n) == /\ n = Len(s) + 1 \/ s[n] # "/"
                        /\ \A i \in 1 .. n - 1 : s[i] = "/"
           S == {n \in 1 .. Len(s) + 1 : n = Len(s) + 1 \/ s[n] # "/"}
<1>1. Len(s) \in Nat
  BY LenProperties
<1>2. \E n \in 1 .. Len(s) + 1 : Begins(n)
  <2>1. S \in SUBSET Nat /\ S # {}
    <3>1. Len(s) + 1 \in S
      BY <1>1
    <3>2. QED
      BY <1>1, <3>1
  <2>2. PICK n \in S : \A m \in S : n <= m
    <3> HIDE DEF S
    <3>1. QED
      BY <2>1, LeastElement
  <2>3. ASSUME NEW i \in 1 .. n - 1 PROVE s[i] = "/"
    <3>1. i \in 1 .. Len(s) + 1 /\ ~(n <= i)
      BY <1>1
    <3>2. i \notin S
      BY <2>2, <3>1
    <3>3. QED
      BY <3>1, <3>2
  <2>4. QED
    BY <2>3
<1>3. TrimLeft(s) = SubSeq(s, CHOOSE n \in 1 .. Len(s) + 1 : Begins(n), Len(s))
  BY DEF TrimLeft
<1> HIDE DEF Begins
<1>4. QED
  <2> DEFINE n == CHOOSE n \in 1 .. Len(s) + 1 : Begins(n)
  <2>1. n \in 1 .. Len(s) + 1 /\ Begins(n)
    BY <1>2
  <2>2. TrimLeft(s) = SubSeq(s, n, Len(s))
    BY <1>3
  <2> HIDE DEF n
  <2>3. QED
    BY <2>1, <2>2 DEF Begins

\* path is head and rest with a slash between.
Joins(path, head, rest) ==
    /\ path \in Seq(Token) /\ head \in Seq(Token) /\ rest \in Seq(Token)
    /\ Len(path) = Len(head) + 1 + Len(rest)
    /\ \A i \in 1 .. Len(head) : path[i] = head[i]
    /\ path[Len(head) + 1] = "/"
    /\ \A i \in 1 .. Len(rest) : path[Len(head) + 1 + i] = rest[i]

\* The words before the slash are those of head, and the words after it those of rest.
LEMMA WordsJoined ==
    ASSUME NEW path, NEW head, NEW rest, Joins(path, head, rest)
    PROVE  /\ Words(SubSeq(path, 1, Len(head) + 1)) = Words(head)
           /\ Words(SubSeq(path, Len(head) + 2, Len(path))) = Words(rest)
<1> DEFINE n == Len(head) + 1
           first == SubSeq(path, 1, n)
           last == SubSeq(path, n + 1, Len(path))
<1>1. /\ path \in Seq(Token) /\ head \in Seq(Token) /\ rest \in Seq(Token)
      /\ Len(path) \in Nat /\ Len(head) \in Nat /\ Len(rest) \in Nat
      /\ Len(path) = n + Len(rest) /\ n \in 1 .. Len(path)
  BY LenProperties DEF Joins
<1>2. \A i \in 1 .. Len(path) : path[i] \in Token
  BY <1>1, ElementOfSeq
<1>3. /\ first \in Seq(Token) /\ Len(first) = n
      /\ \A i \in 1 .. n : first[i] = path[i]
  <2>1. \A i \in 1 .. n : path[i] \in Token
    BY <1>1, <1>2
  <2>2. n \in Int /\ 1 <= n /\ n - 1 + 1 = n
    BY <1>1
  <2> HIDE DEF n
  <2>3. /\ SubSeq(path, 1, n) \in Seq(Token)
        /\ Len(SubSeq(path, 1, n)) = n - 1 + 1
        /\ \A i \in 1 .. n - 1 + 1 : SubSeq(path, 1, n)[i] = path[1 + i - 1]
    BY <2>1, <2>2, SubSeqProperties
  <2>4. QED
    BY <2>2, <2>3
<1>4. last = rest
  <2>1. \A i \in n + 1 .. Len(path) : path[i] \in Token
    BY <1>1, <1>2
  <2>2. /\ last \in Seq(Token)
        /\ Len(last) = IF n + 1 <= Len(path) THEN Len(path) - (n + 1) + 1 ELSE 0
        /\ \A i \in 1 .. Len(path) - (n + 1) + 1 : last[i] = path[n + 1 + i - 1]
    <3> HIDE DEF n
    <3>1. n + 1 \in Int /\ Len(path) \in Int
      BY <1>1
    <3>2. QED
      BY <2>1, <3>1, SubSeqProperties
  <2>3. Len(last) = Len(rest)
    BY <1>1, <2>2
  <2>4. ASSUME NEW i \in 1 .. Len(rest) PROVE last[i] = rest[i]
    <3>1. i \in 1 .. Len(path) - (n + 1) + 1 /\ n + 1 + i - 1 = n + i
      BY <1>1
    <3>2. path[n + i] = rest[i]
      BY DEF Joins
    <3>3. QED
      BY <2>2, <3>1, <3>2
  <2> HIDE DEF last
  <2>5. QED
    BY <1>1, <2>2, <2>3, <2>4, SeqEqual
<1>5. Words(first) = Words(head)
  <2> DEFINE slashes == {"/", "%2F"}
  <2>1. \A i \in 1 .. Len(head) : first[i] = head[i]
    BY <1>1, <1>3 DEF Joins
  <2>2. \A i \in Len(head) + 1 .. Len(first) : first[i] \in slashes
    BY <1>1, <1>3 DEF Joins
  <2>3. Len(head) <= Len(first)
    BY <1>1, <1>3
  <2> HIDE DEF first, slashes
  <2>4. Without(first, slashes) = Without(head, slashes)
    BY <1>1, <1>3, <2>1, <2>2, <2>3, SameKeptAtFront
  <2>5. QED
    BY <2>4 DEF slashes, Words
<1>6. n + 1 = Len(head) + 2
  BY <1>1
<1>7. QED
  BY <1>4, <1>5, <1>6

\* A slash joins them where head does not end in one and rest does not begin with one.
LEMMA SeamFound ==
    ASSUME NEW path, NEW head, NEW rest, Joins(path, head, rest),
           head # << >> => head[Len(head)] # "/",
           rest # << >> => rest[1] # "/",
           Words(head) = Words(ask.root.path), Words(rest) = Target(ask)
    PROVE  \E n \in DOMAIN path : Seam(path, n)
<1> DEFINE n == Len(head) + 1
<1>1. /\ path \in Seq(Token) /\ head \in Seq(Token) /\ rest \in Seq(Token)
      /\ Len(path) \in Nat /\ Len(head) \in Nat /\ Len(rest) \in Nat
      /\ Len(path) = n + Len(rest) /\ n \in 1 .. Len(path) /\ DOMAIN path = 1 .. Len(path)
  BY LenProperties DEF Joins
<1>2. n > 1 => path[n - 1] # "/"
  <2>1. ASSUME n > 1 PROVE path[n - 1] # "/"
    <3>1. n - 1 = Len(head) /\ Len(head) \in 1 .. Len(head) /\ head # << >>
      BY <1>1, <2>1, EmptySeq
    <3>2. QED
      BY <3>1 DEF Joins
  <2>2. QED
    BY <2>1
<1>3. n < Len(path) => path[n + 1] # "/"
  <2>1. ASSUME n < Len(path) PROVE path[n + 1] # "/"
    <3>1. 1 \in 1 .. Len(rest) /\ rest # << >>
      BY <1>1, <2>1, EmptySeq
    <3>2. path[n + 1] = rest[1]
      BY <3>1 DEF Joins
    <3>3. QED
      BY <3>1, <3>2
  <2>2. QED
    BY <2>1
<1>4. /\ Words(SubSeq(path, 1, n)) = Words(ask.root.path)
      /\ Words(SubSeq(path, n + 1, Len(path))) = Target(ask)
  <2>1. n + 1 = Len(head) + 2
    BY <1>1
  <2>2. QED
    BY <2>1, WordsJoined
<1>5. path[n] = "/"
  BY DEF Joins
<1> HIDE DEF n
<1>6. Seam(path, n)
  BY <1>2, <1>3, <1>4, <1>5 DEF Seam
<1>7. QED
  BY <1>1, <1>6

\* Concatenation joins.
LEMMA Concatenated ==
    ASSUME NEW head \in Seq(Token), NEW rest \in Seq(Token)
    PROVE  /\ Joins(head \o <<"/">> \o rest, head, rest)
           /\ head \o <<"/">> \o rest \in Seq(Token)
<1>1. <<"/">> \in Seq(Token) /\ Len(<<"/">>) = 1 /\ <<"/">>[1] = "/"
  BY DEF Token
<1>2. /\ head \o <<"/">> \in Seq(Token) /\ Len(head \o <<"/">>) = Len(head) + 1
      /\ \A i \in 1 .. Len(head) + 1 :
            (head \o <<"/">>)[i] = IF i <= Len(head) THEN head[i] ELSE <<"/">>[i - Len(head)]
  BY <1>1, ConcatProperties
<1> DEFINE front == head \o <<"/">>
<1>3. /\ front \o rest \in Seq(Token) /\ Len(front \o rest) = Len(front) + Len(rest)
      /\ \A i \in 1 .. Len(front) + Len(rest) :
            (front \o rest)[i] = IF i <= Len(front) THEN front[i] ELSE rest[i - Len(front)]
  <2> HIDE DEF front
  <2>1. front \in Seq(Token)
    BY <1>2 DEF front
  <2>2. QED
    BY <2>1, ConcatProperties
<1>4. Len(head) \in Nat /\ Len(rest) \in Nat
  BY LenProperties
<1>5. front[Len(head) + 1] = "/"
  <2>1. Len(head) + 1 \in 1 .. Len(head) + 1 /\ ~(Len(head) + 1 <= Len(head))
        /\ Len(head) + 1 - Len(head) = 1
    BY <1>4
  <2>2. QED
    BY <1>1, <1>2, <2>1
<1>6. \A i \in 1 .. Len(head) : front[i] = head[i]
  BY <1>2, <1>4
<1>7. Len(front) = Len(head) + 1
  BY <1>2
<1> HIDE DEF front
<1>8. Joins(front \o rest, head, rest)
  <2>1. \A i \in 1 .. Len(head) : (front \o rest)[i] = head[i]
    BY <1>3, <1>4, <1>6, <1>7
  <2>2. (front \o rest)[Len(head) + 1] = "/"
    BY <1>3, <1>4, <1>5, <1>7
  <2>3. ASSUME NEW i \in 1 .. Len(rest)
        PROVE  (front \o rest)[Len(head) + 1 + i] = rest[i]
    <3>1. /\ Len(head) + 1 + i \in 1 .. Len(front) + Len(rest)
          /\ ~(Len(head) + 1 + i <= Len(front)) /\ Len(head) + 1 + i - Len(front) = i
      BY <1>4, <1>7
    <3>2. QED
      BY <1>3, <3>1
  <2>4. Len(front \o rest) = Len(head) + 1 + Len(rest)
    BY <1>3, <1>4, <1>7
  <2>5. QED
    BY <1>3, <2>1, <2>2, <2>3, <2>4 DEF Joins
<1>9. QED
  BY <1>3, <1>8 DEF front

(***************************************************************************)
(* The query of a request                                                  *)
(***************************************************************************)
Values == [Key -> Seq(Seq(Token))]

Noted(q, pair) == IF pair.ok THEN [q EXCEPT ![pair.key] = Append(@, pair.value)] ELSE q

\* f[k] is what the first k pairs say.
Notes(f, pairs) ==
    /\ f \in [0 .. Len(pairs) -> Values]
    /\ f[0] = [k \in Key |-> << >>]
    /\ \A n \in 1 .. Len(pairs) : f[n] = Noted(f[n - 1], pairs[n])

\* A pair adds its value to those of its key, if it is well formed, and to no other.
LEMMA NotedTyped ==
    ASSUME NEW q \in Values, NEW pair \in Pair
    PROVE  /\ Noted(q, pair) \in Values
           /\ \A k \in Key : Noted(q, pair)[k] =
                  IF pair.ok /\ pair.key = k THEN Append(q[k], pair.value) ELSE q[k]
<1>1. pair.key \in Key /\ pair.value \in Seq(Token) /\ pair.ok \in BOOLEAN
  BY DEF Pair
<1>2. \A k \in Key : q[k] \in Seq(Seq(Token))
  BY DEF Values
<1>3. CASE pair.ok
  <2> DEFINE more == Append(q[pair.key], pair.value)
  <2>1. more \in Seq(Seq(Token))
    <3> DEFINE V == Seq(Token)
    <3>1. pair.value \in V /\ q[pair.key] \in Seq(V)
      BY <1>1, <1>2
    <3> HIDE DEF V
    <3>2. more \in Seq(V)
      BY <3>1, AppendProperties
    <3>3. QED
      BY <3>2 DEF V
  <2>2. Noted(q, pair) = [q EXCEPT ![pair.key] = more]
    BY <1>3 DEF Noted
  <2> HIDE DEF more
  <2>3. Noted(q, pair) \in Values
    BY <2>1, <2>2 DEF Values
  <2>4. \A k \in Key : Noted(q, pair)[k] = IF k = pair.key THEN more ELSE q[k]
    BY <1>1, <2>2 DEF Values
  <2>5. QED
    BY <1>1, <1>3, <2>3, <2>4 DEF more
<1>4. CASE ~pair.ok
  BY <1>2, <1>4 DEF Noted
<1>5. QED
  BY <1>3, <1>4

\* Query is what its loop notes of all the pairs.
LEMMA QueryDefined ==
    ASSUME NEW pairs \in Seq(Pair)
    PROVE  \E f : Notes(f, pairs) /\ Query(pairs) = f[Len(pairs)]
<1> DEFINE n == Len(pairs)
           none == [k \in Key |-> << >>]
           step == [m \in 1 .. n |-> [q \in Values |-> Noted(q, pairs[m])]]
           Equation(h) ==
               h = [m \in 0 .. Len(pairs) |->
                       IF m = 0 THEN [k \in Key |-> << >>]
                       ELSE IF pairs[m].ok
                       THEN [h[m - 1] EXCEPT ![pairs[m].key] = Append(@, pairs[m].value)]
                       ELSE h[m - 1]]
           all == CHOOSE h : Equation(h)
<1>1. n \in Nat /\ none \in Values
  BY LenProperties DEF Values
<1>2. step \in [1 .. n -> [Values -> Values]]
  <2>1. ASSUME NEW m \in 1 .. n, NEW q \in Values
        PROVE  Noted(q, pairs[m]) \in Values
    BY ElementOfSeq, NotedTyped
  <2>2. QED
    BY <2>1
<1>3. PICK f : Turns(f, Values, none, step, n)
  <2> HIDE DEF n, step, none
  <2>1. QED
    BY <1>1, <1>2, Recursion
<1>4. ASSUME NEW m \in 1 .. n
      PROVE  f[m] = Noted(f[m - 1], pairs[m])
  <2>1. m - 1 \in 0 .. n - 1 /\ (m - 1) + 1 = m /\ m - 1 \in 0 .. n
    BY <1>1
  <2>2. f[m - 1] \in Values
    BY <1>3, <2>1 DEF Turns
  <2>3. f[(m - 1) + 1] = step[(m - 1) + 1][f[m - 1]]
    <3> HIDE DEF step
    <3>1. QED
      BY <1>3, <2>1 DEF Turns
  <2>4. QED
    BY <2>1, <2>2, <2>3
<1>5. Equation(f)
  <2>1. ASSUME NEW m \in 0 .. n
        PROVE  f[m] = IF m = 0 THEN none ELSE Noted(f[m - 1], pairs[m])
    <3>1. CASE m = 0
      BY <1>3, <3>1 DEF Turns
    <3>2. CASE m # 0
      <4>1. m \in 1 .. n
        BY <1>1, <3>2
      <4>2. QED
        BY <1>4, <3>2, <4>1
    <3>3. QED
      BY <3>1, <3>2
  <2>2. f = [m \in 0 .. n |-> f[m]]
    <3> HIDE DEF step
    <3>1. QED
      BY <1>3 DEF Turns
  <2>3. QED
    BY <2>1, <2>2 DEF Noted
<1>6. Equation(all)
  <2> HIDE DEF Equation
  <2>1. QED
    BY <1>5
<1>7. Query(pairs) = all[n]
  BY DEF Query
<1> HIDE DEF all
<1>8. ASSUME NEW m \in 0 .. n
      PROVE  all[m] = IF m = 0 THEN none ELSE Noted(all[m - 1], pairs[m])
  BY <1>6 DEF Noted
<1>9. all[0] = none /\ \A m \in 1 .. n : all[m] = Noted(all[m - 1], pairs[m])
  BY <1>1, <1>8
<1> HIDE DEF none
<1> DEFINE typed == {m \in Nat : m <= n => all[m] \in Values}
<1>10. \A m \in Nat : m \in typed
  <2>1. 0 \in typed
    BY <1>1, <1>9
  <2>2. ASSUME NEW m \in Nat, m \in typed, m + 1 <= n
        PROVE  all[m + 1] \in Values
    <3>1. m + 1 \in 1 .. n /\ (m + 1) - 1 = m /\ all[m] \in Values
      BY <1>1, <2>2
    <3>2. all[m + 1] = Noted(all[m], pairs[m + 1])
      <4>1. all[m + 1] = Noted(all[(m + 1) - 1], pairs[m + 1])
        BY <1>9, <3>1
      <4>2. QED
        BY <3>1, <4>1
    <3>3. pairs[m + 1] \in Pair
      BY <3>1, ElementOfSeq
    <3>4. QED
      BY <3>1, <3>2, <3>3, NotedTyped
  <2>3. ASSUME NEW m \in Nat, m \in typed PROVE m + 1 \in typed
    BY <2>2, <2>3
  <2> HIDE DEF typed
  <2>4. QED
    BY <2>1, <2>3, NatInduced
<1>11. all = [m \in 0 .. n |-> all[m]]
  BY <1>6
<1>12. all \in [0 .. n -> Values]
  <2>1. \A m \in 0 .. n : all[m] \in Values
    BY <1>1, <1>10
  <2>2. QED
    BY <1>11, <2>1
<1>13. Notes(all, pairs)
  BY <1>9, <1>12 DEF Notes, none
<1>14. QED
  BY <1>7, <1>13

LEMMA QueryTyped ==
    ASSUME NEW pairs \in Seq(Pair)
    PROVE  Query(pairs) \in Values
<1>1. PICK f : Notes(f, pairs) /\ Query(pairs) = f[Len(pairs)]
  BY QueryDefined
<1>2. Len(pairs) \in 0 .. Len(pairs)
  BY LenProperties
<1>3. QED
  BY <1>1, <1>2 DEF Notes

ValuesOf(pairs) == [i \in DOMAIN pairs |-> pairs[i].value]

\* One pair more has one value more.
LEMMA ValuesAppended ==
    ASSUME NEW pairs \in Seq(Pair), NEW pair \in Pair
    PROVE  ValuesOf(Append(pairs, pair)) = Append(ValuesOf(pairs), pair.value)
<1> DEFINE V == Seq(Token)
           values == ValuesOf(pairs)
           n == Len(pairs)
<1>1. /\ n \in Nat /\ DOMAIN pairs = 1 .. n /\ \A i \in 1 .. n : pairs[i] \in Pair
  BY LenProperties, ElementOfSeq
<1>2. \A one \in Pair : one.value \in V
  BY DEF Pair
<1> HIDE DEF V
<1>3. values = [i \in 1 .. n |-> pairs[i].value]
  BY <1>1 DEF ValuesOf
<1>4. values \in [1 .. n -> V]
  BY <1>1, <1>2, <1>3
<1>5. values \in Seq(V) /\ Len(values) = n /\ \A i \in 1 .. n : values[i] = pairs[i].value
  <2>1. \A i \in 1 .. n : values[i] = pairs[i].value
    BY <1>3
  <2> HIDE DEF values
  <2>2. values \in Seq(V) /\ Len(values) = n
    BY <1>1, <1>4, SeqDef, LenProperties
  <2>3. QED
    BY <2>1, <2>2
<1> DEFINE more == Append(values, pair.value)
           longer == Append(pairs, pair)
<1> HIDE DEF values
<1>6. /\ more \in Seq(V) /\ Len(more) = n + 1 /\ more[n + 1] = pair.value
      /\ \A i \in 1 .. n : more[i] = pairs[i].value
  BY <1>2, <1>5, AppendProperties
<1>7. /\ longer \in Seq(Pair) /\ Len(longer) = n + 1 /\ longer[n + 1] = pair
      /\ \A i \in 1 .. n : longer[i] = pairs[i]
  BY AppendProperties
<1> HIDE DEF more, longer
<1>8. DOMAIN more = 1 .. n + 1 /\ DOMAIN longer = 1 .. n + 1
  BY <1>6, <1>7, LenProperties
<1>9. more = [i \in 1 .. n + 1 |-> more[i]]
  BY <1>6, <1>8, LenProperties
<1>10. \A i \in 1 .. n + 1 : more[i] = longer[i].value
  BY <1>1, <1>6, <1>7
<1>11. more = [i \in DOMAIN longer |-> longer[i].value]
  BY <1>8, <1>9, <1>10
<1>12. QED
  BY <1>11 DEF more, longer, values, ValuesOf

\* A key has the values of the well-formed pairs with that key, in order.
LEMMA QueryGives ==
    ASSUME NEW pairs \in Seq(Pair), NEW k \in Key, NEW dropped,
           \A i \in 1 .. Len(pairs) :
               pairs[i] \in dropped <=> ~(pairs[i].ok /\ pairs[i].key = k)
    PROVE  Query(pairs)[k] = ValuesOf(Without(pairs, dropped))
<1>1. PICK f : Notes(f, pairs) /\ Query(pairs) = f[Len(pairs)]
  BY QueryDefined
<1>2. PICK g : Keeps(g, Pair, pairs, dropped) /\ Without(pairs, dropped) = g[Len(pairs)]
  BY WithoutDefined
<1>3. Len(pairs) \in Nat /\ \A i \in 1 .. Len(pairs) : pairs[i] \in Pair
  BY LenProperties, ElementOfSeq
<1> DEFINE given == {n \in Nat : n <= Len(pairs) => f[n][k] = ValuesOf(g[n])}
<1>4. 0 \in given
  BY <1>1, <1>2 DEF Notes, Keeps, ValuesOf
<1>5. ASSUME NEW n \in Nat, n \in given, n + 1 <= Len(pairs)
      PROVE  f[n + 1][k] = ValuesOf(g[n + 1])
  <2>1. /\ n \in 0 .. Len(pairs) /\ n + 1 \in 1 .. Len(pairs) /\ (n + 1) - 1 = n
        /\ n <= Len(pairs)
    BY <1>3, <1>5
  <2>2. f[n] \in Values /\ f[n + 1] = Noted(f[n], pairs[n + 1])
    <3>1. f[n + 1] = Noted(f[(n + 1) - 1], pairs[n + 1])
      BY <1>1, <2>1 DEF Notes
    <3>2. QED
      BY <1>1, <2>1, <3>1 DEF Notes
  <2>3. f[n + 1][k] = IF pairs[n + 1].ok /\ pairs[n + 1].key = k
                      THEN Append(f[n][k], pairs[n + 1].value) ELSE f[n][k]
    <3>1. pairs[n + 1] \in Pair
      BY <1>3, <2>1
    <3>2. f[n] \in Values
      BY <2>2
    <3>3. Noted(f[n], pairs[n + 1])[k] =
              IF pairs[n + 1].ok /\ pairs[n + 1].key = k
              THEN Append(f[n][k], pairs[n + 1].value) ELSE f[n][k]
      BY <3>1, <3>2, NotedTyped
    <3>4. QED
      BY <2>2, <3>3
  <2>4. /\ g[n] \in Seq(Pair)
        /\ g[n + 1] = IF pairs[n + 1] \in dropped THEN g[n] ELSE Append(g[n], pairs[n + 1])
    <3>1. g[n + 1] = IF pairs[n + 1] \in dropped THEN g[(n + 1) - 1]
                     ELSE Append(g[(n + 1) - 1], pairs[n + 1])
      BY <1>2, <2>1 DEF Keeps
    <3>2. QED
      BY <1>2, <2>1, <3>1 DEF Keeps
  <2>5. f[n][k] = ValuesOf(g[n])
    BY <1>5, <2>1
  <2>6. pairs[n + 1] \in dropped <=> ~(pairs[n + 1].ok /\ pairs[n + 1].key = k)
    BY <2>1
  <2>7. CASE pairs[n + 1] \in dropped
    BY <2>3, <2>4, <2>5, <2>6, <2>7
  <2>8. CASE pairs[n + 1] \notin dropped
    <3>1. pairs[n + 1] \in Pair
      BY <1>3, <2>1
    <3>2. ValuesOf(Append(g[n], pairs[n + 1])) = Append(ValuesOf(g[n]), pairs[n + 1].value)
      BY <2>4, <3>1, ValuesAppended
    <3>3. QED
      BY <2>3, <2>4, <2>5, <2>6, <2>8, <3>2
  <2>9. QED
    BY <2>7, <2>8
<1>6. ASSUME NEW n \in Nat, n \in given PROVE n + 1 \in given
  BY <1>5, <1>6
<1> HIDE DEF given
<1>7. Len(pairs) \in given
  BY <1>3, <1>4, <1>6, NatInduced
<1>8. QED
  BY <1>1, <1>2, <1>3, <1>7 DEF given

(***************************************************************************)
(* Under the service root                                                  *)
(***************************************************************************)
\* What is kept of a path is in it, and so is its one word.
LEMMA KeptFound ==
    ASSUME NEW A, NEW s \in Seq(A), NEW dropped
    PROVE  \A j \in 1 .. Len(Without(s, dropped)) :
              \E i \in 1 .. Len(s) : s[i] = Without(s, dropped)[j]
<1>1. ASSUME NEW j \in 1 .. Len(Without(s, dropped))
      PROVE  \E i \in 1 .. Len(s) : s[i] = Without(s, dropped)[j]
  BY WithoutKeeps
<1>2. QED
  BY <1>1

LEMMA OneKept ==
    ASSUME NEW A, NEW s \in Seq(A), NEW dropped, NEW word, Without(s, dropped) = <<word>>
    PROVE  \E i \in 1 .. Len(s) : s[i] = word
<1> DEFINE kept == Without(s, dropped)
<1>1. \A j \in 1 .. Len(kept) : \E i \in 1 .. Len(s) : s[i] = kept[j]
  BY KeptFound
<1>2. 1 \in 1 .. Len(kept) /\ kept[1] = word
  OBVIOUS
<1> HIDE DEF kept
<1>3. QED
  BY <1>1, <1>2

\* Decoding, and the cutting of slashes at either end, keep the words of a path.
LEMMA DecodedWords ==
    ASSUME NEW s \in Seq(Token)
    PROVE  Words(Decoded(s)) = Words(s)
<1> DEFINE slashes == {"/", "%2F"}
           t == Decoded(s)
<1>1. /\ t \in Seq(Token) /\ Len(t) = Len(s) /\ Len(s) \in Nat
      /\ \A i \in 1 .. Len(s) : t[i] = IF s[i] = "%2F" THEN "/" ELSE s[i]
  BY DecodedTyped, LenProperties
<1> HIDE DEF t
<1>2. \A i \in 1 .. Len(s) : t[i] = s[i] \/ (t[i] \in slashes /\ s[i] \in slashes)
  BY <1>1
<1>3. \A i \in Len(s) + 1 .. Len(t) : t[i] \in slashes
  BY <1>1
<1>4. Len(s) <= Len(t)
  BY <1>1
<1> HIDE DEF slashes
<1>5. Without(t, slashes) = Without(s, slashes)
  BY <1>1, <1>2, <1>3, <1>4, SameKeptAtFront
<1>6. QED
  BY <1>5 DEF t, slashes, Words

\* Trimming slashes at the end leaves the words.
LEMMA TrimRightWords ==
    ASSUME NEW s \in Seq(Token)
    PROVE  /\ TrimRight(s) \in Seq(Token)
           /\ \A i \in 1 .. Len(TrimRight(s)) : \E j \in 1 .. Len(s) : TrimRight(s)[i] = s[j]
           /\ Words(TrimRight(s)) = Words(s)
           /\ TrimRight(s) # << >> => TrimRight(s)[Len(TrimRight(s))] # "/"
<1> DEFINE slashes == {"/", "%2F"}
           t == TrimRight(s)
<1>1. PICK n \in 0 .. Len(s) :
          /\ t = SubSeq(s, 1, n)
          /\ n = 0 \/ s[n] # "/"
          /\ \A i \in n + 1 .. Len(s) : s[i] = "/"
  BY TrimmedRight
<1>2. Len(s) \in Nat /\ n \in Nat /\ n <= Len(s) /\ \A i \in 1 .. n : s[i] \in Token
  <2>1. Len(s) \in Nat /\ \A i \in 1 .. Len(s) : s[i] \in Token
    BY LenProperties, ElementOfSeq
  <2>2. QED
    BY <2>1
<1> HIDE DEF t
<1>3. t \in Seq(Token) /\ Len(t) = n /\ \A i \in 1 .. n : t[i] = s[i]
  <2>1. /\ SubSeq(s, 1, n) \in Seq(Token)
        /\ Len(SubSeq(s, 1, n)) = IF 1 <= n THEN n - 1 + 1 ELSE 0
        /\ \A i \in 1 .. n - 1 + 1 : SubSeq(s, 1, n)[i] = s[1 + i - 1]
    BY <1>2, SubSeqProperties
  <2>2. QED
    BY <1>1, <1>2, <2>1
<1>4. t # << >> => t[Len(t)] # "/"
  <2>1. ASSUME t # << >> PROVE t[n] # "/"
    <3>1. n # 0
      BY <1>3, <2>1, EmptySeq
    <3>2. n \in 1 .. n
      BY <1>2, <3>1
    <3>3. QED
      BY <1>1, <1>3, <3>1, <3>2
  <2>2. QED
    BY <1>3, <2>1
<1>5. \A i \in 1 .. Len(t) : s[i] = t[i]
  BY <1>3
<1>6. \A i \in Len(t) + 1 .. Len(s) : s[i] \in slashes
  BY <1>1, <1>3
<1>7. Len(t) <= Len(s)
  BY <1>2, <1>3
<1> HIDE DEF slashes
<1>8. Without(s, slashes) = Without(t, slashes)
  BY <1>3, <1>5, <1>6, <1>7, SameKeptAtFront
<1>9. \A i \in 1 .. Len(t) : \E j \in 1 .. Len(s) : t[i] = s[j]
  BY <1>2, <1>3
<1>10. QED
  BY <1>3, <1>4, <1>8, <1>9 DEF t, slashes, Words

\* So does trimming them at the front.
LEMMA TrimLeftWords ==
    ASSUME NEW s \in Seq(Token)
    PROVE  /\ TrimLeft(s) \in Seq(Token)
           /\ \A i \in 1 .. Len(TrimLeft(s)) : \E j \in 1 .. Len(s) : TrimLeft(s)[i] = s[j]
           /\ Words(TrimLeft(s)) = Words(s)
           /\ TrimLeft(s) # << >> => TrimLeft(s)[1] # "/"
<1> DEFINE slashes == {"/", "%2F"}
           t == TrimLeft(s)
<1>1. PICK n \in 1 .. Len(s) + 1 :
          /\ t = SubSeq(s, n, Len(s))
          /\ n = Len(s) + 1 \/ s[n] # "/"
          /\ \A i \in 1 .. n - 1 : s[i] = "/"
  BY TrimmedLeft
<1>2. Len(s) \in Nat /\ n \in Nat \ {0} /\ n <= Len(s) + 1
      /\ \A i \in n .. Len(s) : s[i] \in Token
  <2>1. Len(s) \in Nat /\ \A i \in 1 .. Len(s) : s[i] \in Token
    BY LenProperties, ElementOfSeq
  <2>2. QED
    BY <2>1
<1> HIDE DEF t
<1>3. /\ t \in Seq(Token) /\ Len(t) = Len(s) - (n - 1)
      /\ \A i \in 1 .. Len(t) : t[i] = s[(n - 1) + i]
  <2>1. /\ SubSeq(s, n, Len(s)) \in Seq(Token)
        /\ Len(SubSeq(s, n, Len(s))) = IF n <= Len(s) THEN Len(s) - n + 1 ELSE 0
        /\ \A i \in 1 .. Len(s) - n + 1 : SubSeq(s, n, Len(s))[i] = s[n + i - 1]
    BY <1>2, SubSeqProperties
  <2>2. Len(t) = Len(s) - (n - 1)
    BY <1>1, <1>2, <2>1
  <2>3. ASSUME NEW i \in 1 .. Len(t) PROVE t[i] = s[(n - 1) + i]
    <3>1. i \in 1 .. Len(s) - n + 1 /\ n + i - 1 = (n - 1) + i
      BY <1>2, <2>2
    <3>2. QED
      BY <1>1, <2>1, <3>1
  <2>4. QED
    BY <1>1, <2>1, <2>2, <2>3
<1>4. t # << >> => t[1] # "/"
  <2>1. ASSUME t # << >> PROVE t[1] # "/"
    <3>1. Len(t) \in Nat \ {0}
      BY <1>3, <2>1, EmptySeq
    <3>2. 1 \in 1 .. Len(t) /\ (n - 1) + 1 = n /\ n # Len(s) + 1
      BY <1>2, <1>3, <3>1
    <3>3. QED
      BY <1>1, <1>3, <3>2
  <2>2. QED
    BY <2>1
<1>5. n - 1 \in Nat /\ (n - 1) + Len(t) <= Len(s)
  BY <1>2, <1>3
<1>6. \A i \in 1 .. n - 1 : s[i] \in slashes
  BY <1>1
<1>7. \A i \in (n - 1) + Len(t) + 1 .. Len(s) : s[i] \in slashes
  BY <1>2, <1>3
<1>8. \A i \in 1 .. Len(t) : s[(n - 1) + i] = t[i]
  BY <1>3
<1> HIDE DEF slashes
<1>9. Without(s, slashes) = Without(t, slashes)
  <2> DEFINE d == n - 1
  <2>1. d \in Nat /\ d + Len(t) <= Len(s)
    BY <1>5
  <2>2. \A i \in 1 .. d : s[i] \in slashes
    BY <1>6
  <2>3. \A i \in 1 .. Len(t) : s[d + i] = t[i] \/ (s[d + i] \in slashes /\ t[i] \in slashes)
    BY <1>8
  <2>4. \A i \in d + Len(t) + 1 .. Len(s) : s[i] \in slashes
    BY <1>7
  <2> HIDE DEF d
  <2>5. QED
    BY <1>3, <2>1, <2>2, <2>3, <2>4, SameKept
<1>10. ASSUME NEW i \in 1 .. Len(t) PROVE \E j \in 1 .. Len(s) : t[i] = s[j]
  <2>1. (n - 1) + i \in 1 .. Len(s)
    BY <1>2, <1>3
  <2>2. QED
    BY <1>3, <2>1
<1>11. QED
  BY <1>3, <1>4, <1>9, <1>10 DEF t, slashes, Words

\* A name is a path without escapes, which decodes to itself.
LEMMA NameTyped ==
    ASSUME NEW set \in Seq(Name)
    PROVE  set \in Seq(Token) /\ \A i \in 1 .. Len(set) : set[i] # "%2F"
<1>1. /\ Len(set) \in Nat /\ set \in [1 .. Len(set) -> Name]
  <2>1. Len(set) \in Nat /\ DOMAIN set = 1 .. Len(set) /\ set = [i \in DOMAIN set |-> set[i]]
    BY LenProperties
  <2>2. \A i \in 1 .. Len(set) : set[i] \in Name
    BY ElementOfSeq
  <2>3. QED
    BY <2>1, <2>2
<1>2. set \in [1 .. Len(set) -> Token]
  BY <1>1 DEF Name
<1>3. QED
  BY <1>1, <1>2, SeqDef DEF Name

LEMMA DecodedName ==
    ASSUME NEW s \in Seq(Token), \A i \in 1 .. Len(s) : s[i] # "%2F"
    PROVE  Decoded(s) = s
<1>1. /\ DOMAIN s = 1 .. Len(s) /\ s = [i \in DOMAIN s |-> s[i]]
  BY LenProperties
<1>2. QED
  BY <1>1 DEF Decoded

\* joinURL: the path that is sent decodes to that of the root and the set, one slash
\* between, whether String escapes it anew or not.
LEMMA JoinedWords ==
    ASSUME NEW root \in Root, NEW set \in Seq(Name)
    PROVE  LET head == TrimRight(Decoded(root.path))
               rest == TrimLeft(set)
           IN  /\ Joined(root, set) \in Seq(Token)
               /\ Joins(Decoded(Joined(root, set)), head, rest)
               /\ Words(head) = Words(root.path) /\ Words(rest) = Words(set)
               /\ head # << >> => head[Len(head)] # "/"
               /\ rest # << >> => rest[1] # "/"
<1> DEFINE above == Decoded(root.path)
           head == TrimRight(above)
           rest == TrimLeft(set)
           full == head \o <<"/">> \o rest
<1>1. root.path \in Seq(Token) /\ set \in Seq(Token)
  BY NameTyped DEF Root
<1>2. above \in Seq(Token) /\ Words(above) = Words(root.path)
  BY <1>1, DecodedTyped, DecodedWords
<1>3. \A i \in 1 .. Len(above) : above[i] # "%2F"
  BY <1>1, DecodedTyped
<1>4. Joined(root, set) = IF full = above THEN root.path ELSE full
  BY DEF Joined
<1> HIDE DEF above
<1>5. /\ head \in Seq(Token) /\ Words(head) = Words(root.path)
      /\ head # << >> => head[Len(head)] # "/"
      /\ \A i \in 1 .. Len(head) : head[i] # "%2F"
  BY <1>2, <1>3, TrimRightWords
<1>6. /\ rest \in Seq(Token) /\ Words(rest) = Words(set)
      /\ rest # << >> => rest[1] # "/"
      /\ \A i \in 1 .. Len(rest) : rest[i] # "%2F"
  BY <1>1, NameTyped, TrimLeftWords
<1> HIDE DEF head, rest
<1>7. Joins(full, head, rest) /\ full \in Seq(Token)
  BY <1>5, <1>6, Concatenated
<1> HIDE DEF full
<1>8. ASSUME NEW i \in 1 .. Len(full) PROVE full[i] # "%2F"
  <2>1. /\ Len(head) \in Nat /\ Len(rest) \in Nat
        /\ Len(full) = Len(head) + 1 + Len(rest)
    BY <1>7, LenProperties DEF Joins
  <2>2. CASE i <= Len(head)
    BY <1>5, <1>7, <2>1, <2>2 DEF Joins
  <2>3. CASE i = Len(head) + 1
    BY <1>7, <2>3 DEF Joins
  <2>4. CASE i > Len(head) + 1
    <3>1. /\ i - (Len(head) + 1) \in 1 .. Len(rest)
          /\ Len(head) + 1 + (i - (Len(head) + 1)) = i
      BY <2>1, <2>4
    <3>2. full[i] = rest[i - (Len(head) + 1)]
      BY <1>7, <3>1 DEF Joins
    <3>3. QED
      BY <1>6, <3>1, <3>2
  <2>5. QED
    BY <2>1, <2>2, <2>3, <2>4
<1>9. Decoded(full) = full
  BY <1>7, <1>8, DecodedName
<1>10. Joined(root, set) \in Seq(Token) /\ Decoded(Joined(root, set)) = full
  <2>1. CASE full = above
    BY <1>1, <1>4, <2>1 DEF above
  <2>2. CASE full # above
    BY <1>4, <1>7, <1>9, <2>2
  <2>3. QED
    BY <2>1, <2>2
<1>11. QED
  BY <1>5, <1>6, <1>7, <1>10 DEF head, rest, above

(***************************************************************************)
(* The mock as a service that the page loop meets.  Read is the page loop  *)
(* that PagingProofs is about: it is Fetch, but for the name of the        *)
(* service, which Fetch only carries along.                                *)
(***************************************************************************)
Place == [segs : Seq(Token), query : Values]
Entities == {People[i] : i \in DOMAIN People} \cup {Entry}

Served == [u \in Fetch!URL |-> IF u.host = Mock THEN Body(u.path) ELSE {}]

Read == INSTANCE PagingProofs WITH
    Payload <- Entities, Path <- Place, FirstURL <- {},
    Services <- [Fetch!URL -> SUBSET Fetch!Body], service <- Served

\* The kinds are the same.
LEMMA SameKinds ==
    /\ Read!URL = Fetch!URL /\ Read!Relative = Fetch!Relative
    /\ Read!Link = Fetch!Link /\ Read!Body = Fetch!Body
    /\ Fetch!URL = [host : Host, path : Place]
    /\ Fetch!Relative = [path : Place]
  BY DEF Read!URL, Fetch!URL, Read!Relative, Fetch!Relative, Read!Link, Fetch!Link,
         Read!Body, Fetch!Body, Place, Values, Entities

\* What PagingProofs assumes of its constants holds of those it has here.
LEMMA ReadAssumed ==
    /\ Empty # Unparsable
    /\ {Empty, Unparsable} \cap (Read!URL \cup Read!Relative) = {}
    /\ [Fetch!URL -> SUBSET Fetch!Body] \subseteq [Read!URL -> SUBSET Read!Body]
    /\ {} \subseteq Read!URL \cup {Unparsable}
    /\ MaxRowsArg \subseteq Int /\ defaultMaxRows \in Nat \ {0}
    /\ pageCap \in Nat
<1>1. Len(People) = 4
  <2>1. People \in [1 .. 4 -> {People[i] : i \in 1 .. 4}]
    BY MockAssumption
  <2>2. People \in Seq({People[i] : i \in 1 .. 4})
    BY <2>1, SeqDef
  <2>3. DOMAIN People = 1 .. 4
    BY <2>1
  <2>4. QED
    BY <2>2, <2>3, LenProperties
<1>2. QED
  BY <1>1, SameKinds, StringsAssumption, MaxRowsAssumption, PageCapAssumption

\* The steps of the loop against the mock are steps that PagingProofs is about.
LEMMA SameSteps ==
    ASSUME UNCHANGED base
    PROVE  /\ \A m, first : Fetch!Start(m, first) => Read!Start(m, first)
           /\ Fetch!Return => Read!Return
           /\ Fetch!Request => Read!Request
           /\ Fetch!GetFails => Read!GetFails
           /\ \A body : Fetch!Receive(body) => Read!Receive(body)
           /\ Fetch!AppendRow => Read!AppendRow
           /\ Fetch!Advance => Read!Advance
<1>1. Served' = Served
  BY DEF Served, Body, NextLink
<1>2. \A body : Fetch!decodePage(body, v2) = Read!decodePage(body, v2)
  BY DEF Fetch!decodePage, Read!decodePage, Fetch!FitsV2Page, Read!FitsV2Page,
         Fetch!FitsV2SingleD, Read!FitsV2SingleD, Fetch!Rejected, Read!Rejected
<1>3. Fetch!resolveNext(next, link) = Read!resolveNext(next, link)
  BY SameKinds DEF Fetch!resolveNext, Read!resolveNext
<1>4. Fetch!More <=> Read!More
  BY DEF Fetch!More, Read!More
<1>5. Fetch!TooMany <=> Read!TooMany
  BY DEF Fetch!TooMany, Read!TooMany
<1>6. \A m : Fetch!EffectiveMax(m) = Read!EffectiveMax(m)
  BY DEF Fetch!EffectiveMax, Read!EffectiveMax
<1> HIDE DEF Served
<1>7. \A m, first : Fetch!Start(m, first) => Read!Start(m, first)
  BY <1>1, <1>6 DEF Fetch!Start, Read!Start, Fetch!Fail, Read!Fail
<1>8. /\ Fetch!Return => Read!Return
      /\ Fetch!Request => Read!Request
      /\ Fetch!GetFails => Read!GetFails
      /\ Fetch!AppendRow => Read!AppendRow
      /\ Fetch!Advance => Read!Advance
  BY <1>1, <1>3, <1>4, <1>5
     DEF Fetch!Return, Read!Return, Fetch!Request, Read!Request, Fetch!GetFails,
         Read!GetFails, Fetch!Fail, Read!Fail, Fetch!AppendRow, Read!AppendRow,
         Fetch!NextSeq, Read!NextSeq, Fetch!Advance, Read!Advance,
         Fetch!NextPage, Read!NextPage
<1>9. \A body : Fetch!Receive(body) => Read!Receive(body)
  BY <1>1, <1>2 DEF Fetch!Receive, Read!Receive, Fetch!Fail, Read!Fail
<1>10. QED
  BY <1>7, <1>8, <1>9

(***************************************************************************)
(* What the mock sends                                                     *)
(***************************************************************************)
FirstTwo == SubSeq(People, 1, 2)
LastTwo == SubSeq(People, 3, 4)

\* Two pages of two entities make the four.
LEMMA PeopleTyped ==
    /\ People \in Seq(Entities) /\ Len(People) = 4
    /\ FirstTwo \in Seq(Entities) /\ LastTwo \in Seq(Entities)
    /\ FirstTwo \o LastTwo = People
    /\ Len(FirstTwo) = 2 /\ \A i \in 1 .. 2 : FirstTwo[i] = People[i]
<1>1. DOMAIN People = 1 .. 4
  BY MockAssumption
<1>2. People \in [1 .. 4 -> Entities]
  <2>1. \A i \in 1 .. 4 : People[i] \in Entities
    BY <1>1 DEF Entities
  <2>2. QED
    BY <2>1, MockAssumption
<1> HIDE DEF Entities
<1>3. People \in Seq(Entities)
  BY <1>2, SeqDef
<1>4. Len(People) = 4
  BY <1>1, <1>3, LenProperties
<1>5. \A i \in 1 .. 4 : People[i] \in Entities
  BY <1>2
<1>6. /\ FirstTwo \in Seq(Entities) /\ Len(FirstTwo) = 2
      /\ \A i \in 1 .. 2 : FirstTwo[i] = People[i]
  <2>1. /\ SubSeq(People, 1, 2) \in Seq(Entities)
        /\ Len(SubSeq(People, 1, 2)) = IF 1 <= 2 THEN 2 - 1 + 1 ELSE 0
        /\ \A i \in 1 .. 2 - 1 + 1 : SubSeq(People, 1, 2)[i] = People[1 + i - 1]
    BY <1>5, SubSeqProperties
  <2>2. QED
    BY <2>1 DEF FirstTwo
<1>7. LastTwo \in Seq(Entities)
  BY <1>5, SubSeqProperties DEF LastTwo
<1>8. FirstTwo \o LastTwo = People
  <2>1. SubSeq(People, 1, 2) \o SubSeq(People, 2 + 1, 4) = SubSeq(People, 1, 4)
    BY <1>3, <1>4, ConcatAdjacentSubSeq
  <2>2. SubSeq(People, 1, 4) = People
    BY <1>3, <1>4, SubSeqFull
  <2>3. QED
    BY <2>1, <2>2 DEF FirstTwo, LastTwo
<1>9. QED
  BY <1>3, <1>4, <1>6, <1>7, <1>8

\* The second page is at a URL of the mock, whose handler knows it for that.
LEMMA SecondPage ==
    /\ Page2 \in Fetch!URL /\ Page2.host = Mock /\ Page2.path \in Place
    /\ Route(Page2.path) = "people" /\ IsPage2(Page2.path.query)
<1> DEFINE pair == [key |-> "page", value |-> <<"2">>, ok |-> TRUE]
           pairs == <<pair>>
           segs == <<"/", "People">>
<1>1. {"page", "2", "People"} \subseteq Word /\ Mock \in Host
  BY MockAssumption
<1>2. pair \in Pair /\ "page" \in Key
  <2>1. <<"2">> \in Seq(Token)
    BY <1>1 DEF Token
  <2>2. QED
    BY <1>1, <2>1 DEF Pair, Key
<1>3. segs \in Seq(Token) /\ Len(segs) = 2 /\ segs[1] = "/" /\ segs[2] = "People"
  BY <1>1 DEF Token
<1>4. pairs \in Seq(Pair) /\ Len(pairs) = 1 /\ pairs[1] = pair
  BY <1>2
<1>5. PICK f : Notes(f, pairs) /\ Query(pairs) = f[1]
  <2> HIDE DEF pairs
  <2>1. QED
    BY <1>4, QueryDefined
<1>6. Query(pairs) = Noted(f[0], pair) /\ f[0] = [k \in Key |-> << >>] /\ f[0] \in Values
  <2> HIDE DEF pairs, pair
  <2>1. f[1] = Noted(f[1 - 1], pairs[1]) /\ f[0] = [k \in Key |-> << >>] /\ f[0] \in Values
    BY <1>4, <1>5 DEF Notes
  <2>2. QED
    BY <1>4, <1>5, <2>1
<1>7. Query(pairs) \in Values /\ Query(pairs)["page"] = Append(<< >>, <<"2">>)
  <2>1. pair.ok /\ pair.key = "page" /\ pair.value = <<"2">>
    OBVIOUS
  <2> HIDE DEF pair, pairs
  <2>2. Noted(f[0], pair)["page"] = Append(f[0]["page"], pair.value)
    <3>1. Noted(f[0], pair) \in Values /\ \A k \in Key : Noted(f[0], pair)[k] =
              IF pair.ok /\ pair.key = k THEN Append(f[0][k], pair.value) ELSE f[0][k]
      BY <1>2, <1>6, NotedTyped, Zenon
    <3>2. Noted(f[0], pair)["page"] =
              IF pair.ok /\ pair.key = "page" THEN Append(f[0]["page"], pair.value)
              ELSE f[0]["page"]
      BY <1>2, <3>1, Zenon
    <3>3. QED
      BY <2>1, <3>2
  <2>3. f[0]["page"] = << >>
    BY <1>2, <1>6
  <2>4. QED
    <3>1. Noted(f[0], pair) \in Values
      BY <1>2, <1>6, NotedTyped, Zenon
    <3>2. QED
      BY <1>6, <2>1, <2>2, <2>3, <3>1, Zenon
<1>8. IsPage2(Query(pairs))
  <2>1. Append(<< >>, <<"2">>) = << <<"2">> >>
    OBVIOUS
  <2>2. << <<"2">> >> # << >> /\ << <<"2">> >>[1] = <<"2">>
    OBVIOUS
  <2> HIDE DEF pairs
  <2>3. QED
    BY <1>7, <2>1, <2>2 DEF IsPage2
<1>9. /\ Page2.host = Mock /\ Page2.path = [segs |-> segs, query |-> Query(pairs)]
      /\ Page2 = [host |-> Mock, path |-> Page2.path]
  BY DEF Page2, Requested
<1>10. Page2.path \in Place
  <2> HIDE DEF segs, pairs
  <2>1. QED
    BY <1>3, <1>7, <1>9 DEF Place
<1>11. Page2 \in Fetch!URL
  <2> HIDE DEF Page2
  <2>1. QED
    BY <1>1, <1>9, <1>10, SameKinds
<1>12. Decoded(segs) = <<"/", "People">>
  <2>1. /\ Decoded(segs) \in Seq(Token) /\ Len(Decoded(segs)) = 2
        /\ \A i \in 1 .. 2 : Decoded(segs)[i] = IF segs[i] = "%2F" THEN "/" ELSE segs[i]
    <3> HIDE DEF segs
    <3>1. QED
      BY <1>3, DecodedTyped
  <2>2. \A i \in 1 .. 2 : Decoded(segs)[i] = segs[i]
    BY <1>3, <2>1
  <2>3. Decoded(segs) = segs
    <3> HIDE DEF segs
    <3>1. QED
      BY <1>3, <2>1, <2>2, SeqEqual
  <2>4. QED
    BY <2>3
<1>13. Route(Page2.path) = "people"
  <2>1. Page2.path.segs = segs
    BY <1>9
  <2>2. Decoded(Page2.path.segs) = <<"/", "People">>
    BY <1>12, <2>1
  <2>3. <<"/", "People">> \notin {<< >>, <<"/">>} /\ <<"/", "People">> # <<"/", "$metadata">>
    OBVIOUS
  <2>4. QED
    BY <2>2, <2>3 DEF Route
<1>14. IsPage2(Page2.path.query)
  BY <1>8, <1>9
<1>15. QED
  BY <1>9, <1>10, <1>11, <1>13, <1>14

\* A page of the mock is a body; read as v2 it is an empty last page.
LEMMA V4Typed ==
    ASSUME NEW values \in Seq(Entities), NEW following \in Fetch!Link
    PROVE  /\ V4(values, following) \in Fetch!Body
           /\ [V4(values, following) EXCEPT !.json = FALSE] \in Fetch!Body
           /\ \A version2 \in BOOLEAN : Fetch!decodePage(V4(values, following), version2) =
                  [ok |-> TRUE, items |-> IF version2 THEN << >> ELSE values,
                   link |-> IF version2 THEN Empty ELSE following]
<1>1. Empty \in Fetch!Link /\ << >> \in Seq(Entities)
  BY DEF Fetch!Link
<1>2. Fetch!Body = [json : BOOLEAN, value : Seq(Entities), nextLink : Fetch!Link,
                    d : {"absent", "array", "results", "object"},
                    elems : Seq(Entities), next : Fetch!Link]
  BY DEF Fetch!Body, Entities
<1>3. /\ V4(values, following).json /\ V4(values, following).d = "absent"
      /\ V4(values, following).value = values /\ V4(values, following).nextLink = following
  BY DEF V4
<1>4. \A version2 \in BOOLEAN : Fetch!decodePage(V4(values, following), version2) =
          [ok |-> TRUE, items |-> IF version2 THEN << >> ELSE values,
           link |-> IF version2 THEN Empty ELSE following]
  BY <1>3 DEF Fetch!decodePage, Fetch!FitsV2Page, Fetch!FitsV2SingleD
<1>5. V4(values, following) \in Fetch!Body
      /\ [V4(values, following) EXCEPT !.json = FALSE] \in Fetch!Body
  BY <1>1, <1>2 DEF V4
<1>6. QED
  BY <1>4, <1>5

\* The next link, absolute or not, leads to the second page.
LEMMA NextLinkTyped ==
    ASSUME base \in BOOLEAN
    PROVE  /\ NextLink \in Fetch!Link /\ Empty \in Fetch!Link
           /\ \A u \in Fetch!URL : u.host = Mock => Fetch!resolveNext(u, NextLink) = Page2
           /\ \A u \in Fetch!URL : /\ Fetch!resolveNext(u, Empty) = Empty
                                  /\ Fetch!resolveNext(u, NextLink) \in Fetch!URL
<1>1. /\ Page2 \in Fetch!URL /\ Page2.host = Mock /\ Page2.path \in Place
      /\ Page2 = [host |-> Mock, path |-> Page2.path]
  BY SecondPage DEF Page2, Requested
<1>2. [path |-> Page2.path] \in Fetch!Relative /\ Page2 \notin Fetch!Relative
  <2> HIDE DEF Page2
  <2>1. [path |-> Page2.path] \in Fetch!Relative
    BY <1>1, SameKinds
  <2>2. Page2 \notin Fetch!Relative
    <3>1. DOMAIN Page2 = {"host", "path"}
      BY <1>1
    <3>2. \A r \in Fetch!Relative : DOMAIN r = {"path"}
      BY SameKinds
    <3>3. "host" # "path"
      OBVIOUS
    <3>4. QED
      BY <3>1, <3>2, <3>3
  <2>3. QED
    BY <2>1, <2>2
<1>3. Empty \notin Fetch!Relative
  BY StringsAssumption
<1> HIDE DEF Page2
<1>4. ASSUME NEW u \in Fetch!URL, u.host = Mock PROVE Fetch!resolveNext(u, NextLink) = Page2
  <2>1. CASE base
    BY <1>2, <2>1 DEF NextLink, Fetch!resolveNext
  <2>2. CASE ~base
    <3>1. NextLink = [path |-> Page2.path] /\ NextLink.path = Page2.path
      BY <2>2 DEF NextLink
    <3>2. QED
      BY <1>1, <1>2, <1>4, <3>1 DEF Fetch!resolveNext
  <2>3. QED
    BY <2>1, <2>2
<1>5. NextLink \in Fetch!Link /\ Empty \in Fetch!Link
  BY <1>1, <1>2 DEF NextLink, Fetch!Link
<1>6. ASSUME NEW u \in Fetch!URL PROVE Fetch!resolveNext(u, NextLink) \in Fetch!URL
  <2>1. CASE base
    BY <1>1, <1>2, <2>1 DEF NextLink, Fetch!resolveNext
  <2>2. CASE ~base
    <3>1. NextLink = [path |-> Page2.path] /\ NextLink.path = Page2.path
      BY <2>2 DEF NextLink
    <3>2. [host |-> u.host, path |-> Page2.path] \in Fetch!URL
      BY <1>1, SameKinds
    <3>3. QED
      BY <1>1, <1>2, <3>1, <3>2 DEF Fetch!resolveNext
  <2>3. QED
    BY <2>1, <2>2
<1>7. QED
  BY <1>3, <1>4, <1>5, <1>6 DEF Fetch!resolveNext

\* At People it sends one of the two pages, which the client decodes, as the empty
\* page if it reads v2; at a path that it does not know it sends nothing.
LEMMA Sends ==
    ASSUME base \in BOOLEAN, v2 \in BOOLEAN, NEW path \in Place, NEW body \in Body(path)
    PROVE  /\ body \in Fetch!Body
           /\ Route(path) # "none"
           /\ Fetch!decodePage(body, v2).link \in {Empty, NextLink}
           /\ Route(path) = "people" =>
                  Fetch!decodePage(body, v2) =
                      [ok |-> TRUE,
                       items |-> IF v2 THEN << >> ELSE IF IsPage2(path.query) THEN LastTwo ELSE FirstTwo,
                       link |-> IF v2 \/ IsPage2(path.query) THEN Empty ELSE NextLink]
<1>1. /\ NextLink \in Fetch!Link /\ Empty \in Fetch!Link
      /\ FirstTwo \in Seq(Entities) /\ LastTwo \in Seq(Entities)
      /\ << >> \in Seq(Entities)
  BY NextLinkTyped, PeopleTyped
<1>2. <<Entry>> \in Seq(Entities)
  <2>1. Entry \in Entities
    BY DEF Entities
  <2>2. QED
    BY <2>1
<1>3. \/ Route(path) = "service" /\ body = V4(<<Entry>>, Empty)
      \/ Route(path) = "metadata" /\ body = [V4(<< >>, Empty) EXCEPT !.json = FALSE]
      \/ /\ Route(path) = "people"
         /\ body = V4(IF IsPage2(path.query) THEN LastTwo ELSE FirstTwo,
                      IF IsPage2(path.query) THEN Empty ELSE NextLink)
  <2>1. Route(path) \in {"service", "metadata", "people", "none"}
    BY DEF Route
  <2>2. QED
    BY <2>1 DEF Body, FirstTwo, LastTwo
<1> HIDE DEF NextLink
<1>4. CASE Route(path) = "people"
  <2> DEFINE values == IF IsPage2(path.query) THEN LastTwo ELSE FirstTwo
             following == IF IsPage2(path.query) THEN Empty ELSE NextLink
  <2>1. body = V4(values, following) /\ values \in Seq(Entities) /\ following \in Fetch!Link
    BY <1>1, <1>3, <1>4
  <2> HIDE DEF values, following
  <2>2. /\ body \in Fetch!Body
        /\ Fetch!decodePage(body, v2) =
               [ok |-> TRUE, items |-> IF v2 THEN << >> ELSE values,
                link |-> IF v2 THEN Empty ELSE following]
    BY <2>1, V4Typed
  <2>3. (IF v2 THEN Empty ELSE following)
            = IF v2 \/ IsPage2(path.query) THEN Empty ELSE NextLink
    BY DEF following
  <2>4. Fetch!decodePage(body, v2).link \in {Empty, NextLink}
    BY <2>2, <2>3
  <2>5. QED
    BY <1>4, <2>2, <2>3, <2>4 DEF values
<1>5. CASE Route(path) = "service"
  <2>1. body = V4(<<Entry>>, Empty)
    BY <1>3, <1>5
  <2>2. /\ body \in Fetch!Body
        /\ Fetch!decodePage(body, v2) =
               [ok |-> TRUE, items |-> IF v2 THEN << >> ELSE <<Entry>>,
                link |-> IF v2 THEN Empty ELSE Empty]
    BY <1>1, <1>2, <2>1, V4Typed
  <2>3. Fetch!decodePage(body, v2).link = Empty
    BY <2>2
  <2>4. QED
    BY <1>5, <2>2, <2>3
<1>6. CASE Route(path) = "metadata"
  <2>1. body = [V4(<< >>, Empty) EXCEPT !.json = FALSE] /\ body \in Fetch!Body
    BY <1>1, <1>3, <1>6, V4Typed
  <2>2. body.json = FALSE
    BY <2>1 DEF V4
  <2>3. Fetch!decodePage(body, v2).link = Empty
    BY <2>2 DEF Fetch!decodePage, Fetch!FitsV2Page, Fetch!Rejected
  <2>4. QED
    BY <1>6, <2>1, <2>3
<1>7. QED
  BY <1>3, <1>4, <1>5, <1>6

\* The mock is a service of the kind that PagingProofs is about.
LEMMA ServedTyped ==
    ASSUME base \in BOOLEAN, v2 \in BOOLEAN
    PROVE  Served \in [Fetch!URL -> SUBSET Fetch!Body]
<1>1. ASSUME NEW u \in Fetch!URL
      PROVE  (IF u.host = Mock THEN Body(u.path) ELSE {}) \in SUBSET Fetch!Body
  <2>1. u.path \in Place
    BY SameKinds
  <2>2. QED
    BY <2>1, Sends
<1>2. QED
  BY <1>1 DEF Served

(***************************************************************************)
(* The inductive invariant: that of the page loop, for a query; what was   *)
(* requested first; and, where a query goes to People of the mock or to    *)
(* nothing that it knows, how far it is, what it was sent so far and that  *)
(* the mock remembers its options.                                         *)
(***************************************************************************)
First == QueryURL(ask)

Kinds == ask \in Asks /\ base \in BOOLEAN /\ v2 \in BOOLEAN

Reading ==
    ask.fn = "query" =>
        /\ Read!IInv
        /\ pc # "start" => maxRows = Fetch!EffectiveMax(ask.max)
        /\ pc = "loop" => next \in Fetch!URL \cup {Empty}
        /\ pc = "get" => next \in Fetch!URL
        /\ pc = "collect" => link \in {Empty, NextLink}

FirstAsked ==
    /\ ~Absolute(ask.root) => asked = << >> /\ pc \in {"start", "failed"}
    /\ asked # << >> => asked[1] = IF ask.fn = "query" THEN First ELSE DocumentURL(ask)
    /\ IF ask.fn = "query"
       THEN /\ asked \in Seq(Fetch!URL \cup {Unparsable})
            /\ pc = "start" => asked = << >>
            /\ asked = << >> => /\ pc \in {"start", "loop", "failed"} /\ out = << >>
                                /\ pc = "loop" => next = First
       ELSE pc \in {"start", "done", "failed"} /\ (pc = "start" => asked = << >>)

ToPeople ==
    /\ ask.fn = "query" /\ Absolute(ask.root) /\ Given("page") = << >>
    /\ Route(First.path) \in {"people", "none"}

Reached == /\ First.host = Mock /\ Route(First.path) = "people"
           /\ lastQuery = First.path.query

AtFirst == next = First /\ sent = << >>
AtSecond == Reached /\ ~v2 /\ next = Page2 /\ sent = FirstTwo
AtEnd == Reached /\ next = Empty /\ sent = IF v2 THEN << >> ELSE People

Progress ==
    ToPeople =>
        /\ pc \in {"loop", "get"} => AtFirst \/ AtSecond \/ AtEnd
        /\ pc = "get" => next # Empty
        /\ pc = "collect" =>
              /\ Reached
              /\ \/ /\ next = First
                    /\ sent = IF v2 THEN << >> ELSE FirstTwo
                    /\ link = IF v2 THEN Empty ELSE NextLink
                 \/ ~v2 /\ next = Page2 /\ sent = People /\ link = Empty
        /\ pc = "done" => AtSecond \/ AtEnd
        /\ pc = "failed" => err = "get"

MInv == Kinds /\ Reading /\ FirstAsked /\ Progress

\* A query is sent to a URL, the set under the root, or to none if the root is none.
LEMMA QueryURLTyped ==
    ASSUME NEW a \in Asks
    PROVE  /\ a.max \in MaxRowsArg /\ a.root \in Root /\ a.set \in Seq(Name)
           /\ a.root.query \in Seq(Pair) /\ a.root.path \in Seq(Token)
           /\ ~Absolute(a.root) => QueryURL(a) = Unparsable
           /\ Absolute(a.root) =>
                 /\ QueryURL(a) \in Fetch!URL
                 /\ QueryURL(a).host = a.root.host
                 /\ QueryURL(a).path.segs = Joined(a.root, a.set)
                 /\ QueryURL(a).path.query =
                        applyQueryOptions(Query(a.root.query), optsFrom(a))
<1>1. a \in Ask
  BY AsksAssumption
<1>2. /\ a.max \in MaxRowsArg /\ a.root \in Root /\ a.set \in Seq(Name)
      /\ a.filter \in Seq(Token) /\ a.select \in Seq(Token)
      /\ a.orderby \in Seq(Token) /\ a.top \in Seq(Token)
  BY <1>1 DEF Ask
<1>3. a.root.query \in Seq(Pair) /\ a.root.path \in Seq(Token) /\ a.root.host \in Host
  BY <1>2 DEF Root
<1>4. Joined(a.root, a.set) \in Seq(Token)
  BY <1>2, JoinedWords
<1> DEFINE q == Query(a.root.query)
           opts == optsFrom(a)
           asSent == applyQueryOptions(q, opts)
<1>5. q \in Values
  BY <1>3, QueryTyped
<1>6. \A k \in Option : opts[k] \in Seq(Token)
  BY <1>2 DEF optsFrom, Option
<1>7. asSent \in Values
  <2> HIDE DEF q, opts
  <2>1. ASSUME NEW k \in Key
        PROVE  (IF k \in Option /\ opts[k] # << >> THEN WithSet(q[k], opts[k]) ELSE q[k])
               \in Seq(Seq(Token))
    <3>1. CASE k \in Option /\ opts[k] # << >>
      <4> DEFINE V == Seq(Token)
      <4>1. opts[k] \in V
        BY <1>6, <3>1
      <4> HIDE DEF V
      <4>2. <<opts[k]>> \in Seq(V)
        BY <4>1
      <4>3. QED
        BY <3>1, <4>2 DEF WithSet, V
    <3>2. CASE ~(k \in Option /\ opts[k] # << >>)
      BY <1>5, <3>2 DEF Values
    <3>3. QED
      BY <3>1, <3>2
  <2>2. QED
    BY <2>1 DEF applyQueryOptions, Values
<1>8. Absolute(a.root) =>
          QueryURL(a) = [host |-> a.root.host,
                         path |-> [segs |-> Joined(a.root, a.set), query |-> asSent]]
  BY DEF QueryURL, Requested
<1>9. ~Absolute(a.root) => QueryURL(a) = Unparsable
  BY DEF QueryURL
<1> HIDE DEF asSent
<1>10. Absolute(a.root) => /\ QueryURL(a) \in Fetch!URL
                           /\ QueryURL(a).host = a.root.host
                           /\ QueryURL(a).path.segs = Joined(a.root, a.set)
                           /\ QueryURL(a).path.query = asSent
  <2> DEFINE joined == Joined(a.root, a.set)
  <2> HIDE DEF joined
  <2>1. joined \in Seq(Token)
    BY <1>4 DEF joined
  <2>2. [host |-> a.root.host, path |-> [segs |-> joined, query |-> asSent]] \in Fetch!URL
    BY <1>3, <1>7, <2>1, SameKinds DEF Place
  <2>3. QED
    BY <1>8, <2>2 DEF joined
<1>11. QED
  BY <1>2, <1>3, <1>9, <1>10 DEF asSent

\* A query starts in it.
LEMMA InitMInv == Init => MInv
<1> SUFFICES ASSUME Init PROVE MInv
  OBVIOUS
<1>1. Kinds
  BY DEF Init, Kinds, Fetch!Init
<1>2. Read!Init
  BY <1>1, ServedTyped DEF Init, Fetch!Init, Read!Init, Kinds
<1>3. Reading
  BY <1>2, Read!InitIInv, ReadAssumed DEF Reading, Init, Fetch!Init
<1>4. FirstAsked
  BY DEF FirstAsked, Init, Fetch!Init
<1>5. Progress
  BY DEF Progress, Init, Fetch!Init
<1>6. QED
  BY <1>1, <1>3, <1>4, <1>5 DEF MInv

\* What each step leaves alone, and what a discovery does.
LEMMA Moves ==
    ASSUME Kinds, FirstAsked, [Next]_vars
    PROVE  /\ UNCHANGED <<ask, base>>
           /\ ask.fn = "query" => \/ StartQuery \/ Request \/ Handled \/ NotHandled \/ Loop
                                  \/ UNCHANGED vars
           /\ ask.fn # "query" =>
                 \/ UNCHANGED vars
                 \/ /\ pc = "start" /\ pc' \in {"done", "failed"} /\ UNCHANGED v2
                    /\ \/ ~Absolute(ask.root) /\ pc' = "failed" /\ asked' = asked
                       \/ Absolute(ask.root) /\ asked' = <<DocumentURL(ask)>>
<1>1. UNCHANGED <<ask, base>>
  BY DEF Next, StartQuery, Request, Handled, NotHandled, Loop, Discover, Terminated, vars
<1>2. CASE ask.fn = "query"
  BY <1>1, <1>2 DEF Next, Discover, Terminated
<1>3. CASE ask.fn # "query"
  <2>1. pc \in {"start", "done", "failed"}
    BY <1>3 DEF FirstAsked
  <2>2. ~(Request \/ Handled \/ NotHandled \/ Loop \/ StartQuery)
    BY <1>3, <2>1 DEF Request, Handled, NotHandled, Loop, StartQuery, Fetch!Request,
                      Fetch!GetFails, Fetch!Receive, Fetch!Return, Fetch!AppendRow,
                      Fetch!Advance
  <2>3. Discover \/ UNCHANGED vars
    BY <2>2 DEF Next, Terminated
  <2>4. QED
    BY <1>1, <1>3, <2>3 DEF Discover, DiscoverAt, Fetch!Fail, Requestable, Absolute
<1>4. QED
  BY <1>1, <1>2, <1>3

\* A request that the mock handles is answered as a service of Paging answers it.
LEMMA HandledIsServed ==
    ASSUME Kinds, Reading, ask.fn = "query", Handled
    PROVE  /\ pc = "get" /\ next \in Fetch!URL /\ next.host = Mock /\ next.path \in Place
           /\ \/ Fetch!GetFails /\ Read!GetFails
              \/ \E body \in Body(next.path) :
                    Fetch!Receive(body) /\ Read!Receive(body) /\ body \in Served[next]
<1>1. pc = "get" /\ next.host = Mock /\ UNCHANGED base /\ next \in Fetch!URL
  BY DEF Handled, Reading
<1>2. next.path \in Place
  BY <1>1, SameKinds
<1>3. Served[next] = Body(next.path)
  BY <1>1 DEF Served
<1>4. Fetch!GetFails \/ \E body \in Body(next.path) : Fetch!Receive(body)
  BY DEF Handled
<1>5. QED
  BY <1>1, <1>2, <1>3, <1>4, SameSteps

\* Every step of a query is one of the page loop.
LEMMA StepIsRead ==
    ASSUME Kinds, Reading, FirstAsked, ask.fn = "query", [Next]_vars
    PROVE  /\ Read!IInv'
           /\ v2' = v2
<1>1. UNCHANGED <<ask, base>>
  BY Moves
<1>2. Read!IInv
  BY DEF Reading
<1>3. CASE StartQuery
  <2>1. Fetch!Start(ask.max, First)
    BY <1>3 DEF StartQuery, MaxFrom, First
  <2>2. Read!Start(ask.max, First)
    BY <1>1, <2>1, SameSteps
  <2>3. ask.max \in MaxRowsArg /\ First \in Read!URL \cup {Unparsable}
    BY QueryURLTyped, SameKinds DEF Kinds, First
  <2>4. Read!IInv'
    BY <1>2, <2>2, <2>3, ReadAssumed, Read!StartStep
  <2>5. QED
    BY <2>1, <2>4 DEF Fetch!Start
<1>4. ASSUME Read!Step \/ UNCHANGED Read!vars PROVE Read!IInv'
  BY <1>2, <1>4, ReadAssumed, Read!IInvStep DEF Read!Next
<1>5. CASE Request \/ NotHandled \/ Loop
  <2>1. Read!Request \/ Read!GetFails \/ Read!Return \/ Read!AppendRow \/ Read!Advance
    BY <1>1, <1>5, SameSteps DEF Request, NotHandled, Loop
  <2>2. v2' = v2
    BY <2>1 DEF Read!Request, Read!GetFails, Read!Return, Read!AppendRow, Read!Advance
  <2>3. QED
    BY <1>4, <2>1, <2>2 DEF Read!Step
<1>6. CASE Handled
  <2>1. Read!GetFails \/ (next \in Read!URL /\ \E body \in Served[next] : Read!Receive(body))
    BY <1>6, HandledIsServed, SameKinds
  <2>2. v2' = v2
    BY <2>1 DEF Read!GetFails, Read!Receive
  <2>3. QED
    BY <1>4, <2>1, <2>2 DEF Read!Step, Read!ReceivePage
<1>7. CASE UNCHANGED vars
  <2>1. Served' = Served
    BY <1>1 DEF Served, Body, NextLink
  <2>2. UNCHANGED Read!vars /\ v2' = v2
    BY <1>7, <2>1 DEF vars, fetchVars, Read!vars
  <2>3. QED
    BY <1>4, <2>2
<1>8. QED
  BY <1>3, <1>5, <1>6, <1>7, Moves

\* So it keeps the invariant of the page loop, and never comes to a link that does
\* not parse.
LEMMA ReadingStep ==
    ASSUME Kinds, Reading, FirstAsked, [Next]_vars
    PROVE  Kinds' /\ Reading'
<1>1. UNCHANGED <<ask, base>>
  BY Moves
<1>2. CASE ask.fn # "query"
  BY <1>1, <1>2, Moves DEF Kinds, Reading, vars, fetchVars
<1>3. CASE ask.fn = "query"
  <2>1. Read!IInv' /\ v2' = v2
    BY <1>3, StepIsRead
  <2>2. NextLink' = NextLink
    BY <1>1 DEF NextLink
  <2> HIDE DEF NextLink
  <2>4. CASE StartQuery
    <3>1. Fetch!Start(ask.max, First)
      BY <2>4 DEF StartQuery, MaxFrom, First
    <3>2. First \in Fetch!URL \cup {Unparsable}
      BY QueryURLTyped DEF Kinds, First
    <3>3. QED
      BY <1>1, <2>1, <3>1, <3>2 DEF Fetch!Start, Fetch!Fail, Reading, Kinds
  <2>5. CASE Request
    BY <1>1, <1>3, <2>1, <2>2, <2>5 DEF Request, Fetch!Request, Fetch!More, Reading, Kinds
  <2>6. CASE NotHandled
    BY <1>1, <1>3, <2>1, <2>2, <2>6 DEF NotHandled, Fetch!GetFails, Fetch!Fail, Reading, Kinds
  <2>7. CASE Handled
    <3>1. CASE Fetch!GetFails
      BY <1>1, <1>3, <2>1, <2>2, <3>1 DEF Fetch!GetFails, Fetch!Fail, Reading, Kinds
    <3>2. CASE ~Fetch!GetFails
      <4>1. PICK body \in Body(next.path) : Fetch!Receive(body)
        BY <1>3, <2>7, <3>2, HandledIsServed
      <4>2. Fetch!decodePage(body, v2).link \in {Empty, NextLink}
        BY <1>3, <2>7, HandledIsServed, Sends DEF Kinds
      <4>3. QED
        BY <1>1, <1>3, <2>1, <2>2, <4>1, <4>2 DEF Fetch!Receive, Fetch!Fail, Reading, Kinds
    <3>3. QED
      BY <3>1, <3>2
  <2>8. CASE Loop
    <3>1. CASE Fetch!Return
      BY <1>1, <1>3, <2>1, <2>2, <3>1 DEF Fetch!Return, Reading, Kinds
    <3>2. CASE Fetch!AppendRow
      BY <1>1, <1>3, <2>1, <2>2, <3>2 DEF Fetch!AppendRow, Reading, Kinds
    <3>3. CASE Fetch!Advance
      <4>1. next \in Fetch!URL /\ link \in {Empty, NextLink}
        BY <1>3, <3>3, SameKinds DEF Fetch!Advance, Reading, Read!IInv, Read!Position
      <4>2. Fetch!resolveNext(next, link) \in Fetch!URL \cup {Empty}
        BY <4>1, NextLinkTyped DEF Kinds
      <4>3. QED
        BY <1>1, <1>3, <2>1, <2>2, <3>3, <4>2 DEF Fetch!Advance, Reading, Kinds
    <3>4. QED
      BY <2>8, <3>1, <3>2, <3>3 DEF Loop
  <2>9. CASE UNCHANGED vars
    BY <1>1, <1>3, <2>1, <2>2, <2>9 DEF vars, fetchVars, Reading, Kinds
  <2>10. QED
    BY <1>3, <2>4, <2>5, <2>6, <2>7, <2>8, <2>9, Moves
<1>4. QED
  BY <1>2, <1>3

\* Until a first row there is room for one: the page loop asks for a first page.
LEMMA AsksForFirst ==
    ASSUME Kinds, Reading, ask.fn = "query", pc # "start", out = << >>,
           next \in Fetch!URL
    PROVE  Fetch!More
<1>1. maxRows = Fetch!EffectiveMax(ask.max) /\ ask.max \in MaxRowsArg
  BY QueryURLTyped DEF Reading, Kinds
<1>2. maxRows \in Nat \ {0}
  BY <1>1, ReadAssumed DEF Fetch!EffectiveMax
<1>3. next # Empty
  BY StringsAssumption
<1>4. Len(out) = 0
  OBVIOUS
<1>5. QED
  BY <1>2, <1>3, <1>4 DEF Fetch!More

\* The first request is the one that the arguments make, and there is none without
\* an absolute service_url.
LEMMA FirstAskedStep ==
    ASSUME Kinds, Reading, FirstAsked, [Next]_vars
    PROVE  FirstAsked'
<1>1. UNCHANGED <<ask, base>>
  BY Moves
<1>2. First' = First /\ DocumentURL(ask)' = DocumentURL(ask)
      /\ (Absolute(ask.root)' <=> Absolute(ask.root))
  BY <1>1 DEF First
<1> HIDE DEF First, DocumentURL, Absolute
<1>3. CASE ask.fn # "query"
  <2>1. CASE UNCHANGED vars
    BY <1>1, <1>2, <1>3, <2>1 DEF vars, fetchVars, FirstAsked
  <2>2. CASE pc = "start" /\ pc' = "failed" /\ ~Absolute(ask.root) /\ asked' = asked
    BY <1>1, <1>2, <1>3, <2>2 DEF FirstAsked
  <2>3. CASE /\ pc = "start" /\ pc' \in {"done", "failed"}
             /\ Absolute(ask.root) /\ asked' = <<DocumentURL(ask)>>
    <3>1. asked'[1] = DocumentURL(ask)
      BY <2>3
    <3>2. QED
      BY <1>1, <1>2, <1>3, <2>3, <3>1 DEF FirstAsked
  <2>4. QED
    BY <1>3, <2>1, <2>2, <2>3, Moves
<1>4. CASE ask.fn = "query"
  <2>1. /\ First \in Fetch!URL \cup {Unparsable}
        /\ ~Absolute(ask.root) <=> First = Unparsable
    BY QueryURLTyped, StringsAssumption DEF Kinds, First
  <2>2. CASE StartQuery
    <3>1. Fetch!Start(ask.max, First) /\ asked' = asked
      BY <2>2 DEF StartQuery, MaxFrom, First
    <3>2. pc = "start" /\ asked = << >> /\ out = << >> /\ out' = out
      BY <1>4, <3>1 DEF Fetch!Start, FirstAsked
    <3>3. QED
      BY <1>1, <1>2, <1>4, <2>1, <3>1, <3>2 DEF Fetch!Start, Fetch!Fail, FirstAsked
  <2>3. CASE Request
    <3>1. pc = "loop" /\ pc' = "get" /\ asked' = Append(asked, next) /\ next \in Fetch!URL
      BY <1>4, <2>3 DEF Request, Fetch!Request, Fetch!More, Reading
    <3>2. asked \in Seq(Fetch!URL \cup {Unparsable}) /\ Absolute(ask.root)
      BY <1>4, <3>1 DEF FirstAsked
    <3>3. /\ asked' \in Seq(Fetch!URL \cup {Unparsable}) /\ asked' # << >>
          /\ asked'[1] = IF asked = << >> THEN next ELSE asked[1]
      <4> DEFINE U == Fetch!URL \cup {Unparsable}
      <4>1. asked \in Seq(U) /\ next \in U
        BY <3>1, <3>2
      <4> HIDE DEF U
      <4>2. /\ asked' \in Seq(U) /\ asked' # << >>
            /\ \A i \in 1 .. Len(asked) : asked'[i] = asked[i]
            /\ asked'[Len(asked) + 1] = next
        BY <3>1, <4>1, AppendProperties
      <4>3. CASE asked = << >>
        <5>1. Len(asked) + 1 = 1
          BY <4>3
        <5>2. QED
          BY <4>2, <4>3, <5>1 DEF U
      <4>4. CASE asked # << >>
        <5>1. 1 \in 1 .. Len(asked)
          BY <4>1, <4>4, EmptySeq
        <5>2. QED
          BY <4>2, <4>4, <5>1 DEF U
      <4>5. QED
        BY <4>3, <4>4
    <3>4. asked'[1] = First
      BY <1>4, <3>1, <3>3 DEF FirstAsked
    <3>5. QED
      BY <1>1, <1>2, <1>4, <3>1, <3>2, <3>3, <3>4 DEF FirstAsked
  <2>4. CASE Handled \/ NotHandled
    <3>1. /\ pc = "get" /\ asked' = asked /\ pc' \in {"collect", "failed"}
      BY <2>4 DEF Handled, NotHandled, Fetch!GetFails, Fetch!Receive, Fetch!Fail
    <3>2. asked # << >> /\ Absolute(ask.root)
      BY <1>4, <3>1 DEF FirstAsked
    <3>3. QED
      BY <1>1, <1>2, <1>4, <3>1, <3>2 DEF FirstAsked
  <2>5. CASE Loop
    <3>1. asked' = asked
      BY <2>5 DEF Loop
    <3>2. CASE asked # << >>
      <4>1. Absolute(ask.root) /\ pc # "start" /\ pc' # "start"
        BY <1>4, <2>5, <3>2 DEF FirstAsked, Loop, Fetch!Return, Fetch!AppendRow, Fetch!Advance
      <4>2. QED
        BY <1>1, <1>2, <1>4, <3>1, <3>2, <4>1 DEF FirstAsked
    <3>3. CASE asked = << >>
      <4>1. pc = "loop" /\ next = First /\ out = << >> /\ Fetch!Return
        BY <1>4, <2>5, <3>3 DEF FirstAsked, Loop, Fetch!Return, Fetch!AppendRow, Fetch!Advance
      <4>2. next \in Fetch!URL
        BY <1>4, <2>1, <4>1 DEF FirstAsked
      <4>3. Fetch!More
        BY <1>4, <4>1, <4>2, AsksForFirst
      <4>4. QED
        BY <4>1, <4>3 DEF Fetch!Return
    <3>4. QED
      BY <3>2, <3>3
  <2>6. CASE UNCHANGED vars
    BY <1>1, <1>2, <1>4, <2>6 DEF vars, fetchVars, FirstAsked
  <2>7. QED
    BY <1>4, <2>2, <2>3, <2>4, <2>5, <2>6, Moves
<1>5. QED
  BY <1>3, <1>4

\* What the root's own query has for a key is what the root gives for it.
LEMMA QueryIsGiven ==
    ASSUME NEW k \in Key, ask.root.query \in Seq(Pair)
    PROVE  Query(ask.root.query)[k] = Given(k)
<1>1. DOMAIN ask.root.query = 1 .. Len(ask.root.query)
  BY LenProperties
<1>2. \A i \in 1 .. Len(ask.root.query) :
          ask.root.query[i] \in NotOf(k)
             <=> ~(ask.root.query[i].ok /\ ask.root.query[i].key = k)
  BY <1>1 DEF NotOf
<1>3. Query(ask.root.query)[k] = ValuesOf(Without(ask.root.query, NotOf(k)))
  BY <1>2, QueryGives
<1>4. QED
  BY <1>3 DEF ValuesOf, Given

\* Where a query goes to People, or to nothing, its first URL is not that of the second
\* page; and only the first page's request is recorded.
LEMMA ToPeopleFirst ==
    ASSUME Kinds, ToPeople
    PROVE  /\ First \in Fetch!URL /\ First # Empty /\ First.path \in Place
           /\ ~IsPage2(First.path.query)
<1>1. First \in Fetch!URL
      /\ First.path.query = applyQueryOptions(Query(ask.root.query), optsFrom(ask))
      /\ ask.root.query \in Seq(Pair)
  BY QueryURLTyped DEF Kinds, ToPeople, First
<1>2. First # Empty
  BY <1>1, StringsAssumption
<1>3. First.path \in Place
  BY <1>1, SameKinds
<1>4. "page" \in Key /\ "page" \notin Option
  BY MockAssumption DEF Key, Option
<1>5. Query(ask.root.query)["page"] = << >>
  <2>1. Query(ask.root.query)["page"] = Given("page")
    BY <1>1, <1>4, QueryIsGiven
  <2>2. QED
    BY <2>1 DEF ToPeople
<1>6. First.path.query["page"] = << >>
  BY <1>1, <1>4, <1>5 DEF applyQueryOptions
<1>7. QED
  BY <1>1, <1>2, <1>3, <1>6 DEF IsPage2

\* What it is sent.
LEMMA PageReceived ==
    ASSUME Kinds, Reading, Progress, ToPeople, Handled, ~Fetch!GetFails
    PROVE  /\ pc = "get" /\ pc' = "collect" /\ UNCHANGED <<next, v2, err>>
           /\ \/ /\ next = First /\ First.host = Mock /\ Route(First.path) = "people"
                 /\ lastQuery' = First.path.query
                 /\ sent' = IF v2 THEN << >> ELSE FirstTwo
                 /\ link' = IF v2 THEN Empty ELSE NextLink
              \/ /\ AtSecond /\ lastQuery' = lastQuery
                 /\ sent' = People /\ link' = Empty
<1>1. ask.fn = "query"
  BY DEF ToPeople
<1>2. /\ pc = "get" /\ next \in Fetch!URL /\ next.host = Mock /\ next.path \in Place
  BY <1>1, HandledIsServed
<1>3. PICK body \in Body(next.path) : Fetch!Receive(body)
  BY <1>1, HandledIsServed
<1>4. lastQuery' = IF Records(next.path) THEN next.path.query ELSE lastQuery
  BY DEF Handled, Record
<1> DEFINE decoded == Fetch!decodePage(body, v2)
<1>5. /\ Route(next.path) # "none"
      /\ Route(next.path) = "people" =>
            decoded = [ok |-> TRUE,
                       items |-> IF v2 THEN << >>
                                 ELSE IF IsPage2(next.path.query) THEN LastTwo ELSE FirstTwo,
                       link |-> IF v2 \/ IsPage2(next.path.query) THEN Empty ELSE NextLink]
  BY <1>2, Sends DEF Kinds
<1> HIDE DEF decoded
<1>6. decoded.ok => /\ pc' = "collect" /\ UNCHANGED <<next, v2, err>>
                    /\ link' = decoded.link /\ sent' = sent \o decoded.items
  BY <1>3 DEF Fetch!Receive, decoded
<1>7. AtFirst \/ AtSecond
  BY <1>2, StringsAssumption DEF Progress, AtEnd
<1>8. CASE AtFirst
  <2>1. next = First /\ sent = << >> /\ ~IsPage2(First.path.query)
    BY <1>8, ToPeopleFirst DEF AtFirst
  <2>2. Route(First.path) = "people"
    BY <1>5, <2>1 DEF ToPeople
  <2>3. /\ decoded.ok /\ decoded.items = IF v2 THEN << >> ELSE FirstTwo
        /\ decoded.link = IF v2 THEN Empty ELSE NextLink
    BY <1>5, <2>1, <2>2
  <2>4. sent' = decoded.items
    <3>1. decoded.items \in Seq(Entities)
      BY <2>3, PeopleTyped
    <3>2. << >> \o decoded.items = decoded.items
      BY <3>1, ConcatEmptySeq
    <3>3. QED
      BY <1>6, <2>1, <2>3, <3>2
  <2>5. lastQuery' = First.path.query
    BY <1>4, <2>1, <2>2 DEF Records
  <2>6. QED
    BY <1>2, <1>6, <2>1, <2>2, <2>3, <2>4, <2>5
<1>9. CASE AtSecond
  <2>1. next = Page2 /\ ~v2 /\ sent = FirstTwo
    BY <1>9 DEF AtSecond
  <2>2. Route(next.path) = "people" /\ IsPage2(next.path.query)
    BY <2>1, SecondPage
  <2>3. decoded.ok /\ decoded.items = LastTwo /\ decoded.link = Empty
    BY <1>5, <2>1, <2>2
  <2>4. sent' = People
    BY <1>6, <2>1, <2>3, PeopleTyped
  <2>5. lastQuery' = lastQuery
    BY <1>4, <2>2 DEF Records
  <2>6. QED
    BY <1>2, <1>6, <1>9, <2>3, <2>4, <2>5
<1>10. QED
  BY <1>7, <1>8, <1>9

\* Every step of such a query takes it as far as Progress says.
LEMMA ProgressStep ==
    ASSUME MInv, [Next]_vars
    PROVE  Progress'
<1> SUFFICES ASSUME ToPeople' PROVE Progress'
  BY DEF Progress
<1> USE DEF MInv
<1>1. UNCHANGED <<ask, base>>
  BY Moves
<1>2. First' = First /\ NextLink' = NextLink
  BY <1>1 DEF First, NextLink
<1>3. ToPeople /\ ask.fn = "query"
  BY <1>1, <1>2 DEF ToPeople, Given, NotOf
<1>4. First \in Fetch!URL /\ First # Empty
  BY <1>3, ToPeopleFirst
<1>5. v2' = v2
  BY <1>3, StepIsRead
<1> HIDE DEF First, NextLink
<1>6. Reached /\ lastQuery' = lastQuery => Reached'
  BY <1>2 DEF Reached
<1>7. ASSUME UNCHANGED <<next, sent, lastQuery>>
      PROVE  /\ AtFirst => AtFirst'
             /\ AtSecond => AtSecond'
             /\ AtEnd => AtEnd'
  BY <1>2, <1>5, <1>6, <1>7 DEF AtFirst, AtSecond, AtEnd
<1>8. CASE StartQuery
  <2>1. Fetch!Start(ask.max, First) /\ lastQuery' = lastQuery
    BY <1>8 DEF StartQuery, MaxFrom, First
  <2>2. sent = << >>
    BY <1>3, <2>1 DEF Fetch!Start, Reading, Read!IInv, Read!Position
  <2>3. pc' = "loop" /\ next' = First /\ sent' = << >>
    BY <1>4, <2>1, <2>2, StringsAssumption DEF Fetch!Start
  <2>4. AtFirst'
    BY <1>2, <2>3 DEF AtFirst
  <2>5. QED
    BY <2>3, <2>4 DEF Progress
<1>9. CASE Request
  <2>1. /\ pc = "loop" /\ pc' = "get" /\ next # Empty
        /\ UNCHANGED <<next, sent, lastQuery>>
    BY <1>9 DEF Request, Fetch!Request, Fetch!More
  <2>2. AtFirst' \/ AtSecond' \/ AtEnd'
    BY <1>3, <1>7, <2>1 DEF Progress
  <2>3. QED
    BY <2>1, <2>2 DEF Progress
<1>10. CASE NotHandled \/ (Handled /\ Fetch!GetFails)
  BY <1>10 DEF NotHandled, Fetch!GetFails, Fetch!Fail, Progress
<1>11. CASE Handled /\ ~Fetch!GetFails
  <2>1. /\ pc' = "collect" /\ next' = next
        /\ \/ /\ next = First /\ First.host = Mock /\ Route(First.path) = "people"
              /\ lastQuery' = First.path.query
              /\ sent' = IF v2 THEN << >> ELSE FirstTwo
              /\ link' = IF v2 THEN Empty ELSE NextLink
           \/ /\ AtSecond /\ lastQuery' = lastQuery
              /\ sent' = People /\ link' = Empty
    BY <1>3, <1>11, PageReceived
  <2>2. CASE /\ next = First /\ First.host = Mock /\ Route(First.path) = "people"
             /\ lastQuery' = First.path.query
             /\ sent' = IF v2 THEN << >> ELSE FirstTwo
             /\ link' = IF v2 THEN Empty ELSE NextLink
    BY <1>2, <1>5, <2>1, <2>2 DEF Progress, Reached
  <2>3. CASE AtSecond /\ lastQuery' = lastQuery /\ sent' = People /\ link' = Empty
    BY <1>2, <1>5, <1>6, <2>1, <2>3 DEF Progress, AtSecond
  <2>4. QED
    BY <2>1, <2>2, <2>3
<1>12. CASE Loop
  <2>1. lastQuery' = lastQuery
    BY <1>12 DEF Loop
  <2>2. CASE Fetch!Return
    <3>1. /\ pc = "loop" /\ pc' = "done" /\ ~Fetch!More
          /\ UNCHANGED <<next, sent, lastQuery>>
      BY <2>1, <2>2 DEF Fetch!Return
    <3>2. ~AtFirst
      <4>1. ASSUME AtFirst PROVE FALSE
        <5>1. next = First /\ sent = << >>
          BY <4>1 DEF AtFirst
        <5>2. out \in Seq(Read!Row) /\ Len(out) <= Len(sent)
          BY <1>3 DEF Reading, Read!IInv, Read!TypeOK, Read!RowsInOrder, Read!Numbered
        <5>3. out = << >>
          <6>1. Len(sent) = 0
            BY <5>1
          <6>2. QED
            BY <5>2, <6>1, EmptySeq
        <5>4. Fetch!More
          BY <1>3, <1>4, <3>1, <5>1, <5>3, AsksForFirst
        <5>5. QED
          BY <3>1, <5>4
      <4>2. QED
        BY <4>1
    <3>3. AtSecond' \/ AtEnd'
      BY <1>3, <1>7, <3>1, <3>2 DEF Progress
    <3>4. QED
      BY <3>1, <3>3 DEF Progress
  <2>3. CASE Fetch!AppendRow
    <3>1. pc = "collect" /\ pc' = "collect" /\ UNCHANGED <<next, sent, link>>
      BY <2>3 DEF Fetch!AppendRow
    <3>2. QED
      BY <1>2, <1>3, <1>5, <1>6, <2>1, <3>1 DEF Progress
  <2>4. CASE Fetch!Advance
    <3>1. /\ pc = "collect" /\ pc' = "loop" /\ sent' = sent
          /\ next' = Fetch!resolveNext(next, link)
      BY <2>4 DEF Fetch!Advance
    <3>2. Reached /\ Reached'
      BY <1>3, <1>6, <2>1, <3>1 DEF Progress
    <3>3. CASE ~v2 /\ next = First /\ sent = FirstTwo /\ link = NextLink
      <4>1. next' = Page2
        BY <1>4, <3>1, <3>2, <3>3, NextLinkTyped DEF Kinds, Reached
      <4>2. AtSecond'
        BY <1>5, <3>1, <3>2, <3>3, <4>1 DEF AtSecond
      <4>3. QED
        BY <3>1, <4>2 DEF Progress
    <3>4. CASE v2 /\ next = First /\ sent = << >> /\ link = Empty
      <4>1. next' = Empty
        BY <1>4, <3>1, <3>4, NextLinkTyped DEF Kinds
      <4>2. AtEnd'
        BY <1>5, <3>1, <3>2, <3>4, <4>1 DEF AtEnd
      <4>3. QED
        BY <3>1, <4>2 DEF Progress
    <3>5. CASE ~v2 /\ next = Page2 /\ sent = People /\ link = Empty
      <4>1. next' = Empty
        BY <3>1, <3>5, SecondPage, NextLinkTyped DEF Kinds
      <4>2. AtEnd'
        BY <1>5, <3>1, <3>2, <3>5, <4>1 DEF AtEnd
      <4>3. QED
        BY <3>1, <4>2 DEF Progress
    <3>6. v2 \in BOOLEAN
      BY DEF Kinds
    <3>7. QED
      BY <1>3, <3>1, <3>3, <3>4, <3>5, <3>6 DEF Progress
  <2>5. QED
    BY <1>12, <2>2, <2>3, <2>4 DEF Loop
<1>13. CASE UNCHANGED vars
  <2>1. UNCHANGED <<pc, err, next, sent, link, lastQuery>>
    BY <1>13 DEF vars, fetchVars
  <2>2. QED
    BY <1>2, <1>3, <1>5, <1>6, <1>7, <2>1 DEF Progress
<1>14. QED
  BY <1>3, <1>8, <1>9, <1>10, <1>11, <1>12, <1>13, Moves

\* Every step keeps the invariant, so it holds throughout.
LEMMA MInvStep == MInv /\ [Next]_vars => MInv'
  BY ReadingStep, FirstAskedStep, ProgressStep DEF MInv

\* MInv holds in every state of a call.
LEMMA MInvHolds == Spec => []MInv
<1>1. QED
  BY InitMInv, MInvStep, PTL DEF Spec

(***************************************************************************)
(* The properties                                                          *)
(***************************************************************************)
\* Without an absolute service_url nothing is ever sent (client.go, joinURL, and the
\* parse that Metadata and EntitySets begin with).
THEOREM NothingSentToBadRoot == Spec => []BadRootSendsNothing
<1>1. MInv => BadRootSendsNothing
  BY DEF MInv, FirstAsked, BadRootSendsNothing, Absolute
<1>2. QED
  BY <1>1, MInvHolds, PTL

\* $metadata is a word of its own.
LEMMA MetadataWord == Words(<<"$metadata">>) = <<"$metadata">>
<1> DEFINE s == <<"$metadata">>
           slashes == {"/", "%2F"}
<1>1. s \in Seq(Token) /\ Len(s) = 1 /\ s[1] = "$metadata"
  BY DEF Token
<1> HIDE DEF s
<1>2. PICK f : Keeps(f, Token, s, slashes) /\ Without(s, slashes) = f[1]
  <2>1. \E f : Keeps(f, Token, s, slashes) /\ Without(s, slashes) = f[Len(s)]
    BY <1>1, WithoutDefined
  <2>2. QED
    BY <1>1, <2>1
<1>3. f[1] = IF s[1] \in slashes THEN f[1 - 1] ELSE Append(f[1 - 1], s[1])
  BY <1>1, <1>2 DEF Keeps
<1>4. f[1] = Append(<< >>, "$metadata")
  BY <1>1, <1>2, <1>3 DEF Keeps
<1>5. Append(<< >>, "$metadata") = <<"$metadata">>
  OBVIOUS
<1>6. QED
  BY <1>2, <1>4, <1>5 DEF s, Words

\* The path that Metadata appends, as one sequence.
LEMMA SlashMetadata == <<"/">> \o <<"$metadata">> = <<"/", "$metadata">>
<1> DEFINE s == <<"/">>
           t == <<"$metadata">>
           both == <<"/", "$metadata">>
<1>1. /\ s \in Seq(Token) /\ Len(s) = 1 /\ s[1] = "/"
      /\ t \in Seq(Token) /\ Len(t) = 1 /\ t[1] = "$metadata"
      /\ both \in Seq(Token) /\ Len(both) = 2 /\ both[1] = "/" /\ both[2] = "$metadata"
  BY DEF Token
<1> HIDE DEF s, t, both
<1>2. /\ s \o t \in Seq(Token) /\ Len(s \o t) = Len(s) + Len(t)
      /\ \A i \in 1 .. Len(s) + Len(t) : (s \o t)[i] = IF i <= Len(s) THEN s[i] ELSE t[i - Len(s)]
  BY <1>1, ConcatProperties
<1>3. \A i \in 1 .. 2 : (s \o t)[i] = both[i]
  BY <1>1, <1>2
<1>4. s \o t = both
  BY <1>1, <1>2, <1>3, SeqEqual
<1>5. QED
  BY <1>4 DEF s, t, both

\* The first request of any call is under the service root, whatever slashes, escaped
\* or not, end the root or begin the set (client.go, joinURL and Metadata).
THEOREM RequestsUnderRoot == Spec => []UnderRoot
<1>1. MInv => UnderRoot
  <2> SUFFICES ASSUME MInv, asked # << >>,
                      ask.fn = "metadata" => ask.root.query = << >>
               PROVE  /\ asked[1].host = ask.root.host
                      /\ LET path == asked[1].path.segs
                             seen == IF ask.fn = "query" THEN Decoded(path) ELSE path
                         IN  IF ask.fn = "sets" THEN path = ask.root.path
                             ELSE \E n \in DOMAIN seen : Seam(seen, n)
    BY DEF UnderRoot
  <2>1. /\ ask \in Asks /\ ask.fn \in {"query", "sets", "metadata"}
        /\ Absolute(ask.root) /\ ask.root \in Root
        /\ ask.root.path \in Seq(Token) /\ ask.set \in Seq(Name)
    BY AsksAssumption, QueryURLTyped DEF MInv, Kinds, FirstAsked, Ask
  <2>2. CASE ask.fn = "query"
    <3>1. asked[1] = QueryURL(ask)
      BY <2>2 DEF MInv, FirstAsked, First
    <3>2. asked[1].host = ask.root.host /\ asked[1].path.segs = Joined(ask.root, ask.set)
      BY <2>1, <3>1, QueryURLTyped
    <3> DEFINE head == TrimRight(Decoded(ask.root.path))
               rest == TrimLeft(ask.set)
               seen == Decoded(Joined(ask.root, ask.set))
    <3>3. /\ Joins(seen, head, rest)
          /\ Words(head) = Words(ask.root.path) /\ Words(rest) = Words(ask.set)
          /\ head # << >> => head[Len(head)] # "/"
          /\ rest # << >> => rest[1] # "/"
      BY <2>1, JoinedWords
    <3>4. Target(ask) = Words(ask.set)
      BY <2>2 DEF Target
    <3> HIDE DEF head, rest, seen
    <3>5. \E n \in DOMAIN seen : Seam(seen, n)
      BY <3>3, <3>4, SeamFound
    <3>6. QED
      BY <2>2, <3>2, <3>5 DEF seen
  <2>3. CASE ask.fn = "metadata"
    <3> DEFINE head == TrimRight(ask.root.path)
               rest == <<"$metadata">>
               path == head \o <<"/", "$metadata">>
    <3>1. asked[1] = Requested(ask.root.host, path, Query(ask.root.query))
      BY <2>3 DEF MInv, FirstAsked, DocumentURL, metaURL
    <3>2. asked[1].host = ask.root.host /\ asked[1].path.segs = path
      BY <3>1 DEF Requested
    <3>3. /\ head \in Seq(Token) /\ Words(head) = Words(ask.root.path)
          /\ head # << >> => head[Len(head)] # "/"
      BY <2>1, TrimRightWords
    <3>4. rest \in Seq(Token) /\ rest[1] = "$metadata" /\ Words(rest) = Target(ask)
      BY <2>3, MetadataWord DEF Token, Target
    <3>5. Joins(head \o <<"/">> \o rest, head, rest)
      <4> HIDE DEF head, rest
      <4>1. QED
        BY <3>3, <3>4, Concatenated
    <3>6. head \o <<"/">> \o rest = path
      <4>1. <<"/">> \in Seq(Token) /\ rest \in Seq(Token)
        BY DEF Token
      <4>2. <<"/">> \o rest = <<"/", "$metadata">>
        BY SlashMetadata
      <4> HIDE DEF head, rest
      <4>3. (head \o <<"/">>) \o rest = head \o (<<"/">> \o rest)
        BY <3>3, <4>1, ConcatAssociative
      <4>4. QED
        BY <4>2, <4>3
    <3> HIDE DEF head, rest, path
    <3>7. \E n \in DOMAIN path : Seam(path, n)
      BY <3>3, <3>4, <3>5, <3>6, SeamFound
    <3>8. QED
      BY <2>3, <3>2, <3>7
  <2>4. CASE ask.fn = "sets"
    BY <2>4 DEF MInv, FirstAsked, DocumentURL, Requested
  <2>5. QED
    BY <2>1, <2>2, <2>3, <2>4
<1>2. QED
  BY <1>1, MInvHolds, PTL

\* A query that succeeded was sent what it asked for.
LEMMA DoneReached ==
    ASSUME MInv, ask.fn = "query", pc = "done"
    PROVE  Absolute(ask.root) /\ asked[1] = First
  BY DEF MInv, FirstAsked

\* The mock's record of the first page's request holds the options of the call and the
\* root's own parameters, after all pages (server.go, LastQuery; client.go,
\* applyQueryOptions).
THEOREM OptionsPassThrough == Spec => []PassThrough
<1>1. MInv => PassThrough
  <2> SUFFICES ASSUME MInv, ask.fn = "query", pc = "done",
                      Route(asked[1].path) = "people", Given("page") = << >>
               PROVE  /\ Holds("$filter", ask.filter) /\ Holds("$select", ask.select)
                      /\ Holds("$orderby", ask.orderby) /\ Holds("$top", ask.top)
                      /\ \A k \in Key \ Option : Holds(k, << >>)
    BY DEF PassThrough
  <2>1. Absolute(ask.root) /\ asked[1] = First
    BY DoneReached
  <2>2. ToPeople
    BY <2>1 DEF ToPeople
  <2>3. lastQuery = First.path.query
    BY <2>2 DEF MInv, Progress, AtSecond, AtEnd, Reached
  <2> DEFINE q == Query(ask.root.query)
             opts == optsFrom(ask)
  <2>4. lastQuery = applyQueryOptions(q, opts) /\ ask.root.query \in Seq(Pair)
    BY <2>1, <2>3, QueryURLTyped DEF MInv, Kinds, First
  <2>5. \A k \in Key : Given(k) = q[k]
    BY <2>4, QueryIsGiven
  <2>6. /\ opts["$filter"] = ask.filter /\ opts["$select"] = ask.select
        /\ opts["$orderby"] = ask.orderby /\ opts["$top"] = ask.top
    BY DEF optsFrom, Option
  <2> HIDE DEF q, opts
  <2>7. \A k \in Key : lastQuery[k] =
            IF k \in Option /\ opts[k] # << >> THEN <<opts[k]>> ELSE q[k]
    BY <2>4 DEF applyQueryOptions, WithSet
  <2>8. ASSUME NEW k \in Option PROVE Holds(k, opts[k])
    <3>1. k \in Key
      BY DEF Key
    <3>2. lastQuery[k] = IF opts[k] # << >> THEN <<opts[k]>> ELSE q[k]
      BY <2>7, <3>1
    <3>3. Given(k) = q[k]
      BY <2>5, <3>1
    <3>4. QED
      BY <3>2, <3>3 DEF Holds
  <2>9. ASSUME NEW k \in Key \ Option PROVE Holds(k, << >>)
    <3>1. lastQuery[k] = q[k]
      BY <2>7
    <3>2. Given(k) = q[k]
      BY <2>5
    <3>3. QED
      BY <3>1, <3>2 DEF Holds
  <2>10. {"$filter", "$select", "$orderby", "$top"} = Option
    BY DEF Option
  <2>11. QED
    BY <2>6, <2>8, <2>9, <2>10
<1>2. QED
  BY <1>1, MInvHolds, PTL

\* At the mock's root, the set People leads to People, or to nothing that the mock knows.
LEMMA AtMockToPeople ==
    ASSUME Kinds, ask.fn = "query", AtMock(ask)
    PROVE  ToPeople
<1>1. /\ Absolute(ask.root) /\ ask.root \in Root /\ ask.root.path \in Seq(Token)
      /\ ask.set \in Seq(Name) /\ Words(ask.set) = <<"People">>
      /\ Given("page") = << >>
  BY QueryURLTyped DEF Kinds, AtMock, Absolute
<1>2. First.path.segs = Joined(ask.root, ask.set)
  BY <1>1, QueryURLTyped DEF Kinds, First
<1> DEFINE head == TrimRight(Decoded(ask.root.path))
           rest == TrimLeft(ask.set)
           path == Decoded(Joined(ask.root, ask.set))
           slashes == {"/", "%2F"}
<1>3. Joins(path, head, rest) /\ Words(rest) = <<"People">>
  BY <1>1, JoinedWords
<1> HIDE DEF head, rest, path
<1>4. PICK j \in 1 .. Len(rest) : rest[j] = "People"
  <2>1. rest \in Seq(Token)
    BY <1>3 DEF Joins
  <2>2. Without(rest, slashes) = <<"People">>
    BY <1>3 DEF Words
  <2> HIDE DEF slashes
  <2>3. QED
    BY <2>1, <2>2, OneKept
<1>5. PICK i \in 1 .. Len(path) : path[i] = "People" /\ i > 1
  <2>1. Len(head) \in Nat /\ Len(rest) \in Nat /\ Len(path) = Len(head) + 1 + Len(rest)
    BY <1>3, LenProperties DEF Joins
  <2>2. path[Len(head) + 1 + j] = "People"
    BY <1>3, <1>4 DEF Joins
  <2>3. QED
    BY <2>1, <2>2
<1>6. Len(path) \in Nat
  BY <1>3, LenProperties DEF Joins
<1>7. path \notin {<< >>, <<"/">>} /\ path # <<"/", "$metadata">>
  <2>1. Len(path) > 1
    BY <1>5, <1>6
  <2>2. path # << >> /\ path # <<"/">>
    <3>1. Len(<< >>) = 0 /\ Len(<<"/">>) = 1
      OBVIOUS
    <3>2. ~(0 > 1) /\ ~(1 > 1)
      OBVIOUS
    <3>3. QED
      BY <2>1, <3>1, <3>2, Zenon
  <2>3. ASSUME path = <<"/", "$metadata">> PROVE FALSE
    <3>1. Len(path) = 2
      BY <2>3
    <3>2. i = 2
      BY <1>5, <1>6, <3>1
    <3>3. QED
      BY <1>5, <2>3, <3>2
  <2>4. QED
    BY <2>2, <2>3
<1>8. Route(First.path) \in {"people", "none"}
  <2>1. Decoded(First.path.segs) = path
    BY <1>2 DEF path
  <2>2. QED
    BY <1>7, <2>1 DEF Route
<1>9. QED
  BY <1>1, <1>8 DEF ToPeople

\* At the mock's root a query of People returns its first max_rows entities, numbered,
\* on any number of pages, or fails for a lost exchange (client.go, Query; server.go,
\* servePeople).
THEOREM PeopleReadWhole == Spec => []EveryRow
<1>1. MInv => EveryRow
  <2> DEFINE n == IF ask.max \in 1 .. 4 THEN ask.max ELSE 4
             rows == [i \in 1 .. n |-> [seq |-> i - 1, entity |-> People[i]]]
  <2> SUFFICES ASSUME MInv, ask.fn = "query", AtMock(ask)
               PROVE  /\ pc = "done" => out = IF v2 THEN << >> ELSE rows
                      /\ pc = "failed" => err = "get"
    BY DEF EveryRow
  <2>1. ToPeople
    BY AtMockToPeople DEF MInv
  <2>2. pc = "failed" => err = "get"
    BY <2>1 DEF MInv, Progress
  <2>3. ASSUME pc = "done" PROVE out = IF v2 THEN << >> ELSE rows
    <3>1. /\ ask.max \in Int /\ maxRows = IF ask.max <= 0 THEN defaultMaxRows ELSE ask.max
          /\ defaultMaxRows \in Nat /\ defaultMaxRows > 4 /\ maxRows \in Nat \ {0}
      <4>1. ask.max \in Int /\ maxRows = Fetch!EffectiveMax(ask.max)
        BY <2>3, QueryURLTyped, MaxRowsAssumption DEF MInv, Kinds, Reading
      <4>2. defaultMaxRows \in Nat /\ defaultMaxRows > 4
        BY PeopleTyped, MaxRowsAssumption
      <4>3. QED
        BY <4>1, <4>2 DEF Fetch!EffectiveMax
    <3>2. /\ out \in Seq(Read!Row) /\ Len(out) \in Nat /\ Len(out) <= Len(sent)
          /\ \A i \in 1 .. Len(out) : out[i] = [seq |-> i - 1, entity |-> sent[i]]
          /\ Len(out) <= maxRows
          /\ Len(out) = Len(sent) \/ Len(out) = maxRows
          /\ next = Empty \/ ~(Len(out) < maxRows)
      BY <2>3, LenProperties DEF MInv, Reading, Read!IInv, Read!TypeOK, Read!RowsInOrder,
         Read!Numbered, Read!Counted, Read!Collected, Read!Position, Read!More
    <3>3. \/ ~v2 /\ next = Page2 /\ sent = FirstTwo
          \/ next = Empty /\ sent = IF v2 THEN << >> ELSE People
      BY <2>1, <2>3 DEF MInv, Progress, AtSecond, AtEnd
    <3>4. CASE v2
      <4>1. Len(sent) = 0
        BY <3>3, <3>4
      <4>2. out = << >>
        BY <3>2, <4>1, EmptySeq
      <4>3. QED
        BY <3>4, <4>2
    <3>5. CASE ~v2
      <4>1. Page2 # Empty
        BY SecondPage, StringsAssumption
      <4>2. /\ Len(sent) \in {2, 4} /\ \A i \in 1 .. Len(sent) : sent[i] = People[i]
            /\ next = Empty => Len(sent) = 4
        <5> HIDE DEF FirstTwo, Page2
        <5>1. CASE next = Page2 /\ sent = FirstTwo
          BY <4>1, <5>1, PeopleTyped
        <5>2. CASE next = Empty /\ sent = People
          BY <4>1, <5>2, PeopleTyped
        <5>3. QED
          BY <3>3, <3>5, <5>1, <5>2
      <4>3. Len(out) = n
        <5>1. CASE Len(out) = maxRows
          <6>1. maxRows \in 1 .. 4
            BY <3>1, <3>2, <4>2, <5>1
          <6>2. ask.max = maxRows
            BY <3>1, <6>1
          <6>3. QED
            BY <5>1, <6>1, <6>2
        <5>2. CASE Len(out) # maxRows
          <6>1. Len(out) < maxRows
            BY <3>1, <3>2, <5>2
          <6>2. Len(out) = 4
            BY <3>2, <4>2, <5>2, <6>1
          <6>3. ask.max \notin 1 .. 4
            BY <3>1, <6>1, <6>2
          <6>4. QED
            BY <6>2, <6>3
        <5>3. QED
          BY <5>1, <5>2
      <4>4. \A i \in 1 .. n : out[i] = [seq |-> i - 1, entity |-> People[i]]
        BY <3>2, <4>2, <4>3
      <4>5. DOMAIN out = 1 .. n /\ out = [i \in DOMAIN out |-> out[i]]
        BY <3>2, <4>3, LenProperties
      <4> HIDE DEF n
      <4>6. out = rows
        BY <4>4, <4>5
      <4>7. QED
        BY <3>5, <4>6
    <3>6. QED
      BY <3>4, <3>5
  <2>4. QED
    BY <2>2, <2>3
<1>2. QED
  BY <1>1, MInvHolds, PTL
=============================================================================
