---------------------------- MODULE FlagsProofs ----------------------------
(***************************************************************************)
(* Proofs of the properties of Flags, for a command line of any length: the *)
(* filter and the parser read the same tokens as values.                   *)
(***************************************************************************)
EXTENDS Flags, Induction, SequenceTheorems, TLAPS

(***************************************************************************)
(* What the filter keeps of a command line from a token on.                *)
(***************************************************************************)
Last(a, k) == IF a[k].name \in valueFlags /\ a[k].value = None /\ k + 1 <= Len(a)
              THEN k + 1 ELSE k

Kept(a, k) == SubSeq(a, k, Last(a, k))

Rest(a) ==
    LET rest[k \in 1 .. Len(a) + 1] ==
            IF k > Len(a) THEN << >>
            ELSE IF Known(a[k]) THEN Kept(a, k) \o rest[Last(a, k) + 1]
            ELSE rest[k + 1]
    IN  rest

(***************************************************************************)
(* The inductive invariant.  While the filter runs, what it has kept and   *)
(* what it will keep make up Rest(argv)[1].  The parser stands at a token  *)
(* that is nobody's value: it has before it what the filter keeps from     *)
(* there on, and the flags are set as the tokens before say.               *)
(***************************************************************************)
SaidAt(k) == CASE argv[k].value # None -> Plain(argv[k].value)
               [] argv[k].value = None /\ argv[k].name \in TakesValue -> argv[k + 1]
               [] OTHER -> Plain("true")

IsSet(n, p) ==
    LET before == {k \in Settings(n) : k < p}
    IN  /\ before = {} => set[n] = Unset[n]
        /\ \A k \in before : (\A other \in before : other <= k) => set[n] = SaidAt(k)

ParsedTo(p) ==
    /\ p <= Len(argv) => ~IsValue[p]
    /\ out = Rest(argv)[p]
    /\ \A n \in Defined : IsSet(n, p)

Places == {p \in 1 .. Len(argv) + 1 : ParsedTo(p)}

Command == \E rest \in Argv : argv = Given(entry, rest)

FilterKeeps == pc = "filter" => out \o Rest(argv)[i] = Rest(argv)[1] /\ set = Unset

ParserPlaced == pc = "parse" => Places # {}

RunsAsSaid ==
    pc = "running" =>
        /\ \A n \in Defined : set[n] = Says(n)
        /\ mode = "http" <=> set["http"] = Plain("true")
        /\ mode = "unix" <=> set["http"] # Plain("true") /\ set["unix"] # Plain(Empty)

FInv == /\ TypeOK
        /\ Command
        /\ FilterKeeps
        /\ ParserPlaced
        /\ RunsAsSaid
        /\ ForeignTolerated

(***************************************************************************)
(* Tokens in sequence                                                      *)
(***************************************************************************)
LEMMA Regroup ==
    ASSUME NEW r \in Seq(Token), NEW s \in Seq(Token), NEW t \in Seq(Token)
    PROVE  (r \o s) \o t = r \o (s \o t)
  BY ConcatAssociative

\* What stays of two pieces without the first.
LEMMA FirstDropped ==
    ASSUME NEW s \in Seq(Token), NEW t \in Seq(Token)
    PROVE  SubSeq(s \o t, Len(s) + 1, Len(s \o t)) = t
<1>1. Len(s) \in Nat /\ Len(t) \in Nat /\ Len(s \o t) = Len(s) + Len(t)
  BY ConcatProperties, LenProperties
<1>2. CASE t = << >>
  BY <1>1, <1>2, SubSeqEmpty
<1>3. CASE t # << >>
  <2>1. Len(t) # 0
    BY <1>3, EmptySeq
  <2>2. /\ Len(s) + 1 \in Len(s) + 1 .. Len(s) + Len(t)
        /\ Len(s) + Len(t) \in Len(s) + 1 .. Len(s) + Len(t)
    BY <1>1, <2>1
  <2>3. SubSeq(s \o t, Len(s) + 1, Len(s) + Len(t))
            = SubSeq(t, Len(s) + 1 - Len(s), Len(s) + Len(t) - Len(s))
    BY <2>2, SubSeqOfConcat2
  <2>4. Len(s) + 1 - Len(s) = 1 /\ Len(s) + Len(t) - Len(s) = Len(t)
    BY <1>1
  <2>5. QED
    BY <1>1, <2>3, <2>4, SubSeqFull
<1>4. QED
  BY <1>2, <1>3

(***************************************************************************)
(* Which tokens are values                                                 *)
(***************************************************************************)
Follows(k) == k > 1 /\ Wants(argv[k - 1])

\* f is what IsValue is read from, up to token n.
Values(f, n) == /\ f \in [0 .. n -> BOOLEAN]
                /\ f[0] = FALSE
                /\ \A k \in 0 .. n - 1 : f[k + 1] = (Follows(k + 1) /\ ~f[k])

\* Values up to a token go on to the next one.
LEMMA ValuesGrow ==
    ASSUME NEW n \in Nat, NEW f, Values(f, n)
    PROVE  \E g : Values(g, n + 1)
<1> DEFINE more == Follows(n + 1) /\ ~f[n]
           g == [k \in 0 .. n + 1 |-> IF k = n + 1 THEN more ELSE f[k]]
<1>1. more \in BOOLEAN /\ more = (Follows(n + 1) /\ ~f[n])
  OBVIOUS
<1> HIDE DEF more
<1>2. g \in [0 .. n + 1 -> BOOLEAN] /\ g[0] = f[0]
  <2>1. ASSUME NEW k \in 0 .. n + 1
        PROVE  (IF k = n + 1 THEN more ELSE f[k]) \in BOOLEAN
    <3>1. k = n + 1 \/ k \in 0 .. n
      OBVIOUS
    <3>2. QED
      BY <1>1, <3>1 DEF Values
  <2>2. 0 \in 0 .. n + 1 /\ 0 # n + 1
    OBVIOUS
  <2>3. QED
    BY <2>1, <2>2
<1>3. g[n + 1] = more /\ \A k \in 0 .. n : g[k] = f[k]
  OBVIOUS
<1> HIDE DEF g
<1>4. ASSUME NEW k \in 0 .. n
      PROVE  g[k + 1] = (Follows(k + 1) /\ ~g[k])
  <2>1. CASE k = n
    <3>1. g[k + 1] = more /\ g[k] = f[k]
      BY <1>3, <2>1
    <3>2. QED
      BY <1>1, <2>1, <3>1
  <2>2. CASE k \in 0 .. n - 1
    <3>1. g[k] = f[k] /\ g[k + 1] = f[k + 1]
      BY <1>3, <2>2
    <3>2. f[k + 1] = (Follows(k + 1) /\ ~f[k])
      BY <2>2 DEF Values
    <3>3. QED
      BY <3>1, <3>2
  <2>3. k = n \/ k \in 0 .. n - 1
    OBVIOUS
  <2>4. QED
    BY <2>1, <2>2, <2>3
<1>5. (n + 1) - 1 = n
  OBVIOUS
<1>6. Values(g, n + 1)
  BY <1>2, <1>4, <1>5 DEF Values
<1>7. QED
  BY <1>6

\* IsValue is what it says: a token is a value when the one before is none and is a
\* flag that wants one.
LEMMA IsValueDefined ==
    ASSUME Len(argv) \in Nat
    PROVE  /\ 1 <= Len(argv) => ~IsValue[1]
           /\ \A k \in 1 .. Len(argv) - 1 :
                  IsValue[k + 1] <=> ~IsValue[k] /\ Wants(argv[k])
<1> DEFINE Equation(h) ==
               h = [k \in 0 .. Len(argv) |-> k > 1 /\ ~h[k - 1] /\ Wants(argv[k - 1])]
           ok == {n \in Nat : \E f : Values(f, n)}
<1>1. \A n \in Nat : n \in ok
  <2>1. 0 \in ok
    <3> DEFINE f == [k \in 0 .. 0 |-> FALSE]
    <3>1. f \in [0 .. 0 -> BOOLEAN] /\ f[0] = FALSE
      OBVIOUS
    <3> HIDE DEF f
    <3>2. Values(f, 0)
      BY <3>1 DEF Values
    <3>3. QED
      BY <3>2
  <2>2. ASSUME NEW n \in Nat, n \in ok PROVE n + 1 \in ok
    BY <2>2, ValuesGrow
  <2> HIDE DEF ok
  <2>3. QED
    BY <2>1, <2>2, NatInduced
<1>2. PICK f : Values(f, Len(argv))
  BY <1>1
<1>3. Equation(f)
  <2>1. ASSUME NEW k \in 0 .. Len(argv)
        PROVE  f[k] = (k > 1 /\ ~f[k - 1] /\ Wants(argv[k - 1]))
    <3>1. CASE k = 0
      BY <1>2, <3>1 DEF Values
    <3>2. CASE k # 0
      <4>1. k - 1 \in 0 .. Len(argv) - 1 /\ (k - 1) + 1 = k
        BY <3>2
      <4>2. f[(k - 1) + 1] = (Follows((k - 1) + 1) /\ ~f[k - 1])
        BY <1>2, <4>1 DEF Values
      <4>3. QED
        BY <4>1, <4>2 DEF Follows
    <3>3. QED
      BY <3>1, <3>2
  <2>2. f = [k \in 0 .. Len(argv) |-> f[k]]
    BY <1>2 DEF Values
  <2>3. QED
    BY <2>1, <2>2
<1>4. Equation(IsValue)
  <2>1. IsValue = CHOOSE h : Equation(h)
    BY DEF IsValue
  <2> HIDE DEF Equation
  <2>2. QED
    BY <1>3, <2>1
<1>5. ASSUME NEW k \in 0 .. Len(argv)
      PROVE  IsValue[k] = (k > 1 /\ ~IsValue[k - 1] /\ Wants(argv[k - 1]))
  BY <1>4
<1>6. ASSUME 1 <= Len(argv) PROVE ~IsValue[1]
  <2>1. 1 \in 0 .. Len(argv) /\ ~(1 > 1)
    BY <1>6
  <2>2. QED
    BY <1>5, <2>1
<1>7. ASSUME NEW k \in 1 .. Len(argv) - 1
      PROVE  IsValue[k + 1] <=> ~IsValue[k] /\ Wants(argv[k])
  <2>1. k + 1 \in 0 .. Len(argv) /\ k + 1 > 1 /\ (k + 1) - 1 = k
    OBVIOUS
  <2>2. IsValue[k + 1] = (k + 1 > 1 /\ ~IsValue[(k + 1) - 1] /\ Wants(argv[(k + 1) - 1]))
    BY <1>5, <2>1
  <2>3. QED
    BY <2>1, <2>2
<1>8. QED
  BY <1>6, <1>7

(***************************************************************************)
(* What the filter keeps                                                   *)
(***************************************************************************)
\* The filter takes a flag alone or with the next token.
LEMMA KeptTyped ==
    ASSUME NEW a \in Seq(Token), NEW k \in 1 .. Len(a)
    PROVE  /\ Last(a, k) \in k .. k + 1 /\ Last(a, k) <= Len(a)
           /\ Kept(a, k) \in Seq(Token) /\ Len(Kept(a, k)) = Last(a, k) - k + 1
           /\ Kept(a, k)[1] = a[k]
           /\ Last(a, k) = k + 1 => Kept(a, k)[2] = a[k + 1]
<1>1. Len(a) \in Nat
  BY LenProperties
<1>2. Last(a, k) \in k .. k + 1 /\ Last(a, k) <= Len(a)
  BY <1>1 DEF Last
<1> DEFINE last == Last(a, k)
<1> HIDE DEF last
<1>3. last \in k .. k + 1 /\ last <= Len(a)
  BY <1>2 DEF last
<1>4. /\ SubSeq(a, k, last) \in Seq(Token)
      /\ Len(SubSeq(a, k, last)) = last - k + 1
      /\ \A j \in 1 .. last - k + 1 : SubSeq(a, k, last)[j] = a[k + j - 1]
  BY <1>1, <1>3, SubSeqProperties
<1>5. SubSeq(a, k, last)[1] = a[k]
  <2>1. 1 \in 1 .. last - k + 1 /\ k + 1 - 1 = k
    BY <1>3
  <2>2. QED
    BY <1>4, <2>1
<1>6. last = k + 1 => SubSeq(a, k, last)[2] = a[k + 1]
  <2>1. last = k + 1 => 2 \in 1 .. last - k + 1 /\ k + 2 - 1 = k + 1
    BY <1>3
  <2>2. QED
    BY <1>4, <2>1
<1>7. QED
  BY <1>3, <1>4, <1>5, <1>6 DEF last, Kept

From(a, f, k) == IF Known(a[k]) THEN Kept(a, k) \o f[Last(a, k) + 1] ELSE f[k + 1]

\* f is what Rest is read from, from token k on.
Rests(a, f, k) ==
    f = [j \in k .. Len(a) + 1 |-> IF j > Len(a) THEN << >> ELSE From(a, f, j)]

\* What is kept from a token on goes back to the token before it.
LEMMA RestsGrow ==
    ASSUME NEW a \in Seq(Token), NEW k \in 1 .. Len(a), NEW f, Rests(a, f, k + 1)
    PROVE  \E g : Rests(a, g, k)
<1> DEFINE g == [j \in k .. Len(a) + 1 |-> IF j = k THEN From(a, f, k) ELSE f[j]]
<1>1. Len(a) \in Nat /\ k \in Nat
  BY LenProperties
<1>2. g[k] = From(a, f, k) /\ \A j \in k + 1 .. Len(a) + 1 : g[j] = f[j]
  BY <1>1
<1>3. g = [j \in k .. Len(a) + 1 |-> g[j]]
  OBVIOUS
<1> HIDE DEF g
<1>4. ASSUME NEW j \in k .. Len(a)
      PROVE  From(a, g, j) = From(a, f, j)
  <2>1. j \in 1 .. Len(a)
    BY <1>1
  <2>2. Last(a, j) \in j .. j + 1 /\ Last(a, j) <= Len(a)
    BY <2>1, KeptTyped
  <2>3. Last(a, j) + 1 \in k + 1 .. Len(a) + 1 /\ j + 1 \in k + 1 .. Len(a) + 1
    BY <1>1, <2>2
  <2>4. QED
    BY <1>2, <2>3 DEF From
<1>5. ASSUME NEW j \in k .. Len(a) + 1
      PROVE  g[j] = IF j > Len(a) THEN << >> ELSE From(a, g, j)
  <2>1. CASE j = k
    BY <1>1, <1>2, <1>4, <2>1
  <2>2. CASE j # k
    <3>1. j \in k + 1 .. Len(a) + 1
      BY <1>1, <2>2
    <3>2. f[j] = IF j > Len(a) THEN << >> ELSE From(a, f, j)
      BY <3>1 DEF Rests
    <3>3. j > Len(a) \/ j \in k .. Len(a)
      BY <1>1
    <3>4. QED
      BY <1>2, <1>4, <3>1, <3>2, <3>3
  <2>3. QED
    BY <2>1, <2>2
<1>6. Rests(a, g, k)
  BY <1>3, <1>5 DEF Rests
<1>7. QED
  BY <1>6

\* Rest is what it says: the filter keeps a flag it knows, with its value, and what
\* it keeps of the tokens after; it drops any other token.
LEMMA RestDefined ==
    ASSUME NEW a \in Seq(Token)
    PROVE  /\ Rest(a)[Len(a) + 1] = << >>
           /\ \A k \in 1 .. Len(a) : Rest(a)[k] = From(a, Rest(a), k)
           /\ \A k \in 1 .. Len(a) + 1 : Rest(a)[k] \in Seq(Token)
<1> DEFINE ok == {m \in Nat : m <= Len(a) => \E f : Rests(a, f, Len(a) + 1 - m)}
           rest == Rest(a)
<1>1. Len(a) \in Nat
  BY LenProperties
<1>2. \A m \in Nat : m \in ok
  <2>1. 0 \in ok
    <3> DEFINE f == [j \in Len(a) + 1 .. Len(a) + 1 |-> << >>]
    <3>1. \A j \in Len(a) + 1 .. Len(a) + 1 : j > Len(a)
      BY <1>1
    <3>2. Rests(a, f, Len(a) + 1)
      BY <3>1 DEF Rests
    <3>3. Len(a) + 1 - 0 = Len(a) + 1
      BY <1>1
    <3> HIDE DEF f
    <3>4. QED
      BY <3>2, <3>3
  <2>2. ASSUME NEW m \in Nat, m \in ok PROVE m + 1 \in ok
    <3> SUFFICES ASSUME m + 1 <= Len(a) PROVE \E f : Rests(a, f, Len(a) + 1 - (m + 1))
      OBVIOUS
    <3>1. /\ Len(a) + 1 - (m + 1) \in 1 .. Len(a)
          /\ (Len(a) + 1 - (m + 1)) + 1 = Len(a) + 1 - m
          /\ m <= Len(a)
      BY <1>1
    <3>2. PICK f : Rests(a, f, (Len(a) + 1 - (m + 1)) + 1)
      BY <2>2, <3>1
    <3>3. QED
      BY <3>1, <3>2, RestsGrow
  <2> HIDE DEF ok
  <2>3. QED
    BY <2>1, <2>2, NatInduced
<1>3. \E f : Rests(a, f, 1)
  <2>1. Len(a) + 1 - Len(a) = 1
    BY <1>1
  <2>2. \E f : Rests(a, f, Len(a) + 1 - Len(a))
    BY <1>1, <1>2
  <2>3. QED
    BY <2>1, <2>2
<1>4. Rests(a, rest, 1)
  <2>1. rest = CHOOSE f : Rests(a, f, 1)
    BY DEF Rest, Rests, From
  <2>2. QED
    BY <1>3, <2>1
<1> HIDE DEF rest
<1>5. ASSUME NEW k \in 1 .. Len(a) + 1
      PROVE  rest[k] = IF k > Len(a) THEN << >> ELSE From(a, rest, k)
  BY <1>4 DEF Rests
<1>6. rest[Len(a) + 1] = << >> /\ \A k \in 1 .. Len(a) : rest[k] = From(a, rest, k)
  BY <1>1, <1>5
<1> DEFINE Typed(m) == \A k \in 1 .. Len(a) + 1 :
                           k >= Len(a) + 1 - m => rest[k] \in Seq(Token)
           typed == {m \in Nat : Typed(m)}
<1>7. \A m \in Nat : m \in typed
  <2>1. Typed(0)
    <3>1. \A k \in 1 .. Len(a) + 1 : k >= Len(a) + 1 - 0 => k = Len(a) + 1
      BY <1>1
    <3>2. QED
      BY <1>6, <3>1, EmptySeq
  <2>2. ASSUME NEW m \in Nat, Typed(m) PROVE Typed(m + 1)
    <3> SUFFICES ASSUME NEW k \in 1 .. Len(a) + 1, k >= Len(a) + 1 - (m + 1)
                 PROVE  rest[k] \in Seq(Token)
      OBVIOUS
    <3>1. CASE k >= Len(a) + 1 - m
      BY <2>2, <3>1
    <3>2. CASE k = Len(a) + 1
      BY <1>6, <3>2, EmptySeq
    <3>3. CASE k \in 1 .. Len(a) /\ k = Len(a) - m
      <4>1. /\ Last(a, k) \in k .. k + 1 /\ Last(a, k) <= Len(a)
            /\ Kept(a, k) \in Seq(Token)
        BY <3>3, KeptTyped
      <4>2. /\ Last(a, k) + 1 \in 1 .. Len(a) + 1 /\ Last(a, k) + 1 >= Len(a) + 1 - m
            /\ k + 1 \in 1 .. Len(a) + 1 /\ k + 1 >= Len(a) + 1 - m
        BY <1>1, <3>3, <4>1
      <4>3. rest[Last(a, k) + 1] \in Seq(Token) /\ rest[k + 1] \in Seq(Token)
        BY <2>2, <4>2
      <4>4. Kept(a, k) \o rest[Last(a, k) + 1] \in Seq(Token)
        BY <4>1, <4>3, ConcatProperties
      <4>5. rest[k] = From(a, rest, k)
        BY <1>6, <3>3
      <4>6. QED
        BY <4>3, <4>4, <4>5 DEF From
    <3>4. QED
      BY <1>1, <3>1, <3>2, <3>3
  <2> HIDE DEF Typed
  <2>3. 0 \in typed /\ \A m \in Nat : m \in typed => m + 1 \in typed
    BY <2>1, <2>2
  <2> HIDE DEF typed
  <2>4. QED
    BY <2>3, NatInduced
<1>8. \A k \in 1 .. Len(a) + 1 : rest[k] \in Seq(Token)
  <2>1. Typed(Len(a))
    BY <1>1, <1>7
  <2>2. \A k \in 1 .. Len(a) + 1 : k >= Len(a) + 1 - Len(a)
    BY <1>1
  <2>3. QED
    BY <2>1, <2>2
<1>9. QED
  BY <1>6, <1>8 DEF rest

(***************************************************************************)
(* The command line and the state at first                                 *)
(***************************************************************************)
LEMMA CommandTyped ==
    ASSUME Command
    PROVE  argv \in Seq(Token) /\ Len(argv) \in Nat /\ DOMAIN argv = 1 .. Len(argv)
<1>1. PICK rest \in Argv : argv = Given(entry, rest)
  BY DEF Command
<1>2. rest \in Seq(Token)
  BY <1>1, ArgvAssumption
<1>3. /\ Flag("http") \in Token /\ Flag("http-addr") \in Token
      /\ Plain(ContainerAddr) \in Token
  BY WordAssumption DEF Flag, Plain, Token, Defined, TakesValue
<1>4. <<Flag("http"), Flag("http-addr"), Plain(ContainerAddr)>> \in Seq(Token)
  BY <1>3
<1>5. argv \in Seq(Token)
  BY <1>1, <1>2, <1>4, ConcatProperties DEF Given
<1>6. QED
  BY <1>5, LenProperties

\* A word without dashes is a token.
LEMMA PlainTyped ==
    ASSUME NEW w \in Word
    PROVE  Plain(w) \in Token
  BY DEF Plain, Token

\* The values that flags start with are of their kind.
LEMMA UnsetTyped == Unset \in [Defined -> Token]
<1>1. \A n \in Defined : Unset[n] \in Token
  BY PlainTyped, WordAssumption DEF Unset
<1>2. QED
  BY <1>1 DEF Unset

\* The invariant holds at first.
LEMMA InitFInv == Init => FInv
<1> SUFFICES ASSUME Init PROVE FInv
  OBVIOUS
<1>1. Command
  BY DEF Init, Command
<1>2. argv \in Seq(Token) /\ Len(argv) \in Nat
  BY <1>1, CommandTyped
<1>3. TypeOK
  BY <1>2, UnsetTyped, EmptySeq DEF Init, TypeOK
<1>4. FilterKeeps
  <2>1. Rest(argv)[1] \in Seq(Token)
    BY <1>2, RestDefined
  <2>2. << >> \o Rest(argv)[1] = Rest(argv)[1]
    BY <2>1, ConcatEmptySeq
  <2>3. QED
    BY <2>2 DEF Init, FilterKeeps
<1>5. ParserPlaced /\ RunsAsSaid /\ ForeignTolerated
  BY DEF Init, ParserPlaced, RunsAsSaid, ForeignTolerated
<1>6. QED
  BY <1>1, <1>3, <1>4, <1>5 DEF FInv

\* No step changes the command line, nor what is read off it.
LEMMA SameCommand ==
    ASSUME UNCHANGED <<entry, argv>>, Command
    PROVE  /\ Command' /\ IsValue' = IsValue /\ Own' = Own
           /\ \A n : Settings(n)' = Settings(n) /\ Says(n)' = Says(n)
           /\ \A k : SaidAt(k)' = SaidAt(k) /\ (Malformed(k)' <=> Malformed(k))
  BY DEF Command, IsValue, Own, Settings, Says, SaidAt, Malformed

(***************************************************************************)
(* The filter                                                              *)
(***************************************************************************)
LEMMA SkipKeepsFInv == FInv /\ Skip => FInv'
<1> SUFFICES ASSUME FInv, Skip PROVE FInv'
  OBVIOUS
<1>1. /\ argv \in Seq(Token) /\ Len(argv) \in Nat /\ i \in 1 .. Len(argv)
      /\ ~Known(argv[i]) /\ i' = i + 1 /\ pc = "filter"
      /\ UNCHANGED <<entry, argv, out, set, pc, mode>>
  BY CommandTyped DEF FInv, TypeOK, Skip, After
<1>2. TypeOK'
  BY <1>1 DEF FInv, TypeOK
<1>3. Command'
  BY <1>1, SameCommand DEF FInv
<1>4. Rest(argv)[i] = Rest(argv)[i + 1]
  BY <1>1, RestDefined DEF From
<1>5. FilterKeeps'
  BY <1>1, <1>4 DEF FInv, FilterKeeps
<1>6. ParserPlaced' /\ RunsAsSaid' /\ ForeignTolerated'
  BY <1>1 DEF ParserPlaced, RunsAsSaid, ForeignTolerated
<1>7. QED
  BY <1>2, <1>3, <1>5, <1>6 DEF FInv

\* Keep moves what the filter will keep to what it has kept.
LEMMA KeepKeepsFInv == FInv /\ Keep => FInv'
<1> SUFFICES ASSUME FInv, Keep PROVE FInv'
  OBVIOUS
<1>1. /\ argv \in Seq(Token) /\ Len(argv) \in Nat /\ i \in 1 .. Len(argv)
      /\ Known(argv[i]) /\ pc = "filter" /\ out \in Seq(Token)
      /\ UNCHANGED <<entry, argv, set, pc, mode>>
  BY CommandTyped DEF FInv, TypeOK, Keep
<1>2. out' = out \o Kept(argv, i) /\ i' = Last(argv, i) + 1
  BY DEF Keep, Kept, Last
<1>3. /\ Kept(argv, i) \in Seq(Token)
      /\ Last(argv, i) \in i .. i + 1 /\ Last(argv, i) <= Len(argv)
  BY <1>1, KeptTyped
<1>4. i' \in 1 .. Len(argv) + 1
  BY <1>1, <1>2, <1>3
<1>5. out' \in Seq(Token)
  BY <1>1, <1>2, <1>3, ConcatProperties
<1>6. TypeOK'
  BY <1>1, <1>4, <1>5 DEF FInv, TypeOK
<1>7. Command'
  BY <1>1, SameCommand DEF FInv
<1>8. out' \o Rest(argv)[i'] = out \o Rest(argv)[i]
  <2>1. Rest(argv)[i] = Kept(argv, i) \o Rest(argv)[i']
    BY <1>1, <1>2, RestDefined DEF From
  <2>2. Rest(argv)[i'] \in Seq(Token)
    BY <1>1, <1>4, RestDefined
  <2>3. (out \o Kept(argv, i)) \o Rest(argv)[i'] = out \o (Kept(argv, i) \o Rest(argv)[i'])
    BY <1>1, <1>3, <2>2, Regroup
  <2>4. QED
    BY <1>2, <2>1, <2>3
<1>9. FilterKeeps'
  BY <1>1, <1>8 DEF FInv, FilterKeeps
<1>10. ParserPlaced' /\ RunsAsSaid' /\ ForeignTolerated'
  BY <1>1 DEF ParserPlaced, RunsAsSaid, ForeignTolerated
<1>11. QED
  BY <1>6, <1>7, <1>9, <1>10 DEF FInv

\* The parser starts at the first token, which is nobody's value.
LEMMA FilteredKeepsFInv == FInv /\ Filtered => FInv'
<1> SUFFICES ASSUME FInv, Filtered PROVE FInv'
  OBVIOUS
<1>1. /\ argv \in Seq(Token) /\ Len(argv) \in Nat /\ i = Len(argv) + 1
      /\ DOMAIN argv = 1 .. Len(argv)
      /\ pc = "filter" /\ pc' = "parse" /\ out \in Seq(Token)
      /\ UNCHANGED <<entry, argv, i, out, set, mode>>
  BY CommandTyped DEF FInv, TypeOK, Filtered
<1>2. TypeOK'
  BY <1>1 DEF FInv, TypeOK
<1>3. Command' /\ IsValue' = IsValue /\ \A n : Settings(n)' = Settings(n)
  BY <1>1, SameCommand DEF FInv
<1>4. out = Rest(argv)[1] /\ set = Unset
  <2>1. Rest(argv)[i] = << >>
    BY <1>1, RestDefined
  <2>2. out \o << >> = out
    BY <1>1, ConcatEmptySeq
  <2>3. QED
    BY <1>1, <2>1, <2>2 DEF FInv, FilterKeeps
<1>5. ParsedTo(1)'
  <2>1. 1 <= Len(argv) => ~IsValue[1]
    BY <1>1, IsValueDefined
  <2>2. ASSUME NEW n PROVE {k \in Settings(n) : k < 1} = {}
    BY <1>1 DEF Settings, Own
  <2>3. \A n \in Defined : IsSet(n, 1)'
    BY <1>1, <1>3, <1>4, <2>2 DEF IsSet
  <2>4. QED
    BY <1>1, <1>3, <1>4, <2>1, <2>3 DEF ParsedTo
<1>6. ParserPlaced'
  <2>1. 1 \in 1 .. Len(argv') + 1
    BY <1>1
  <2>2. QED
    BY <1>5, <2>1 DEF ParserPlaced, Places
<1>7. FilterKeeps' /\ RunsAsSaid' /\ ForeignTolerated'
  BY <1>1 DEF FilterKeeps, RunsAsSaid, ForeignTolerated
<1>8. QED
  BY <1>2, <1>3, <1>6, <1>7 DEF FInv

(***************************************************************************)
(* The parser                                                              *)
(***************************************************************************)
\* Past a token that is neither a value nor a flag of the worker's, the parser is at
\* the next one as well.
LEMMA NextPlace ==
    ASSUME FInv, pc = "parse", NEW p \in Places, p <= Len(argv), p \notin Own
    PROVE  p + 1 \in Places
<1>1. /\ argv \in Seq(Token) /\ Len(argv) \in Nat /\ DOMAIN argv = 1 .. Len(argv)
      /\ p \in 1 .. Len(argv)
  BY CommandTyped DEF FInv, Places
<1>2. ~IsValue[p] /\ ~Known(argv[p])
  BY <1>1 DEF Places, ParsedTo, Own, Known
<1>3. ~Wants(argv[p])
  BY <1>2 DEF Wants, Known, Defined
<1>4. p + 1 <= Len(argv) => ~IsValue[p + 1]
  <2>1. p + 1 <= Len(argv) => p \in 1 .. Len(argv) - 1
    BY <1>1
  <2>2. QED
    BY <1>1, <1>3, <2>1, IsValueDefined, Zenon
<1>5. out = Rest(argv)[p + 1]
  BY <1>1, <1>2, RestDefined DEF Places, ParsedTo, From
<1>6. ASSUME NEW n \in Defined PROVE IsSet(n, p + 1)
  <2>1. \A k \in Settings(n) : k < p + 1 <=> k < p
    BY <1>1 DEF Settings, Own
  <2>2. {k \in Settings(n) : k < p + 1} = {k \in Settings(n) : k < p}
    BY <2>1
  <2>3. QED
    BY <2>2 DEF Places, ParsedTo, IsSet
<1>7. QED
  BY <1>1, <1>4, <1>5, <1>6 DEF Places, ParsedTo

\* So it is at a flag of the worker's, or at the end.
LEMMA AtOwnFlag ==
    ASSUME FInv, pc = "parse"
    PROVE  \E p \in Places : p \in Own \/ p = Len(argv) + 1
<1>1. Len(argv) \in Nat
  BY CommandTyped DEF FInv
<1>2. Places \in SUBSET (0 .. Len(argv) + 1) /\ Places # {}
  BY <1>1 DEF FInv, ParserPlaced, Places
<1>3. PICK p \in Places : \A other \in Places : other <= p
  <2>1. Len(argv) + 1 \in Nat
    BY <1>1
  <2>2. QED
    BY <1>2, <2>1, GreatestElement, Zenon
<1>4. p \in 1 .. Len(argv) + 1
  BY DEF Places
<1>5. ASSUME p # Len(argv) + 1, p \notin Own PROVE FALSE
  <2>1. p + 1 \in Places
    BY <1>1, <1>4, <1>5, NextPlace
  <2>2. p + 1 <= p
    BY <1>3, <2>1
  <2>3. QED
    BY <1>4, <2>2
<1>6. QED
  BY <1>5

\* At a flag, the parser has that flag first, then its value if the filter kept one,
\* then what the filter kept after it.
LEMMA HeadIsFlag ==
    ASSUME FInv, NEW p \in Places, p \in Own
    PROVE  /\ p \in 1 .. Len(argv) /\ argv[p] \in Token /\ Known(argv[p]) /\ ~IsValue[p]
           /\ out # << >> /\ Head(out) = argv[p] /\ IsFlag(Head(out))
           /\ Last(argv, p) = p + 1 => Len(out) > 1 /\ out[2] = argv[p + 1]
           /\ Last(argv, p) = p /\ p = Len(argv) => Len(out) = 1
           /\ LET used == Last(argv, p) - p + 1
              IN  SubSeq(out, used + 1, Len(out)) = Rest(argv)[Last(argv, p) + 1]
<1>1. /\ argv \in Seq(Token) /\ Len(argv) \in Nat /\ DOMAIN argv = 1 .. Len(argv)
  BY CommandTyped DEF FInv
<1>2. p \in 1 .. Len(argv) /\ Known(argv[p]) /\ ~IsValue[p]
  BY <1>1 DEF Own, Known
<1> DEFINE kept == Kept(argv, p)
           last == Last(argv, p)
           rest == Rest(argv)[last + 1]
<1>3. /\ last \in p .. p + 1 /\ last <= Len(argv)
      /\ kept \in Seq(Token) /\ Len(kept) = last - p + 1
      /\ kept[1] = argv[p] /\ (last = p + 1 => kept[2] = argv[p + 1])
  BY <1>1, <1>2, KeptTyped
<1>4. last + 1 \in 1 .. Len(argv) + 1
  BY <1>1, <1>2, <1>3
<1>5. rest \in Seq(Token) /\ (last = Len(argv) => rest = << >>)
  BY <1>1, <1>4, RestDefined
<1>6. out = kept \o rest
  BY <1>1, <1>2, RestDefined DEF Places, ParsedTo, From
<1>7. argv[p] \in Token /\ IsFlag(argv[p])
  <2>1. argv[p] \in Token
    BY <1>1, <1>2, ElementOfSeq
  <2>2. QED
    BY <1>2, <2>1, EmptyAssumption DEF Known, IsFlag, Token
<1> HIDE DEF kept, last, rest
<1>8. Len(kept) \in 1 .. 2 /\ Len(rest) \in Nat
  BY <1>2, <1>3, <1>5, LenProperties
<1>9. /\ out \in Seq(Token) /\ Len(out) = Len(kept) + Len(rest)
      /\ \A j \in 1 .. Len(kept) : out[j] = kept[j]
  BY <1>3, <1>5, <1>6, <1>8, ConcatProperties
<1>10. out # << >> /\ Head(out) = argv[p]
  <2>1. out[1] = argv[p]
    BY <1>3, <1>8, <1>9
  <2>2. Len(out) # 0
    BY <1>8, <1>9
  <2>3. QED
    BY <1>9, <2>1, <2>2
<1>11. last = p + 1 => Len(out) > 1 /\ out[2] = argv[p + 1]
  <2> SUFFICES ASSUME last = p + 1 PROVE Len(out) > 1 /\ out[2] = argv[p + 1]
    OBVIOUS
  <2>1. Len(kept) = 2 /\ 2 \in 1 .. Len(kept)
    BY <1>2, <1>3
  <2>2. out[2] = kept[2] /\ kept[2] = argv[p + 1]
    BY <1>3, <1>9, <2>1
  <2>3. QED
    BY <1>8, <1>9, <2>1, <2>2
<1>12. last = p /\ p = Len(argv) => Len(out) = 1
  BY <1>2, <1>3, <1>5, <1>8, <1>9
<1>13. SubSeq(out, Len(kept) + 1, Len(out)) = rest
  BY <1>3, <1>5, <1>6, FirstDropped
<1>14. QED
  BY <1>2, <1>3, <1>7, <1>10, <1>11, <1>12, <1>13 DEF kept, last, rest

\* A flag and its value read, the parser is at the next token, and the flag is set
\* as the command line says up to there.
LEMMA SetsKeepsPlace ==
    ASSUME FInv, pc = "parse", NEW p \in Places, p \in Own,
           Sets(SaidAt(p), Last(argv, p) - p + 1)
    PROVE  ParserPlaced'
<1> DEFINE last == Last(argv, p)
           f == argv[p].name
<1>1. /\ argv \in Seq(Token) /\ Len(argv) \in Nat /\ DOMAIN argv = 1 .. Len(argv)
      /\ set \in [Defined -> Token] /\ p \in 1 .. Len(argv)
      /\ last \in p .. p + 1 /\ last <= Len(argv)
      /\ Known(argv[p]) /\ ~IsValue[p]
  BY CommandTyped, HeadIsFlag, KeptTyped DEF FInv, TypeOK
<1>2. /\ UNCHANGED <<entry, argv, pc>> /\ set' = [set EXCEPT ![f] = SaidAt(p)]
      /\ out' = Rest(argv)[last + 1]
  BY HeadIsFlag DEF Sets
<1>3. /\ IsValue' = IsValue
      /\ \A n : Settings(n)' = Settings(n)
      /\ \A k : SaidAt(k)' = SaidAt(k)
  BY <1>2, SameCommand DEF FInv
<1>4. last = p + 1 <=> p + 1 <= Len(argv) /\ Wants(argv[p])
  BY <1>1 DEF Last, Wants, Known, TakesValue, valueFlags
<1>5. last = p + 1 => IsValue[p + 1]
  <2>1. last = p + 1 => p \in 1 .. Len(argv) - 1 /\ Wants(argv[p])
    BY <1>1, <1>4
  <2>2. QED
    BY <1>1, <2>1, IsValueDefined, Zenon
<1>6. last + 1 <= Len(argv) => ~IsValue[last + 1]
  <2>1. last + 1 <= Len(argv) => last \in 1 .. Len(argv) - 1
    BY <1>1
  <2>2. last \in 1 .. Len(argv) - 1 => ~Wants(argv[last]) \/ IsValue[last]
    <3>1. last = p /\ last \in 1 .. Len(argv) - 1 => ~Wants(argv[last])
      BY <1>1, <1>4
    <3>2. last = p \/ last = p + 1
      BY <1>1
    <3>3. QED
      BY <1>5, <3>1, <3>2, Zenon
  <2>3. QED
    BY <1>1, <2>1, <2>2, IsValueDefined, Zenon
<1>q. PICK q \in 1 .. Len(argv) + 1 : q = last + 1
  BY <1>1
<1>7. ASSUME NEW n \in Defined PROVE IsSet(n, q)'
  <2> DEFINE before == {k \in Settings(n) : k < p}
             upTo == {k \in Settings(n) : k < q}
  <2>1. (/\ upTo = {} => set'[n] = Unset[n]
         /\ \A k \in upTo : (\A other \in upTo : other <= k) => set'[n] = SaidAt(k))
        => IsSet(n, q)'
    BY <1>3 DEF IsSet
  <2>2. \A k \in Settings(n) : k \in 1 .. Len(argv) /\ k \in Own /\ ~IsValue[k]
    BY <1>1 DEF Settings, Own
  <2>3. \A k \in upTo : k \in before \/ k = p
    BY <1>1, <1>5, <1>q, <2>2
  <2>4. CASE n = f
    <3>1. p \in upTo
      BY <1>1, <1>q, <2>4 DEF Settings
    <3>2. set'[n] = SaidAt(p)
      BY <1>1, <1>2, <2>4
    <3>3. ASSUME NEW k \in upTo, \A other \in upTo : other <= k PROVE k = p
      BY <1>1, <2>2, <2>3, <3>1, <3>3
    <3>4. QED
      BY <2>1, <3>1, <3>2, <3>3
  <2>5. CASE n # f
    <3>1. p \notin Settings(n)
      BY <2>5 DEF Settings
    <3>2. upTo = before
      BY <1>1, <1>q, <2>2, <2>3, <3>1
    <3>3. set'[n] = set[n]
      BY <1>1, <1>2, <2>5
    <3>4. IsSet(n, p)
      BY DEF Places, ParsedTo
    <3>5. QED
      BY <2>1, <3>2, <3>3, <3>4 DEF IsSet
  <2>6. QED
    BY <2>4, <2>5
<1>8. ParsedTo(q)'
  BY <1>2, <1>3, <1>6, <1>7, <1>q DEF ParsedTo
<1>9. q \in 1 .. Len(argv') + 1
  BY <1>2
<1>10. q \in Places'
  BY <1>8, <1>9 DEF Places
<1>11. QED
  BY <1>10 DEF ParserPlaced

\* A turn of the parser sets the flag it stands at to what the command line says there,
\* or finds that flag malformed.
LEMMA TurnOfParser ==
    ASSUME FInv, ParseUnknown \/ ParseSwitch \/ ParseValue
    PROVE  /\ pc = "parse"
           /\ \E p \in Places :
                 /\ p \in Own
                 /\ \/ Sets(SaidAt(p), Last(argv, p) - p + 1) /\ SaidAt(p) \in Token
                    \/ UsageError /\ Malformed(p)
<1>1. pc = "parse" /\ out # << >>
  BY DEF ParseUnknown, ParseSwitch, ParseValue, Parsing
<1>2. /\ argv \in Seq(Token) /\ Len(argv) \in Nat
      /\ Rest(argv)[Len(argv) + 1] = << >>
  BY CommandTyped, RestDefined DEF FInv
<1>3. PICK p \in Places : p \in Own
  <2>1. PICK p \in Places : p \in Own \/ p = Len(argv) + 1
    BY <1>1, AtOwnFlag
  <2>2. p # Len(argv) + 1
    BY <1>1, <1>2 DEF Places, ParsedTo
  <2>3. QED
    BY <2>1, <2>2
<1> DEFINE t == argv[p]
           used == Last(argv, p) - p + 1
<1>4. /\ p \in 1 .. Len(argv) /\ t \in Token /\ Known(t)
      /\ Head(out) = t
      /\ Last(argv, p) = p + 1 => Len(out) > 1 /\ out[2] = argv[p + 1]
      /\ Last(argv, p) = p /\ p = Len(argv) => Len(out) = 1
  BY <1>1, <1>3, HeadIsFlag
<1>5. t.value \in Word \cup {None} /\ t.name \in Defined /\ None \notin Word
  BY <1>4, WordAssumption DEF Token, Known
<1>6. Last(argv, p) = IF t.name \in TakesValue /\ t.value = None /\ p + 1 <= Len(argv)
                      THEN p + 1 ELSE p
  BY DEF Last, TakesValue, valueFlags
<1>7. SaidAt(p) = CASE t.value # None -> Plain(t.value)
                    [] t.value = None /\ t.name \in TakesValue -> argv[p + 1]
                    [] OTHER -> Plain("true")
  BY DEF SaidAt
<1>8. Malformed(p) <=> \/ t.dashes > 2
                       \/ Wants(t) /\ p = Len(argv)
                       \/ t.name = "http" /\ t.value \notin {None, "true", "false"}
  BY DEF Malformed
<1>9. Wants(t) <=> t.name \in TakesValue /\ t.value = None
  BY <1>4 DEF Wants, Known
<1> HIDE DEF t
<1>10. CASE ParseUnknown
  <2>1. t.dashes > 2
    BY <1>4, <1>5, <1>10 DEF ParseUnknown, WellFormed, Token
  <2>2. QED
    BY <1>1, <1>3, <1>8, <1>10, <2>1 DEF ParseUnknown
<1>11. CASE ParseSwitch
  <2>1. t.name \notin TakesValue /\ t.name = "http"
    BY <1>4, <1>5, <1>11 DEF ParseSwitch, Defined
  <2>2. used = 1
    BY <1>4, <1>6, <2>1
  <2>3. CASE t.value = None /\ Sets(Plain("true"), 1)
    <3>1. SaidAt(p) = Plain("true")
      BY <1>7, <2>1, <2>3
    <3>2. SaidAt(p) \in Token
      BY <3>1, PlainTyped, WordAssumption
    <3>3. QED
      BY <1>1, <1>3, <2>2, <2>3, <3>1, <3>2
  <2>4. CASE t.value \in {"true", "false"} /\ Sets(Plain(t.value), 1)
    <3>1. t.value \in Word /\ t.value # None
      BY <1>5, <2>4, WordAssumption
    <3>2. SaidAt(p) = Plain(t.value) /\ SaidAt(p) \in Token
      BY <1>7, <3>1, PlainTyped
    <3>3. QED
      BY <1>1, <1>3, <2>2, <2>4, <3>2
  <2>5. CASE t.value \notin {None, "true", "false"} /\ UsageError
    BY <1>1, <1>3, <1>8, <2>1, <2>5
  <2>6. QED
    BY <1>4, <1>11, <2>3, <2>4, <2>5 DEF ParseSwitch
<1>12. CASE ParseValue
  <2>1. t.name \in TakesValue
    BY <1>4, <1>12 DEF ParseValue
  <2>2. CASE t.value # None /\ Sets(Plain(t.value), 1)
    <3>1. used = 1
      BY <1>4, <1>6, <2>2
    <3>2. SaidAt(p) = Plain(t.value) /\ SaidAt(p) \in Token
      BY <1>5, <1>7, <2>2, PlainTyped
    <3>3. QED
      BY <1>1, <1>3, <2>2, <3>1, <3>2
  <2>3. CASE t.value = None /\ Len(out) > 1 /\ Sets(out[2], 2)
    <3>1. p # Len(argv)
      BY <1>4, <1>6, <2>3
    <3>2. p + 1 \in 1 .. Len(argv) /\ Last(argv, p) = p + 1
      BY <1>2, <1>4, <1>6, <2>1, <2>3, <3>1
    <3>3. used = 2 /\ out[2] = argv[p + 1]
      BY <1>4, <3>2
    <3>4. SaidAt(p) = argv[p + 1]
      BY <1>7, <2>1, <2>3
    <3>5. argv[p + 1] \in Token
      BY <1>2, <3>2, ElementOfSeq
    <3>6. QED
      BY <1>1, <1>3, <2>3, <3>3, <3>4, <3>5
  <2>4. CASE t.value = None /\ Len(out) = 1 /\ UsageError
    <3>1. p = Len(argv)
      BY <1>2, <1>4, <1>6, <2>1, <2>4
    <3>2. QED
      BY <1>1, <1>3, <1>8, <1>9, <2>1, <2>4, <3>1
  <2>5. QED
    BY <1>4, <1>12, <2>2, <2>3, <2>4 DEF ParseValue
<1>13. QED
  BY <1>10, <1>11, <1>12

\* The parser goes from a place to a place.
LEMMA ParseKeepsFInv == FInv /\ (ParseUnknown \/ ParseSwitch \/ ParseValue) => FInv'
<1> SUFFICES ASSUME FInv, ParseUnknown \/ ParseSwitch \/ ParseValue PROVE FInv'
  OBVIOUS
<1>1. PICK p \in Places :
          /\ p \in Own
          /\ \/ Sets(SaidAt(p), Last(argv, p) - p + 1) /\ SaidAt(p) \in Token
             \/ UsageError /\ Malformed(p)
  BY TurnOfParser
<1>2. pc = "parse"
  BY TurnOfParser
<1>3. UNCHANGED <<entry, argv>>
  BY <1>1 DEF Sets, UsageError
<1>4. /\ Command' /\ Own' = Own
      /\ \A k : (Malformed(k)' <=> Malformed(k))
  BY <1>3, SameCommand DEF FInv
<1>5. CASE Sets(SaidAt(p), Last(argv, p) - p + 1) /\ SaidAt(p) \in Token
  <2>1. ParserPlaced'
    BY <1>1, <1>2, <1>5, SetsKeepsPlace
  <2>2. /\ UNCHANGED <<entry, argv, i, pc, mode>>
        /\ set' = [set EXCEPT ![argv[p].name] = SaidAt(p)]
        /\ out' = Rest(argv)[Last(argv, p) + 1]
    BY <1>1, <1>5, HeadIsFlag DEF Sets
  <2>3. out' \in Seq(Token)
    <3>1. argv \in Seq(Token) /\ Len(argv) \in Nat /\ p \in 1 .. Len(argv)
      BY <1>1, CommandTyped, HeadIsFlag DEF FInv
    <3>2. Last(argv, p) + 1 \in 1 .. Len(argv) + 1
      BY <3>1, KeptTyped
    <3>3. QED
      BY <2>2, <3>1, <3>2, RestDefined
  <2>4. TypeOK'
    BY <1>5, <2>2, <2>3 DEF FInv, TypeOK
  <2>5. FilterKeeps' /\ RunsAsSaid' /\ ForeignTolerated'
    BY <1>2, <2>2 DEF FilterKeeps, RunsAsSaid, ForeignTolerated
  <2>6. QED
    BY <1>4, <2>1, <2>4, <2>5 DEF FInv
<1>6. CASE UsageError /\ Malformed(p)
  <2>1. pc' = "usage" /\ UNCHANGED <<entry, argv, i, out, set, mode>>
    BY <1>6 DEF UsageError
  <2>2. TypeOK'
    BY <2>1 DEF FInv, TypeOK
  <2>3. ForeignTolerated'
    BY <1>1, <1>4, <1>6 DEF ForeignTolerated
  <2>4. FilterKeeps' /\ ParserPlaced' /\ RunsAsSaid'
    BY <2>1 DEF FilterKeeps, ParserPlaced, RunsAsSaid
  <2>5. QED
    BY <1>4, <2>2, <2>3, <2>4 DEF FInv
<1>7. QED
  BY <1>1, <1>5, <1>6

\* What a flag is last set to on the command line is what it says.
LEMMA LastSettingSaid ==
    ASSUME FInv, NEW n \in Defined, Settings(n) # {}
    PROVE  \E k \in Settings(n) : (\A other \in Settings(n) : other <= k) /\ Says(n) = SaidAt(k)
<1> DEFINE IsLast(k) == k \in Settings(n) /\ \A other \in Settings(n) : other <= k
           k == CHOOSE k \in Settings(n) : \A other \in Settings(n) : other <= k
<1>1. Len(argv) \in Nat /\ DOMAIN argv = 1 .. Len(argv)
  BY CommandTyped DEF FInv
<1>2. Settings(n) \in SUBSET (0 .. Len(argv))
  BY <1>1 DEF Settings, Own
<1>3. \E greatest \in Settings(n) : \A other \in Settings(n) : other <= greatest
  BY <1>1, <1>2, GreatestElement, Zenon
<1>4. k \in Settings(n) /\ \A other \in Settings(n) : other <= k
  BY <1>3, Zenon
<1>5. Says(n) = CASE argv[k].value # None -> Plain(argv[k].value)
                  [] argv[k].value = None /\ n \in TakesValue -> argv[k + 1]
                  [] OTHER -> Plain("true")
  BY DEF Says
<1> HIDE DEF k
<1>6. argv[k].name = n
  BY <1>4 DEF Settings
<1>7. QED
  BY <1>4, <1>5, <1>6 DEF SaidAt

\* The parser stops only at the end, where every flag is as the command line says.
LEMMA ParsedIsSaid ==
    ASSUME FInv, Parsed, NEW n \in Defined
    PROVE  set[n] = Says(n)
<1>1. pc = "parse"
  BY DEF Parsed
<1>2. PICK p \in Places : p \in Own \/ p = Len(argv) + 1
  BY <1>1, AtOwnFlag
<1>3. p = Len(argv) + 1
  BY <1>1, <1>2, HeadIsFlag DEF Parsed, Parsing
<1>4. Len(argv) \in Nat /\ DOMAIN argv = 1 .. Len(argv)
  BY CommandTyped DEF FInv
<1>5. {k \in Settings(n) : k < p} = Settings(n)
  BY <1>3, <1>4 DEF Settings, Own
<1>6. /\ Settings(n) = {} => set[n] = Unset[n]
      /\ \A k \in Settings(n) :
            (\A other \in Settings(n) : other <= k) => set[n] = SaidAt(k)
  BY <1>5 DEF Places, ParsedTo, IsSet
<1>7. CASE Settings(n) = {}
  BY <1>6, <1>7 DEF Says
<1>8. CASE Settings(n) # {}
  BY <1>6, <1>8, LastSettingSaid
<1>9. QED
  BY <1>7, <1>8

\* Dispatch goes by the flags that were set.
LEMMA DispatchKeepsFInv == FInv /\ Dispatch => FInv'
<1> SUFFICES ASSUME FInv, Dispatch PROVE FInv'
  OBVIOUS
<1>1. /\ pc' = "running" /\ UNCHANGED <<entry, argv, i, out, set>>
      /\ mode' = CASE set["http"] = Plain("true") -> "http"
                   [] set["http"] # Plain("true") /\ set["unix"] # Plain(Empty) -> "unix"
                   [] OTHER -> "stdio"
  BY DEF Dispatch
<1>2. \A n \in Defined : set[n] = Says(n)
  BY ParsedIsSaid DEF Dispatch
<1>3. Command' /\ \A n : Says(n)' = Says(n)
  BY <1>1, SameCommand DEF FInv
<1>4. TypeOK'
  BY <1>1 DEF FInv, TypeOK
<1>5. RunsAsSaid'
  <2>1. /\ mode' = "http" <=> set["http"] = Plain("true")
        /\ mode' = "unix" <=> set["http"] # Plain("true") /\ set["unix"] # Plain(Empty)
    BY <1>1
  <2>2. QED
    BY <1>1, <1>2, <1>3, <2>1 DEF RunsAsSaid
<1>6. FilterKeeps' /\ ParserPlaced' /\ ForeignTolerated'
  BY <1>1 DEF FilterKeeps, ParserPlaced, ForeignTolerated
<1>7. QED
  BY <1>3, <1>4, <1>5, <1>6 DEF FInv

\* Every step keeps the invariant.
LEMMA FInvStep == FInv /\ [Next]_vars => FInv'
<1> SUFFICES ASSUME FInv, [Next]_vars PROVE FInv'
  OBVIOUS
<1>1. CASE ApplyFails
  <2>1. pc' = "fatal" /\ UNCHANGED <<entry, argv, i, out, set, mode>>
    BY <1>1 DEF ApplyFails
  <2>2. Command'
    BY <2>1, SameCommand DEF FInv
  <2>3. QED
    BY <2>1, <2>2 DEF FInv, TypeOK, FilterKeeps, ParserPlaced, RunsAsSaid, ForeignTolerated
<1>2. CASE UNCHANGED vars
  <2>1. UNCHANGED <<entry, argv, i, out, set, pc, mode>>
    BY <1>2 DEF vars
  <2>2. /\ Command' /\ IsValue' = IsValue /\ Own' = Own
        /\ \A n : Settings(n)' = Settings(n) /\ Says(n)' = Says(n)
        /\ \A k : SaidAt(k)' = SaidAt(k) /\ (Malformed(k)' <=> Malformed(k))
    BY <2>1, SameCommand DEF FInv
  <2>3. TypeOK' /\ FilterKeeps'
    BY <2>1 DEF FInv, TypeOK, FilterKeeps
  <2>4. ParserPlaced'
    BY <2>1, <2>2 DEF FInv, ParserPlaced, Places, ParsedTo, IsSet
  <2>5. RunsAsSaid' /\ ForeignTolerated'
    BY <2>1, <2>2 DEF FInv, RunsAsSaid, ForeignTolerated
  <2>6. QED
    BY <2>2, <2>3, <2>4, <2>5 DEF FInv
<1>3. QED
  BY <1>1, <1>2, SkipKeepsFInv, KeepKeepsFInv, FilteredKeepsFInv, ParseKeepsFInv,
     DispatchKeepsFInv DEF Next, Terminated

\* FInv holds in every state of the worker's start.
LEMMA FInvHolds == Spec => []FInv
<1>1. QED
  BY InitFInv, FInvStep, PTL DEF Spec

(***************************************************************************)
(* The properties                                                          *)
(***************************************************************************)
\* The loop counter stays in the command line, and what is kept and set are tokens
\* (main.go, filterKnownFlags).
THEOREM TypeCorrect == Spec => []TypeOK
<1>1. FInv => TypeOK
  BY DEF FInv
<1>2. QED
  BY <1>1, FInvHolds, PTL

\* Whatever a launcher adds, and however much, only a misspelt flag of the worker's
\* own keeps it from starting (main.go, "Unknown launcher flags are tolerated").
THEOREM LauncherIsTolerated == Spec => []ForeignTolerated
<1>1. FInv => ForeignTolerated
  BY DEF FInv
<1>2. QED
  BY <1>1, FInvHolds, PTL

\* Flags set as the command line says are served as it asks.
LEMMA SaidIsServed == FInv => ServesAsAsked
<1>1. {"http", "http-addr", "unix"} \subseteq Defined
  BY DEF Defined, TakesValue
<1>2. QED
  BY <1>1 DEF FInv, RunsAsSaid, ServesAsAsked

\* The worker serves the transport, the address and the path that its command line
\* asks for, of any length (main.go, filterKnownFlags and the dispatch of main).
THEOREM ServedAsAsked == Spec => []ServesAsAsked
<1>1. QED
  BY SaidIsServed, FInvHolds, PTL

\* A container in http mode is on the published port unless its user asked for
\* another transport or address (docker-entrypoint.sh, "Bind 0.0.0.0 on a FIXED
\* port").
THEOREM ContainerIsReachable == Spec => []ContainerReachable
<1>1. FInv => ContainerReachable
  <2> SUFFICES ASSUME FInv, entry = "http", pc = "running",
                      \A k \in Own : argv[k].name \in {"http", "http-addr"} => k <= 2
               PROVE  mode = "http" /\ set["http-addr"] = Plain(ContainerAddr)
    BY DEF ContainerReachable
  <2>1. PICK rest \in Argv : argv = Given("http", rest)
    BY DEF FInv, Command
  <2> DEFINE first == <<Flag("http"), Flag("http-addr"), Plain(ContainerAddr)>>
  <2>2. argv = first \o rest /\ rest \in Seq(Token)
    BY <2>1, ArgvAssumption DEF Given
  <2>3. /\ argv \in Seq(Token) /\ Len(argv) \in Nat /\ DOMAIN argv = 1 .. Len(argv)
    BY CommandTyped DEF FInv
  <2>4. /\ Len(argv) >= 3 /\ argv[1] = Flag("http") /\ argv[2] = Flag("http-addr")
        /\ argv[3] = Plain(ContainerAddr)
    <3> DEFINE T == {Flag("http"), Flag("http-addr"), Plain(ContainerAddr)} \cup Token
    <3>1. first \in Seq(T) /\ Len(first) = 3
      OBVIOUS
    <3>2. rest \in Seq(T) /\ Len(rest) \in Nat
      BY <2>2, LenProperties
    <3>3. first[1] = Flag("http") /\ first[2] = Flag("http-addr")
          /\ first[3] = Plain(ContainerAddr)
      OBVIOUS
    <3> HIDE DEF first, T
    <3>4. Len(argv) = 3 + Len(rest) /\ \A j \in 1 .. 3 : argv[j] = first[j]
      <4>1. /\ Len(first \o rest) = Len(first) + Len(rest)
            /\ \A j \in 1 .. Len(first) + Len(rest) :
                  (first \o rest)[j] = IF j <= Len(first) THEN first[j]
                                       ELSE rest[j - Len(first)]
        BY <3>1, <3>2, ConcatProperties
      <4>2. QED
        BY <2>2, <3>1, <3>2, <4>1
    <3>5. QED
      BY <3>2, <3>3, <3>4
  <2>5. /\ argv[1].name = "http" /\ argv[1].value = None /\ argv[1].dashes = 2
        /\ argv[2].name = "http-addr" /\ argv[2].value = None /\ argv[2].dashes = 2
    BY <2>4 DEF Flag
  <2>6. ~IsValue[1] /\ ~IsValue[2]
    <3>1. 1 \in 1 .. Len(argv) - 1 /\ ~Wants(argv[1]) /\ 1 + 1 = 2 /\ 1 <= Len(argv)
      BY <2>3, <2>4, <2>5 DEF Wants, TakesValue
    <3>2. IsValue[1 + 1] <=> ~IsValue[1] /\ Wants(argv[1])
      BY <2>3, <3>1, IsValueDefined, Zenon
    <3>3. QED
      BY <2>3, <3>1, <3>2, IsValueDefined
  <2>7. 1 \in Own /\ 2 \in Own
    BY <2>3, <2>4, <2>5, <2>6 DEF Own, Defined, TakesValue
  <2>8. \A k \in Own : k \in 1 .. Len(argv)
    BY <2>3 DEF Own
  <2>9. Settings("http") = {1} /\ Settings("http-addr") = {2}
    <3>1. \A k \in Own : argv[k].name \in {"http", "http-addr"} => k = 1 \/ k = 2
      BY <2>3, <2>8
    <3>2. QED
      BY <2>5, <2>7, <3>1 DEF Settings
  <2>10. "http" \in Defined /\ "http-addr" \in Defined
    BY DEF Defined, TakesValue
  <2>11. Says("http") = SaidAt(1) /\ Says("http-addr") = SaidAt(2)
    <3>1. Settings("http") # {} /\ Settings("http-addr") # {}
      BY <2>9
    <3>2. \E k \in Settings("http") : Says("http") = SaidAt(k)
      BY <2>10, <3>1, LastSettingSaid
    <3>3. \E k \in Settings("http-addr") : Says("http-addr") = SaidAt(k)
      BY <2>10, <3>1, LastSettingSaid
    <3>4. QED
      BY <2>9, <3>2, <3>3
  <2>12. SaidAt(1) = Plain("true")
    BY <2>5 DEF SaidAt, TakesValue
  <2>13. SaidAt(2) = Plain(ContainerAddr)
    <3>1. 2 + 1 = 3
      OBVIOUS
    <3>2. QED
      BY <2>4, <2>5, <3>1 DEF SaidAt, TakesValue
  <2>14. QED
    BY <2>10, <2>11, <2>12, <2>13 DEF FInv, RunsAsSaid
<1>2. QED
  BY <1>1, FInvHolds, PTL
=============================================================================
