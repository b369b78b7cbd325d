------------------------ MODULE ScrollbackSyncProofs ------------------------
(***************************************************************************)
(* Proofs about ScrollbackSync, for every number of lines of history, every *)
(* limit of the client and every capacity of its channel.                  *)
(***************************************************************************)
EXTENDS ScrollbackSync, SequenceTheorems, FiniteSetTheorems, TLAPS

-----------------------------------------------------------------------------
(* Numbers.                                                                *)

\* Every set of numbers has a least one: what the proofs by induction below
\* apply to the set of counterexamples.
LEMMA LeastNumber ==
    ASSUME NEW T, T \subseteq Nat, T # {}
    PROVE  \E n \in T : \A m \in T : n <= m
<1> DEFINE R == StrictSubsetOrdering(Nat)
           initials == {1..n : n \in T}
<1>1. IsWellFoundedOn(R, FiniteSubsetsOf(Nat))
  BY FS_StrictSubsetOrderingWellFounded
<1>2. initials \subseteq FiniteSubsetsOf(Nat) /\ initials # {}
  <2>1. \A n \in T : IsFiniteSet(1..n)
    BY FS_Interval
  <2>2. \A n \in T : 1..n \subseteq Nat
    OBVIOUS
  <2>3. \A x \in initials : x \in FiniteSubsetsOf(Nat)
    BY <2>1, <2>2 DEF FiniteSubsetsOf
  <2> QED
    BY <2>3
<1>3. PICK x \in initials : \A y \in initials : <<y, x>> \notin R
  BY <1>1, <1>2, WFMin
<1>4. PICK n \in T : x = 1..n
  OBVIOUS
<1>5. ASSUME NEW m \in T, m < n PROVE FALSE
  <2>1. 1..m \subseteq 1..n /\ 1..m # 1..n /\ 1..m \in initials
    BY <1>5
  <2>2. <<1..m, 1..n>> \in R
    BY <2>1 DEF StrictSubsetOrdering
  <2> QED
    BY <2>1, <2>2, <1>3, <1>4
<1> QED
  BY <1>5

LEMMA TwoNumbers ==
    ASSUME NEW a \in Int, NEW b \in Int
    PROVE  /\ Max({a, b}) = IF a >= b THEN a ELSE b
           /\ Min({a, b}) = IF a <= b THEN a ELSE b
<1>1. \A x \in {a, b} : (\A y \in {a, b} : x >= y) <=> x = IF a >= b THEN a ELSE b
  OBVIOUS
<1>2. \A x \in {a, b} : (\A y \in {a, b} : x <= y) <=> x = IF a <= b THEN a ELSE b
  OBVIOUS
<1> QED
  BY <1>1, <1>2 DEF Max, Min

-----------------------------------------------------------------------------
(* The ends of sequences.                                                  *)

\* What Newest returns.
LEMMA NewestProperties ==
    ASSUME NEW S, NEW s \in Seq(S), NEW n \in Nat
    PROVE  /\ Newest(s, n) \in Seq(S)
           /\ Len(Newest(s, n)) \in Nat
           /\ Len(Newest(s, n)) = IF n <= Len(s) THEN n ELSE Len(s)
           /\ \A i \in 1..Len(Newest(s, n)) :
                Newest(s, n)[i] = s[Len(s) - Len(Newest(s, n)) + i]
<1> DEFINE first == IF 1 >= Len(s) - n + 1 THEN 1 ELSE Len(s) - n + 1
<1>1. Len(s) \in Nat /\ DOMAIN s = 1..Len(s) /\ \A i \in 1..Len(s) : s[i] \in S
  BY LenProperties, ElementOfSeq
<1>2. Newest(s, n) = SubSeq(s, first, Len(s))
  <2>1. 1 \in Int /\ Len(s) - n + 1 \in Int
    BY <1>1
  <2>2. Max({1, Len(s) - n + 1}) = first
    BY <2>1, TwoNumbers
  <2> QED
    BY <2>2 DEF Newest
<1>3. \A l \in Nat : LET f == IF 1 >= l - n + 1 THEN 1 ELSE l - n + 1
                          k == IF n <= l THEN n ELSE l
                      IN  f \in Nat \ {0} /\ k = IF f <= l THEN l - f + 1 ELSE 0
  OBVIOUS
<1>4. /\ first \in Nat \ {0}
      /\ (IF n <= Len(s) THEN n ELSE Len(s)) = IF first <= Len(s) THEN Len(s) - first + 1 ELSE 0
  BY <1>1, <1>3
<1> HIDE DEF first
<1>5. /\ SubSeq(s, first, Len(s)) \in Seq(S)
      /\ Len(SubSeq(s, first, Len(s))) = IF first <= Len(s) THEN Len(s) - first + 1 ELSE 0
      /\ \A i \in 1..(Len(s) - first + 1) : SubSeq(s, first, Len(s))[i] = s[first + i - 1]
  BY <1>1, <1>4, SubSeqProperties
<1>6. /\ Len(Newest(s, n)) = IF first <= Len(s) THEN Len(s) - first + 1 ELSE 0
      /\ Newest(s, n) \in Seq(S)
      /\ \A i \in 1..(Len(s) - first + 1) : Newest(s, n)[i] = s[first + i - 1]
  BY <1>2, <1>5
<1>7. ASSUME NEW i \in 1..Len(Newest(s, n))
      PROVE  Newest(s, n)[i] = s[Len(s) - Len(Newest(s, n)) + i]
  <2>1. /\ i \in 1..(Len(s) - first + 1)
        /\ Len(s) - Len(Newest(s, n)) + i = first + i - 1
    <3>1. \A l, f, c, j \in Nat :
            f # 0 /\ c = (IF f <= l THEN l - f + 1 ELSE 0) /\ j \in 1..c
              => j \in 1..(l - f + 1) /\ l - c + j = f + j - 1
      OBVIOUS
    <3>2. /\ Len(s) \in Nat /\ first \in Nat /\ Len(Newest(s, n)) \in Nat /\ i \in Nat
          /\ first # 0
      BY <1>1, <1>4, <1>6, LenProperties
    <3>3. Len(Newest(s, n)) = (IF first <= Len(s) THEN Len(s) - first + 1 ELSE 0)
          /\ i \in 1..Len(Newest(s, n))
      BY <1>6
    <3> DEFINE l == Len(s)
               c == Len(Newest(s, n))
    <3>4. l \in Nat /\ c \in Nat /\ c = (IF first <= l THEN l - first + 1 ELSE 0) /\ i \in 1..c
      BY <3>2, <3>3
    <3> HIDE DEF l, c
    <3>5. i \in 1..(l - first + 1) /\ l - c + i = first + i - 1
      BY <3>1, <3>2, <3>4
    <3> QED
      BY <3>5 DEF l, c
  <2> QED
    BY <2>1, <1>6
<1>8. Len(Newest(s, n)) = IF n <= Len(s) THEN n ELSE Len(s)
  BY <1>4, <1>6
<1> QED
  BY <1>1, <1>6, <1>7, <1>8

\* v is what the first n elements of s end with.
Ends(v, s, n) ==
    /\ Len(v) <= n /\ n <= Len(s)
    /\ \A i \in 1..Len(v) : v[i] = s[n - Len(v) + i]

LEMMA EndsIsSuffix ==
    ASSUME NEW S, NEW v \in Seq(S), NEW s \in Seq(S), NEW n \in Nat, n <= Len(s)
    PROVE  IsSuffix(v, SubSeq(s, 1, n)) <=> Ends(v, s, n)
<1> DEFINE t == SubSeq(s, 1, n)
<1>1. /\ Len(v) \in Nat /\ Len(s) \in Nat /\ \A i \in 1..n : s[i] \in S
  BY LenProperties, ElementOfSeq
<1>2. t \in Seq(S) /\ Len(t) = n /\ \A i \in 1..n : t[i] = s[i]
  BY <1>1, SubSeqProperties
<1> HIDE DEF t
<1>3. /\ Reverse(v) = [i \in 1..Len(v) |-> v[(Len(v) - i) + 1]]
      /\ Reverse(t) = [i \in 1..n |-> t[(n - i) + 1]]
  BY <1>2 DEF Reverse
<1>4. \A i \in 1..Len(v) : v[i] \in S
  BY ElementOfSeq
<1>5. \A i \in 1..n : t[i] \in S
  BY <1>2, ElementOfSeq
<1>6. Reverse(v) \in Seq(S) /\ Len(Reverse(v)) = Len(v)
  BY <1>1, <1>3, <1>4, IsASeq
<1>7. Reverse(t) \in Seq(S) /\ Len(Reverse(t)) = n
  BY <1>3, <1>5, IsASeq
<1>8. IsSuffix(v, t) <=> Len(v) <= n /\ SubSeq(Reverse(v), 1, Len(v)) = SubSeq(Reverse(t), 1, Len(v))
  BY <1>6, <1>7 DEF IsSuffix, IsPrefix
<1>9. SubSeq(Reverse(v), 1, Len(v)) = Reverse(v)
  BY <1>6, SubSeqFull
<1>10. CASE Len(v) <= n
  <2>1. /\ SubSeq(Reverse(t), 1, Len(v)) \in Seq(S)
        /\ Len(SubSeq(Reverse(t), 1, Len(v))) = Len(v)
        /\ \A i \in 1..Len(v) : SubSeq(Reverse(t), 1, Len(v))[i] = Reverse(t)[i]
    <3>1. \A i \in 1..Len(v) : Reverse(t)[i] \in S
      BY <1>7, <1>10, <1>1, ElementOfSeq
    <3> QED
      BY <3>1, <1>1, SubSeqProperties
  <2>2. IsSuffix(v, t) <=> \A i \in 1..Len(v) : Reverse(v)[i] = Reverse(t)[i]
    BY <1>6, <1>8, <1>9, <1>10, <2>1, SeqEqual
  <2>3. \A i \in 1..Len(v) : Reverse(v)[i] = v[Len(v) - i + 1]
                             /\ Reverse(t)[i] = s[n - i + 1]
    BY <1>1, <1>2, <1>3, <1>10
  <2>4. ASSUME IsSuffix(v, t), NEW i \in 1..Len(v) PROVE v[i] = s[n - Len(v) + i]
    <3>1. Len(v) - i + 1 \in 1..Len(v)
      BY <1>1
    <3>2. v[Len(v) - (Len(v) - i + 1) + 1] = s[n - (Len(v) - i + 1) + 1]
      BY <3>1, <2>2, <2>3, <2>4
    <3> QED
      BY <3>2, <1>1
  <2>5. ASSUME Ends(v, s, n), NEW i \in 1..Len(v) PROVE Reverse(v)[i] = Reverse(t)[i]
    <3>1. Len(v) - i + 1 \in 1..Len(v)
      BY <1>1
    <3>2. v[Len(v) - i + 1] = s[n - Len(v) + (Len(v) - i + 1)]
      BY <3>1, <2>5 DEF Ends
    <3> QED
      BY <3>2, <2>3, <1>1
  <2> QED
    BY <1>10, <2>2, <2>4, <2>5 DEF t, Ends
<1>11. CASE ~(Len(v) <= n)
  BY <1>8, <1>11 DEF t, Ends
<1> QED
  BY <1>10, <1>11

-----------------------------------------------------------------------------
(* What a channel makes of a scrollback.                                   *)

After(g, c) == FoldLeft(Apply, g, c)

\* The equation of the fold: iter[t] is what the messages at the indices of t make
\* of g.
Iterates(g, c, n, iter) ==
    iter = [t \in SUBSET (1..n) |->
              IF t = {} THEN g ELSE Apply(iter[t \ {Max(t)}], c[Max(t)])]

LEMMA MaxOfTop ==
    ASSUME NEW n \in Nat, NEW t \in SUBSET (1..(n + 1)), n + 1 \in t
    PROVE  Max(t) = n + 1
<1>1. \A y \in t : n + 1 >= y
  OBVIOUS
<1>2. \A x \in t : (\A y \in t : x >= y) => x = n + 1
  OBVIOUS
<1> QED
  BY <1>1, <1>2 DEF Max

\* It has a solution, by the least n for which it has none.
LEMMA IteratesExist ==
    ASSUME NEW g, NEW c, NEW n \in Nat
    PROVE  \E iter : Iterates(g, c, n, iter)
<1> DEFINE T == {m \in Nat : ~ \E iter : Iterates(g, c, m, iter)}
<1>1. ASSUME T # {} PROVE FALSE
  <2>1. PICK m \in T : \A k \in T : m <= k
    BY <1>1, LeastNumber
  <2>2. m \in Nat /\ ~ \E iter : Iterates(g, c, m, iter)
    OBVIOUS
  <2>3. CASE m = 0
    <3> DEFINE iter == [t \in SUBSET (1..0) |-> g]
    <3>1. \A t \in SUBSET (1..0) : t = {}
      OBVIOUS
    <3>2. Iterates(g, c, 0, iter)
      BY <3>1, Zenon DEF Iterates
    <3> QED
      BY <3>2, <2>2, <2>3
  <2>4. CASE m # 0
    <3>1. m - 1 \in Nat /\ ~(m <= m - 1)
      BY <2>2, <2>4
    <3> DEFINE k == m - 1
    <3>2. k \in Nat /\ k \notin T /\ m = k + 1
      BY <2>1, <2>2, <3>1
    <3> HIDE DEF k
    <3>3. PICK old : Iterates(g, c, k, old)
      BY <3>2
    <3> DEFINE iter == [t \in SUBSET (1..(k + 1)) |->
                          IF k + 1 \in t THEN Apply(old[t \ {k + 1}], c[k + 1])
                                         ELSE old[t]]
    <3>4. ASSUME NEW t \in SUBSET (1..(k + 1))
          PROVE  iter[t] = IF t = {} THEN g ELSE Apply(iter[t \ {Max(t)}], c[Max(t)])
      <4>1. CASE k + 1 \in t
        <5>1. Max(t) = k + 1 /\ t # {}
          BY <4>1, <3>2, MaxOfTop
        <5>2. t \ {k + 1} \in SUBSET (1..k) /\ t \ {k + 1} \in SUBSET (1..(k + 1))
              /\ k + 1 \notin t \ {k + 1}
          BY <3>2
        <5>3. iter[t] = Apply(old[t \ {k + 1}], c[k + 1])
          BY <4>1
        <5>4. iter[t \ {k + 1}] = old[t \ {k + 1}]
          BY <5>2
        <5> QED
          BY <5>1, <5>3, <5>4
      <4>2. CASE k + 1 \notin t
        <5>1. t \in SUBSET (1..k)
          BY <4>2, <3>2
        <5>2. old[t] = IF t = {} THEN g ELSE Apply(old[t \ {Max(t)}], c[Max(t)])
          BY <5>1, <3>3 DEF Iterates
        <5>3. iter[t] = old[t]
          BY <4>2
        <5>4. t \ {Max(t)} \in SUBSET (1..(k + 1)) /\ k + 1 \notin t \ {Max(t)}
          BY <4>2
        <5>5. iter[t \ {Max(t)}] = old[t \ {Max(t)}]
          BY <5>4
        <5> QED
          BY <5>2, <5>3, <5>5
      <4> QED
        BY <4>1, <4>2
    <3>5. iter = [t \in SUBSET (1..(k + 1)) |-> iter[t]]
      OBVIOUS
    <3> HIDE DEF iter
    <3>6. Iterates(g, c, k + 1, iter)
      BY <3>4, <3>5 DEF Iterates
    <3> QED
      BY <3>6, <3>2, <2>2
  <2> QED
    BY <2>3, <2>4
<1> QED
  BY <1>1

\* run[i] is the scrollback after the first i messages of c.
Runs(g, c, run) ==
    run[0] = g /\ \A i \in 1..Len(c) : run[i] = Apply(run[i - 1], c[i])

LEMMA FoldRuns ==
    ASSUME NEW g, NEW c \in Seq(Msg)
    PROVE  \E run : Runs(g, c, run) /\ After(g, c) = run[Len(c)]
<1> DEFINE n == Len(c)
           iter == CHOOSE iter : Iterates(g, c, n, iter)
           run == [i \in 0..n |-> iter[1..i]]
<1>1. n \in Nat /\ DOMAIN c = 1..n
  BY LenProperties
<1>2. Iterates(g, c, n, iter)
  BY <1>1, IteratesExist
<1>3. After(g, c) = iter[1..n]
  BY <1>1, Zenon DEF After, FoldLeft, MapThenFoldSet, Iterates
<1> HIDE DEF iter
<1>4. run[0] = g
  <2>1. 1..0 = {} /\ {} \in SUBSET (1..n)
    OBVIOUS
  <2>2. run[0] = iter[1..0]
    BY <1>1
  <2> QED
    BY <2>1, <2>2, <1>2 DEF Iterates
<1>5. ASSUME NEW i \in 1..n PROVE run[i] = Apply(run[i - 1], c[i])
  <2> DEFINE k == i - 1
  <2>1. k \in Nat /\ i = k + 1 /\ k \in 0..n /\ i \in 0..n
    BY <1>1
  <2> HIDE DEF k
  <2>2. 1..i \in SUBSET (1..n) /\ 1..i # {} /\ (1..i) \ {i} = 1..k
    <3>1. \A j \in 1..i : j \in 1..n
      BY <2>1, <1>1
    <3>2. i \in 1..i
      BY <2>1
    <3>3. \A j : j \in (1..i) \ {i} <=> j \in 1..k
      BY <2>1
    <3> QED
      BY <3>1, <3>2, <3>3
  <2>3. 1..(k + 1) \in SUBSET (1..(k + 1)) /\ k + 1 \in 1..(k + 1)
    BY <2>1
  <2>4. Max(1..i) = i
    BY <2>1, <2>3, MaxOfTop
  <2>5. iter[1..i] = Apply(iter[1..k], c[i])
    BY <2>2, <2>4, <1>2 DEF Iterates
  <2> QED
    BY <2>1, <2>5 DEF k
<1>6. run[n] = iter[1..n]
  BY <1>1
<1> HIDE DEF run
<1> QED
  BY <1>3, <1>4, <1>5, <1>6 DEF Runs

\* There is one run only, by the least index at which two differ.
LEMMA RunIsFold ==
    ASSUME NEW g, NEW c \in Seq(Msg), NEW run, Runs(g, c, run)
    PROVE  After(g, c) = run[Len(c)]
<1>1. PICK other : Runs(g, c, other) /\ After(g, c) = other[Len(c)]
  BY FoldRuns
<1> DEFINE T == {i \in Nat : i <= Len(c) /\ run[i] # other[i]}
<1>2. ASSUME T # {} PROVE FALSE
  <2>1. PICK i \in T : \A j \in T : i <= j
    BY <1>2, LeastNumber
  <2>2. Len(c) \in Nat /\ i \in Nat /\ i <= Len(c) /\ run[i] # other[i]
    BY LenProperties
  <2>3. i # 0
    BY <2>2, <1>1 DEF Runs
  <2>4. i \in 1..Len(c) /\ i - 1 \in Nat /\ ~(i <= i - 1) /\ i - 1 <= Len(c)
    BY <2>2, <2>3
  <2>5. run[i - 1] = other[i - 1]
    BY <2>1, <2>4
  <2> QED
    BY <2>2, <2>4, <2>5, <1>1 DEF Runs
<1>3. Len(c) \in Nat /\ Len(c) \notin T
  BY <1>2, LenProperties
<1> QED
  BY <1>1, <1>3

LEMMA AfterNone ==
    ASSUME NEW g
    PROVE  After(g, <<>>) = g
<1>1. <<>> \in Seq(Msg) /\ Len(<<>>) = 0
  BY EmptySeq
<1> DEFINE run == [i \in {0} |-> g]
<1>2. run[0] = g
  OBVIOUS
<1> HIDE DEF run
<1>3. Runs(g, <<>>, run)
  BY <1>1, <1>2 DEF Runs
<1> QED
  BY <1>1, <1>2, <1>3, RunIsFold

\* A message at the end.
LEMMA AfterAppend ==
    ASSUME NEW g, NEW c \in Seq(Msg), NEW m \in Msg
    PROVE  After(g, Append(c, m)) = Apply(After(g, c), m)
<1> DEFINE n == Len(c)
           d == Append(c, m)
<1>1. /\ n \in Nat /\ d \in Seq(Msg) /\ Len(d) = n + 1
      /\ \A i \in 1..n : d[i] = c[i]
      /\ d[n + 1] = m
  BY LenProperties, AppendProperties
<1>2. PICK run : Runs(g, d, run) /\ After(g, d) = run[n + 1]
  BY <1>1, FoldRuns
<1> HIDE DEF d
<1>3. Runs(g, c, run)
  <2>1. \A i \in 1..n : i \in 1..(n + 1)
    BY <1>1
  <2> QED
    BY <2>1, <1>1, <1>2 DEF Runs
<1>4. After(g, c) = run[n]
  BY <1>3, RunIsFold
<1>5. n + 1 \in 1..(n + 1) /\ (n + 1) - 1 = n
  BY <1>1
<1> QED
  BY <1>1, <1>2, <1>4, <1>5 DEF Runs, d

\* The message at the head, read.
LEMMA AfterHead ==
    ASSUME NEW g, NEW c \in Seq(Msg), c # <<>>
    PROVE  After(Apply(g, Head(c)), Tail(c)) = After(g, c)
<1> DEFINE n == Len(c)
           d == Tail(c)
<1>1. /\ n \in Nat \ {0} /\ d \in Seq(Msg) /\ Len(d) = n - 1
      /\ \A i \in 1..Len(d) : d[i] = c[i + 1]
      /\ Head(c) = c[1]
  BY LenProperties, EmptySeq, HeadTailProperties
<1>2. PICK run : Runs(g, c, run) /\ After(g, c) = run[n]
  BY FoldRuns
<1> DEFINE later == [i \in 0..(n - 1) |-> run[i + 1]]
<1> HIDE DEF d
<1>3. later[0] = Apply(g, Head(c))
  <2>1. 1 \in 1..n /\ 1 - 1 = 0 /\ 0 + 1 = 1 /\ 0 \in 0..(n - 1)
    BY <1>1
  <2>2. run[1] = Apply(run[0], c[1])
    BY <2>1, <1>2 DEF Runs
  <2> QED
    BY <2>1, <2>2, <1>1, <1>2 DEF Runs
<1>4. ASSUME NEW i \in 1..Len(d) PROVE later[i] = Apply(later[i - 1], d[i])
  <2>1. /\ i \in 0..(n - 1) /\ i - 1 \in 0..(n - 1) /\ i + 1 \in 1..n
        /\ (i + 1) - 1 = i /\ (i - 1) + 1 = i
    BY <1>1
  <2>2. run[i + 1] = Apply(run[i], c[i + 1])
    BY <2>1, <1>2 DEF Runs
  <2> QED
    BY <2>1, <2>2, <1>1
<1>5. later[Len(d)] = run[n]
  BY <1>1
<1> HIDE DEF later
<1>6. Runs(Apply(g, Head(c)), d, later)
  BY <1>3, <1>4 DEF Runs
<1> QED
  BY <1>1, <1>2, <1>5, <1>6, RunIsFold DEF d

\* A scrollback as the client keeps it.
Short(g) == g \in Seq(1..MaxRows) /\ Len(g) <= ClientCap

LEMMA ApplyShort ==
    ASSUME NEW g \in Seq(1..MaxRows), NEW m \in Msg
    PROVE  Short(Apply(g, m))
<1> DEFINE s == (IF m.replace THEN <<>> ELSE g) \o m.rows
<1>1. s \in Seq(1..MaxRows) /\ ClientCap \in Nat
  BY ConcatProperties, EmptySeq, ScrollbackAssumption DEF Msg
<1>2. Apply(g, m) = Newest(s, ClientCap)
  BY DEF Apply
<1> HIDE DEF s
<1>3. /\ Newest(s, ClientCap) \in Seq(1..MaxRows)
      /\ Len(Newest(s, ClientCap)) = IF ClientCap <= Len(s) THEN ClientCap ELSE Len(s)
  BY <1>1, NewestProperties
<1>4. Len(s) \in Nat
  BY <1>1, LenProperties
<1> QED
  BY <1>1, <1>2, <1>3, <1>4 DEF Short

LEMMA AfterShort ==
    ASSUME NEW g, Short(g), NEW c \in Seq(Msg)
    PROVE  Short(After(g, c))
<1>1. PICK run : Runs(g, c, run) /\ After(g, c) = run[Len(c)]
  BY FoldRuns
<1> DEFINE T == {i \in Nat : i <= Len(c) /\ ~Short(run[i])}
<1>2. ASSUME T # {} PROVE FALSE
  <2>1. PICK i \in T : \A j \in T : i <= j
    BY <1>2, LeastNumber
  <2>2. Len(c) \in Nat /\ i \in Nat /\ i <= Len(c) /\ ~Short(run[i])
    BY LenProperties
  <2>3. i # 0
    BY <2>2, <1>1 DEF Runs
  <2>4. i \in 1..Len(c) /\ i - 1 \in Nat /\ ~(i <= i - 1) /\ i - 1 <= Len(c)
    BY <2>2, <2>3
  <2>5. Short(run[i - 1]) /\ c[i] \in Msg
    BY <2>1, <2>4, ElementOfSeq
  <2>6. Short(Apply(run[i - 1], c[i]))
    BY <2>5, ApplyShort DEF Short
  <2> QED
    BY <2>2, <2>4, <2>6, <1>1 DEF Runs
<1>3. Len(c) \in Nat /\ Len(c) \notin T
  BY <1>2, LenProperties
<1> QED
  BY <1>1, <1>3

\* A cell delta does nothing.
LEMMA ApplyNothing ==
    ASSUME NEW g, Short(g)
    PROVE  Apply(g, Nothing) = g
<1>1. Apply(g, Nothing) = Newest(g, ClientCap) /\ ClientCap \in Nat
  <2>1. g \o <<>> = g
    BY ConcatEmptySeq DEF Short
  <2> QED
    BY <2>1, ScrollbackAssumption DEF Apply, Nothing
<1>2. g \in Seq(1..MaxRows) /\ Len(g) \in Nat /\ Len(g) <= ClientCap
  BY LenProperties DEF Short
<1>3. /\ Newest(g, ClientCap) \in Seq(1..MaxRows) /\ Len(Newest(g, ClientCap)) = Len(g)
      /\ \A i \in 1..Len(Newest(g, ClientCap)) :
           Newest(g, ClientCap)[i] = g[Len(g) - Len(Newest(g, ClientCap)) + i]
  <2>1. Len(Newest(g, ClientCap)) = IF ClientCap <= Len(g) THEN ClientCap ELSE Len(g)
    BY <1>1, <1>2, NewestProperties
  <2>2. Len(Newest(g, ClientCap)) = Len(g)
    BY <2>1, <1>1, <1>2
  <2>3. /\ Newest(g, ClientCap) \in Seq(1..MaxRows)
        /\ \A i \in 1..Len(Newest(g, ClientCap)) :
             Newest(g, ClientCap)[i] = g[Len(g) - Len(Newest(g, ClientCap)) + i]
    BY <1>1, <1>2, NewestProperties
  <2> QED
    BY <2>2, <2>3
<1>4. \A i \in 1..Len(g) : Newest(g, ClientCap)[i] = g[i]
  <2>1. \A i \in 1..Len(g) : Len(g) - Len(g) + i = i
    BY <1>2
  <2> QED
    BY <2>1, <1>3
<1>5. Newest(g, ClientCap) = g
  BY <1>2, <1>3, <1>4, SeqEqual
<1> QED
  BY <1>1, <1>5
-----------------------------------------------------------------------------
(* The rows.                                                               *)

\* What a replacement makes of any scrollback.
LEMMA EndsReplaced ==
    ASSUME NEW s \in Seq(1..MaxRows), NEW n \in Nat, n <= Len(s), NEW g,
           NEW m \in Msg, m.replace, m.rows = Newest(s, n)
    PROVE  /\ Ends(Apply(g, m), s, Len(s))
           /\ ClientCap <= Len(Apply(g, m)) \/ n <= Len(Apply(g, m))
<1> DEFINE u == Newest(s, n)
           v == Newest(u, ClientCap)
<1>1. Apply(g, m) = v /\ ClientCap \in Nat
  <2>1. m.rows \in Seq(1..MaxRows)
    BY DEF Msg
  <2>2. <<>> \o m.rows = m.rows
    BY <2>1, ConcatEmptySeq
  <2> QED
    BY <2>2, ScrollbackAssumption DEF Apply
<1>2. /\ u \in Seq(1..MaxRows) /\ Len(u) = n
      /\ \A i \in 1..n : u[i] = s[Len(s) - n + i]
  <2>1. Len(u) = n
    BY NewestProperties
  <2> QED
    BY <2>1, NewestProperties
<1> HIDE DEF u
<1>3. /\ Len(v) = IF ClientCap <= n THEN ClientCap ELSE n
      /\ \A i \in 1..Len(v) : v[i] = u[n - Len(v) + i]
  <2>1. Len(v) = IF ClientCap <= Len(u) THEN ClientCap ELSE Len(u)
    BY <1>1, <1>2, NewestProperties
  <2>2. \A i \in 1..Len(v) : v[i] = u[Len(u) - Len(v) + i]
    <3>1. /\ u \in Seq(1..MaxRows) /\ ClientCap \in Nat
      BY <1>1, <1>2
    <3> QED
      BY <3>1, NewestProperties
  <2> HIDE DEF v
  <2> QED
    BY <2>1, <2>2, <1>2
<1> HIDE DEF v
<1>4. Len(s) \in Nat /\ Len(v) \in Nat /\ Len(v) <= n
  BY <1>1, <1>3, LenProperties
<1>5. ASSUME NEW i \in 1..Len(v) PROVE v[i] = s[Len(s) - Len(v) + i]
  <2>1. /\ n - Len(v) + i \in 1..n
        /\ Len(s) - n + (n - Len(v) + i) = Len(s) - Len(v) + i
    BY <1>4
  <2> QED
    BY <2>1, <1>2, <1>3
<1>6. Ends(v, s, Len(s))
  BY <1>4, <1>5 DEF Ends
<1>7. ClientCap <= Len(v) \/ n <= Len(v)
  BY <1>1, <1>3
<1> QED
  BY <1>1, <1>6, <1>7

\* What the rows that follow make of a scrollback that ends before them.
LEMMA EndsExtended ==
    ASSUME NEW s \in Seq(1..MaxRows), NEW g \in Seq(1..MaxRows),
           NEW n \in Nat, NEW k \in Nat, n <= k, k <= Len(s), Ends(g, s, n),
           NEW m \in Msg, ~m.replace, m.rows = SubSeq(s, n + 1, k)
    PROVE  /\ Ends(Apply(g, m), s, k)
           /\ ClientCap <= Len(Apply(g, m)) \/ Len(g) + (k - n) <= Len(Apply(g, m))
<1> DEFINE r == SubSeq(s, n + 1, k)
           u == g \o r
           v == Newest(u, ClientCap)
<1>1. Apply(g, m) = v /\ ClientCap \in Nat
  BY ScrollbackAssumption DEF Apply
<1>2. Len(s) \in Nat /\ Len(g) \in Nat /\ \A i \in 1..Len(s) : s[i] \in 1..MaxRows
  BY LenProperties, ElementOfSeq
<1>3. /\ r \in Seq(1..MaxRows) /\ Len(r) = k - n
      /\ \A i \in 1..(k - n) : r[i] = s[n + i]
  <2>1. \A i \in (n + 1)..k : s[i] \in 1..MaxRows
    BY <1>2
  <2>2. /\ r \in Seq(1..MaxRows)
        /\ Len(r) = IF n + 1 <= k THEN k - (n + 1) + 1 ELSE 0
        /\ \A i \in 1..(k - (n + 1) + 1) : r[i] = s[(n + 1) + i - 1]
    BY <2>1, SubSeqProperties
  <2>3. /\ (IF n + 1 <= k THEN k - (n + 1) + 1 ELSE 0) = k - n
        /\ k - (n + 1) + 1 = k - n
        /\ \A i \in 1..(k - n) : (n + 1) + i - 1 = n + i
    OBVIOUS
  <2> HIDE DEF r
  <2> QED
    BY <2>2, <2>3
<1> HIDE DEF r
<1>4. /\ u \in Seq(1..MaxRows) /\ Len(u) = Len(g) + (k - n)
      /\ \A i \in 1..Len(u) : u[i] = s[k - Len(u) + i]
  <2>1. /\ u \in Seq(1..MaxRows) /\ Len(u) = Len(g) + Len(r)
        /\ \A i \in 1..(Len(g) + Len(r)) :
             u[i] = IF i <= Len(g) THEN g[i] ELSE r[i - Len(g)]
    BY <1>3, ConcatProperties
  <2>2. Len(u) = Len(g) + (k - n)
    BY <2>1, <1>3
  <2> HIDE DEF u
  <2>3. ASSUME NEW i \in 1..(Len(g) + (k - n)) PROVE u[i] = s[k - (Len(g) + (k - n)) + i]
    <3>1. k - (Len(g) + (k - n)) + i = n - Len(g) + i
      BY <1>2
    <3>2. CASE i <= Len(g)
      <4>1. i \in 1..Len(g)
        BY <3>2, <1>2
      <4> QED
        BY <4>1, <3>1, <3>2, <2>1, <1>3 DEF Ends
    <3>3. CASE i > Len(g)
      <4>1. i - Len(g) \in 1..(k - n) /\ n + (i - Len(g)) = n - Len(g) + i
            /\ ~(i <= Len(g))
        BY <3>3, <1>2
      <4> QED
        BY <4>1, <3>1, <2>1, <1>3
    <3> QED
      BY <3>2, <3>3, <1>2
  <2> QED
    BY <2>1, <2>2, <2>3
<1> HIDE DEF u
<1>5. /\ Len(v) = IF ClientCap <= Len(u) THEN ClientCap ELSE Len(u)
      /\ \A i \in 1..Len(v) : v[i] = u[Len(u) - Len(v) + i]
  BY <1>1, <1>4, NewestProperties
<1> HIDE DEF v
<1>6. Len(u) \in Nat /\ Len(v) \in Nat /\ Len(v) <= Len(u) /\ Len(u) <= k
  BY <1>1, <1>2, <1>4, <1>5 DEF Ends
<1>7. ASSUME NEW i \in 1..Len(v) PROVE v[i] = s[k - Len(v) + i]
  <2>1. /\ Len(u) - Len(v) + i \in 1..Len(u)
        /\ k - Len(u) + (Len(u) - Len(v) + i) = k - Len(v) + i
    BY <1>6
  <2> QED
    BY <2>1, <1>4, <1>5
<1>8. Ends(v, s, k)
  BY <1>6, <1>7 DEF Ends
<1>9. ClientCap <= Len(v) \/ Len(g) + (k - n) <= Len(v)
  BY <1>1, <1>4, <1>5, <1>6
<1> QED
  BY <1>1, <1>8, <1>9

\* The rows are numbered in the order in which they scroll out, so far.
Numbered == rows \in Seq(1..made) /\ Len(rows) <= made

LEMMA ScrolledRows ==
    ASSUME TypeOK, Numbered, NEW k \in Nat, NEW j \in Nat, Scrolled(k, j)
    PROVE  /\ made' \in 0..MaxRows /\ size' \in 0..HistoryCap
           /\ Numbered' /\ rows' \in Seq(1..MaxRows)
           /\ Len(rows') = Len(rows) - k + j
           /\ size' <= Len(rows') /\ size' <= size - k + j
           /\ \A i \in 1..(Len(rows) - k) : rows'[i] = rows[i]
<1>1. /\ Len(rows) \in Nat /\ size \in Nat /\ made \in Nat /\ MaxRows \in Nat
      /\ HistoryCap \in Nat /\ k <= size /\ size <= Len(rows)
  BY LenProperties, ScrollbackAssumption DEF TypeOK, Scrolled
<1> DEFINE n == Len(rows) - k
           kept == SubSeq(rows, 1, n)
           new == [i \in 1..j |-> made + i]
<1>2. made' = made + j /\ made' \in 0..MaxRows /\ made' \in Nat
  BY <1>1 DEF Scrolled
<1>3. n \in Nat /\ n <= Len(rows)
  BY <1>1
<1>4. \A i \in 1..Len(rows) : rows[i] \in 1..made'
  <2>1. \A i \in 1..Len(rows) : rows[i] \in 1..made
    BY ElementOfSeq DEF Numbered
  <2> QED
    BY <2>1, <1>1, <1>2
<1> HIDE DEF n
<1>5. /\ kept \in Seq(1..made') /\ Len(kept) = n /\ \A i \in 1..n : kept[i] = rows[i]
  <2>1. \A i \in 1..n : rows[i] \in 1..made'
    BY <1>3, <1>4
  <2>2. n - 1 + 1 = n /\ \A i \in 1..n : 1 + i - 1 = i
    BY <1>3
  <2>3. /\ kept \in Seq(1..made')
        /\ Len(kept) = IF 1 <= n THEN n - 1 + 1 ELSE 0
        /\ \A i \in 1..(n - 1 + 1) : kept[i] = rows[1 + i - 1]
    BY <2>1, <1>3, SubSeqProperties
  <2> HIDE DEF kept
  <2> QED
    BY <2>2, <2>3, <1>3
<1>6. new \in Seq(1..made') /\ Len(new) = j
  <2>1. \A i \in 1..j : made + i \in 1..made'
    BY <1>1, <1>2
  <2> QED
    BY <2>1, IsASeq
<1> HIDE DEF kept, new
<1>7. rows' = kept \o new
  BY DEF Scrolled, kept, new, n
<1>8. /\ rows' \in Seq(1..made') /\ Len(rows') = n + j
      /\ \A i \in 1..n : rows'[i] = rows[i]
  <2>1. \A i \in 1..n : i \in 1..(n + j) /\ i <= n
    BY <1>3
  <2>2. /\ rows' \in Seq(1..made') /\ Len(rows') = n + j
        /\ \A i \in 1..(n + j) : rows'[i] = IF i <= n THEN kept[i] ELSE new[i - n]
    BY <1>5, <1>6, <1>7, ConcatProperties
  <2> QED
    BY <2>1, <2>2, <1>5
<1>9. 1..made' \subseteq 1..MaxRows
  BY <1>1, <1>2
<1>10. rows' \in Seq(1..MaxRows)
  BY <1>8, <1>9, SeqMonotonic
<1>11. size - k + j \in Nat
  BY <1>1
<1>12. size' = IF HistoryCap <= size - k + j THEN HistoryCap ELSE size - k + j
  <2>1. size' = Min({HistoryCap, size - k + j})
    BY DEF Scrolled
  <2>2. HistoryCap \in Int /\ size - k + j \in Int
    BY <1>1, <1>11
  <2> QED
    BY <2>1, <2>2, TwoNumbers
<1>13. size' \in 0..HistoryCap /\ size' <= size - k + j
  BY <1>1, <1>11, <1>12
<1>14. n + j = Len(rows) - k + j /\ Len(rows) - k = n
  BY DEF n
<1>15. size' <= Len(rows') /\ Len(rows') <= made'
  BY <1>1, <1>2, <1>8, <1>13, <1>14 DEF Numbered
<1> QED
  BY <1>2, <1>8, <1>10, <1>13, <1>14, <1>15 DEF Numbered
\* The newest rows, counted from the oldest of them.
LEMMA NewestFrom ==
    ASSUME NEW S, NEW s \in Seq(S), NEW n \in Nat, n <= Len(s)
    PROVE  Newest(s, Len(s) - n) = SubSeq(s, n + 1, Len(s))
<1>1. Len(s) \in Nat
  BY LenProperties
<1>2. 1 \in Int /\ n + 1 \in Int /\ n + 1 >= 1
  OBVIOUS
<1>3. Max({1, n + 1}) = n + 1
  <2>1. Max({1, n + 1}) = IF 1 >= n + 1 THEN 1 ELSE n + 1
    BY <1>2, TwoNumbers
  <2> QED
    BY <2>1
<1>4. Len(s) - (Len(s) - n) + 1 = n + 1
  BY <1>1
<1> QED
  BY <1>3, <1>4 DEF Newest

LEMMA NewestNone ==
    ASSUME NEW S, NEW s \in Seq(S)
    PROVE  Newest(s, 0) = <<>>
<1>1. Len(s) \in Nat
  BY LenProperties
<1>2. Newest(s, Len(s) - Len(s)) = SubSeq(s, Len(s) + 1, Len(s))
  BY <1>1, NewestFrom
<1>3. Len(s) - Len(s) = 0 /\ Len(s) < Len(s) + 1
  BY <1>1
<1> QED
  BY <1>1, <1>2, <1>3, SubSeqEmpty

LEMMA PlanProperties ==
    ASSUME NEW hs \in Nat, NEW last \in Nat, NEW total \in Nat,
           NEW plan, plan = Plan(hs, last, total)
    PROVE  /\ plan.count \in Nat /\ plan.count <= hs /\ plan.replace \in BOOLEAN
           /\ plan.replace => plan.count = hs /\ total # last
           /\ ~plan.replace => last <= total /\ plan.count = total - last
<1>1. CASE total < last
  <2>1. plan = [count |-> hs, replace |-> TRUE]
    BY <1>1 DEF Plan
  <2> QED
    BY <2>1, <1>1
<1>2. CASE ~(total < last)
  <2> DEFINE c == Min({total - last, hs})
             r == total - last > hs
  <2>1. plan = [count |-> c, replace |-> r]
    BY <1>2 DEF Plan
  <2>2. total - last \in Nat /\ last <= total
    BY <1>2
  <2>3. c = IF total - last <= hs THEN total - last ELSE hs
    <3>1. total - last \in Int /\ hs \in Int
      BY <2>2
    <3> QED
      BY <3>1, TwoNumbers
  <2>4. /\ c \in Nat /\ c <= hs /\ r \in BOOLEAN
        /\ r => c = hs /\ total # last
        /\ ~r => c = total - last
    BY <2>2, <2>3
  <2> HIDE DEF c, r
  <2> QED
    BY <2>1, <2>2, <2>4
<1> QED
  BY <1>1, <1>2

-----------------------------------------------------------------------------
(* The inductive invariant.                                                *)

\* Marks and frames: a replacement comes with full damage, a client that is away has
\* no first frames, a frame without history does nothing.
Marks ==
    /\ damage.replace => damage.full
    /\ ~at => initial = <<>>
    /\ frame # NoFrame =>
         /\ ~at => frame.stale
         /\ frame.force => frame.history /\ frame.msg.replace
         /\ ~frame.history => frame.msg = Nothing

\* The rows a frame m has to bring to a client that was sent the first n rows, for
\* it to have all of s, or as many as before.
Brings(m, total, s, h, n) ==
    \/ m.replace /\ total = Len(s) /\ m.rows = Newest(s, h)
    \/ ~m.replace /\ total = n /\ m.rows = <<>>
    \/ ~m.replace /\ total = Len(s) /\ n <= total /\ m.rows = SubSeq(s, n + 1, total)

\* The frame in hand is up to date, unless the client was away or a resize, which may
\* change the rows, has asked for a replacement.
Fits ==
    frame # NoFrame /\ ~frame.stale /\ ~damage.replace =>
        Brings(frame.msg, frame.total, rows, size, sent)

\* A replacement was asked for, and is not decided on by a watermark.
Replacing == damage.replace \/ (frame # NoFrame /\ frame.force)

\* v is what a client has that was sent the first n rows of s, with h lines of
\* history left.
Follows(v, s, h, n) ==
    /\ Ends(v, s, n)
    /\ ClientCap <= Len(v) \/ n - (Len(s) - h) <= Len(v)

\* Mirror, said of a frame that replaces what is right anyhow, too: it may be refused.
Following == at /\ ~astray /\ ~Replacing => Follows(View, rows, size, sent)

SyncInv == TypeOK /\ Numbered /\ Marks /\ Fits /\ Following

LEMMA ViewIs ==
    ASSUME TypeOK
    PROVE  View = After(grid, chan \o initial) /\ Short(View) /\ Short(grid)
           /\ chan \o initial \in Seq(Msg)
<1>1. chan \o initial \in Seq(Msg) /\ Short(grid)
  BY ConcatProperties DEF TypeOK, Short
<1> QED
  BY <1>1, AfterShort DEF View, After

LEMMA FollowsMirror == SyncInv => Mirror
<1> SUFFICES ASSUME SyncInv, at, ~astray, ~Rebuilding
             PROVE  /\ sent <= Len(rows)
                    /\ IsSuffix(View, SubSeq(rows, 1, sent))
                    /\ Len(View) >= Min({ClientCap, sent - (Len(rows) - size)})
  BY DEF Mirror
<1>1. Follows(View, rows, size, sent)
  BY DEF SyncInv, Following, Replacing, Rebuilding, Marks
<1>2. /\ rows \in Seq(1..MaxRows) /\ sent \in Nat /\ size \in Nat /\ ClientCap \in Nat
      /\ View \in Seq(1..MaxRows)
  BY ViewIs, ScrollbackAssumption DEF SyncInv, TypeOK, Short
<1>3. Len(rows) \in Nat /\ Len(View) \in Nat
  BY <1>2, LenProperties
<1>4. sent <= Len(rows)
  BY <1>1 DEF Follows, Ends
<1>5. IsSuffix(View, SubSeq(rows, 1, sent))
  BY <1>1, <1>2, <1>4, EndsIsSuffix DEF Follows
<1>6. Len(View) >= Min({ClientCap, sent - (Len(rows) - size)})
  <2> DEFINE n == sent - (Len(rows) - size)
  <2>1. ClientCap \in Int /\ n \in Int
    BY <1>2, <1>3
  <2>2. Min({ClientCap, n}) = IF ClientCap <= n THEN ClientCap ELSE n
    BY <2>1, TwoNumbers
  <2>3. ClientCap <= Len(View) \/ n <= Len(View)
    BY <1>1 DEF Follows
  <2> HIDE DEF n
  <2>4. Len(View) >= Min({ClientCap, n})
    BY <2>1, <2>2, <2>3, <1>3
  <2> QED
    BY <2>4 DEF n
<1> QED
  BY <1>4, <1>5, <1>6

LEMMA InitSyncs == Init => SyncInv
<1> SUFFICES ASSUME Init PROVE SyncInv
  OBVIOUS
<1>1. /\ <<>> \in Seq(1..MaxRows) /\ <<>> \in Seq(1..0) /\ <<>> \in Seq(Msg)
      /\ Len(<<>>) = 0 /\ <<>> \o <<>> = <<>>
  BY EmptySeq, ConcatEmptySeq
<1>2. TypeOK
  <2>1. HistoryCap \in Nat /\ ClientCap \in Nat /\ ChanCap \in Nat /\ MaxRows \in Nat
    BY ScrollbackAssumption
  <2>2. 0 \in 0..HistoryCap /\ 0 \in 0..MaxRows
    BY <2>1
  <2>3. /\ rows \in Seq(1..MaxRows) /\ initial \in Seq(Msg) /\ chan \in Seq(Msg)
        /\ grid \in Seq(1..MaxRows) /\ Len(initial) <= 1 /\ size <= Len(rows)
    BY <1>1 DEF Init
  <2>4. Len(chan) <= ChanCap /\ Len(grid) <= ClientCap
    BY <1>1, <2>1 DEF Init
  <2>5. /\ size \in 0..HistoryCap /\ made \in 0..MaxRows /\ sent \in 0..MaxRows
        /\ {alt, hold, at, wake, astray, unwoken} \subseteq BOOLEAN /\ frame = NoFrame
        /\ damage \in [full : BOOLEAN, replace : BOOLEAN, cells : BOOLEAN]
    BY <2>2 DEF Init, Clean
  <2> QED
    BY <2>3, <2>4, <2>5 DEF TypeOK
<1>3. View = <<>>
  BY <1>1, AfterNone DEF Init, View, After
<1>4. Follows(View, rows, size, sent)
  BY <1>1, <1>3 DEF Init, Follows, Ends
<1> QED
  BY <1>1, <1>2, <1>4 DEF SyncInv, Numbered, Marks, Fits, Following, Init, Clean
-----------------------------------------------------------------------------
(* Each step keeps it.                                                     *)

\* Whatever a step does, these stay what they are.
LEMMA FlagsStay ==
    ASSUME TypeOK, Next \/ UNCHANGED vars
    PROVE  {hold', wake', unwoken'} \subseteq BOOLEAN
<1>1. {hold, wake, unwoken} \subseteq BOOLEAN
  BY DEF TypeOK
<1>2. CASE Notify \/ Drain
  BY <1>1, <1>2 DEF Notify, Drain, Wake
<1>3. CASE Tick
  BY <1>1, <1>3 DEF Tick, Snapshot, PassOver
<1>4. CASE SendSkip \/ SendOk
  BY <1>1, <1>4 DEF SendSkip, SendOk, tick
<1>5. CASE SendFail
  <2>1. hold' = hold /\ (Wake \/ UNCHANGED tick)
    BY <1>5 DEF SendFail
  <2> QED
    BY <1>1, <2>1 DEF Wake, tick
<1>6. CASE Resize
  BY <1>1, <1>6 DEF Resize
<1>7. CASE SwitchAway \/ SwitchBack \/ Reconnect
  BY <1>1, <1>7 DEF SwitchAway, SwitchBack, Reconnect, tick
<1>8. CASE SendInitial \/ Receive \/ UNCHANGED vars
  BY <1>1, <1>8 DEF SendInitial, Receive, tick, vars
<1> QED
  BY <1>2, <1>3, <1>4, <1>5, <1>6, <1>7, <1>8 DEF Next, Send

LEMMA TypeFacts ==
    ASSUME TypeOK
    PROVE  /\ HistoryCap \in Nat /\ ClientCap \in Nat /\ ChanCap \in Nat /\ MaxRows \in Nat
           /\ rows \in Seq(1..MaxRows) /\ Len(rows) \in Nat /\ size \in Nat
           /\ size <= Len(rows) /\ sent \in Nat /\ made \in Nat
           /\ Len(chan) \in Nat /\ Len(initial) \in Nat
           /\ View \in Seq(1..MaxRows) /\ Len(View) \in Nat
<1>1. HistoryCap \in Nat /\ ClientCap \in Nat /\ ChanCap \in Nat /\ MaxRows \in Nat
  BY ScrollbackAssumption
<1>2. Len(rows) \in Nat /\ Len(chan) \in Nat /\ Len(initial) \in Nat
  BY LenProperties DEF TypeOK
<1>3. View \in Seq(1..MaxRows)
  BY ViewIs DEF Short
<1>4. Len(View) \in Nat
  BY <1>3, LenProperties
<1>5. size \in Nat /\ sent \in Nat /\ made \in Nat
  BY <1>1 DEF TypeOK
<1> QED
  BY <1>1, <1>2, <1>3, <1>4, <1>5 DEF TypeOK

LEMMA FrameFacts ==
    ASSUME TypeOK, frame # NoFrame
    PROVE  /\ frame \in Frame /\ frame.msg \in Msg /\ frame.total \in 0..MaxRows
           /\ frame.msg.rows \in Seq(1..MaxRows) /\ frame.msg.replace \in BOOLEAN
           /\ {frame.history, frame.force, frame.stale} \subseteq BOOLEAN
<1>1. frame \in Frame
  BY DEF TypeOK
<1>2. frame.msg \in Msg
  BY <1>1 DEF Frame
<1> QED
  BY <1>1, <1>2 DEF Frame, Msg

\* Rows that scroll out disturb no copy.
LEMMA FollowsGrown ==
    ASSUME NEW s \in Seq(1..MaxRows), NEW t \in Seq(1..MaxRows), NEW v \in Seq(1..MaxRows),
           NEW h \in Nat, NEW k \in Nat, NEW n \in Nat,
           Len(s) <= Len(t), \A i \in 1..Len(s) : t[i] = s[i],
           k <= h + (Len(t) - Len(s)), Follows(v, s, h, n)
    PROVE  Follows(v, t, k, n)
<1>1. Len(s) \in Nat /\ Len(t) \in Nat /\ Len(v) \in Nat
  BY LenProperties
<1>2. Ends(v, s, n)
  BY DEF Follows
<1>3. Len(v) <= n /\ n <= Len(s) /\ \A i \in 1..Len(v) : v[i] = s[n - Len(v) + i]
  BY <1>2 DEF Ends
<1>4. n <= Len(t)
  BY <1>1, <1>3
<1>5. \A i \in 1..Len(v) : n - Len(v) + i \in 1..Len(s)
  BY <1>1, <1>3
<1>6. Ends(v, t, n)
  BY <1>3, <1>4, <1>5 DEF Ends
<1>7. ClientCap <= Len(v) \/ n - (Len(s) - h) <= Len(v)
  BY DEF Follows
<1>8. n - (Len(t) - k) <= n - (Len(s) - h)
  BY <1>1
<1>9. n - (Len(s) - h) <= Len(v) => n - (Len(t) - k) <= Len(v)
  BY <1>1, <1>8
<1> QED
  BY <1>6, <1>7, <1>9 DEF Follows

LEMMA DrainKeeps == SyncInv /\ Drain => SyncInv'
<1> SUFFICES ASSUME SyncInv, Drain PROVE SyncInv'
  OBVIOUS
<1>1. TypeOK /\ Numbered
  BY DEF SyncInv
<1>2. /\ frame = NoFrame /\ frame' = frame /\ at' = at /\ sent' = sent /\ initial' = initial
      /\ chan' = chan /\ grid' = grid /\ astray' = astray
  BY DEF Drain
<1>3. /\ damage' \in [full : BOOLEAN, replace : BOOLEAN, cells : BOOLEAN]
      /\ damage'.full = damage.full /\ damage'.replace = damage.replace
  <2>1. damage \in [full : BOOLEAN, replace : BOOLEAN, cells : BOOLEAN]
    BY <1>1 DEF TypeOK
  <2>2. damage' = damage \/ damage' = [damage EXCEPT !.cells = TRUE]
    BY DEF Drain
  <2> QED
    BY <2>1, <2>2
<1>4. /\ alt' \in BOOLEAN /\ made' \in 0..MaxRows /\ size' \in 0..HistoryCap /\ Numbered'
      /\ rows' \in Seq(1..MaxRows) /\ size' <= Len(rows')
      /\ Len(rows) <= Len(rows') /\ \A i \in 1..Len(rows) : rows'[i] = rows[i]
      /\ size' <= size + (Len(rows') - Len(rows))
  <2>1. CASE \E j \in 1..2 : Scrolled(0, j) /\ UNCHANGED alt
    <3>1. PICK j \in 1..2 : Scrolled(0, j) /\ UNCHANGED alt
      BY <2>1
    <3>2. /\ made' \in 0..MaxRows /\ size' \in 0..HistoryCap
          /\ Numbered' /\ rows' \in Seq(1..MaxRows)
          /\ Len(rows') = Len(rows) - 0 + j
          /\ size' <= Len(rows') /\ size' <= size - 0 + j
          /\ \A i \in 1..(Len(rows) - 0) : rows'[i] = rows[i]
      BY <3>1, <1>1, ScrolledRows
    <3>3. j \in Nat /\ Len(rows) \in Nat /\ size \in Nat /\ size' \in Nat
      BY <3>2, <1>1, TypeFacts
    <3>4. Len(rows) - 0 = Len(rows) /\ Len(rows) <= Len(rows')
          /\ size' <= size + (Len(rows') - Len(rows))
      BY <3>2, <3>3
    <3> QED
      BY <3>1, <3>2, <3>4, <1>1 DEF TypeOK
  <2>2. CASE UNCHANGED <<rows, size, made>> /\ alt' \in BOOLEAN
    BY <2>2, <1>1, TypeFacts DEF TypeOK, Numbered
  <2>3. alt' = ~alt => alt' \in BOOLEAN
    OBVIOUS
  <2>4. alt' = alt => alt' \in BOOLEAN
    BY <1>1 DEF TypeOK
  <2> QED
    BY <2>1, <2>2, <2>3, <2>4 DEF Drain, pane
<1>5. TypeOK'
  BY <1>1, <1>2, <1>3, <1>4, FlagsStay DEF TypeOK, Next
<1>6. View' = View
  BY <1>2 DEF View
<1>7. Marks' /\ Fits'
  BY <1>2, <1>3 DEF SyncInv, Marks, Fits
<1>8. Following'
  <2> SUFFICES ASSUME at', ~astray', ~Replacing' PROVE Follows(View', rows', size', sent')
    BY DEF Following
  <2>1. Follows(View, rows, size, sent)
    BY <1>2, <1>3 DEF SyncInv, Following, Replacing
  <2>2. size' \in Nat
    BY <1>1, <1>4, TypeFacts
  <2>3. Follows(View, rows', size', sent)
    BY <2>1, <2>2, <1>1, <1>4, TypeFacts, FollowsGrown
  <2> QED
    BY <2>3, <1>2, <1>6
<1> QED
  BY <1>4, <1>5, <1>7, <1>8 DEF SyncInv

\* Any rows change only if a replacement is marked for a client that is there.
LEMMA ResizeKeeps == SyncInv /\ Resize => SyncInv'
<1> SUFFICES ASSUME SyncInv, Resize PROVE SyncInv'
  OBVIOUS
<1>1. TypeOK /\ Numbered
  BY DEF SyncInv
<1>2. /\ alt' = alt /\ at' = at /\ sent' = sent /\ frame' = frame /\ initial' = initial
      /\ chan' = chan /\ grid' = grid /\ astray' = astray
      /\ damage' = IF at THEN MarkFull(damage, TRUE) ELSE damage
  BY DEF Resize
<1>3. /\ made' \in 0..MaxRows /\ size' \in 0..HistoryCap /\ Numbered'
      /\ rows' \in Seq(1..MaxRows) /\ size' <= Len(rows')
  <2>1. PICK k \in 0..2, j \in 0..2 : Scrolled(k, j)
    BY DEF Resize
  <2> QED
    BY <2>1, <1>1, ScrolledRows
<1>4. /\ damage' \in [full : BOOLEAN, replace : BOOLEAN, cells : BOOLEAN]
      /\ at => damage'.full /\ damage'.replace
      /\ ~at => damage' = damage
  <2>1. damage \in [full : BOOLEAN, replace : BOOLEAN, cells : BOOLEAN] /\ at \in BOOLEAN
    BY <1>1 DEF TypeOK
  <2> QED
    BY <2>1, <1>2 DEF MarkFull
<1>5. TypeOK'
  BY <1>1, <1>2, <1>3, <1>4, FlagsStay DEF TypeOK, Next
<1>6. Marks'
  BY <1>2, <1>4 DEF SyncInv, Marks
<1>7. Fits'
  BY <1>2, <1>4 DEF SyncInv, Marks, Fits
<1>8. Following'
  BY <1>2, <1>4 DEF Following, Replacing
<1> QED
  BY <1>3, <1>5, <1>6, <1>7, <1>8 DEF SyncInv

LEMMA SendSkipKeeps == SyncInv /\ SendSkip => SyncInv'
<1> SUFFICES ASSUME SyncInv, SendSkip PROVE SyncInv'
  OBVIOUS
<1> USE DEF SyncInv, SendSkip, pane, client
<1>1. TypeOK' /\ Numbered'
  BY FlagsStay DEF TypeOK, Numbered, Next, Send
<1>2. Marks' /\ Fits' /\ Following'
  BY DEF Marks, Fits, Following
<1> QED
  BY <1>1, <1>2

\* A refused frame is asked for again, with its replacement.
LEMMA SendFailKeeps == SyncInv /\ SendFail => SyncInv'
<1> SUFFICES ASSUME SyncInv, SendFail PROVE SyncInv'
  OBVIOUS
<1>1. TypeOK /\ Numbered /\ Marks /\ Following /\ frame # NoFrame
  BY DEF SyncInv, SendFail
<1>2. /\ UNCHANGED <<rows, size, made, alt, at, sent, initial, chan, grid, astray>>
      /\ frame' = NoFrame /\ damage' = Remark
  BY DEF SendFail, pane
<1>3. /\ damage' \in [full : BOOLEAN, replace : BOOLEAN, cells : BOOLEAN]
      /\ damage'.replace => damage'.full
      /\ ~damage'.replace => ~damage.replace /\ ~frame.force
  <2>1. damage \in [full : BOOLEAN, replace : BOOLEAN, cells : BOOLEAN]
    BY <1>1 DEF TypeOK
  <2>2. {frame.history, frame.force} \subseteq BOOLEAN
    BY <1>1, FrameFacts
  <2>3. frame.force => frame.history
    BY <1>1 DEF Marks
  <2>4. CASE frame.history
    BY <2>1, <2>2, <2>4, <1>2 DEF Remark, MarkFull
  <2>5. CASE ~frame.history
    BY <2>1, <2>3, <2>5, <1>1, <1>2 DEF Remark, Marks
  <2> QED
    BY <2>4, <2>5
<1>4. TypeOK' /\ Numbered'
  BY <1>1, <1>2, <1>3, FlagsStay DEF TypeOK, Numbered, Next, Send
<1>5. Marks' /\ Fits'
  BY <1>1, <1>2, <1>3 DEF Marks, Fits
<1>6. View' = View
  BY <1>2 DEF View
<1>7. Following'
  BY <1>1, <1>2, <1>3, <1>6 DEF Following, Replacing
<1> QED
  BY <1>4, <1>5, <1>7 DEF SyncInv

LEMMA SwitchAwayKeeps == SyncInv /\ SwitchAway => SyncInv'
<1> SUFFICES ASSUME SyncInv, SwitchAway PROVE SyncInv'
  OBVIOUS
<1>1. TypeOK /\ Numbered /\ Marks
  BY DEF SyncInv
<1>2. /\ UNCHANGED <<rows, size, made, alt, initial, chan, grid, astray>> /\ initial = <<>>
      /\ at' = FALSE /\ sent' = 0 /\ damage' = Clean
      /\ frame' = IF frame = NoFrame THEN frame ELSE [frame EXCEPT !.stale = TRUE]
  BY DEF SwitchAway, pane
<1>3. /\ frame' \in Frame \cup {NoFrame}
      /\ frame' # NoFrame => /\ frame # NoFrame /\ frame'.stale /\ frame'.msg = frame.msg
                             /\ frame'.force = frame.force /\ frame'.history = frame.history
  <2>1. CASE frame = NoFrame
    BY <2>1, <1>2
  <2>2. CASE frame # NoFrame
    <3>1. frame \in [msg : Msg, history : BOOLEAN, total : 0..MaxRows,
                     force : BOOLEAN, stale : BOOLEAN]
      BY <2>2, <1>1, FrameFacts DEF Frame
    <3>2. frame' = [frame EXCEPT !.stale = TRUE]
      BY <2>2, <1>2
    <3>3. frame' \in [msg : Msg, history : BOOLEAN, total : 0..MaxRows,
                      force : BOOLEAN, stale : BOOLEAN]
      BY <3>1, <3>2
    <3> QED
      BY <2>2, <3>1, <3>2, <3>3 DEF Frame
  <2> QED
    BY <2>1, <2>2
<1>4. 0 \in 0..MaxRows
  BY <1>1, TypeFacts
<1>5. TypeOK' /\ Numbered'
  BY <1>1, <1>2, <1>3, <1>4, FlagsStay DEF TypeOK, Numbered, Clean, Next
<1>6. Marks'
  BY <1>1, <1>2, <1>3 DEF Marks, Clean
<1>7. Fits' /\ Following'
  BY <1>2, <1>3 DEF Fits, Following
<1> QED
  BY <1>5, <1>6, <1>7 DEF SyncInv
\* The frame that a snapshot makes is up to date.
LEMMA SnapshotFits ==
    ASSUME TypeOK, Numbered, Snapshot
    PROVE  /\ frame' \in Frame /\ frame'.stale = FALSE
           /\ frame'.force = (damage.full /\ damage.replace /\ ~alt)
           /\ frame'.force => frame'.history /\ frame'.msg.replace
           /\ ~frame'.history => frame'.msg = Nothing
           /\ Brings(frame'.msg, frame'.total, rows, size, sent)
<1> DEFINE total == IF alt THEN sent ELSE Len(rows)
           hs == IF alt THEN 0 ELSE size
           force == damage.full /\ damage.replace /\ ~alt
           plan == IF force THEN [count |-> hs, replace |-> TRUE]
                   ELSE Plan(hs, sent, total)
           history == damage.full \/ total # sent
           msg == IF history THEN [rows |-> Newest(rows, plan.count),
                                   replace |-> plan.replace]
                  ELSE Nothing
<1>1. frame' = [msg |-> msg, history |-> history, total |-> total, force |-> force,
                stale |-> FALSE]
  BY DEF Snapshot
<1>2. /\ rows \in Seq(1..MaxRows) /\ Len(rows) \in Nat /\ size \in Nat /\ sent \in Nat
      /\ size <= Len(rows) /\ {alt, damage.full, damage.replace} \subseteq BOOLEAN
      /\ sent \in 0..MaxRows /\ Len(rows) \in 0..MaxRows
  <2>1. Len(rows) <= MaxRows
    BY TypeFacts DEF TypeOK, Numbered
  <2> QED
    BY <2>1, TypeFacts DEF TypeOK
<1>3. /\ total \in 0..MaxRows /\ hs \in Nat /\ hs <= Len(rows) /\ total \in Nat
      /\ force \in BOOLEAN /\ history \in BOOLEAN
  BY <1>2
<1>4. ~alt => total = Len(rows) /\ hs = size
  OBVIOUS
<1>5. alt => total = sent /\ hs = 0 /\ ~force
  OBVIOUS
<1>6. force => history
  OBVIOUS
<1>7. ~history => ~force /\ total = sent
  OBVIOUS
<1>8. /\ plan.count \in Nat /\ plan.replace \in BOOLEAN
      /\ plan.replace => plan.count = hs /\ ~alt
      /\ ~plan.replace => sent <= total /\ plan.count = total - sent
      /\ force => plan.replace
  <2>1. CASE force
    <3>1. plan = [count |-> hs, replace |-> TRUE]
      BY <2>1
    <3> HIDE DEF plan
    <3> QED
      BY <3>1, <1>3, <1>5, <2>1
  <2>2. CASE ~force
    <3>1. plan = Plan(hs, sent, total)
      BY <2>2
    <3> HIDE DEF plan, total, hs
    <3>2. /\ plan.count \in Nat /\ plan.replace \in BOOLEAN
          /\ plan.replace => plan.count = hs /\ total # sent
          /\ ~plan.replace => sent <= total /\ plan.count = total - sent
      <4>1. hs \in Nat /\ sent \in Nat /\ total \in Nat
        BY <1>2, <1>3
      <4> QED
        BY <4>1, <3>1, PlanProperties
    <3> QED
      BY <3>2, <2>2, <1>5
  <2> QED
    BY <2>1, <2>2
<1> HIDE DEF total, hs, force, plan, history
<1>9. /\ history => msg.rows = Newest(rows, plan.count) /\ msg.replace = plan.replace
      /\ ~history => msg = Nothing
  OBVIOUS
<1>10. msg \in Msg
  <2>1. Newest(rows, plan.count) \in Seq(1..MaxRows)
    BY <1>2, <1>8, NewestProperties
  <2>2. Nothing \in Msg
    BY EmptySeq DEF Nothing, Msg
  <2> QED
    BY <2>1, <2>2, <1>8 DEF Msg
<1>11. Brings(msg, total, rows, size, sent)
  <2>1. CASE history /\ plan.replace
    BY <2>1, <1>4, <1>8, <1>9 DEF Brings
  <2>2. CASE history /\ ~plan.replace /\ alt
    <3>1. plan.count = 0
      BY <2>2, <1>2, <1>5, <1>8
    <3>2. msg.rows = <<>>
      BY <2>2, <3>1, <1>2, <1>9, NewestNone
    <3> QED
      BY <2>2, <3>2, <1>5, <1>9 DEF Brings
  <2>3. CASE history /\ ~plan.replace /\ ~alt
    <3>1. total = Len(rows) /\ sent <= Len(rows) /\ plan.count = Len(rows) - sent
      BY <2>3, <1>4, <1>8
    <3>2. msg.rows = SubSeq(rows, sent + 1, Len(rows))
      BY <2>3, <3>1, <1>2, <1>9, NewestFrom
    <3> QED
      BY <2>3, <3>1, <3>2, <1>9 DEF Brings
  <2>4. CASE ~history
    BY <2>4, <1>7, <1>9 DEF Brings, Nothing
  <2> QED
    BY <2>1, <2>2, <2>3, <2>4
<1> HIDE DEF msg
<1>12. frame' \in Frame
  BY <1>1, <1>3, <1>10 DEF Frame
<1> QED
  BY <1>1, <1>6, <1>8, <1>9, <1>11, <1>12 DEF force

LEMMA SnapshotKeeps == SyncInv /\ Snapshot => SyncInv'
<1> SUFFICES ASSUME SyncInv, Snapshot PROVE SyncInv'
  OBVIOUS
<1>1. TypeOK /\ Numbered /\ Marks
  BY DEF SyncInv
<1>2. /\ UNCHANGED <<rows, size, made, alt, at, sent, initial, chan, grid>>
      /\ damage' = Clean /\ at /\ frame = NoFrame
      /\ astray' = (astray \/ (damage.replace /\ alt))
  BY DEF Snapshot, Sendable, pane
<1>3. /\ frame' \in Frame /\ frame'.stale = FALSE
      /\ frame'.force = (damage.full /\ damage.replace /\ ~alt)
      /\ frame'.force => frame'.history /\ frame'.msg.replace
      /\ ~frame'.history => frame'.msg = Nothing
      /\ Brings(frame'.msg, frame'.total, rows, size, sent)
  BY <1>1, SnapshotFits
<1>4. frame' # NoFrame
  BY <1>3, ScrollbackAssumption
<1>5. TypeOK' /\ Numbered'
  BY <1>1, <1>2, <1>3, FlagsStay DEF TypeOK, Numbered, Clean, Next, Tick
<1>6. Marks' /\ Fits'
  BY <1>1, <1>2, <1>3 DEF Marks, Fits, Clean
<1>7. View' = View
  BY <1>2 DEF View
<1>8. Following'
  <2> SUFFICES ASSUME at', ~astray', ~Replacing' PROVE Follows(View', rows', size', sent')
    BY DEF Following
  <2>1. ~astray /\ ~damage.replace
    BY <1>1, <1>2, <1>3, <1>4 DEF Replacing, Marks
  <2> QED
    BY <2>1, <1>2, <1>7 DEF SyncInv, Following, Replacing
<1> QED
  BY <1>5, <1>6, <1>8 DEF SyncInv
\* A cell delta ahead of the first frames.
LEMMA AfterIdle ==
    ASSUME NEW g, Short(g), NEW c \in Seq(Msg), NEW f \in Seq(Msg), Len(f) <= 1
    PROVE  After(g, Append(c, Nothing) \o f) = After(g, c \o f)
<1> DEFINE d == Append(c, Nothing)
<1>1. Nothing \in Msg
  BY EmptySeq DEF Nothing, Msg
<1>2. d \in Seq(Msg) /\ After(g, d) = After(g, c)
  <2>1. Short(After(g, c))
    BY AfterShort
  <2> QED
    BY <1>1, <2>1, AfterAppend, AppendProperties, ApplyNothing
<1> HIDE DEF d
<1>3. Len(f) \in Nat /\ (Len(f) = 0 => f = <<>>)
  BY LenProperties, EmptySeq
<1>4. CASE Len(f) = 0
  BY <1>2, <1>3, <1>4, ConcatEmptySeq DEF d
<1>5. CASE Len(f) = 1
  <2> DEFINE m == f[1]
  <2>1. m \in Msg /\ f = <<m>>
    <3>1. m \in Msg
      BY <1>5, ElementOfSeq
    <3>2. <<m>> \in Seq(Msg) /\ Len(<<m>>) = 1 /\ <<m>>[1] = m
      BY <3>1
    <3> QED
      BY <1>5, <3>1, <3>2, SeqEqual
  <2> HIDE DEF m
  <2>2. d \o f = Append(d, m) /\ c \o f = Append(c, m)
    BY <1>2, <2>1, AppendIsConcat
  <2>3. After(g, d \o f) = Apply(After(g, d), m)
    BY <1>2, <2>1, <2>2, AfterAppend
  <2>4. After(g, c \o f) = Apply(After(g, c), m)
    BY <2>1, <2>2, AfterAppend
  <2> QED
    BY <1>2, <2>3, <2>4 DEF d
<1>6. Len(f) = 0 \/ Len(f) = 1
  BY <1>3
<1> QED
  BY <1>4, <1>5, <1>6

\* What a client makes of a frame that fits.
LEMMA FollowsFrame ==
    ASSUME TypeOK, NEW m \in Msg, NEW total \in Nat,
           Brings(m, total, rows, size, sent),
           m.replace \/ Follows(View, rows, size, sent)
    PROVE  Follows(Apply(View, m), rows, size, total)
<1> DEFINE v == Apply(View, m)
<1>1. /\ ClientCap \in Nat /\ rows \in Seq(1..MaxRows) /\ Len(rows) \in Nat /\ size \in Nat
      /\ sent \in Nat /\ size <= Len(rows) /\ View \in Seq(1..MaxRows) /\ Len(View) \in Nat
  BY TypeFacts
<1>2. v \in Seq(1..MaxRows) /\ Len(v) \in Nat
  <2>1. Short(v)
    BY <1>1, ApplyShort
  <2> QED
    BY <2>1, LenProperties DEF Short
<1>3. CASE m.replace
  <2>1. total = Len(rows) /\ m.rows = Newest(rows, size)
    BY <1>3 DEF Brings
  <2>2. /\ Ends(v, rows, Len(rows))
        /\ ClientCap <= Len(v) \/ size <= Len(v)
    BY <2>1, <1>1, <1>3, EndsReplaced
  <2> HIDE DEF v
  <2>3. total - (Len(rows) - size) = size
    BY <2>1, <1>1
  <2>4. Follows(v, rows, size, total)
    BY <2>1, <2>2, <2>3 DEF Follows
  <2> QED
    BY <2>4 DEF v
<1>4. CASE ~m.replace /\ total = sent /\ m.rows = <<>>
  <2>1. m = Nothing
    BY <1>4 DEF Nothing, Msg
  <2>2. v = View
    BY <2>1, ViewIs, ApplyNothing
  <2> QED
    BY <2>2, <1>4
<1>5. CASE /\ ~m.replace /\ total = Len(rows) /\ sent <= total
           /\ m.rows = SubSeq(rows, sent + 1, total)
  <2>1. Ends(View, rows, sent)
    BY <1>5 DEF Follows
  <2>2. /\ Ends(v, rows, total)
        /\ ClientCap <= Len(v) \/ Len(View) + (total - sent) <= Len(v)
    <3>1. total <= Len(rows)
      BY <1>1, <1>5
    <3> QED
      BY <2>1, <3>1, <1>1, <1>5, EndsExtended
  <2>3. ClientCap <= Len(View) \/ sent - (Len(rows) - size) <= Len(View)
    BY <1>5 DEF Follows
  <2> HIDE DEF v
  <2>4. ClientCap <= Len(v) \/ total - (Len(rows) - size) <= Len(v)
    <3>1. CASE ClientCap <= Len(View)
      BY <3>1, <2>2, <1>1, <1>2, <1>5
    <3>2. CASE sent - (Len(rows) - size) <= Len(View)
      BY <3>2, <2>2, <1>1, <1>2
    <3> QED
      BY <2>3, <3>1, <3>2
  <2>5. Follows(v, rows, size, total)
    BY <2>2, <2>4 DEF Follows
  <2> QED
    BY <2>5 DEF v
<1> QED
  BY <1>3, <1>4, <1>5 DEF Brings

LEMMA SendOkKeeps == SyncInv /\ SendOk => SyncInv'
<1> SUFFICES ASSUME SyncInv, SendOk PROVE SyncInv'
  OBVIOUS
<1>1. TypeOK /\ Numbered /\ Marks /\ Fits /\ frame # NoFrame
  BY DEF SyncInv, SendOk
<1>2. /\ UNCHANGED <<rows, size, made, alt, at, damage, initial, grid>> /\ at
      /\ chan' = Append(chan, frame.msg) /\ frame' = NoFrame
      /\ sent' = IF frame.history THEN frame.total ELSE sent
      /\ astray' = ((frame.history /\ (frame.stale \/ initial # <<>>))
                      \/ (astray /\ ~frame.msg.replace))
  BY DEF SendOk, pane
<1>3. /\ frame.msg \in Msg /\ frame.total \in 0..MaxRows /\ frame.total \in Nat
      /\ {frame.history, frame.force, frame.stale, frame.msg.replace} \subseteq BOOLEAN
  BY <1>1, FrameFacts, TypeFacts
<1>4. chan' \in Seq(Msg) /\ Len(chan') <= ChanCap
  <2>1. chan \in Seq(Msg) /\ Len(chan) \in Nat /\ ChanCap \in Nat /\ Len(chan) < ChanCap
    BY <1>1, TypeFacts DEF TypeOK, SendOk, Room
  <2>2. chan' \in Seq(Msg) /\ Len(chan') = Len(chan) + 1
    BY <2>1, <1>2, <1>3, AppendProperties
  <2> QED
    BY <2>1, <2>2
<1>5. sent' \in 0..MaxRows /\ astray' \in BOOLEAN
  BY <1>1, <1>2, <1>3 DEF TypeOK
<1>6. TypeOK' /\ Numbered'
  BY <1>1, <1>2, <1>4, <1>5, FlagsStay DEF TypeOK, Numbered, Next, Send
<1>7. Marks' /\ Fits'
  BY <1>1, <1>2 DEF Marks, Fits
<1>8. Following'
  <2> SUFFICES ASSUME at', ~astray', ~Replacing' PROVE Follows(View', rows', size', sent')
    BY DEF Following
  <2>1. ~damage.replace
    BY <1>2 DEF Replacing
  <2>2. View' = After(grid, Append(chan, frame.msg) \o initial)
    BY <1>2 DEF View, After
  <2>3. CASE ~frame.history
    <3>1. frame.msg = Nothing /\ ~frame.force /\ ~frame.msg.replace
      BY <2>3, <1>1, <1>3 DEF Marks, Nothing
    <3>2. ~astray /\ sent' = sent
      BY <2>3, <3>1, <1>2
    <3>3. Follows(View, rows, size, sent)
      BY <2>1, <3>1, <3>2, <1>2 DEF SyncInv, Following, Replacing
    <3>4. View' = View
      BY <2>2, <3>1, <1>1, ViewIs, AfterIdle DEF TypeOK
    <3> QED
      BY <3>2, <3>3, <3>4, <1>2
  <2>4. CASE frame.history
    <3>1. ~frame.stale /\ initial = <<>> /\ sent' = frame.total
          /\ (astray => frame.msg.replace)
      BY <2>4, <1>2
    <3>2. Brings(frame.msg, frame.total, rows, size, sent)
      BY <2>1, <3>1, <1>1 DEF Fits
    <3>3. frame.msg.replace \/ Follows(View, rows, size, sent)
      BY <2>1, <3>1, <1>1, <1>2 DEF SyncInv, Following, Replacing, Marks
    <3>4. Follows(Apply(View, frame.msg), rows, size, frame.total)
      BY <3>2, <3>3, <1>1, <1>3, FollowsFrame
    <3>5. View' = Apply(View, frame.msg)
      <4>1. chan \in Seq(Msg) /\ Append(chan, frame.msg) \in Seq(Msg)
        BY <1>1, <1>3, AppendProperties DEF TypeOK
      <4>2. View' = After(grid, Append(chan, frame.msg)) /\ View = After(grid, chan)
        BY <4>1, <2>2, <3>1, <1>1, ViewIs, ConcatEmptySeq
      <4> QED
        BY <4>1, <4>2, <1>3, AfterAppend
    <3> QED
      BY <3>1, <3>4, <3>5, <1>2
  <2> QED
    BY <2>3, <2>4, <1>3
<1> QED
  BY <1>6, <1>7, <1>8 DEF SyncInv

\* A full sync of the primary screen puts any scrollback right.
LEMMA FullMsgFacts ==
    ASSUME TypeOK, Numbered, alt \in BOOLEAN
    PROVE  /\ FullMsg \in Msg /\ SentAfterFull \in 0..MaxRows
           /\ alt => FullMsg = Nothing /\ SentAfterFull = 0
           /\ ~alt => \A g \in Seq(1..MaxRows) :
                        Follows(Apply(g, FullMsg), rows, size, SentAfterFull)
<1>1. /\ rows \in Seq(1..MaxRows) /\ Len(rows) \in Nat /\ size \in Nat /\ size <= Len(rows)
      /\ MaxRows \in Nat /\ Len(rows) \in 0..MaxRows
  BY TypeFacts DEF TypeOK, Numbered
<1>2. Nothing \in Msg
  BY EmptySeq DEF Nothing, Msg
<1>3. [rows |-> History, replace |-> TRUE] \in Msg
  <2>1. History \in Seq(1..MaxRows)
    BY <1>1, NewestProperties DEF History
  <2> QED
    BY <2>1 DEF Msg
<1>4. FullMsg \in Msg /\ SentAfterFull \in 0..MaxRows
  BY <1>1, <1>2, <1>3 DEF FullMsg, SentAfterFull
<1>5. alt => FullMsg = Nothing /\ SentAfterFull = 0
  BY DEF FullMsg, SentAfterFull
<1>6. ASSUME NEW g \in Seq(1..MaxRows), ~alt
      PROVE  Follows(Apply(g, FullMsg), rows, size, SentAfterFull)
  <2>1. FullMsg.replace /\ FullMsg.rows = Newest(rows, size) /\ SentAfterFull = Len(rows)
    BY <1>6 DEF FullMsg, SentAfterFull, History
  <2>2. /\ Ends(Apply(g, FullMsg), rows, Len(rows))
        /\ ClientCap <= Len(Apply(g, FullMsg)) \/ size <= Len(Apply(g, FullMsg))
    BY <2>1, <1>1, <1>4, EndsReplaced
  <2>3. Len(rows) - (Len(rows) - size) = size
    BY <1>1
  <2> QED
    BY <2>1, <2>2, <2>3 DEF Follows
<1> QED
  BY <1>4, <1>5, <1>6
LEMMA SwitchBackKeeps == SyncInv /\ SwitchBack => SyncInv'
<1> SUFFICES ASSUME SyncInv, SwitchBack PROVE SyncInv'
  OBVIOUS
<1>1. TypeOK /\ Numbered /\ Marks /\ alt \in BOOLEAN
  BY DEF SyncInv, TypeOK
<1>2. /\ UNCHANGED <<rows, size, made, alt, frame, initial, grid>> /\ ~at /\ initial = <<>>
      /\ at' = TRUE /\ sent' = SentAfterFull /\ damage' = Clean
      /\ chan' = IF Room THEN Append(chan, FullMsg) ELSE chan
      /\ astray' = IF alt THEN View # <<>> ELSE ~Room
  BY <1>1 DEF SwitchBack, pane, Marks
<1>3. FullMsg \in Msg /\ SentAfterFull \in 0..MaxRows
      /\ (alt => FullMsg = Nothing /\ SentAfterFull = 0)
  BY <1>1, FullMsgFacts
<1>4. chan \in Seq(Msg) /\ Len(chan) \in Nat /\ ChanCap \in Nat /\ Len(chan) <= ChanCap
  BY <1>1, TypeFacts DEF TypeOK
<1>5. chan' \in Seq(Msg) /\ Len(chan') <= ChanCap
  <2>1. CASE Room
    <3>1. Append(chan, FullMsg) \in Seq(Msg) /\ Len(Append(chan, FullMsg)) = Len(chan) + 1
      BY <1>3, <1>4, AppendProperties
    <3> QED
      BY <2>1, <3>1, <1>2, <1>4 DEF Room
  <2>2. CASE ~Room
    BY <2>2, <1>2, <1>4
  <2> QED
    BY <2>1, <2>2
<1>6. astray' \in BOOLEAN
  BY <1>2
<1>7. TypeOK' /\ Numbered'
  BY <1>1, <1>2, <1>3, <1>5, <1>6, FlagsStay DEF TypeOK, Numbered, Clean, Next
<1>8. frame # NoFrame => frame.stale
  BY <1>1, <1>2 DEF Marks
<1>9. Marks' /\ Fits'
  BY <1>1, <1>2, <1>8 DEF Marks, Fits, Clean
<1>10. Following'
  <2> SUFFICES ASSUME ~astray' PROVE Follows(View', rows', size', sent')
    BY DEF Following
  <2>1. View = After(grid, chan) /\ View' = After(grid, chan')
    <3>1. chan \o <<>> = chan /\ chan' \o <<>> = chan'
      BY <1>4, <1>5, ConcatEmptySeq
    <3> QED
      BY <3>1, <1>2 DEF View, After
  <2>2. Room => View' = Apply(View, FullMsg)
    BY <2>1, <1>2, <1>3, <1>4, AfterAppend
  <2>3. CASE ~alt
    <3>1. View' = Apply(View, FullMsg)
      BY <2>2, <2>3, <1>2
    <3>2. View \in Seq(1..MaxRows)
      BY <1>1, TypeFacts
    <3>3. Follows(Apply(View, FullMsg), rows, size, SentAfterFull)
      BY <2>3, <3>2, <1>1, FullMsgFacts
    <3> QED
      BY <3>1, <3>3, <1>2
  <2>4. CASE alt
    <3>1. View = <<>>
      BY <2>4, <1>2
    <3>2. Room => View' = View
      BY <2>2, <2>4, <1>1, <1>3, ViewIs, ApplyNothing
    <3>3. ~Room => View' = View
      BY <2>1, <1>2
    <3>4. Follows(<<>>, rows, size, 0)
      BY <1>1, TypeFacts, EmptySeq DEF Follows, Ends
    <3> QED
      BY <2>4, <3>1, <3>2, <3>3, <3>4, <1>2, <1>3
  <2> QED
    BY <2>3, <2>4
<1> QED
  BY <1>7, <1>9, <1>10 DEF SyncInv

LEMMA ReconnectKeeps == SyncInv /\ Reconnect => SyncInv'
<1> SUFFICES ASSUME SyncInv, Reconnect PROVE SyncInv'
  OBVIOUS
<1>1. TypeOK /\ Numbered /\ alt \in BOOLEAN
  BY DEF SyncInv, TypeOK
<1>2. /\ UNCHANGED <<rows, size, made, alt, grid>>
      /\ at' = TRUE /\ sent' = SentAfterFull /\ damage' = Clean
      /\ chan' = <<>> /\ initial' = <<FullMsg>> /\ frame' = NoFrame
      /\ astray' = (alt /\ grid # <<>>)
  BY DEF Reconnect, pane
<1>3. FullMsg \in Msg /\ SentAfterFull \in 0..MaxRows
      /\ (alt => FullMsg = Nothing /\ SentAfterFull = 0)
  BY <1>1, FullMsgFacts
<1>4. <<>> \in Seq(Msg) /\ Len(<<>>) = 0 /\ 0 <= ChanCap
  BY <1>1, EmptySeq, TypeFacts
<1>5. <<FullMsg>> \in Seq(Msg) /\ Len(<<FullMsg>>) = 1
  BY <1>3
<1>6. astray' \in BOOLEAN
  BY <1>1, <1>2
<1>7. TypeOK' /\ Numbered'
  <2>1. chan' \in Seq(Msg) /\ Len(chan') <= ChanCap /\ initial' \in Seq(Msg)
        /\ Len(initial') <= 1
    BY <1>2, <1>4, <1>5
  <2> QED
    BY <2>1, <1>1, <1>2, <1>3, <1>6, FlagsStay DEF TypeOK, Numbered, Clean, Next
<1>8. Marks' /\ Fits'
  BY <1>2 DEF Marks, Fits, Clean
<1>9. Following'
  <2> SUFFICES ASSUME ~astray' PROVE Follows(View', rows', size', sent')
    BY DEF Following
  <2>1. Short(grid) /\ grid \in Seq(1..MaxRows)
    BY <1>1, ViewIs DEF Short
  <2>2. View' = Apply(grid, FullMsg)
    <3>1. <<>> \o <<FullMsg>> = Append(<<>>, FullMsg)
      BY <1>3, <1>4, AppendIsConcat
    <3>2. View' = After(grid, Append(<<>>, FullMsg))
      BY <3>1, <1>2 DEF View, After
    <3>3. After(grid, Append(<<>>, FullMsg)) = Apply(After(grid, <<>>), FullMsg)
      BY <1>3, <1>4, AfterAppend
    <3> QED
      BY <3>2, <3>3, AfterNone
  <2>3. CASE ~alt
    <3>1. Follows(Apply(grid, FullMsg), rows, size, SentAfterFull)
      BY <2>1, <2>3, <1>1, FullMsgFacts
    <3> QED
      BY <2>2, <3>1, <1>2
  <2>4. CASE alt
    <3>1. View' = <<>>
      BY <2>1, <2>2, <2>4, <1>2, <1>3, ApplyNothing
    <3>2. Follows(<<>>, rows, size, 0)
      BY <1>1, TypeFacts, EmptySeq DEF Follows, Ends
    <3> QED
      BY <2>4, <3>1, <3>2, <1>2, <1>3
  <2> QED
    BY <2>3, <2>4
<1> QED
  BY <1>7, <1>8, <1>9 DEF SyncInv

LEMMA SendInitialKeeps == SyncInv /\ SendInitial => SyncInv'
<1> SUFFICES ASSUME SyncInv, SendInitial PROVE SyncInv'
  OBVIOUS
<1>1. TypeOK /\ Numbered /\ Marks /\ Fits /\ Following
  BY DEF SyncInv
<1>2. /\ UNCHANGED <<rows, size, made, alt, at, sent, damage, frame, grid, astray>>
      /\ chan' = chan \o initial /\ initial' = <<>> /\ Len(chan) < ChanCap
  BY DEF SendInitial, pane, client, Room
<1>3. /\ chan' \in Seq(Msg) /\ Len(chan') <= ChanCap
      /\ initial' \in Seq(Msg) /\ Len(initial') = 0
  <2>1. /\ chan \in Seq(Msg) /\ initial \in Seq(Msg) /\ Len(initial) <= 1
        /\ Len(chan) \in Nat /\ Len(initial) \in Nat /\ ChanCap \in Nat
    BY <1>1, TypeFacts DEF TypeOK
  <2>2. chan' \in Seq(Msg) /\ Len(chan') = Len(chan) + Len(initial)
    BY <2>1, <1>2, ConcatProperties
  <2>3. Len(chan) + Len(initial) <= ChanCap
    BY <2>1, <1>2
  <2> QED
    BY <2>2, <2>3, <1>2, EmptySeq
<1>4. TypeOK' /\ Numbered'
  BY <1>1, <1>2, <1>3, FlagsStay DEF TypeOK, Numbered, Next, Send
<1>5. View' = View
  <2>1. chan' \o initial' = chan \o initial
    BY <1>2, <1>3, ConcatEmptySeq
  <2> QED
    BY <2>1, <1>2 DEF View
<1>6. Marks' /\ Fits'
  BY <1>1, <1>2 DEF Marks, Fits
<1>7. Following'
  BY <1>1, <1>2, <1>5 DEF Following, Replacing
<1> QED
  BY <1>4, <1>6, <1>7 DEF SyncInv

LEMMA ReceiveKeeps == SyncInv /\ Receive => SyncInv'
<1> SUFFICES ASSUME SyncInv, Receive PROVE SyncInv'
  OBVIOUS
<1>1. TypeOK /\ Numbered /\ Marks /\ Fits /\ Following
  BY DEF SyncInv
<1>2. /\ UNCHANGED <<rows, size, made, alt, at, sent, damage, frame, initial, astray>>
      /\ chan # <<>> /\ grid' = Apply(grid, Head(chan)) /\ chan' = Tail(chan)
  BY DEF Receive, pane, client
<1>3. /\ chan \in Seq(Msg) /\ initial \in Seq(Msg) /\ Short(grid)
      /\ Len(chan) \in Nat /\ ChanCap \in Nat /\ Len(chan) <= ChanCap
  BY <1>1, ViewIs, TypeFacts DEF TypeOK
<1>4. Head(chan) \in Msg /\ chan' \in Seq(Msg) /\ Len(chan') = Len(chan) - 1
  BY <1>2, <1>3, HeadTailProperties
<1>5. Short(grid')
  BY <1>2, <1>3, <1>4, ApplyShort DEF Short
<1>6. Len(chan') <= ChanCap
  BY <1>3, <1>4
<1>7. TypeOK' /\ Numbered'
  BY <1>1, <1>2, <1>4, <1>5, <1>6, FlagsStay DEF TypeOK, Numbered, Short, Next
<1>8. View' = View
  <2> DEFINE c == chan \o initial
  <2>1. c \in Seq(Msg) /\ c # <<>> /\ Head(c) = Head(chan) /\ Tail(c) = Tail(chan) \o initial
    <3>1. c \in Seq(Msg)
      BY <1>3, ConcatProperties
    <3> QED
      BY <3>1, <1>2, <1>3, ConcatSimplifications
  <2> HIDE DEF c
  <2>2. After(Apply(grid, Head(c)), Tail(c)) = After(grid, c)
    BY <2>1, AfterHead
  <2>3. View' = After(grid', chan' \o initial')
    BY DEF View, After
  <2> QED
    BY <2>1, <2>2, <2>3, <1>2 DEF View, After, c
<1>9. Marks' /\ Fits'
  BY <1>1, <1>2 DEF Marks, Fits
<1>10. Following'
  BY <1>1, <1>2, <1>8 DEF Following, Replacing
<1> QED
  BY <1>7, <1>9, <1>10 DEF SyncInv

\* A wake-up, or a pass that finds nothing, moves only the flags of the tick loop.
LEMMA StutterKeeps == SyncInv /\ (Notify \/ PassOver \/ UNCHANGED vars) => SyncInv'
<1> SUFFICES ASSUME SyncInv, Notify \/ PassOver \/ UNCHANGED vars PROVE SyncInv'
  OBVIOUS
<1>1. UNCHANGED <<rows, size, made, alt, at, sent, damage, frame, initial, chan, grid, astray>>
  BY DEF Notify, PassOver, vars, pane, client
<1>2. View' = View
  BY <1>1 DEF View
<1>3. {hold', wake', unwoken'} \subseteq BOOLEAN
  BY FlagsStay DEF SyncInv, Next, Tick
<1> QED
  BY <1>1, <1>2, <1>3 DEF SyncInv, TypeOK, Numbered, Marks, Fits, Following, Replacing

\* SyncInv is an invariant: what the channels and the frame in hand hold adds up.
THEOREM SyncInvariant == Spec => []SyncInv
<1>1. SyncInv /\ [Next]_vars => SyncInv'
  BY DrainKeeps, SnapshotKeeps, SendSkipKeeps, SendOkKeeps, SendFailKeeps, ResizeKeeps,
     SwitchAwayKeeps, SwitchBackKeeps, ReconnectKeeps, SendInitialKeeps, ReceiveKeeps,
     StutterKeeps
     DEF Next, Tick, Send
<1> QED
  BY <1>1, InitSyncs, PTL DEF Spec

\* The history, the frame, the channel and the client's scrollback keep their types and
\* their limits.
THEOREM SyncTypes == Spec => []TypeOK
<1>1. SyncInv => TypeOK
  BY DEF SyncInv
<1> QED
  BY <1>1, SyncInvariant, PTL

\* The watermark tells what the client has: the client's scrollback, once it has read
\* its channel, is a run of the pane's rows that ends at the watermark.
THEOREM WatermarkTrue == Spec => []Mirror
BY SyncInvariant, FollowsMirror, PTL
=============================================================================
