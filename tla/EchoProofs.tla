----------------------------- MODULE EchoProofs -----------------------------
(***************************************************************************)
(* Proofs about Echo, for every width of the row, every set of keys, modes  *)
(* and habits of the program, and every number of keys and of frames.      *)
(***************************************************************************)
EXTENDS Echo, SequenceTheorems, FiniteSetTheorems, TLAPS

-----------------------------------------------------------------------------
(* Numbers.                                                                *)

\* Every set of numbers has a least one: what the proofs by induction below
\* apply to the set of counterexamples.
LEMMA LeastNat ==
    ASSUME NEW T, T \subseteq Nat, T # {}
    PROVE  \E n \in T : \A m \in T : n <= m
<1> DEFINE R == StrictSubsetOrdering(Nat)
           U == {1..n : n \in T}
<1>1. IsWellFoundedOn(R, FiniteSubsetsOf(Nat))
  BY FS_StrictSubsetOrderingWellFounded
<1>2. U \subseteq FiniteSubsetsOf(Nat)
  BY FS_Interval DEF FiniteSubsetsOf
<1>3. U # {}
  OBVIOUS
<1>4. PICK x \in U : \A y \in U : <<y, x>> \notin R
  BY <1>1, <1>2, <1>3, WFMin
<1>5. PICK n \in T : x = 1..n
  OBVIOUS
<1>6. ASSUME NEW m \in T, m < n PROVE FALSE
  <2>1. (1..m) \subseteq (1..n) /\ 1..m # 1..n /\ 1..m \in U
    BY <1>6
  <2>2. <<1..m, 1..n>> \in R
    BY <2>1 DEF StrictSubsetOrdering
  <2> QED
    BY <2>1, <2>2, <1>4, <1>5
<1> QED
  BY <1>6

\* How many elements of K there are up to k.
Rank(K, k) == Cardinality({j \in K : j <= k})

LEMMA RankProperties ==
    ASSUME NEW n \in Nat, NEW K \in SUBSET (1..n)
    PROVE  /\ IsFiniteSet(K) /\ Cardinality(K) \in Nat /\ Cardinality(K) <= n
           /\ \A k \in K : Rank(K, k) \in 1..Cardinality(K)
           /\ \A j, k \in K : j < k => Rank(K, j) < Rank(K, k)
           /\ \A i \in 1..Cardinality(K) : \E k \in K : Rank(K, k) = i
<1> DEFINE upTo(k) == {j \in K : j <= k}
           m == Cardinality(K)
           rank == [k \in K |-> Rank(K, k)]
<1>1. IsFiniteSet(1..n) /\ Cardinality(1..n) = n
  BY FS_Interval
<1>2. IsFiniteSet(K) /\ m <= n
  BY <1>1, FS_Subset
<1>3. m \in Nat
  BY <1>2, FS_CardinalityType
<1>4. \A k \in K : IsFiniteSet(upTo(k)) /\ Cardinality(upTo(k)) <= m
                   /\ Cardinality(upTo(k)) \in Nat
  BY <1>2, FS_Subset, FS_CardinalityType
<1>5. \A k \in K : Rank(K, k) \in 1..m
  <2> SUFFICES ASSUME NEW k \in K PROVE Rank(K, k) \in 1..m
    OBVIOUS
  <2>1. k \in upTo(k)
    OBVIOUS
  <2>2. Cardinality(upTo(k)) # 0
    BY <2>1, <1>4, FS_EmptySet
  <2> QED
    BY <2>2, <1>3, <1>4 DEF Rank
<1>6. \A j, k \in K : j < k => Rank(K, j) < Rank(K, k)
  <2> SUFFICES ASSUME NEW j \in K, NEW k \in K, j < k PROVE Rank(K, j) < Rank(K, k)
    OBVIOUS
  <2>1. upTo(j) \subseteq upTo(k)
    <3>1. j \in 1..n /\ k \in 1..n /\ \A i \in K : i \in 1..n
      OBVIOUS
    <3>2. \A i \in K : i <= j => i <= k
      BY <3>1
    <3> QED
      BY <3>2
  <2>2. k \in upTo(k) /\ k \notin upTo(j)
    OBVIOUS
  <2>3. Cardinality(upTo(j)) <= Cardinality(upTo(k))
        /\ Cardinality(upTo(j)) # Cardinality(upTo(k))
    BY <2>1, <2>2, <1>4, FS_Subset
  <2> QED
    BY <2>3, <1>4 DEF Rank
<1>7. rank \in Injection(K, 1..m)
  <2>1. rank \in [K -> 1..m]
    BY <1>5
  <2>2. \A j, k \in K : rank[j] = rank[k] => j = k
    BY <1>5, <1>6
  <2> QED
    BY <2>1, <2>2 DEF Injection, IsInjective
<1>8. rank \in Surjection(K, 1..m)
  <2>1. IsFiniteSet(1..m) /\ Cardinality(1..m) = m
    BY <1>3, FS_Interval
  <2> QED
    BY <2>1, <1>7, FS_Injection
<1>9. \A i \in 1..m : \E k \in K : Rank(K, k) = i
  BY <1>8 DEF Surjection
<1> QED
  BY <1>2, <1>3, <1>5, <1>6, <1>9

\* The i-th element of K, upwards.
Nth(K, i) == CHOOSE k \in K : Rank(K, k) = i

LEMMA NthProperties ==
    ASSUME NEW n \in Nat, NEW K \in SUBSET (1..n)
    PROVE  /\ \A i \in 1..Cardinality(K) : Nth(K, i) \in K
           /\ \A i, j \in 1..Cardinality(K) : i < j => Nth(K, i) < Nth(K, j)
           /\ \A k \in K : Rank(K, k) \in 1..Cardinality(K) /\ Nth(K, Rank(K, k)) = k
<1> DEFINE m == Cardinality(K)
<1>1. /\ IsFiniteSet(K) /\ m \in Nat
      /\ \A k \in K : Rank(K, k) \in 1..m
      /\ \A j, k \in K : j < k => Rank(K, j) < Rank(K, k)
      /\ \A i \in 1..m : \E k \in K : Rank(K, k) = i
  BY RankProperties
<1>2. \A i \in 1..m : Nth(K, i) \in K /\ Rank(K, Nth(K, i)) = i
  BY <1>1 DEF Nth
<1>3. \A k \in K : k \in Nat
  OBVIOUS
<1>4. \A j, k \in K : Rank(K, j) = Rank(K, k) => j = k
  <2> SUFFICES ASSUME NEW j \in K, NEW k \in K, Rank(K, j) = Rank(K, k), j # k
               PROVE  FALSE
    OBVIOUS
  <2>1. Rank(K, k) \in Int /\ (j < k \/ k < j)
    BY <1>1, <1>3
  <2> QED
    BY <2>1, <1>1
<1>5. \A i, j \in 1..m : i < j => Nth(K, i) < Nth(K, j)
  <2> SUFFICES ASSUME NEW i \in 1..m, NEW j \in 1..m, i < j PROVE Nth(K, i) < Nth(K, j)
    OBVIOUS
  <2>1. Nth(K, i) \in K /\ Nth(K, j) \in K /\ Rank(K, Nth(K, i)) = i /\ Rank(K, Nth(K, j)) = j
    BY <1>2
  <2>2. Nth(K, j) < Nth(K, i) => j < i
    BY <2>1, <1>1
  <2>3. Nth(K, i) # Nth(K, j)
    BY <2>1
  <2>4. Nth(K, i) \in Nat /\ Nth(K, j) \in Nat
    BY <2>1, <1>3
  <2> QED
    BY <2>2, <2>3, <2>4
<1>6. \A k \in K : Rank(K, k) \in 1..m /\ Nth(K, Rank(K, k)) = k
  BY <1>1, <1>2, <1>4
<1> QED
  BY <1>2, <1>5, <1>6

\* AtIndices goes through the elements of K upwards, and leaves none out.
LEMMA AtIndicesProperties ==
    ASSUME NEW S, NEW s \in Seq(S), NEW K \in SUBSET (1..Len(s))
    PROVE  /\ AtIndices(s, K) \in Seq(S)
           /\ Len(AtIndices(s, K)) = Cardinality(K)
           /\ IsFiniteSet(K) /\ Cardinality(K) \in Nat
           /\ \A i \in 1..Cardinality(K) :
                AtIndices(s, K)[i] = s[Nth(K, i)] /\ Nth(K, i) \in K
           /\ \A i, j \in 1..Cardinality(K) : i < j => Nth(K, i) < Nth(K, j)
           /\ \A k \in K : Rank(K, k) \in 1..Cardinality(K) /\ Nth(K, Rank(K, k)) = k
<1> DEFINE m == Cardinality(K)
<1>1. Len(s) \in Nat /\ \A k \in K : s[k] \in S
  BY ElementOfSeq
<1>2. IsFiniteSet(K) /\ m \in Nat
  BY <1>1, RankProperties
<1>3. /\ \A i \in 1..m : Nth(K, i) \in K
      /\ \A i, j \in 1..m : i < j => Nth(K, i) < Nth(K, j)
      /\ \A k \in K : Rank(K, k) \in 1..m /\ Nth(K, Rank(K, k)) = k
  BY <1>1, NthProperties
<1>4. AtIndices(s, K) = [i \in 1..m |-> s[Nth(K, i)]]
  BY DEF AtIndices, Nth, Rank
<1>5. \A i \in 1..m : s[Nth(K, i)] \in S
  BY <1>1, <1>3
<1>6. AtIndices(s, K) \in Seq(S) /\ Len(AtIndices(s, K)) = m
  BY <1>2, <1>4, <1>5
<1> QED
  BY <1>2, <1>3, <1>4, <1>6

LEMMA Lowest ==
    ASSUME NEW T, T \subseteq Nat, T # {}
    PROVE  Min(T) \in T /\ \A n \in T : Min(T) <= n
<1>1. \E n \in T : \A m \in T : n <= m
  BY LeastNat
<1> QED
  BY <1>1, Zenon DEF Min

LEMMA Highest ==
    ASSUME NEW b \in Nat, NEW T \in SUBSET (0 .. b), T # {}
    PROVE  Max(T) \in T /\ \A n \in T : n <= Max(T)
<1> DEFINE D == {d \in Nat : \E n \in T : d = b - n}
<1>1. D \subseteq Nat /\ D # {}
  <2>1. PICK n \in T : TRUE
    OBVIOUS
  <2>2. b - n \in Nat
    BY <2>1
  <2> QED
    BY <2>1, <2>2
<1>2. PICK d \in D : \A m \in D : d <= m
  BY <1>1, LeastNat
<1>3. PICK x \in T : d = b - x
  OBVIOUS
<1>4. \A n \in T : x >= n
  <2> SUFFICES ASSUME NEW n \in T PROVE x >= n
    OBVIOUS
  <2>1. b - n \in D
    <3>1. b - n \in Nat
      OBVIOUS
    <3> QED
      BY <3>1
  <2>2. b - x <= b - n
    BY <2>1, <1>2, <1>3
  <2> QED
    BY <2>2
<1>5. \E y \in T : \A n \in T : y >= n
  BY <1>4
<1>6. Max(T) \in T /\ \A n \in T : Max(T) >= n
  BY <1>5, Zenon DEF Max
<1>7. \A n \in T : n \in Int
  OBVIOUS
<1> QED
  BY <1>6, <1>7

\* What AtIndices keeps of a sequence: elements of it, in its order, and the
\* last one if it is asked for.
LEMMA Picking ==
    ASSUME NEW S, NEW s \in Seq(S), NEW K \in SUBSET (1..Len(s)),
           NEW t, t = AtIndices(s, K)
    PROVE  /\ t \in Seq(S)
           /\ \A i \in DOMAIN t : \E k \in K : t[i] = s[k]
           /\ \A i, j \in DOMAIN t : i < j =>
                \E k, l \in K : k < l /\ t[i] = s[k] /\ t[j] = s[l]
           /\ s # <<>> /\ Len(s) \in K => t # <<>> /\ Last(t) = Last(s)
<1> DEFINE m == Cardinality(K)
<1>1. /\ t \in Seq(S) /\ Len(t) = m /\ m \in Nat
      /\ \A i \in 1..m : t[i] = s[Nth(K, i)] /\ Nth(K, i) \in K
      /\ \A i, j \in 1..m : i < j => Nth(K, i) < Nth(K, j)
      /\ \A k \in K : Rank(K, k) \in 1..m /\ Nth(K, Rank(K, k)) = k
  BY AtIndicesProperties
<1>2. DOMAIN t = 1..m
  BY <1>1, LenProperties
<1>3. ASSUME s # <<>>, Len(s) \in K
      PROVE  t # <<>> /\ Last(t) = Last(s)
  <2> DEFINE r == Rank(K, Len(s))
  <2>1. r \in 1..m /\ Nth(K, r) = Len(s)
    BY <1>1, <1>3
  <2>2. m \in 1..m /\ m # 0
    BY <2>1, <1>1
  <2>3. Nth(K, m) \in 1..Len(s) /\ Len(s) \in Nat
    BY <2>2, <1>1, LenProperties
  <2>4. r = m
    <3>1. r < m => Len(s) < Nth(K, m)
      BY <2>1, <2>2, <1>1
    <3> QED
      BY <3>1, <2>1, <2>3, <1>1
  <2>5. t[m] = s[Len(s)]
    BY <2>1, <2>2, <2>4, <1>1
  <2> QED
    BY <2>2, <2>5, <1>1 DEF Last
<1>4. \A i \in DOMAIN t : \E k \in K : t[i] = s[k]
  BY <1>1, <1>2
<1>5. ASSUME NEW i \in DOMAIN t, NEW j \in DOMAIN t, i < j
      PROVE  \E k, l \in K : k < l /\ t[i] = s[k] /\ t[j] = s[l]
  <2>1. Nth(K, i) \in K /\ Nth(K, j) \in K /\ Nth(K, i) < Nth(K, j)
        /\ t[i] = s[Nth(K, i)] /\ t[j] = s[Nth(K, j)]
    BY <1>1, <1>2, <1>5
  <2> QED
    BY <2>1, Zenon
<1> QED
  BY <1>1, <1>3, <1>4, <1>5

-----------------------------------------------------------------------------
(* Overlays.                                                               *)

\* A sound overlay, but for its deadline.
Steady(o) ==
    /\ o \in Overlays
    /\ \A i, j \in DOMAIN o.cursors : i < j => o.cursors[i].epoch < o.cursors[j].epoch
    /\ \A i \in DOMAIN o.cursors : o.cursors[i].epoch <= o.epoch
    /\ \A c \in Active(o) : o.cell[c].epoch <= o.epoch
    /\ o.confirmed <= o.epoch

\* p is o with predictions for input n: what else it predicts is as it was.
Extends(o, p, n) ==
    /\ Steady(p)
    /\ p.epoch >= o.epoch /\ p.confirmed = o.confirmed /\ p.proven = o.proven
    /\ p.context = o.context /\ p.timer = o.timer
    /\ \A c \in Active(p) : \/ p.cell[c] = o.cell[c]
                            \/ p.cell[c].ack = n /\ p.cell[c].epoch >= o.epoch
    /\ \A i \in DOMAIN p.cursors :
          \/ p.cursors[i].ack = n
          \/ \E j \in DOMAIN o.cursors : p.cursors[i] = o.cursors[j]

\* The types of the fields, for the steps that need them.
LEMMA SteadyTypes ==
    ASSUME NEW o, Steady(o)
    PROVE  /\ o \in Overlays
           /\ o.cell \in [Col -> Cells \cup {Off}]
           /\ o.cursors \in Seq(Cursors) /\ Len(o.cursors) \in Nat
           /\ DOMAIN o.cursors = 1 .. Len(o.cursors)
           /\ \A i \in DOMAIN o.cursors : o.cursors[i] \in Cursors
           /\ o.epoch \in Nat /\ o.confirmed \in Nat
           /\ o.start \in Col \cup {None} /\ o.floor \in Col \cup {None}
           /\ \A c \in Active(o) : c \in Col /\ o.cell[c] \in Cells /\ o.cell[c] # Off
<1>1. o \in Overlays
  BY DEF Steady
<1>2. o.cursors \in Seq(Cursors)
  BY <1>1 DEF Overlays
<1>3. /\ Len(o.cursors) \in Nat /\ DOMAIN o.cursors = 1 .. Len(o.cursors)
      /\ \A i \in DOMAIN o.cursors : o.cursors[i] \in Cursors
  BY <1>2, LenProperties, ElementOfSeq
<1>4. o.cell \in [Col -> Cells \cup {Off}]
  BY <1>1 DEF Overlays
<1>5. \A c \in Active(o) : c \in Col /\ o.cell[c] \in Cells /\ o.cell[c] # Off
  BY <1>4 DEF Active
<1> QED
  BY <1>1, <1>2, <1>3, <1>4, <1>5 DEF Overlays

LEMMA ExtendsSteady ==
    ASSUME NEW o, NEW p, NEW n, Extends(o, p, n)
    PROVE  Steady(p)
BY DEF Extends

LEMMA ExtendsTransitive ==
    ASSUME NEW o, NEW p, NEW q, NEW n, Steady(o), Extends(o, p, n), Extends(p, q, n)
    PROVE  Extends(o, q, n)
<1>1. Steady(p) /\ Steady(q)
  BY DEF Extends
<1>2. o.epoch \in Nat /\ p.epoch \in Nat /\ q.epoch \in Nat
  BY <1>1, SteadyTypes
<1>3. q.epoch >= o.epoch
  BY <1>2 DEF Extends
<1>4. ASSUME NEW c \in Active(q)
      PROVE  \/ q.cell[c] = o.cell[c]
             \/ q.cell[c].ack = n /\ q.cell[c].epoch >= o.epoch
  <2>1. CASE q.cell[c] = p.cell[c]
    <3>1. c \in Active(p)
      BY <2>1 DEF Active
    <3> QED
      BY <2>1, <3>1 DEF Extends
  <2>2. CASE q.cell[c].ack = n /\ q.cell[c].epoch >= p.epoch
    <3>1. q.cell[c].epoch \in Nat
      BY <1>1, SteadyTypes DEF Cells
    <3>2. p.epoch >= o.epoch
      BY DEF Extends
    <3> QED
      BY <2>2, <3>1, <3>2, <1>2
  <2> QED
    BY <2>1, <2>2 DEF Extends
<1>5. ASSUME NEW i \in DOMAIN q.cursors
      PROVE  \/ q.cursors[i].ack = n
             \/ \E j \in DOMAIN o.cursors : q.cursors[i] = o.cursors[j]
  <2>1. CASE \E j \in DOMAIN p.cursors : q.cursors[i] = p.cursors[j]
    BY <2>1 DEF Extends
  <2> QED
    BY <2>1 DEF Extends
<1> QED
  BY <1>1, <1>3, <1>4, <1>5 DEF Extends

\* Changing what is neither a prediction nor its epoch.
LEMMA FieldsExtend ==
    ASSUME NEW o, NEW n, Steady(o), NEW s \in Col \cup {None}, NEW b \in BOOLEAN
    PROVE  /\ Extends(o, o, n)
           /\ Extends(o, [o EXCEPT !.start = s], n)
           /\ Extends(o, [o EXCEPT !.forced = b], n)
           /\ [o EXCEPT !.start = s].cursors = o.cursors
           /\ [o EXCEPT !.start = s].cell = o.cell
           /\ [o EXCEPT !.start = s].epoch = o.epoch
<1>1. o \in Overlays /\ o.epoch \in Nat /\ o.confirmed \in Nat
  BY SteadyTypes
<1>2. Extends(o, o, n)
  BY <1>1 DEF Extends, Steady
<1> DEFINE p == [o EXCEPT !.start = s]
           q == [o EXCEPT !.forced = b]
<1>3. /\ p \in Overlays /\ p.cell = o.cell /\ p.cursors = o.cursors /\ p.epoch = o.epoch
      /\ p.confirmed = o.confirmed /\ p.proven = o.proven /\ p.context = o.context
      /\ p.timer = o.timer
  BY <1>1 DEF Overlays
<1>4. /\ q \in Overlays /\ q.cell = o.cell /\ q.cursors = o.cursors /\ q.epoch = o.epoch
      /\ q.confirmed = o.confirmed /\ q.proven = o.proven /\ q.context = o.context
      /\ q.timer = o.timer
  BY <1>1 DEF Overlays
<1> HIDE DEF p, q
<1>5. Active(p) = Active(o) /\ Active(q) = Active(o)
  BY <1>3, <1>4 DEF Active
<1>6. Extends(o, p, n)
  BY <1>1, <1>3, <1>5 DEF Extends, Steady
<1>7. Extends(o, q, n)
  BY <1>1, <1>4, <1>5 DEF Extends, Steady
<1> QED
  BY <1>2, <1>3, <1>6, <1>7 DEF p, q

LEMMA NextEpochExtends ==
    ASSUME NEW o, NEW n, Steady(o)
    PROVE  /\ Extends(o, NextEpoch(o), n)
           /\ NextEpoch(o).cell = o.cell /\ NextEpoch(o).epoch = o.epoch + 1
<1> DEFINE p == NextEpoch(o)
<1>1. o \in Overlays /\ o.epoch \in Nat /\ o.confirmed \in Nat
  BY SteadyTypes
<1>2. /\ p \in Overlays /\ p.cell = o.cell /\ p.cursors = o.cursors /\ p.epoch = o.epoch + 1
      /\ p.confirmed = o.confirmed /\ p.proven = o.proven /\ p.context = o.context
      /\ p.timer = o.timer
  BY <1>1 DEF Overlays, NextEpoch
<1> HIDE DEF p
<1>3. Active(p) = Active(o)
  BY <1>2 DEF Active
<1>4. /\ \A i \in DOMAIN o.cursors : o.cursors[i].epoch \in Nat
      /\ \A c \in Active(o) : o.cell[c].epoch \in Nat
  BY SteadyTypes DEF Cells, Cursors
<1>5. Steady(p)
  BY <1>1, <1>2, <1>3, <1>4 DEF Steady
<1>6. Extends(o, p, n)
  BY <1>1, <1>2, <1>3, <1>5 DEF Extends
<1> QED
  BY <1>2, <1>6 DEF p

\* The last cursor is that of the newest epoch or a new one.
LEMMA SetCursorExtends ==
    ASSUME NEW o, Steady(o), NEW c \in Col, NEW n \in 1 .. MaxKeys
    PROVE  /\ Extends(o, SetCursor(o, c, n), n)
           /\ SetCursor(o, c, n).cell = o.cell /\ SetCursor(o, c, n).epoch = o.epoch
<1> DEFINE cur == [col |-> c, epoch |-> o.epoch, ack |-> n]
           p == SetCursor(o, c, n)
           s == o.cursors
           t == IF s # <<>> /\ Last(s).epoch = o.epoch THEN [s EXCEPT ![Len(s)] = cur]
                ELSE Append(s, cur)
<1>1. /\ o \in Overlays /\ o.epoch \in Nat /\ o.confirmed \in Nat
      /\ s \in Seq(Cursors) /\ Len(s) \in Nat /\ DOMAIN s = 1 .. Len(s)
      /\ \A i \in DOMAIN s : s[i] \in Cursors
  BY SteadyTypes
<1>2. cur \in Cursors /\ cur.epoch = o.epoch /\ cur.ack = n
  BY <1>1 DEF Cursors
<1>3. p = [o EXCEPT !.cursors = t]
  <2>1. o.cursors # <<>> /\ Last(o.cursors).epoch = o.epoch
        => [o EXCEPT !.cursors[Len(o.cursors)] = cur]
           = [o EXCEPT !.cursors = [o.cursors EXCEPT ![Len(o.cursors)] = cur]]
    OBVIOUS
  <2> QED
    BY <2>1 DEF SetCursor
<1> HIDE DEF cur
<1> DEFINE Ends(m) == /\ t \in Seq(Cursors) /\ DOMAIN t = 1 .. (m + 1) /\ m <= Len(s)
                      /\ t[m + 1] = cur
                      /\ \A i \in 1 .. m : t[i] = s[i] /\ s[i].epoch < o.epoch
<1>4. \A i \in DOMAIN s : s[i].epoch \in Nat /\ s[i].epoch <= o.epoch
  BY <1>1 DEF Cursors, Steady
<1>5. \A i, j \in DOMAIN s : i < j => s[i].epoch < s[j].epoch
  BY DEF Steady
<1>6. \E m \in Nat : Ends(m)
  <2>1. CASE s # <<>> /\ Last(s).epoch = o.epoch
    <3>1. Len(s) \in 1 .. Len(s) /\ Len(s) - 1 \in Nat /\ Len(s) - 1 + 1 = Len(s)
      BY <1>1, <2>1, EmptySeq
    <3>2. t = [s EXCEPT ![Len(s)] = cur]
      BY <2>1
    <3>3. /\ t \in Seq(Cursors) /\ Len(t) = Len(s)
          /\ \A i \in 1 .. Len(s) : t[i] = IF i = Len(s) THEN cur ELSE s[i]
      BY <1>1, <1>2, <3>1, <3>2, ExceptSeq
    <3>4. DOMAIN t = 1 .. Len(s)
      BY <3>3, LenProperties
    <3>5. s[Len(s)].epoch = o.epoch
      BY <2>1 DEF Last
    <3>6. \A i \in 1 .. (Len(s) - 1) : i \in 1 .. Len(s) /\ i < Len(s)
      BY <1>1
    <3>7. ASSUME NEW i \in 1 .. (Len(s) - 1) PROVE t[i] = s[i] /\ s[i].epoch < o.epoch
      <4>1. i \in 1 .. Len(s) /\ i < Len(s) /\ i # Len(s)
        BY <1>1, <3>6
      <4>2. t[i] = s[i]
        BY <3>3, <4>1
      <4>3. s[i].epoch < s[Len(s)].epoch
        BY <1>1, <1>5, <3>1, <4>1
      <4> QED
        BY <3>5, <4>2, <4>3
    <3> HIDE DEF t
    <3>8. Ends(Len(s) - 1)
      BY <1>1, <3>1, <3>3, <3>4, <3>7
    <3> QED
      BY <3>1, <3>8
  <2>2. CASE ~(s # <<>> /\ Last(s).epoch = o.epoch)
    <3>1. t = Append(s, cur)
      BY <2>2
    <3>2. /\ t \in Seq(Cursors) /\ Len(t) = Len(s) + 1
          /\ \A i \in 1 .. Len(s) : t[i] = s[i]
          /\ t[Len(s) + 1] = cur
      BY <1>1, <1>2, <3>1, AppendProperties
    <3>3. DOMAIN t = 1 .. (Len(s) + 1)
      BY <3>2, LenProperties
    <3>4. ASSUME NEW i \in 1 .. Len(s) PROVE s[i].epoch < o.epoch
      <4>1. s # <<>> /\ Len(s) \in 1 .. Len(s)
        BY <1>1, EmptySeq
      <4>2. s[Len(s)].epoch # o.epoch
        BY <4>1, <2>2 DEF Last
      <4>3. s[Len(s)].epoch < o.epoch
        BY <4>1, <4>2, <1>1, <1>4
      <4>4. i < Len(s) => s[i].epoch < s[Len(s)].epoch
        BY <4>1, <1>1, <1>5
      <4>5. i = Len(s) \/ i < Len(s)
        BY <1>1
      <4>6. s[i].epoch \in Nat /\ s[Len(s)].epoch \in Nat
        BY <4>1, <1>1, <1>4
      <4> QED
        BY <4>3, <4>4, <4>5, <4>6, <1>1
    <3> HIDE DEF t
    <3>5. Ends(Len(s))
      BY <1>1, <3>2, <3>3, <3>4
    <3> QED
      BY <1>1, <3>5
  <2> QED
    BY <2>1, <2>2
<1> HIDE DEF t
<1>7. /\ p \in Overlays /\ p.cell = o.cell /\ p.cursors = t /\ p.epoch = o.epoch
      /\ p.confirmed = o.confirmed /\ p.proven = o.proven /\ p.context = o.context
      /\ p.timer = o.timer
  <2>1. t \in Seq(Cursors)
    BY <1>6
  <2> QED
    BY <1>1, <1>3, <2>1 DEF Overlays
<1> HIDE DEF p
<1>8. Active(p) = Active(o)
  BY <1>7 DEF Active
<1>9. PICK m \in Nat : Ends(m)
  BY <1>6
<1>10. \A i \in DOMAIN t : i = m + 1 \/ i \in 1 .. m
  BY <1>9
<1>11. 1 .. m \subseteq DOMAIN s /\ m + 1 \notin 1 .. m
  BY <1>1, <1>9
<1>12. \A i \in DOMAIN t : t[i].epoch <= o.epoch
  BY <1>1, <1>2, <1>4, <1>9, <1>10, <1>11
<1>13. ASSUME NEW i \in DOMAIN t, NEW j \in DOMAIN t, i < j
       PROVE  t[i].epoch < t[j].epoch
  <2>1. i \in 1 .. m
    BY <1>9, <1>13
  <2>2. CASE j = m + 1
    BY <2>1, <2>2, <1>2, <1>9
  <2>3. CASE j \in 1 .. m
    BY <2>1, <2>3, <1>5, <1>9, <1>11, <1>13
  <2> QED
    BY <2>2, <2>3, <1>10
<1>14. ASSUME NEW i \in DOMAIN t
       PROVE  t[i].ack = n \/ \E j \in DOMAIN s : t[i] = s[j]
  BY <1>2, <1>9, <1>10, <1>11
<1>15. Steady(p)
  BY <1>1, <1>7, <1>8, <1>12, <1>13 DEF Steady
<1>16. Extends(o, p, n)
  BY <1>1, <1>7, <1>8, <1>14, <1>15 DEF Extends
<1> QED
  BY <1>7, <1>16 DEF p

-----------------------------------------------------------------------------
(* Predicting a key.                                                       *)

LEMMA Columns ==
    /\ Cols \in Nat /\ Cols > 2 /\ 0 \in Col /\ 1 \in Col /\ Cols - 1 \in Col
    /\ \A c \in Col : c \in Nat /\ c <= Cols - 1
    /\ \A c \in Col : c # 0 => c - 1 \in Col
    /\ \A c \in Col : c # Cols - 1 => c + 1 \in Col
    /\ None \notin Col
<1>1. Cols \in Nat /\ Cols > 2 /\ None \notin Int
  BY EchoAssumption
<1> QED
  BY <1>1 DEF Col

LEMMA Rows ==
    ASSUME NEW row \in Row, NEW c \in Col, NEW k \in Text
    PROVE  Opened(row, c, k) \in Row /\ Closed(row, c) \in Row
<1>1. \A i \in Col : row[i] \in Text
  BY DEF Row
<1>2. \A i \in Col : ~(i < c) /\ i # c => i - 1 \in Col
  BY Columns
<1>3. \A i \in Col : i # Cols - 1 => i + 1 \in Col
  BY Columns
<1>4. Blank \in Text
  BY DEF Text
<1> QED
  BY <1>1, <1>2, <1>3, <1>4 DEF Opened, Closed, Row

LEMMA EffectiveRow ==
    ASSUME NEW o, Steady(o), NEW g \in Acknowledged
    PROVE  Effective(o, g) \in Row /\ At(o, g) \in Col
<1>1. g.text \in Row /\ g.at \in Col
  BY DEF Acknowledged
<1>2. \A c \in Col : o.cell[c] # Off => o.cell[c].ch \in Text
  BY SteadyTypes DEF Active, Cells
<1>3. Effective(o, g) \in Row
  BY <1>1, <1>2 DEF Effective, Row
<1>4. o.cursors # <<>> => Last(o.cursors).col \in Col
  <2> SUFFICES ASSUME o.cursors # <<>> PROVE Last(o.cursors).col \in Col
    OBVIOUS
  <2>1. o.cursors \in Seq(Cursors) /\ DOMAIN o.cursors = 1 .. Len(o.cursors)
        /\ \A i \in DOMAIN o.cursors : o.cursors[i] \in Cursors
    BY SteadyTypes
  <2>2. Len(o.cursors) \in 1 .. Len(o.cursors)
    BY <2>1, EmptySeq
  <2> QED
    BY <2>1, <2>2 DEF Last, Cursors
<1> QED
  BY <1>1, <1>3, <1>4 DEF At

LEMMA StampExtends ==
    ASSUME NEW o, Steady(o), NEW g \in Acknowledged, NEW c \in Col, NEW row \in Row,
           NEW n \in 1 .. MaxKeys, NEW typed \in BOOLEAN, NEW unknown
    PROVE  Extends(o, Stamp(o, g, c, row, n, typed, unknown), n)
<1> DEFINE p == Stamp(o, g, c, row, n, typed, unknown)
           new(i) == [ch |-> row[i], epoch |-> o.epoch, ack |-> n, orig |-> g.text[i],
                      typed |-> typed /\ i = c, unknown |-> i \in unknown]
           cell == [i \in Col |-> IF i < c THEN o.cell[i] ELSE new(i)]
<1>1. /\ o \in Overlays /\ o.epoch \in Nat /\ o.confirmed \in Nat
      /\ o.cell \in [Col -> Cells \cup {Off}]
  BY SteadyTypes
<1>2. p = [o EXCEPT !.cell = cell]
  BY DEF Stamp
<1>3. ASSUME NEW i \in Col
      PROVE  new(i) \in Cells /\ new(i).ack = n /\ new(i).epoch = o.epoch
  <2>1. row[i] \in Text /\ g.text[i] \in Text
    BY DEF Row, Acknowledged
  <2>2. (typed /\ i = c) \in BOOLEAN /\ (i \in unknown) \in BOOLEAN
    OBVIOUS
  <2> QED
    BY <1>1, <2>1, <2>2 DEF Cells
<1> HIDE DEF new
<1>4. cell \in [Col -> Cells \cup {Off}]
  BY <1>1, <1>3
<1>5. \A i \in Col : cell[i] = o.cell[i] \/ cell[i] = new(i)
  OBVIOUS
<1> HIDE DEF cell
<1>6. /\ p \in Overlays /\ p.cell = cell /\ p.cursors = o.cursors /\ p.epoch = o.epoch
      /\ p.confirmed = o.confirmed /\ p.proven = o.proven /\ p.context = o.context
      /\ p.timer = o.timer
  BY <1>1, <1>2, <1>4 DEF Overlays
<1> HIDE DEF p
<1>7. ASSUME NEW i \in Active(p)
      PROVE  /\ p.cell[i] = o.cell[i] \/ (p.cell[i].ack = n /\ p.cell[i].epoch = o.epoch)
             /\ p.cell[i].epoch <= o.epoch
  <2>1. i \in Col /\ p.cell[i] # Off
    BY DEF Active
  <2>2. CASE p.cell[i] = o.cell[i]
    <3>1. i \in Active(o)
      BY <2>1, <2>2 DEF Active
    <3> QED
      BY <2>2, <3>1 DEF Steady
  <2>3. CASE p.cell[i] = new(i)
    BY <1>1, <1>3, <2>1, <2>3
  <2> QED
    BY <1>5, <1>6, <2>1, <2>2, <2>3
<1>8. Steady(p)
  BY <1>1, <1>6, <1>7 DEF Steady
<1>9. Extends(o, p, n)
  BY <1>1, <1>6, <1>7, <1>8 DEF Extends
<1> QED
  BY <1>9 DEF p

LEMMA PredictLetterExtends ==
    ASSUME NEW o, Steady(o), NEW g \in Acknowledged, NEW k \in Letter, NEW n \in 1 .. MaxKeys
    PROVE  Extends(o, PredictLetter(o, g, k, n), n)
<1> DEFINE c == At(o, g)
           u == {i \in Col : i > c /\ (Guessed(o, i - 1) \/ i = Cols - 1)}
           p == Stamp(o, g, c, Opened(Effective(o, g), c, k), n, TRUE, u)
<1>1. c \in Col /\ Effective(o, g) \in Row
  BY EffectiveRow
<1>2. Opened(Effective(o, g), c, k) \in Row
  BY <1>1, Rows DEF Text
<1>3. Extends(o, p, n) /\ Steady(p)
  BY <1>1, <1>2, StampExtends, ExtendsSteady
<1>4. PredictLetter(o, g, k, n) = IF c + 1 = Cols THEN SetCursor(NextEpoch(p), c, n)
                                  ELSE SetCursor(p, c + 1, n)
  BY DEF PredictLetter
<1> HIDE DEF p, u, c
<1>5. CASE c + 1 = Cols
  <2>1. Extends(p, NextEpoch(p), n) /\ Steady(NextEpoch(p))
    BY <1>3, NextEpochExtends, ExtendsSteady
  <2>2. Extends(NextEpoch(p), SetCursor(NextEpoch(p), c, n), n)
    BY <1>1, <2>1, SetCursorExtends
  <2>3. Extends(o, NextEpoch(p), n)
    BY <1>3, <2>1, ExtendsTransitive
  <2> QED
    BY <1>4, <1>5, <2>1, <2>2, <2>3, ExtendsTransitive
<1>6. CASE c + 1 # Cols
  <2>1. c + 1 \in Col
    BY <1>1, <1>6, Columns
  <2>2. Extends(p, SetCursor(p, c + 1, n), n)
    BY <1>3, <2>1, SetCursorExtends
  <2> QED
    BY <1>3, <1>4, <1>6, <2>2, ExtendsTransitive
<1> QED
  BY <1>5, <1>6

LEMMA PredictBackExtends ==
    ASSUME NEW o, Steady(o), NEW g \in Acknowledged, NEW n \in 1 .. MaxKeys
    PROVE  Extends(o, PredictBack(o, g, n), n)
<1> DEFINE c == At(o, g)
           u == {i \in Col : i < Cols - 1 /\ Guessed(o, i + 1)}
           p == Stamp(o, g, c - 1, Closed(Effective(o, g), c - 1), n, FALSE, u)
<1>1. c \in Col /\ Effective(o, g) \in Row
  BY EffectiveRow
<1>2. PredictBack(o, g, n) =
        IF o.start # None /\ c <= o.start THEN SetCursor(o, o.start, n)
        ELSE IF o.floor # None /\ c <= o.floor THEN NextEpoch(o)
        ELSE IF c = 0 THEN SetCursor(NextEpoch(o), 0, n)
        ELSE SetCursor(p, c - 1, n)
  BY DEF PredictBack
<1> HIDE DEF p, c
<1>3. CASE o.start # None /\ c <= o.start
  <2>1. o.start \in Col
    BY <1>3, SteadyTypes
  <2> QED
    BY <1>2, <1>3, <2>1, SetCursorExtends
<1>4. CASE ~(o.start # None /\ c <= o.start) /\ o.floor # None /\ c <= o.floor
  BY <1>2, <1>4, NextEpochExtends
<1>5. CASE ~(o.start # None /\ c <= o.start) /\ ~(o.floor # None /\ c <= o.floor) /\ c = 0
  <2>1. Extends(o, NextEpoch(o), n) /\ Steady(NextEpoch(o))
    BY NextEpochExtends, ExtendsSteady
  <2>2. Extends(NextEpoch(o), SetCursor(NextEpoch(o), 0, n), n)
    BY <2>1, Columns, SetCursorExtends
  <2>3. PredictBack(o, g, n) = SetCursor(NextEpoch(o), 0, n)
    BY <1>2, <1>5
  <2> QED
    BY <2>1, <2>2, <2>3, ExtendsTransitive
<1>6. CASE ~(o.start # None /\ c <= o.start) /\ ~(o.floor # None /\ c <= o.floor) /\ c # 0
  <2>1. c - 1 \in Col
    BY <1>1, <1>6, Columns
  <2>2. Closed(Effective(o, g), c - 1) \in Row
    BY <1>1, <2>1, Rows DEF Text
  <2>3. Extends(o, p, n) /\ Steady(p)
    BY <1>1, <2>1, <2>2, StampExtends, ExtendsSteady DEF p
  <2>4. Extends(p, SetCursor(p, c - 1, n), n)
    BY <2>1, <2>3, SetCursorExtends
  <2>5. PredictBack(o, g, n) = SetCursor(p, c - 1, n)
    BY <1>2, <1>6
  <2> QED
    BY <2>3, <2>4, <2>5, ExtendsTransitive
<1> QED
  BY <1>3, <1>4, <1>5, <1>6

LEMMA Keys ==
    /\ \A k \in Letter : k \notin {"back", "left", "right", "enter", "escape"}
    /\ Control \subseteq {"back", "left", "right", "enter", "escape"}
    /\ Blank \notin Letter /\ Prompt \notin Letter
BY EchoAssumption

\* A key adds predictions for its number; Enter starts an epoch as well and
\* predicts no cell.
LEMMA PredictKeyExtends ==
    ASSUME NEW o, Steady(o), NEW g \in Acknowledged, NEW k \in Key, NEW n \in 1 .. MaxKeys
    PROVE  /\ Extends(o, PredictKey(o, g, k, n), n)
           /\ k = "enter" => /\ PredictKey(o, g, k, n).cell = o.cell
                             /\ PredictKey(o, g, k, n).epoch = o.epoch + 1
<1> DEFINE p == PredictKey(o, g, k, n)
<1>1. At(o, g) \in Col
  BY EffectiveRow
<1>2. CASE k \in Letter
  <2> DEFINE s == IF o.start = None THEN At(o, g) ELSE o.start
             q == [o EXCEPT !.start = s]
  <2>1. k # "enter"
    BY <1>2, Keys
  <2>2. p = PredictLetter(q, g, k, n)
    BY <1>2, Keys DEF PredictKey
  <2>3. s \in Col \cup {None}
    BY <1>1, SteadyTypes
  <2> HIDE DEF s
  <2>4. Extends(o, q, n) /\ Steady(q)
    BY <2>3, FieldsExtend, ExtendsSteady
  <2> HIDE DEF q
  <2>5. Extends(q, PredictLetter(q, g, k, n), n)
    BY <1>2, <2>4, PredictLetterExtends
  <2> QED
    BY <2>1, <2>2, <2>4, <2>5, ExtendsTransitive
<1>3. CASE k = "back"
  <2> DEFINE b == o.forced \/ ~AppMode(g.mode) \/ o.proven
             q == [o EXCEPT !.forced = b]
  <2>1. p = PredictBack(q, g, n)
    BY <1>3, Keys DEF PredictKey
  <2>2. b \in BOOLEAN
    OBVIOUS
  <2> HIDE DEF b
  <2>3. Extends(o, q, n) /\ Steady(q)
    <3>1. Extends(o, q, n)
      BY <2>2, FieldsExtend
    <3> QED
      BY <3>1, ExtendsSteady
  <2> HIDE DEF q
  <2>4. Extends(q, PredictBack(q, g, n), n)
    BY <2>3, PredictBackExtends
  <2> QED
    BY <1>3, <2>1, <2>3, <2>4, ExtendsTransitive
<1>4. CASE k = "left"
  <2> DEFINE c == IF At(o, g) = 0 THEN 0 ELSE At(o, g) - 1
  <2>1. p = SetCursor(o, c, n)
    BY <1>4, Keys DEF PredictKey
  <2>2. c \in Col
    BY <1>1, Columns
  <2> HIDE DEF c
  <2> QED
    BY <1>4, <2>1, <2>2, SetCursorExtends
<1>5. CASE k = "right"
  <2> DEFINE c == IF At(o, g) = Cols - 1 THEN At(o, g) ELSE At(o, g) + 1
  <2>1. p = SetCursor(o, c, n)
    BY <1>5, Keys DEF PredictKey
  <2>2. c \in Col
    BY <1>1, Columns
  <2> HIDE DEF c
  <2> QED
    BY <1>5, <2>1, <2>2, SetCursorExtends
<1>6. /\ Extends(o, NewEpoch(o), n) /\ Steady(NewEpoch(o))
      /\ NewEpoch(o).cell = o.cell /\ NewEpoch(o).epoch = o.epoch + 1
  <2> DEFINE q == [o EXCEPT !.start = None]
  <2>1. /\ Extends(o, q, n) /\ Steady(q)
        /\ q.cell = o.cell /\ q.epoch = o.epoch
    <3>1. None \in Col \cup {None}
      OBVIOUS
    <3>2. Extends(o, q, n) /\ q.cell = o.cell /\ q.epoch = o.epoch
      BY <3>1, FieldsExtend
    <3> QED
      BY <3>2, ExtendsSteady
  <2>2. NewEpoch(o) = NextEpoch(q)
    BY DEF NewEpoch
  <2> HIDE DEF q
  <2>3. /\ Extends(q, NextEpoch(q), n)
        /\ NextEpoch(q).cell = q.cell /\ NextEpoch(q).epoch = q.epoch + 1
    BY <2>1, NextEpochExtends
  <2>4. Extends(o, NextEpoch(q), n)
    BY <2>1, <2>3, ExtendsTransitive
  <2> QED
    BY <2>1, <2>2, <2>3, <2>4, ExtendsSteady
<1>7. CASE k = "enter"
  <2>1. p = SetCursor(NewEpoch(o), 0, n)
    BY <1>7, Keys DEF PredictKey
  <2> DEFINE q == NewEpoch(o)
  <2>2. /\ Extends(q, SetCursor(q, 0, n), n)
        /\ SetCursor(q, 0, n).cell = q.cell /\ SetCursor(q, 0, n).epoch = q.epoch
    BY <1>6, Columns, SetCursorExtends
  <2>3. Extends(o, SetCursor(q, 0, n), n)
    BY <1>6, <2>2, ExtendsTransitive
  <2> QED
    BY <1>6, <2>1, <2>2, <2>3
<1>8. CASE k = "escape"
  <2>1. p = NewEpoch(o)
    BY <1>8, Keys DEF PredictKey
  <2> QED
    BY <1>6, <1>8, <2>1
<1>9. k \in Letter \cup {"back", "left", "right", "enter", "escape"}
  BY Keys DEF Key
<1> QED
  BY <1>2, <1>3, <1>4, <1>5, <1>7, <1>8, <1>9

\* What a key does to the overlay of a pane: it is dropped, left alone, or
\* predictions for the key are added to it, or to a new one if the context
\* has changed.
LEMMA PredictProperties ==
    ASSUME NEW o, o # NoOverlay => Sound(o), NEW g \in Acknowledged, NEW k \in Key,
           NEW n \in 1 .. MaxKeys,
           NEW p, p = Predict(o, g, k, n), p # NoOverlay
    PROVE  \/ p = o /\ (k = "enter" => g.mode = "password")
           \/ \E b : /\ \/ o # NoOverlay /\ o.context = g.mode /\ b = [o EXCEPT !.timer = TRUE]
                        \/ b = NewOverlay(g)
                     /\ Steady(b) /\ b.timer /\ b.context = g.mode
                     /\ Extends(b, p, n)
                     /\ g.mode # "password"
                     /\ k = "enter" => /\ ~AppMode(g.mode)
                                       /\ p.cell = b.cell /\ p.epoch = b.epoch + 1
<1> DEFINE m == g.mode
           b == Current(o, g)
<1>1. g.mode \in Mode /\ g.at \in Col
  BY DEF Acknowledged
<1>2. Steady(NewOverlay(g)) /\ NewOverlay(g).timer /\ NewOverlay(g).context = g.mode
  <2> DEFINE q == NewOverlay(g)
  <2>1. /\ q.cell = [c \in Col |-> Off] /\ q.cursors = <<>> /\ q.epoch = 1
        /\ q.confirmed = 0 /\ q.timer = TRUE /\ q.context = g.mode
    BY DEF NewOverlay
  <2>2. <<>> \in Seq(Cursors) /\ Len(<<>>) = 0 /\ DOMAIN <<>> = {}
    BY EmptySeq
  <2>3. q \in Overlays
    BY <1>1, <2>2 DEF NewOverlay, Overlays
  <2> HIDE DEF q
  <2>4. Active(q) = {}
    BY <2>1 DEF Active
  <2>5. Steady(q) /\ q.timer /\ q.context = g.mode
    BY <2>1, <2>2, <2>3, <2>4 DEF Steady
  <2> QED
    BY <2>5 DEF q
<1>3. ASSUME o # NoOverlay
      PROVE  Steady([o EXCEPT !.timer = TRUE]) /\ [o EXCEPT !.timer = TRUE].timer
             /\ [o EXCEPT !.timer = TRUE].context = o.context
  <2> DEFINE q == [o EXCEPT !.timer = TRUE]
  <2>1. Steady(o)
    BY <1>3 DEF Sound, Steady
  <2>2. o \in Overlays
    BY <2>1 DEF Steady
  <2>3. /\ q \in Overlays /\ q.cell = o.cell /\ q.cursors = o.cursors /\ q.epoch = o.epoch
        /\ q.confirmed = o.confirmed /\ q.timer = TRUE /\ q.context = o.context
    BY <2>2 DEF Overlays
  <2> HIDE DEF q
  <2>4. Active(q) = Active(o)
    BY <2>3 DEF Active
  <2>5. Steady(q) /\ q.timer /\ q.context = o.context
    BY <2>1, <2>3, <2>4 DEF Steady
  <2> QED
    BY <2>5 DEF q
<1>4. /\ \/ o # NoOverlay /\ o.context = g.mode /\ b = [o EXCEPT !.timer = TRUE]
         \/ b = NewOverlay(g)
      /\ Steady(b) /\ b.timer /\ b.context = g.mode
  BY <1>2, <1>3 DEF Current
<1> HIDE DEF b
<1>5. CASE m = "password"
  BY <1>5 DEF Predict
<1>6. CASE AppMode(m) /\ k \notin Letter \cup {"back"}
  BY <1>6 DEF Predict, AppMode
<1>7. CASE ~AppMode(m) /\ m # "password" /\ Display = "never" /\ k \notin Letter \cup {"back"}
  BY <1>7 DEF Predict
<1>8. CASE /\ m # "password" /\ ~(AppMode(m) /\ k \notin Letter \cup {"back"})
           /\ ~(~AppMode(m) /\ m # "password" /\ Display = "never" /\ k \notin Letter \cup {"back"})
  <2>1. p = IF ~Unanchored(b, g, k) THEN PredictKey(b, g, k, n)
            ELSE IF IsEmpty(b) THEN NoOverlay ELSE [b EXCEPT !.forced = FALSE]
    BY <1>8 DEF Predict, b
  <2>2. k = "enter" => ~AppMode(m)
    BY <1>8, Keys
  <2>3. CASE ~Unanchored(b, g, k)
    <3>1. p = PredictKey(b, g, k, n)
      BY <2>1, <2>3
    <3>2. /\ Extends(b, p, n)
          /\ k = "enter" => p.cell = b.cell /\ p.epoch = b.epoch + 1
      BY <1>4, <3>1, PredictKeyExtends
    <3> QED
      BY <1>4, <1>8, <2>2, <3>2
  <2>4. CASE Unanchored(b, g, k)
    <3>1. p = [b EXCEPT !.forced = FALSE] /\ k = "back"
      BY <2>1, <2>4 DEF Unanchored
    <3>2. Extends(b, [b EXCEPT !.forced = FALSE], n)
      BY <1>4, FieldsExtend
    <3> QED
      BY <1>4, <1>8, <3>1, <3>2
  <2> QED
    BY <2>3, <2>4
<1> QED
  BY <1>5, <1>6, <1>7, <1>8

-----------------------------------------------------------------------------
(* Judging predictions.                                                    *)

\* p has some of the predictions of o, and no others.
Reduces(o, p) ==
    /\ Steady(p)
    /\ p.epoch >= o.epoch /\ p.confirmed = o.confirmed /\ p.proven = o.proven
    /\ p.context = o.context
    /\ \A c \in Active(p) : p.cell[c] = o.cell[c]
    /\ \A i \in DOMAIN p.cursors : \E j \in DOMAIN o.cursors : p.cursors[i] = o.cursors[j]

LEMMA ReducesSteady ==
    ASSUME NEW o, NEW p, Reduces(o, p)
    PROVE  Steady(p)
BY DEF Reduces

LEMMA ReducesTransitive ==
    ASSUME NEW o, NEW p, NEW q, Steady(o), Reduces(o, p), Reduces(p, q)
    PROVE  Reduces(o, q)
<1>1. Steady(p) /\ Steady(q)
  BY ReducesSteady
<1>2. o.epoch \in Nat /\ p.epoch \in Nat /\ q.epoch \in Nat
  BY <1>1, SteadyTypes
<1>3. q.epoch >= o.epoch
  <2>1. q.epoch >= p.epoch /\ p.epoch >= o.epoch
    BY DEF Reduces
  <2> QED
    BY <1>2, <2>1
<1>4. ASSUME NEW c \in Active(q)
      PROVE  q.cell[c] = o.cell[c]
  <2>1. q.cell[c] = p.cell[c]
    BY DEF Reduces
  <2>2. c \in Active(p)
    BY <2>1 DEF Active
  <2> QED
    BY <2>1, <2>2 DEF Reduces
<1>5. ASSUME NEW i \in DOMAIN q.cursors
      PROVE  \E j \in DOMAIN o.cursors : q.cursors[i] = o.cursors[j]
  <2>1. PICK k \in DOMAIN p.cursors : q.cursors[i] = p.cursors[k]
    BY DEF Reduces
  <2> QED
    BY <2>1 DEF Reduces
<1> QED
  BY <1>1, <1>3, <1>4, <1>5 DEF Reduces

\* Dropping cells and cursors, and moving what is no prediction.
LEMMA Dropping ==
    ASSUME NEW o, Steady(o), NEW p \in Overlays, NEW K \in SUBSET (1 .. Len(o.cursors)),
           p.cursors = AtIndices(o.cursors, K) \/ p.cursors = o.cursors,
           \A c \in Col : p.cell[c] # Off => p.cell[c] = o.cell[c],
           p.epoch >= o.epoch, p.confirmed = o.confirmed, p.proven = o.proven,
           p.context = o.context
    PROVE  /\ Reduces(o, p)
           /\ p.cursors = AtIndices(o.cursors, K)
                => \A i \in DOMAIN p.cursors : \E k \in K : p.cursors[i] = o.cursors[k]
<1> DEFINE s == o.cursors
           t == p.cursors
<1>1. /\ s \in Seq(Cursors) /\ DOMAIN s = 1 .. Len(s)
      /\ \A i \in DOMAIN s : s[i] \in Cursors
      /\ o.epoch \in Nat /\ o.confirmed \in Nat /\ p.epoch \in Nat
  BY SteadyTypes DEF Overlays
<1>2. /\ \A i, j \in DOMAIN s : i < j => s[i].epoch < s[j].epoch
      /\ \A i \in DOMAIN s : s[i].epoch <= o.epoch
      /\ \A c \in Active(o) : o.cell[c].epoch <= o.epoch
      /\ o.confirmed <= o.epoch
  BY DEF Steady
<1>3. /\ \A i \in DOMAIN t : \E k \in DOMAIN s : t[i] = s[k]
      /\ \A i, j \in DOMAIN t : i < j => \E k, l \in DOMAIN s : k < l /\ t[i] = s[k] /\ t[j] = s[l]
      /\ t = AtIndices(s, K) => \A i \in DOMAIN t : \E k \in K : t[i] = s[k]
  <2>1. CASE t = AtIndices(s, K)
    <3>1. K \in SUBSET (1 .. Len(s)) /\ K \subseteq DOMAIN s /\ s \in Seq(Cursors)
      BY <1>1
    <3> HIDE DEF s, t
    <3>2. /\ \A i \in DOMAIN t : \E k \in K : t[i] = s[k]
          /\ \A i, j \in DOMAIN t : i < j => \E k, l \in K : k < l /\ t[i] = s[k] /\ t[j] = s[l]
      BY <2>1, <3>1, Picking
    <3> QED
      BY <3>1, <3>2
  <2>2. CASE t = s /\ t # AtIndices(s, K)
    BY <2>2
  <2> QED
    BY <2>1, <2>2
<1>4. \A i, j \in DOMAIN t : i < j => t[i].epoch < t[j].epoch
  BY <1>2, <1>3
<1>5. \A i \in DOMAIN t : t[i].epoch \in Nat /\ t[i].epoch <= o.epoch
  BY <1>1, <1>2, <1>3 DEF Cursors
<1>6. \A c \in Active(p) : c \in Active(o) /\ p.cell[c] = o.cell[c]
  BY DEF Active
<1>7. \A c \in Active(o) : o.cell[c].epoch \in Nat
  BY SteadyTypes DEF Cells
<1>8. Steady(p)
  <2>1. \A i \in DOMAIN t : t[i].epoch <= p.epoch
    BY <1>1, <1>5
  <2>2. \A c \in Active(p) : p.cell[c].epoch <= p.epoch
    BY <1>1, <1>2, <1>6, <1>7
  <2>3. p.confirmed <= p.epoch
    BY <1>1, <1>2
  <2> QED
    BY <1>4, <2>1, <2>2, <2>3 DEF Steady
<1>9. Reduces(o, p)
  BY <1>3, <1>6, <1>8 DEF Reduces
<1> QED
  BY <1>3, <1>9

LEMMA KillReduces ==
    ASSUME NEW o, Steady(o), NEW e \in Nat
    PROVE  /\ Reduces(o, Kill(o, e))
           /\ \A c \in Active(Kill(o, e)) : o.cell[c].epoch < e
<1> DEFINE p == Kill(o, e)
           K == {i \in DOMAIN o.cursors : o.cursors[i].epoch < e}
           cell == [c \in Col |-> IF o.cell[c] # Off /\ o.cell[c].epoch >= e THEN Off ELSE o.cell[c]]
           epoch == IF o.epoch < e + 1 THEN e + 1 ELSE o.epoch
<1>1. /\ o \in Overlays /\ o.epoch \in Nat /\ o.cell \in [Col -> Cells \cup {Off}]
      /\ DOMAIN o.cursors = 1 .. Len(o.cursors) /\ o.cursors \in Seq(Cursors)
  BY SteadyTypes
<1>2. p = [o EXCEPT !.cell = cell, !.cursors = AtIndices(o.cursors, K), !.epoch = epoch]
  BY DEF Kill
<1>3. K \in SUBSET (1 .. Len(o.cursors))
  BY <1>1
<1>4. AtIndices(o.cursors, K) \in Seq(Cursors)
  BY <1>1, <1>3, Picking
<1>5. cell \in [Col -> Cells \cup {Off}] /\ epoch \in Nat /\ epoch >= o.epoch
  BY <1>1
<1>6. \A c \in Col : cell[c] # Off => cell[c] = o.cell[c] /\ ~(o.cell[c].epoch >= e)
  OBVIOUS
<1> HIDE DEF cell, K, epoch
<1>7. /\ p \in Overlays /\ p.cell = cell /\ p.cursors = AtIndices(o.cursors, K)
      /\ p.epoch = epoch /\ p.confirmed = o.confirmed /\ p.proven = o.proven
      /\ p.context = o.context
  BY <1>1, <1>2, <1>4, <1>5 DEF Overlays
<1> HIDE DEF p
<1>8. Reduces(o, p)
  BY <1>3, <1>5, <1>6, <1>7, Dropping
<1>9. \A c \in Active(o) : o.cell[c].epoch \in Nat
  BY SteadyTypes DEF Cells
<1>10. ASSUME NEW c \in Active(p) PROVE o.cell[c].epoch < e
  <2>1. c \in Col /\ cell[c] # Off
    BY <1>7 DEF Active
  <2>2. ~(o.cell[c].epoch >= e) /\ c \in Active(o)
    BY <1>6, <2>1 DEF Active
  <2> QED
    BY <1>9, <2>2
<1> QED
  BY <1>8, <1>10 DEF p

LEMMA ExpireOldReduces ==
    ASSUME NEW o, Steady(o), NEW old \in Nat
    PROVE  Reduces(o, ExpireOld(o, old))
<1> DEFINE p == ExpireOld(o, old)
           cell == [c \in Col |-> IF o.cell[c] # Off /\ o.cell[c].ack <= old THEN Off ELSE o.cell[c]]
           keep(i) == /\ o.cursors[i].ack > old
                      /\ \/ i = Len(o.cursors)
                         \/ o.start # None
                         \/ \E c \in Col : cell[c] # Off /\ cell[c].epoch = o.cursors[i].epoch
           K == {i \in DOMAIN o.cursors : keep(i)}
<1>1. /\ o \in Overlays /\ o.epoch \in Nat /\ o.cell \in [Col -> Cells \cup {Off}]
      /\ DOMAIN o.cursors = 1 .. Len(o.cursors) /\ o.cursors \in Seq(Cursors)
  BY SteadyTypes
<1>2. p = [o EXCEPT !.cell = cell, !.cursors = AtIndices(o.cursors, K)]
  BY DEF ExpireOld
<1>3. K \in SUBSET (1 .. Len(o.cursors))
  BY <1>1
<1>4. AtIndices(o.cursors, K) \in Seq(Cursors)
  BY <1>1, <1>3, Picking
<1>5. cell \in [Col -> Cells \cup {Off}]
  BY <1>1
<1>6. \A c \in Col : cell[c] # Off => cell[c] = o.cell[c]
  OBVIOUS
<1> HIDE DEF cell, K
<1>7. /\ p \in Overlays /\ p.cell = cell /\ p.cursors = AtIndices(o.cursors, K)
      /\ p.epoch = o.epoch /\ p.confirmed = o.confirmed /\ p.proven = o.proven
      /\ p.context = o.context
  BY <1>1, <1>2, <1>4, <1>5 DEF Overlays
<1> HIDE DEF p
<1>8. o.epoch >= o.epoch
  BY <1>1
<1>9. Reduces(o, p)
  BY <1>3, <1>6, <1>7, <1>8, Dropping
<1> QED
  BY <1>9 DEF p

LEMMA NoticedReduces ==
    ASSUME NEW o, Steady(o), NEW g \in Acknowledged
    PROVE  /\ Reduces(o, Noticed(o, g))
           /\ Noticed(o, g).cell = o.cell /\ Noticed(o, g).cursors = o.cursors
<1> DEFINE p == Noticed(o, g)
           floor == IF o.floor # g.at THEN None ELSE o.floor
<1>1. /\ o \in Overlays /\ o.epoch \in Nat /\ DOMAIN o.cursors = 1 .. Len(o.cursors)
      /\ o.floor \in Col \cup {None}
  BY SteadyTypes
<1>2. p = [o EXCEPT !.seen = g.at, !.floor = floor] /\ g.at \in Col /\ floor \in Col \cup {None}
  BY <1>1 DEF Noticed, Acknowledged
<1> HIDE DEF floor
<1>3. /\ p \in Overlays /\ p.cell = o.cell /\ p.cursors = o.cursors
      /\ p.epoch = o.epoch /\ p.confirmed = o.confirmed /\ p.proven = o.proven
      /\ p.context = o.context
  BY <1>1, <1>2 DEF Overlays
<1> HIDE DEF p
<1>4. o.epoch >= o.epoch /\ {} \in SUBSET (1 .. Len(o.cursors))
  BY <1>1
<1>5. Reduces(o, p)
  BY <1>3, <1>4, Dropping
<1> QED
  BY <1>3, <1>5 DEF p

\* The epoch or the proof that a frame confirms is that of a cell it acknowledges.
ConfirmedBy(o, p, f) ==
    /\ p.confirmed = o.confirmed \/
          \E c \in Active(o) : o.cell[c].ack <= f.echo /\ p.confirmed = o.cell[c].epoch
    /\ p.proven = o.proven \/ \E c \in Active(o) : o.cell[c].ack <= f.echo

\* After the first pass what a frame acknowledges and contradicts is left.
LEMMA ConfirmProperties ==
    ASSUME NEW o, Steady(o), NEW g \in Acknowledged, NEW f
    PROVE  /\ Steady(Confirm(o, g, f)) /\ ConfirmedBy(o, Confirm(o, g, f), f)
           /\ Confirm(o, g, f).epoch = o.epoch /\ Confirm(o, g, f).context = o.context
           /\ Confirm(o, g, f).cursors = o.cursors
           /\ \A c \in Active(Confirm(o, g, f)) :
                /\ Confirm(o, g, f).cell[c] = o.cell[c]
                /\ o.cell[c].ack <= f.echo => c \in Wrong(Confirm(o, g, f), g, f)
<1> DEFINE p == Confirm(o, g, f)
           E == {o.cell[c].epoch : c \in Credit(o, g, f)}
           cell == [c \in Col |-> IF Mature(o, c, f) /\ c \notin Wrong(o, g, f) THEN Off ELSE o.cell[c]]
           confirmed == Max({o.confirmed} \cup E)
           proven == o.proven \/ (o.start # None /\ Echoes(o, g, f) # {})
<1>1. /\ o \in Overlays /\ o.epoch \in Nat /\ o.cell \in [Col -> Cells \cup {Off}]
      /\ o.confirmed \in Nat
      /\ \A c \in Active(o) : o.cell[c] \in Cells
  BY SteadyTypes
<1>2. p = [o EXCEPT !.cell = cell, !.confirmed = confirmed, !.proven = proven]
  BY DEF Confirm
<1>3. \A c \in Credit(o, g, f) : c \in Active(o) /\ o.cell[c].ack <= f.echo
  BY DEF Credit, Known, Mature, Active
<1>4. \A c \in Active(o) : o.cell[c].epoch \in Nat /\ o.cell[c].epoch <= o.epoch
  BY <1>1 DEF Steady, Cells
<1>5. o.confirmed <= o.epoch
  BY DEF Steady
<1>6. {o.confirmed} \cup E \in SUBSET (0 .. o.epoch)
  <2>1. \A c \in Credit(o, g, f) : o.cell[c].epoch \in 0 .. o.epoch
    BY <1>1, <1>3, <1>4
  <2>2. o.confirmed \in 0 .. o.epoch
    BY <1>1, <1>5
  <2> QED
    BY <2>1, <2>2
<1> HIDE DEF E
<1>7. confirmed \in {o.confirmed} \cup E
  BY <1>1, <1>6, Highest
<1>8. confirmed \in Nat /\ confirmed <= o.epoch
  <2>1. confirmed \in 0 .. o.epoch
    BY <1>6, <1>7
  <2> QED
    BY <1>1, <2>1
<1>9. \/ confirmed = o.confirmed
      \/ \E c \in Active(o) : o.cell[c].ack <= f.echo /\ confirmed = o.cell[c].epoch
  BY <1>3, <1>7 DEF E
<1>10. \/ proven = o.proven
       \/ \E c \in Active(o) : o.cell[c].ack <= f.echo
  <2>1. Echoes(o, g, f) \subseteq Credit(o, g, f)
    BY DEF Echoes
  <2>2. o.proven \in BOOLEAN
    BY <1>1 DEF Overlays
  <2> QED
    BY <1>3, <2>1, <2>2
<1>11. cell \in [Col -> Cells \cup {Off}] /\ proven \in BOOLEAN
  BY <1>1 DEF Overlays
<1>12. \A c \in Col : cell[c] # Off =>
         cell[c] = o.cell[c] /\ (Mature(o, c, f) => c \in Wrong(o, g, f))
  OBVIOUS
<1> HIDE DEF cell, confirmed, proven
<1>13. /\ p \in Overlays /\ p.cell = cell /\ p.cursors = o.cursors
       /\ p.epoch = o.epoch /\ p.confirmed = confirmed /\ p.proven = proven
       /\ p.context = o.context
  BY <1>1, <1>2, <1>8, <1>11 DEF Overlays
<1> HIDE DEF p
<1>14. ASSUME NEW c \in Active(p)
       PROVE  /\ c \in Active(o) /\ p.cell[c] = o.cell[c]
              /\ o.cell[c].ack <= f.echo => c \in Wrong(p, g, f)
  <2>1. /\ c \in Col /\ o.cell[c] # Off /\ p.cell[c] = o.cell[c]
        /\ Mature(o, c, f) => c \in Wrong(o, g, f)
    BY <1>12, <1>13 DEF Active
  <2>2. c \in Wrong(o, g, f) => c \in Wrong(p, g, f)
    BY <2>1 DEF Wrong, Known, Mature
  <2> QED
    BY <2>1, <2>2 DEF Active, Mature
<1>15. Steady(p)
  <2>1. \A c \in Active(p) : p.cell[c].epoch <= p.epoch
    BY <1>4, <1>13, <1>14
  <2> QED
    BY <1>8, <1>13, <2>1 DEF Steady
<1>16. ConfirmedBy(o, p, f)
  BY <1>9, <1>10, <1>13 DEF ConfirmedBy
<1> QED
  BY <1>13, <1>14, <1>15, <1>16 DEF p

\* The second pass removes that too.
LEMMA RejectProperties ==
    ASSUME NEW o, Steady(o), NEW g \in Acknowledged, NEW f, f.echo \in Nat,
           \A c \in Active(o) : o.cell[c].ack <= f.echo => c \in Wrong(o, g, f)
    PROVE  /\ Reduces(o, Reject(o, g, f))
           /\ \A c \in Active(Reject(o, g, f)) : o.cell[c].ack > f.echo
<1> DEFINE p == Reject(o, g, f)
           W == WrongEpochs(o, g, f)
<1>1. /\ o \in Overlays /\ o.epoch \in Nat
      /\ DOMAIN o.cursors = 1 .. Len(o.cursors)
      /\ \A c \in Active(o) : o.cell[c].epoch \in Nat /\ o.cell[c].ack \in Nat
  BY SteadyTypes DEF Cells
<1>2. \A c \in Wrong(o, g, f) : c \in Active(o) /\ o.cell[c].epoch \in W
  BY DEF Wrong, Known, Mature, Active, WrongEpochs
<1>3. CASE W = {}
  <2>1. p = o
    BY <1>3 DEF Reject
  <2>2. \A c \in Active(o) : o.cell[c].ack > f.echo
    BY <1>1, <1>2, <1>3
  <2>3. Reduces(o, o)
    BY <1>1 DEF Reduces
  <2> QED
    BY <2>1, <2>2, <2>3
<1>4. CASE W # {}
  <2>1. p = Kill(o, Min(W))
    BY <1>4 DEF Reject
  <2>2. W \subseteq Nat
    BY <1>1, <1>2 DEF WrongEpochs
  <2>3. Min(W) \in Nat /\ \A e \in W : Min(W) <= e
    BY <1>4, <2>2, Lowest
  <2>4. Reduces(o, p) /\ \A c \in Active(p) : o.cell[c].epoch < Min(W)
    BY <2>1, <2>3, KillReduces
  <2>5. ASSUME NEW c \in Active(p) PROVE o.cell[c].ack > f.echo
    <3>1. c \in Active(o)
      BY <2>4 DEF Reduces, Active
    <3>2. o.cell[c].epoch < Min(W) /\ o.cell[c].epoch \in Nat /\ o.cell[c].ack \in Nat
      BY <1>1, <2>4, <3>1
    <3>3. o.cell[c].epoch \notin W
      BY <2>3, <3>2
    <3>4. ~(o.cell[c].ack <= f.echo)
      BY <1>2, <3>1, <3>3
    <3> QED
      BY <3>2, <3>4
  <2> QED
    BY <2>4, <2>5
<1> QED
  BY <1>3, <1>4

\* No cursor is left that a frame acknowledges.
LEMMA JudgeCursorsProperties ==
    ASSUME NEW o, Steady(o), NEW g \in Acknowledged, NEW f,
           f.echo \in Nat, f.got \in Nat, f.echo <= f.got,
           NEW p, p = JudgeCursors(o, g, f), p # NoOverlay
    PROVE  /\ Reduces(o, p)
           /\ \A i \in DOMAIN p.cursors : p.cursors[i].ack > f.echo
<1> DEFINE judged(cur) == cur.ack <= f.got /\ cur.ack <= f.echo
           K == {i \in DOMAIN o.cursors : ~judged(o.cursors[i])}
           rest == [o EXCEPT !.cursors = AtIndices(o.cursors, K)]
           low == [rest EXCEPT !.floor = g.at]
           e == Last(o.cursors).epoch
<1>1. /\ o \in Overlays /\ o.epoch \in Nat /\ o.cell \in [Col -> Cells \cup {Off}]
      /\ DOMAIN o.cursors = 1 .. Len(o.cursors) /\ o.cursors \in Seq(Cursors)
      /\ \A i \in DOMAIN o.cursors : o.cursors[i] \in Cursors
  BY SteadyTypes
<1>2. K \in SUBSET (1 .. Len(o.cursors))
  BY <1>1
<1>3. AtIndices(o.cursors, K) \in Seq(Cursors)
  BY <1>1, <1>2, Picking
<1>4. \A i \in K : o.cursors[i].ack > f.echo
  BY <1>1 DEF Cursors
<1>5. p = IF o.cursors = <<>> \/ ~judged(Last(o.cursors)) \/ Last(o.cursors).col = g.at THEN rest
          ELSE IF Last(o.cursors).col < g.at THEN Kill(low, e) ELSE NoOverlay
  BY DEF JudgeCursors
<1> HIDE DEF K
<1>6. /\ rest \in Overlays /\ rest.cell = o.cell /\ rest.cursors = AtIndices(o.cursors, K)
      /\ rest.epoch = o.epoch /\ rest.confirmed = o.confirmed /\ rest.proven = o.proven
      /\ rest.context = o.context
  BY <1>1, <1>3 DEF Overlays
<1>7. /\ low \in Overlays /\ low.cell = o.cell /\ low.cursors = AtIndices(o.cursors, K)
      /\ low.epoch = o.epoch /\ low.confirmed = o.confirmed /\ low.proven = o.proven
      /\ low.context = o.context
  <2>1. g.at \in Col
    BY DEF Acknowledged
  <2> QED
    BY <1>6, <2>1 DEF Overlays
<1>8. o.epoch >= o.epoch
  BY <1>1
<1> HIDE DEF rest, low
<1>9. Reduces(o, rest) /\ \A i \in DOMAIN rest.cursors : rest.cursors[i].ack > f.echo
  <2>1. /\ Reduces(o, rest)
        /\ \A i \in DOMAIN rest.cursors : \E k \in K : rest.cursors[i] = o.cursors[k]
    BY <1>2, <1>6, <1>8, Dropping
  <2> QED
    BY <1>4, <2>1
<1>10. Reduces(o, low) /\ \A i \in DOMAIN low.cursors : low.cursors[i].ack > f.echo
  <2>1. /\ Reduces(o, low)
        /\ \A i \in DOMAIN low.cursors : \E k \in K : low.cursors[i] = o.cursors[k]
    BY <1>2, <1>7, <1>8, Dropping
  <2> QED
    BY <1>4, <2>1
<1>11. CASE p = rest
  BY <1>9, <1>11
<1>12. CASE p = Kill(low, e) /\ o.cursors # <<>>
  <2>1. e \in Nat
    <3>1. Len(o.cursors) \in DOMAIN o.cursors
      BY <1>1, <1>12, EmptySeq
    <3> QED
      BY <1>1, <3>1 DEF Last, Cursors
  <2> HIDE DEF e
  <2>2. Steady(low)
    BY <1>10, ReducesSteady
  <2>3. Reduces(low, p)
    BY <1>12, <2>1, <2>2, KillReduces
  <2>4. \A i \in DOMAIN p.cursors : p.cursors[i].ack > f.echo
    BY <1>10, <2>3 DEF Reduces
  <2>5. Reduces(o, p)
    BY <1>10, <2>3, ReducesTransitive
  <2> QED
    BY <2>4, <2>5
<1> QED
  BY <1>5, <1>11, <1>12

LEMMA TidiedProperties ==
    ASSUME NEW o, Steady(o), NEW p, p = Tidied(o), p # NoOverlay
    PROVE  /\ Reduces(o, p) /\ p.cell = o.cell /\ p.cursors = o.cursors
           /\ ~IsEmpty(p) => p.timer
<1> DEFINE a == [o EXCEPT !.timer = TRUE]
           epoch == IF o.epoch <= o.confirmed THEN o.confirmed + 1 ELSE o.epoch
           b == [o EXCEPT !.timer = FALSE, !.forced = FALSE, !.epoch = epoch]
<1>1. /\ o \in Overlays /\ o.epoch \in Nat /\ o.confirmed \in Nat
      /\ DOMAIN o.cursors = 1 .. Len(o.cursors)
  BY SteadyTypes
<1>2. p = IF ~IsEmpty(o) THEN a ELSE IF o.start = None /\ o.floor = None THEN NoOverlay ELSE b
  BY DEF Tidied
<1>3. epoch \in Nat /\ epoch >= o.epoch /\ o.epoch >= o.epoch
      /\ {} \in SUBSET (1 .. Len(o.cursors))
  BY <1>1
<1> HIDE DEF epoch
<1>4. /\ a \in Overlays /\ a.cell = o.cell /\ a.cursors = o.cursors
      /\ a.epoch = o.epoch /\ a.confirmed = o.confirmed /\ a.proven = o.proven
      /\ a.context = o.context /\ a.timer = TRUE
  BY <1>1 DEF Overlays
<1>5. /\ b \in Overlays /\ b.cell = o.cell /\ b.cursors = o.cursors
      /\ b.epoch = epoch /\ b.confirmed = o.confirmed /\ b.proven = o.proven
      /\ b.context = o.context
  BY <1>1, <1>3 DEF Overlays
<1> HIDE DEF a, b
<1>6. Reduces(o, a) /\ Reduces(o, b)
  <2>1. Reduces(o, a)
    BY <1>3, <1>4, Dropping
  <2>2. Reduces(o, b)
    BY <1>3, <1>5, Dropping
  <2> QED
    BY <2>1, <2>2
<1>7. IsEmpty(o) => IsEmpty(b)
  BY <1>5 DEF IsEmpty, Active
<1> QED
  BY <1>2, <1>4, <1>5, <1>6, <1>7

LEMMA SoundSteady ==
    ASSUME NEW o
    PROVE  Sound(o) <=> Steady(o) /\ (~IsEmpty(o) => o.timer)
BY DEF Sound, Steady

\* What is left of an overlay once a frame has judged it.
SyncLeaves(o, p, g, f) ==
    /\ Sound(p)
    /\ o.context = g.mode /\ p.context = g.mode /\ g.mode # "password"
    /\ p.epoch >= o.epoch /\ ConfirmedBy(o, p, f)
    /\ \A c \in Active(p) : c \in Active(o) /\ p.cell[c] = o.cell[c]
    /\ \A i \in DOMAIN p.cursors : \E j \in DOMAIN o.cursors : p.cursors[i] = o.cursors[j]
    /\ \A n \in Numbers(p) : n > f.echo

LEMMA SyncProperties ==
    ASSUME NEW o, o # NoOverlay, Sound(o), NEW g \in Acknowledged, NEW f,
           f.echo \in Nat, f.got \in Nat, f.echo <= f.got, NEW old \in Nat,
           NEW p, p = Sync(o, g, f, old), p # NoOverlay
    PROVE  SyncLeaves(o, p, g, f)
<1> DEFINE n == Noticed(o, g)
           x == ExpireOld(n, old)
           c == Confirm(x, g, f)
           q == Reject(c, g, f)
           r == JudgeCursors(q, g, f)
<1>1. Steady(o)
  BY SoundSteady
<1>2. ~Disturbed(o, g)
  BY DEF Sync
<1>3. o.context = g.mode /\ g.mode # "password"
  BY <1>2 DEF Disturbed
<1>4. Reduces(o, n) /\ Steady(n) /\ n.cell = o.cell /\ n.cursors = o.cursors
  BY <1>1, NoticedReduces, ReducesSteady
<1>5. p = IF IsEmpty(n) /\ n.floor = None THEN [n EXCEPT !.timer = FALSE] ELSE Judged(x, g, f)
  BY <1>2 DEF Sync
<1> HIDE DEF n
<1>6. CASE IsEmpty(n) /\ n.floor = None
  <2>1. p = [n EXCEPT !.timer = FALSE]
    BY <1>5, <1>6
  <2>2. /\ n \in Overlays /\ n.epoch \in Nat /\ DOMAIN n.cursors = 1 .. Len(n.cursors)
    BY <1>4, SteadyTypes
  <2>3. /\ p \in Overlays /\ p.cell = n.cell /\ p.cursors = n.cursors
        /\ p.epoch = n.epoch /\ p.confirmed = n.confirmed /\ p.proven = n.proven
        /\ p.context = n.context
    BY <2>1, <2>2 DEF Overlays
  <2>4. n.epoch >= n.epoch /\ {} \in SUBSET (1 .. Len(n.cursors))
    BY <2>2
  <2>5. Reduces(n, p)
    BY <1>4, <2>3, <2>4, Dropping
  <2>6. Reduces(o, p)
    BY <1>1, <1>4, <2>5, ReducesTransitive
  <2>7. IsEmpty(p) /\ Active(p) = {} /\ p.cursors = <<>>
    BY <1>6, <2>3 DEF IsEmpty, Active
  <2>8. Numbers(p) = {}
    BY <2>7, EmptySeq DEF Numbers, ToSet
  <2>9. Sound(p)
    BY <2>6, <2>7, SoundSteady, ReducesSteady
  <2> QED
    BY <1>3, <2>6, <2>7, <2>8, <2>9, EmptySeq DEF SyncLeaves, Reduces, ConfirmedBy
<1>7. CASE ~(IsEmpty(n) /\ n.floor = None)
  <2>1. p = Tidied(r) /\ r # NoOverlay
    BY <1>5, <1>7 DEF Judged
  <2>2. Reduces(n, x) /\ Steady(x)
    BY <1>4, ExpireOldReduces, ReducesSteady
  <2>3. Reduces(o, x)
    BY <1>1, <1>4, <2>2, ReducesTransitive
  <2> HIDE DEF x
  <2>4. /\ Steady(c) /\ ConfirmedBy(x, c, f)
        /\ c.epoch = x.epoch /\ c.context = x.context
        /\ \A i \in Active(c) : /\ c.cell[i] = x.cell[i]
                                /\ x.cell[i].ack <= f.echo => i \in Wrong(c, g, f)
    BY <2>2, ConfirmProperties
  <2> HIDE DEF c
  <2>5. \A i \in Active(c) : c.cell[i].ack <= f.echo => i \in Wrong(c, g, f)
    BY <2>4
  <2>6. /\ Reduces(c, q) /\ \A i \in Active(q) : c.cell[i].ack > f.echo
        /\ \A i \in Active(q) : q.cell[i] = c.cell[i]
    <3>1. /\ Reduces(c, q)
          /\ \A i \in Active(q) : c.cell[i].ack > f.echo
      BY <2>4, <2>5, RejectProperties
    <3>2. \A i \in Active(q) : q.cell[i] = c.cell[i]
      BY <3>1 DEF Reduces
    <3> QED
      BY <3>1, <3>2
  <2>7. Steady(q)
    BY <2>6, ReducesSteady
  <2> HIDE DEF q
  <2>8. Reduces(q, r) /\ \A i \in DOMAIN r.cursors : r.cursors[i].ack > f.echo
    BY <2>1, <2>7, JudgeCursorsProperties
  <2>9. Steady(r)
    BY <2>8, ReducesSteady
  <2> HIDE DEF r
  <2>10. Reduces(r, p) /\ p.cell = r.cell /\ p.cursors = r.cursors /\ (~IsEmpty(p) => p.timer)
    BY <2>1, <2>9, TidiedProperties
  <2>11. Reduces(c, p)
    BY <2>4, <2>6, <2>8, <2>10, ReducesTransitive
  <2>12. Sound(p)
    BY <2>10, <2>11, SoundSteady, ReducesSteady
  <2>13. ASSUME NEW i \in Active(p)
         PROVE  i \in Active(o) /\ p.cell[i] = o.cell[i] /\ p.cell[i].ack > f.echo
    <3>1. p.cell[i] = r.cell[i] /\ i \in Active(r)
      BY <2>10 DEF Active
    <3>2. r.cell[i] = q.cell[i] /\ i \in Active(q)
      BY <3>1, <2>8 DEF Reduces, Active
    <3>3. q.cell[i] = c.cell[i] /\ i \in Active(c) /\ c.cell[i].ack > f.echo
      BY <3>2, <2>6 DEF Active
    <3>4. c.cell[i] = x.cell[i] /\ i \in Active(x)
      BY <3>3, <2>4 DEF Active
    <3>5. x.cell[i] = o.cell[i] /\ i \in Active(o)
      BY <3>4, <2>3 DEF Active, Reduces
    <3> QED
      BY <3>1, <3>2, <3>3, <3>4, <3>5
  <2>14. ASSUME NEW m \in Numbers(p) PROVE m > f.echo
    <3>1. CASE \E i \in Active(p) : m = p.cell[i].ack
      BY <3>1, <2>13
    <3>2. CASE \E i \in DOMAIN p.cursors : m = p.cursors[i].ack
      BY <3>2, <2>8, <2>10
    <3> QED
      BY <3>1, <3>2 DEF Numbers, ToSet
  <2>15. ConfirmedBy(o, p, f)
    <3>1. p.confirmed = c.confirmed /\ p.proven = c.proven
      BY <2>11 DEF Reduces
    <3>2. x.confirmed = o.confirmed /\ x.proven = o.proven
      BY <2>3 DEF Reduces
    <3>3. \A i \in Active(x) : i \in Active(o) /\ x.cell[i] = o.cell[i]
      BY <2>3 DEF Reduces, Active
    <3> QED
      BY <2>4, <3>1, <3>2, <3>3 DEF ConfirmedBy
  <2>16. p.epoch >= o.epoch /\ p.context = o.context
    <3>1. p.epoch >= c.epoch /\ x.epoch >= o.epoch /\ p.context = c.context /\ x.context = o.context
      BY <2>3, <2>11 DEF Reduces
    <3>2. p.epoch \in Nat /\ x.epoch \in Nat /\ o.epoch \in Nat
      BY <1>1, <2>2, <2>11, SteadyTypes, ReducesSteady
    <3> QED
      BY <2>4, <3>1, <3>2
  <2>17. ASSUME NEW i \in DOMAIN p.cursors
         PROVE  \E j \in DOMAIN o.cursors : p.cursors[i] = o.cursors[j]
    <3>1. PICK k \in DOMAIN c.cursors : p.cursors[i] = c.cursors[k]
      BY <2>11 DEF Reduces
    <3>2. c.cursors = x.cursors
      BY <2>2, ConfirmProperties DEF c
    <3> QED
      BY <3>1, <3>2, <2>3 DEF Reduces
  <2> QED
    BY <1>3, <2>12, <2>13, <2>14, <2>15, <2>16, <2>17 DEF SyncLeaves
<1> QED
  BY <1>6, <1>7

-----------------------------------------------------------------------------
(* The inductive invariant.                                                *)

\* Inputs and frames under way are between what was sent and received, and
\* frames are in the order of their acknowledgements.
Timely ==
    /\ \A i \in DOMAIN up : up[i].seq < next
    /\ \A i \in DOMAIN tty : tty[i].seq <= received
    /\ \A i \in DOMAIN chan :
          /\ grid.echo <= chan[i].echo /\ chan[i].echo <= acked
          /\ chan[i].echo <= chan[i].got /\ chan[i].got <= received
    /\ \A i, j \in DOMAIN chan : i < j => chan[i].echo <= chan[j].echo

\* The editor keeps the cursor behind the prompt and the last column free.
LineKept == prog.at >= 1 /\ prog.text[Cols - 1] = Blank

\* An overlay is for the mode of the grid, and predicts inputs that were sent
\* and that no frame has acknowledged.
Anchored(o, g, n) ==
    /\ o.context = g.mode /\ g.mode # "password"
    /\ \A c \in Active(o) : g.echo < o.cell[c].ack /\ o.cell[c].ack < n
    /\ \A i \in DOMAIN o.cursors : g.echo < o.cursors[i].ack /\ o.cursors[i].ack < n

\* Until a frame acknowledges more than the last Enter, number l, the epoch of
\* what is typed after it is later than that of what was typed before it, and
\* than any that has been confirmed.
Tentative(o, g, l) ==
    g.echo <= l =>
       /\ o.confirmed < o.epoch
       /\ AppMode(o.context) => ~o.proven /\ \A c \in Active(o) : o.cell[c].ack > l
       /\ \A c \in Active(o) : o.cell[c].ack <= l => o.cell[c].epoch < o.epoch
       /\ \A c \in Active(o) : o.cell[c].ack > l =>
             /\ o.confirmed < o.cell[c].epoch
             /\ \A d \in Active(o) : o.cell[d].ack <= l => o.cell[d].epoch < o.cell[c].epoch

EchoInv ==
    /\ TypeOK /\ Timely /\ LineKept
    /\ overlay # NoOverlay =>
          Anchored(overlay, grid, next) /\ Tentative(overlay, grid, newline)

-----------------------------------------------------------------------------
(* The overlay under the steps of the client.                              *)

\* The numbers and epochs of predictions.
LEMMA PredictionTypes ==
    ASSUME NEW o, Steady(o)
    PROVE  /\ \A c \in Active(o) : o.cell[c].ack \in Nat /\ o.cell[c].epoch \in Nat
           /\ \A i \in DOMAIN o.cursors : o.cursors[i].ack \in Nat
           /\ o.epoch \in Nat /\ o.confirmed \in Nat
BY SteadyTypes DEF Cells, Cursors

LEMMA ExtendsKeeps ==
    ASSUME NEW b, Steady(b), NEW p, NEW n \in Nat, NEW l \in Nat, NEW g, g.echo \in Nat,
           Extends(b, p, n), Anchored(b, g, n), Tentative(b, g, l), l < n, g.echo < n
    PROVE  Anchored(p, g, n + 1) /\ Tentative(p, g, l)
<1>1. Steady(p)
  BY ExtendsSteady
<1>2. /\ \A c \in Active(b) : b.cell[c].ack \in Nat /\ b.cell[c].epoch \in Nat
      /\ \A c \in Active(p) : p.cell[c].ack \in Nat /\ p.cell[c].epoch \in Nat
      /\ \A i \in DOMAIN b.cursors : b.cursors[i].ack \in Nat
      /\ b.epoch \in Nat /\ b.confirmed \in Nat /\ p.epoch \in Nat
  BY <1>1, PredictionTypes
<1>3. /\ p.epoch >= b.epoch /\ p.confirmed = b.confirmed /\ p.proven = b.proven
      /\ p.context = b.context
  BY DEF Extends
<1>4. \A c \in Active(p) : \/ c \in Active(b) /\ p.cell[c] = b.cell[c]
                           \/ p.cell[c].ack = n /\ p.cell[c].epoch >= b.epoch
  BY DEF Extends, Active
<1>5. Anchored(p, g, n + 1)
  <2>1. ASSUME NEW c \in Active(p) PROVE g.echo < p.cell[c].ack /\ p.cell[c].ack < n + 1
    <3>1. CASE c \in Active(b) /\ p.cell[c] = b.cell[c]
      BY <3>1, <1>2 DEF Anchored
    <3>2. CASE p.cell[c].ack = n
      BY <3>2
    <3> QED
      BY <3>1, <3>2, <1>4
  <2>2. ASSUME NEW i \in DOMAIN p.cursors
        PROVE  g.echo < p.cursors[i].ack /\ p.cursors[i].ack < n + 1
    <3>1. CASE p.cursors[i].ack = n
      BY <3>1
    <3>2. CASE \E j \in DOMAIN b.cursors : p.cursors[i] = b.cursors[j]
      BY <3>2, <1>2 DEF Anchored
    <3> QED
      BY <3>1, <3>2 DEF Extends
  <2> QED
    BY <1>3, <2>1, <2>2 DEF Anchored
<1>6. ASSUME g.echo <= l
      PROVE  /\ p.confirmed < p.epoch
             /\ AppMode(p.context) => ~p.proven /\ \A c \in Active(p) : p.cell[c].ack > l
             /\ \A c \in Active(p) : p.cell[c].ack <= l => p.cell[c].epoch < p.epoch
             /\ \A c \in Active(p) : p.cell[c].ack > l =>
                   /\ p.confirmed < p.cell[c].epoch
                   /\ \A d \in Active(p) : p.cell[d].ack <= l => p.cell[d].epoch < p.cell[c].epoch
  <2>1. /\ b.confirmed < b.epoch
        /\ AppMode(b.context) => ~b.proven /\ \A c \in Active(b) : b.cell[c].ack > l
        /\ \A c \in Active(b) : b.cell[c].ack <= l => b.cell[c].epoch < b.epoch
        /\ \A c \in Active(b) : b.cell[c].ack > l =>
              /\ b.confirmed < b.cell[c].epoch
              /\ \A d \in Active(b) : b.cell[d].ack <= l => b.cell[d].epoch < b.cell[c].epoch
    BY <1>6 DEF Tentative
  <2>2. p.confirmed < p.epoch
    BY <1>2, <1>3, <2>1
  <2>3. AppMode(p.context) => ~p.proven /\ \A c \in Active(p) : p.cell[c].ack > l
    BY <1>3, <1>4, <2>1
  <2>4. \A c \in Active(p) : p.cell[c].ack <= l => c \in Active(b) /\ p.cell[c] = b.cell[c]
    BY <1>4
  <2>5. ASSUME NEW c \in Active(p), p.cell[c].ack <= l PROVE p.cell[c].epoch < p.epoch
    BY <1>2, <1>3, <2>1, <2>4, <2>5
  <2>6. ASSUME NEW c \in Active(p), p.cell[c].ack > l
        PROVE  /\ p.confirmed < p.cell[c].epoch
               /\ \A d \in Active(p) : p.cell[d].ack <= l => p.cell[d].epoch < p.cell[c].epoch
    <3>1. CASE c \in Active(b) /\ p.cell[c] = b.cell[c]
      BY <1>3, <2>1, <2>4, <2>6, <3>1
    <3>2. CASE p.cell[c].ack = n /\ p.cell[c].epoch >= b.epoch
      <4>1. p.confirmed < p.cell[c].epoch
        BY <1>2, <1>3, <2>1, <3>2
      <4>2. ASSUME NEW d \in Active(p), p.cell[d].ack <= l
            PROVE  p.cell[d].epoch < p.cell[c].epoch
        <5>1. p.cell[d].epoch < b.epoch
          BY <2>1, <2>4, <4>2
        <5> QED
          BY <1>2, <3>2, <5>1
      <4> QED
        BY <4>1, <4>2
    <3> QED
      BY <3>1, <3>2, <1>4
  <2> QED
    BY <2>2, <2>3, <2>5, <2>6
<1>7. Tentative(p, g, l)
  BY <1>6 DEF Tentative
<1> QED
  BY <1>5, <1>7

\* Enter: whatever is predicted is older than the new epoch.
LEMMA EnterKeeps ==
    ASSUME NEW b, Steady(b), NEW p, Steady(p), NEW n \in Nat, NEW g, g.echo \in Nat,
           Anchored(b, g, n), p.cell = b.cell, p.epoch = b.epoch + 1,
           p.confirmed = b.confirmed, ~AppMode(p.context)
    PROVE  Tentative(p, g, n)
<1>1. Active(p) = Active(b)
  BY DEF Active
<1>2. /\ \A c \in Active(b) : b.cell[c].ack \in Nat /\ b.cell[c].epoch \in Nat
      /\ b.epoch \in Nat /\ b.confirmed \in Nat
  BY PredictionTypes
<1>3. /\ b.confirmed <= b.epoch
      /\ \A c \in Active(b) : b.cell[c].epoch <= b.epoch
  BY DEF Steady
<1>4. \A c \in Active(b) : ~(b.cell[c].ack > n)
  BY <1>2 DEF Anchored
<1> QED
  BY <1>1, <1>2, <1>3, <1>4 DEF Tentative

LEMMA SyncKeeps ==
    ASSUME NEW o, Sound(o), NEW p, NEW n \in Nat, NEW l \in Nat, NEW g, g.echo \in Nat,
           NEW h, NEW f, f.echo \in Nat, h.echo = f.echo, g.echo <= f.echo,
           Anchored(o, g, n), Tentative(o, g, l), SyncLeaves(o, p, h, f)
    PROVE  Anchored(p, h, n) /\ Tentative(p, h, l)
<1>1. Steady(o) /\ Steady(p)
  BY SoundSteady DEF SyncLeaves
<1>2. /\ \A c \in Active(o) : o.cell[c].ack \in Nat /\ o.cell[c].epoch \in Nat
      /\ \A c \in Active(p) : p.cell[c].ack \in Nat /\ p.cell[c].epoch \in Nat
      /\ o.epoch \in Nat /\ o.confirmed \in Nat /\ p.epoch \in Nat /\ p.confirmed \in Nat
  BY <1>1, PredictionTypes
<1>3. /\ o.context = h.mode /\ p.context = h.mode /\ h.mode # "password"
      /\ p.epoch >= o.epoch /\ ConfirmedBy(o, p, f)
      /\ \A c \in Active(p) : c \in Active(o) /\ p.cell[c] = o.cell[c]
      /\ \A i \in DOMAIN p.cursors : \E j \in DOMAIN o.cursors : p.cursors[i] = o.cursors[j]
      /\ \A m \in Numbers(p) : m > f.echo
  BY DEF SyncLeaves
<1>4. Anchored(p, h, n)
  <2>1. ASSUME NEW c \in Active(p) PROVE h.echo < p.cell[c].ack /\ p.cell[c].ack < n
    <3>1. p.cell[c].ack \in Numbers(p)
      BY DEF Numbers
    <3> QED
      BY <1>2, <1>3, <3>1 DEF Anchored
  <2>2. ASSUME NEW i \in DOMAIN p.cursors
        PROVE  h.echo < p.cursors[i].ack /\ p.cursors[i].ack < n
    <3>1. p.cursors[i].ack \in Numbers(p)
      BY DEF Numbers, ToSet
    <3>2. p.cursors[i].ack \in Nat
      BY <1>1, PredictionTypes
    <3> QED
      BY <1>3, <3>1, <3>2 DEF Anchored
  <2> QED
    BY <1>3, <2>1, <2>2 DEF Anchored
<1>5. ASSUME h.echo <= l
      PROVE  /\ p.confirmed < p.epoch
             /\ AppMode(p.context) => ~p.proven /\ \A c \in Active(p) : p.cell[c].ack > l
             /\ \A c \in Active(p) : p.cell[c].ack <= l => p.cell[c].epoch < p.epoch
             /\ \A c \in Active(p) : p.cell[c].ack > l =>
                   /\ p.confirmed < p.cell[c].epoch
                   /\ \A d \in Active(p) : p.cell[d].ack <= l => p.cell[d].epoch < p.cell[c].epoch
  <2>1. /\ o.confirmed < o.epoch
        /\ AppMode(o.context) => ~o.proven /\ \A c \in Active(o) : o.cell[c].ack > l
        /\ \A c \in Active(o) : o.cell[c].ack <= l => o.cell[c].epoch < o.epoch
        /\ \A c \in Active(o) : o.cell[c].ack > l =>
              /\ o.confirmed < o.cell[c].epoch
              /\ \A d \in Active(o) : o.cell[d].ack <= l => o.cell[d].epoch < o.cell[c].epoch
    BY <1>5 DEF Tentative
  <2>2. \A c \in Active(o) : o.cell[c].ack <= f.echo => o.cell[c].ack <= l
    BY <1>2, <1>5
  <2>3. /\ p.confirmed < o.epoch
        /\ \A c \in Active(o) : o.cell[c].ack > l => p.confirmed < o.cell[c].epoch
    <3>1. CASE p.confirmed = o.confirmed
      BY <2>1, <3>1
    <3>2. CASE \E c \in Active(o) : o.cell[c].ack <= f.echo /\ p.confirmed = o.cell[c].epoch
      BY <2>1, <2>2, <3>2
    <3> QED
      BY <1>3, <3>1, <3>2 DEF ConfirmedBy
  <2>4. AppMode(p.context) => ~p.proven /\ \A c \in Active(p) : p.cell[c].ack > l
    <3> SUFFICES ASSUME AppMode(p.context)
                 PROVE  ~p.proven /\ \A c \in Active(p) : p.cell[c].ack > l
      OBVIOUS
    <3>1. ~o.proven /\ \A c \in Active(o) : o.cell[c].ack > l
      BY <1>3, <2>1
    <3>2. ~\E c \in Active(o) : o.cell[c].ack <= f.echo
      BY <1>2, <2>2, <3>1
    <3> QED
      BY <1>3, <3>1, <3>2 DEF ConfirmedBy
  <2>5. p.confirmed < p.epoch
    BY <1>2, <1>3, <2>3
  <2>6. ASSUME NEW c \in Active(p), p.cell[c].ack <= l PROVE p.cell[c].epoch < p.epoch
    BY <1>2, <1>3, <2>1, <2>6
  <2> QED
    BY <1>3, <2>1, <2>3, <2>4, <2>5, <2>6
<1>6. Tentative(p, h, l)
  BY <1>5 DEF Tentative
<1> QED
  BY <1>4, <1>6

-----------------------------------------------------------------------------
(* The steps.                                                              *)

LEMMA InitHolds == Init => EchoInv
<1> SUFFICES ASSUME Init PROVE EchoInv
  OBVIOUS
<1>1. PICK m \in Mode \ {"password"} :
        LET s == [text |-> NewRow, at |-> 1, mode |-> m]
        IN  /\ next = 1 /\ newline = 0 /\ up = <<>> /\ tty = <<>> /\ chan = <<>>
            /\ received = 0 /\ acked = 0 /\ wrote = FALSE
            /\ prog = [text |-> NewRow, at |-> 1, mode |-> m, echo |-> 0]
            /\ pane = s /\ grid = prog
            /\ dirty = [rows |-> FALSE, cursor |-> FALSE]
            /\ debounce \in {None, [sent |-> 1, pending |-> None]}
            /\ overlay = NoOverlay
  BY DEF Init
<1>2. Cols - 1 \in Col /\ Cols - 1 # 0 /\ 1 \in Col
  BY Columns
<1>3. NewRow \in Row /\ NewRow[Cols - 1] = Blank
  BY <1>2 DEF NewRow, Row, Text
<1>4. MaxKeys \in Nat
  BY EchoAssumption
<1>5. /\ <<>> \in Seq(Inputs) /\ <<>> \in Seq(Frames)
      /\ Len(<<>>) = 0 /\ DOMAIN <<>> = {}
  BY EmptySeq
<1>6. prog \in Acknowledged /\ pane \in Screens /\ grid \in Acknowledged
      /\ prog.echo = 0 /\ grid.echo = 0
  BY <1>1, <1>2, <1>3 DEF Acknowledged, Screens
<1>7. debounce \in {None} \cup [sent : Col, pending : Col \cup {None}]
  BY <1>1, <1>2
<1>8. TypeOK
  <2>1. /\ {next, newline, received, acked} \subseteq Nat
        /\ acked <= received /\ received < next /\ newline < next /\ next <= MaxKeys + 1
        /\ grid.echo <= acked /\ prog.echo <= received
    BY <1>1, <1>4, <1>6
  <2>2. /\ up \in Seq(Inputs) /\ tty \in Seq(Inputs) /\ chan \in Seq(Frames)
        /\ wrote \in BOOLEAN /\ dirty \in [rows : BOOLEAN, cursor : BOOLEAN]
        /\ overlay = NoOverlay
    BY <1>1, <1>5
  <2> QED
    BY <1>6, <1>7, <2>1, <2>2 DEF TypeOK
<1>9. Timely
  BY <1>1, <1>5 DEF Timely
<1>10. LineKept
  BY <1>1, <1>3 DEF LineKept
<1> QED
  BY <1>1, <1>8, <1>9, <1>10 DEF EchoInv

\* The types of the numbers, for the steps that need them.
LEMMA NumberTypes ==
    ASSUME TypeOK
    PROVE  /\ next \in Nat /\ newline \in Nat /\ received \in Nat /\ acked \in Nat
           /\ MaxKeys \in Nat /\ grid.echo \in Nat /\ prog.echo \in Nat
           /\ acked <= received /\ received < next /\ newline < next /\ next <= MaxKeys + 1
           /\ grid.echo <= acked /\ prog.echo <= received
           /\ grid.echo < next /\ next >= 1
<1>1. /\ next \in Nat /\ newline \in Nat /\ received \in Nat /\ acked \in Nat
      /\ MaxKeys \in Nat /\ grid.echo \in Nat /\ prog.echo \in Nat
      /\ acked <= received /\ received < next /\ newline < next /\ next <= MaxKeys + 1
      /\ grid.echo <= acked /\ prog.echo <= received
  BY EchoAssumption DEF TypeOK, Acknowledged
<1> QED
  BY <1>1

LEMMA PressKeeps ==
    ASSUME EchoInv, NEW k \in Key, Press(k)
    PROVE  EchoInv'
<1>1. TypeOK /\ Timely /\ LineKept
  BY DEF EchoInv
<1>2. /\ next \in Nat /\ newline \in Nat /\ received \in Nat /\ acked \in Nat
      /\ MaxKeys \in Nat /\ grid.echo \in Nat
      /\ received < next /\ newline < next /\ grid.echo < next /\ next >= 1
  BY <1>1, NumberTypes
<1>3. /\ next <= MaxKeys /\ next' = next + 1
      /\ overlay' = Predict(overlay, grid, k, next)
      /\ up' = Append(up, [key |-> k, seq |-> next])
      /\ newline' = IF k = "enter" THEN next ELSE newline
      /\ UNCHANGED <<grid, received, acked, pane, dirty, debounce, tty, prog, wrote, chan>>
  BY DEF Press, daemon, program
<1>4. next \in 1 .. MaxKeys /\ grid \in Acknowledged
  BY <1>1, <1>2, <1>3 DEF TypeOK
<1>5. up' \in Seq(Inputs) /\ \A i \in DOMAIN up' : up'[i].seq < next'
  <2> DEFINE e == [key |-> k, seq |-> next]
  <2>1. e \in Inputs /\ e.seq = next
    BY <1>4 DEF Inputs
  <2>2. up \in Seq(Inputs) /\ Len(up) \in Nat /\ DOMAIN up = 1 .. Len(up)
        /\ \A i \in DOMAIN up : up[i].seq < next /\ up[i].seq \in Nat
    <3>1. up \in Seq(Inputs)
      BY <1>1 DEF TypeOK
    <3>2. Len(up) \in Nat /\ DOMAIN up = 1 .. Len(up) /\ \A i \in DOMAIN up : up[i] \in Inputs
      BY <3>1, LenProperties, ElementOfSeq
    <3> QED
      BY <1>1, <1>2, <3>1, <3>2 DEF Timely, Inputs
  <2> HIDE DEF e
  <2>3. /\ up' \in Seq(Inputs) /\ Len(up') = Len(up) + 1
        /\ \A i \in 1 .. Len(up) : up'[i] = up[i]
        /\ up'[Len(up) + 1] = e
    BY <1>3, <2>1, <2>2, AppendProperties DEF e
  <2>4. DOMAIN up' = 1 .. (Len(up) + 1)
    BY <2>3, LenProperties
  <2>5. \A i \in DOMAIN up' : i \in DOMAIN up \/ i = Len(up) + 1
    BY <2>2, <2>4
  <2>6. ASSUME NEW i \in DOMAIN up' PROVE up'[i].seq < next'
    <3>1. CASE i \in DOMAIN up
      BY <1>2, <1>3, <2>2, <2>3, <3>1
    <3>2. CASE i = Len(up) + 1
      BY <1>2, <1>3, <2>1, <2>3, <3>2
    <3> QED
      BY <2>5, <3>1, <3>2
  <2> QED
    BY <2>3, <2>6
<1>6. ASSUME overlay' # NoOverlay
      PROVE  Sound(overlay') /\ Anchored(overlay', grid', next') /\ Tentative(overlay', grid', newline')
  <2> DEFINE o == overlay
             p == overlay'
  <2>1. o # NoOverlay => Sound(o) /\ Anchored(o, grid, next) /\ Tentative(o, grid, newline)
    BY DEF EchoInv, TypeOK
  <2>2. \/ p = o /\ (k = "enter" => grid.mode = "password")
        \/ \E b : /\ \/ o # NoOverlay /\ o.context = grid.mode /\ b = [o EXCEPT !.timer = TRUE]
                     \/ b = NewOverlay(grid)
                  /\ Steady(b) /\ b.timer /\ b.context = grid.mode
                  /\ Extends(b, p, next)
                  /\ grid.mode # "password"
                  /\ k = "enter" => /\ ~AppMode(grid.mode)
                                    /\ p.cell = b.cell /\ p.epoch = b.epoch + 1
    BY <1>3, <1>4, <1>6, <2>1, PredictProperties
  <2>3. CASE p = o /\ (k = "enter" => grid.mode = "password")
    <3>1. Sound(o) /\ Anchored(o, grid, next) /\ Tentative(o, grid, newline)
      BY <1>6, <2>1, <2>3
    <3>2. k # "enter"
      BY <2>3, <3>1 DEF Anchored
    <3>3. Anchored(o, grid, next + 1)
      <4>1. /\ \A c \in Active(o) : o.cell[c].ack \in Nat
            /\ \A i \in DOMAIN o.cursors : o.cursors[i].ack \in Nat
        BY <3>1, SoundSteady, PredictionTypes
      <4> QED
        BY <1>2, <3>1, <4>1 DEF Anchored
    <3> QED
      BY <1>3, <2>3, <3>1, <3>2, <3>3
  <2>4. CASE \E b : /\ \/ o # NoOverlay /\ o.context = grid.mode /\ b = [o EXCEPT !.timer = TRUE]
                       \/ b = NewOverlay(grid)
                    /\ Steady(b) /\ b.timer /\ b.context = grid.mode
                    /\ Extends(b, p, next)
                    /\ grid.mode # "password"
                    /\ k = "enter" => /\ ~AppMode(grid.mode)
                                      /\ p.cell = b.cell /\ p.epoch = b.epoch + 1
    <3>1. PICK b : /\ \/ o # NoOverlay /\ o.context = grid.mode /\ b = [o EXCEPT !.timer = TRUE]
                      \/ b = NewOverlay(grid)
                   /\ Steady(b) /\ b.timer /\ b.context = grid.mode
                   /\ Extends(b, p, next)
                   /\ grid.mode # "password"
                   /\ k = "enter" => /\ ~AppMode(grid.mode)
                                     /\ p.cell = b.cell /\ p.epoch = b.epoch + 1
      BY <2>4
    <3>2. Anchored(b, grid, next) /\ Tentative(b, grid, newline)
      <4>1. CASE o # NoOverlay /\ b = [o EXCEPT !.timer = TRUE]
        <5>1. o \in Overlays
          BY <2>1, <4>1 DEF Sound
        <5>2. /\ b.cell = o.cell /\ b.cursors = o.cursors /\ b.epoch = o.epoch
              /\ b.confirmed = o.confirmed /\ b.proven = o.proven /\ b.context = o.context
          BY <4>1, <5>1 DEF Overlays
        <5>3. Active(b) = Active(o)
          BY <5>2 DEF Active
        <5>4. Anchored(b, grid, next)
          BY <2>1, <4>1, <5>2, <5>3 DEF Anchored
        <5>5. Tentative(b, grid, newline)
          BY <2>1, <4>1, <5>2, <5>3 DEF Tentative
        <5> QED
          BY <5>4, <5>5
      <4>2. CASE b = NewOverlay(grid)
        <5>1. /\ b.cell = [c \in Col |-> Off] /\ b.cursors = <<>> /\ b.epoch = 1
              /\ b.confirmed = 0 /\ b.proven = FALSE
          BY <4>2 DEF NewOverlay
        <5>2. Active(b) = {} /\ DOMAIN b.cursors = {}
          BY <5>1, EmptySeq DEF Active
        <5>3. Anchored(b, grid, next)
          BY <3>1, <5>2 DEF Anchored
        <5>4. Tentative(b, grid, newline)
          BY <5>1, <5>2 DEF Tentative
        <5> QED
          BY <5>3, <5>4
      <4> QED
        BY <3>1, <4>1, <4>2
    <3> HIDE DEF p, o
    <3>3. Anchored(p, grid, next + 1) /\ Tentative(p, grid, newline)
      BY <1>2, <3>1, <3>2, ExtendsKeeps
    <3>4. Steady(p) /\ p.timer /\ p.confirmed = b.confirmed /\ p.context = grid.mode
      <4>1. p.timer = b.timer /\ p.confirmed = b.confirmed /\ p.context = b.context
        BY <3>1 DEF Extends
      <4> QED
        BY <3>1, <4>1, ExtendsSteady
    <3>5. k = "enter" => Tentative(p, grid, next)
      BY <1>2, <3>1, <3>2, <3>4, EnterKeeps
    <3>6. Sound(p)
      BY <3>4, SoundSteady
    <3> QED
      BY <1>3, <3>3, <3>5, <3>6 DEF p
  <2> QED
    BY <2>2, <2>3, <2>4
<1>7. /\ newline' \in Nat /\ newline' < next' /\ next' <= MaxKeys + 1 /\ next' \in Nat
      /\ received < next'
  BY <1>2, <1>3
<1>8. TypeOK'
  BY <1>1, <1>3, <1>5, <1>6, <1>7 DEF TypeOK
<1>9. Timely'
  BY <1>1, <1>3, <1>5 DEF Timely
<1>10. LineKept'
  BY <1>1, <1>3 DEF LineKept
<1> QED
  BY <1>6, <1>8, <1>9, <1>10 DEF EchoInv

\* The first element of a queue and the rest of it.
LEMMA Queue ==
    ASSUME NEW S, NEW s \in Seq(S), s # <<>>
    PROVE  /\ Head(s) \in S /\ Head(s) = s[1] /\ 1 \in DOMAIN s
           /\ Tail(s) \in Seq(S)
           /\ \A i \in DOMAIN Tail(s) : i \in Nat /\ i + 1 \in DOMAIN s /\ Tail(s)[i] = s[i + 1]
<1>1. /\ Head(s) \in S /\ Tail(s) \in Seq(S) /\ Len(Tail(s)) = Len(s) - 1
      /\ \A i \in 1 .. Len(Tail(s)) : Tail(s)[i] = s[i + 1]
  BY HeadTailProperties
<1>2. Len(s) \in Nat /\ DOMAIN s = 1 .. Len(s) /\ DOMAIN Tail(s) = 1 .. Len(Tail(s))
      /\ Len(s) # 0
  BY <1>1, LenProperties, EmptySeq
<1>3. Head(s) = s[1]
  OBVIOUS
<1>4. ASSUME NEW i \in DOMAIN Tail(s)
      PROVE  i \in Nat /\ i + 1 \in DOMAIN s /\ Tail(s)[i] = s[i + 1]
  BY <1>1, <1>2
<1> QED
  BY <1>1, <1>2, <1>3, <1>4

\* The queue with one more at the end.
LEMMA Longer ==
    ASSUME NEW S, NEW s \in Seq(S), NEW e \in S
    PROVE  /\ Append(s, e) \in Seq(S)
           /\ \A i \in DOMAIN Append(s, e) :
                 \/ i \in DOMAIN s /\ Append(s, e)[i] = s[i]
                 \/ i = Len(s) + 1 /\ Append(s, e)[i] = e
           /\ \A i \in DOMAIN s : i <= Len(s)
           /\ Len(s) \in Nat
<1>1. /\ Append(s, e) \in Seq(S) /\ Len(Append(s, e)) = Len(s) + 1
      /\ \A i \in 1 .. Len(s) : Append(s, e)[i] = s[i]
      /\ Append(s, e)[Len(s) + 1] = e
  BY AppendProperties
<1>2. Len(s) \in Nat /\ DOMAIN s = 1 .. Len(s) /\ DOMAIN Append(s, e) = 1 .. (Len(s) + 1)
  BY <1>1, LenProperties
<1> QED
  BY <1>1, <1>2

LEMMA ReceiveKeeps ==
    ASSUME EchoInv, NEW old \in Nat, Receive(old)
    PROVE  EchoInv'
<1> DEFINE f == Head(chan)
           g == [text |-> IF f.text = NoRow THEN grid.text ELSE f.text,
                 at |-> f.at, mode |-> f.mode, echo |-> f.echo]
<1>1. TypeOK /\ Timely /\ LineKept
  BY DEF EchoInv
<1>2. /\ chan # <<>> /\ grid' = g /\ overlay' = Sync(overlay, g, f, old) /\ chan' = Tail(chan)
      /\ UNCHANGED <<next, newline, up, received, acked, pane, dirty, debounce, tty, prog, wrote>>
  BY DEF Receive, daemon, program
<1>3. chan \in Seq(Frames) /\ grid \in Acknowledged
  BY <1>1 DEF TypeOK
<1>4. /\ f \in Frames /\ f = chan[1] /\ 1 \in DOMAIN chan
      /\ chan' \in Seq(Frames)
      /\ \A i \in DOMAIN chan' : i \in Nat /\ i + 1 \in DOMAIN chan /\ chan'[i] = chan[i + 1]
  BY <1>2, <1>3, Queue
<1>5. /\ f.text \in Row \cup {NoRow} /\ f.at \in Col /\ f.mode \in Mode
      /\ f.got \in Nat /\ f.echo \in Nat
  BY <1>4 DEF Frames
<1>6. grid.echo <= f.echo /\ f.echo <= acked /\ f.echo <= f.got
  BY <1>1, <1>4 DEF Timely
<1> HIDE DEF f
<1>7. g \in Acknowledged /\ g.echo = f.echo
  BY <1>3, <1>5 DEF Acknowledged
<1> HIDE DEF g
<1>8. ASSUME overlay' # NoOverlay
      PROVE  Sound(overlay') /\ Anchored(overlay', g, next) /\ Tentative(overlay', g, newline)
  <2>1. overlay # NoOverlay
    BY <1>2, <1>8 DEF Sync
  <2>2. Sound(overlay) /\ Anchored(overlay, grid, next) /\ Tentative(overlay, grid, newline)
    BY <2>1 DEF EchoInv, TypeOK
  <2>3. SyncLeaves(overlay, overlay', g, f)
    BY <1>2, <1>5, <1>6, <1>7, <1>8, <2>1, <2>2, SyncProperties
  <2>4. next \in Nat /\ newline \in Nat /\ grid.echo \in Nat
    BY <1>1, NumberTypes
  <2>5. Anchored(overlay', g, next) /\ Tentative(overlay', g, newline)
    BY <1>5, <1>6, <1>7, <2>2, <2>3, <2>4, SyncKeeps
  <2>6. Sound(overlay')
    BY <2>3 DEF SyncLeaves
  <2> QED
    BY <2>5, <2>6
<1>9. grid' \in Acknowledged /\ grid'.echo <= acked
  BY <1>2, <1>6, <1>7
<1>10. TypeOK'
  BY <1>1, <1>2, <1>4, <1>8, <1>9 DEF TypeOK
<1>11. Timely'
  <2>1. \A i \in DOMAIN chan' :
          /\ chan'[i].echo <= acked /\ chan'[i].echo <= chan'[i].got /\ chan'[i].got <= received
    BY <1>1, <1>4 DEF Timely
  <2>2. ASSUME NEW i \in DOMAIN chan' PROVE grid'.echo <= chan'[i].echo
    <3>1. i + 1 \in DOMAIN chan /\ 1 < i + 1
      <4>1. i \in Nat /\ i + 1 \in DOMAIN chan
        BY <1>4
      <4>2. i # 0
        <5>1. i \in 1 .. Len(chan')
          BY <1>4, LenProperties
        <5> QED
          BY <5>1
      <4> QED
        BY <4>1, <4>2
    <3>2. f.echo <= chan[i + 1].echo
      BY <1>1, <1>4, <3>1 DEF Timely
    <3> QED
      BY <1>2, <1>4, <1>7, <3>2
  <2>3. ASSUME NEW i \in DOMAIN chan', NEW j \in DOMAIN chan', i < j
        PROVE  chan'[i].echo <= chan'[j].echo
    <3>1. i + 1 \in DOMAIN chan /\ j + 1 \in DOMAIN chan /\ i + 1 < j + 1
      BY <1>4, <2>3
    <3> QED
      BY <1>1, <1>4, <3>1 DEF Timely
  <2> QED
    BY <1>1, <1>2, <2>1, <2>2, <2>3 DEF Timely
<1>12. LineKept'
  BY <1>1, <1>2 DEF LineKept
<1> QED
  BY <1>2, <1>8, <1>10, <1>11, <1>12 DEF EchoInv

LEMMA ExpireKeeps ==
    ASSUME EchoInv, Expire
    PROVE  EchoInv'
<1>1. /\ overlay' = NoOverlay
      /\ UNCHANGED <<next, newline, grid, up, received, acked, pane, dirty, debounce, tty, prog,
                     wrote, chan>>
  BY DEF Expire, daemon, program
<1>2. TypeOK'
  BY <1>1 DEF EchoInv, TypeOK
<1>3. Timely' /\ LineKept'
  BY <1>1 DEF EchoInv, Timely, LineKept
<1> QED
  BY <1>1, <1>2, <1>3 DEF EchoInv

LEMMA InputKeeps ==
    ASSUME EchoInv, Input
    PROVE  EchoInv'
<1> DEFINE e == Head(up)
<1>1. TypeOK /\ Timely /\ LineKept
  BY DEF EchoInv
<1>2. /\ up # <<>> /\ tty' = Append(tty, e) /\ up' = Tail(up)
      /\ received' = IF e.seq > received THEN e.seq ELSE received
      /\ dirty' = IF e.seq > received /\ pane.mode # "alt"
                  THEN [dirty EXCEPT !.cursor = TRUE] ELSE dirty
      /\ UNCHANGED <<next, newline, grid, overlay, acked, pane, debounce, prog, wrote, chan>>
  BY DEF Input, client, program
<1>3. up \in Seq(Inputs) /\ tty \in Seq(Inputs) /\ chan \in Seq(Frames)
      /\ dirty \in [rows : BOOLEAN, cursor : BOOLEAN]
  BY <1>1 DEF TypeOK
<1>4. /\ e \in Inputs /\ e = up[1] /\ 1 \in DOMAIN up /\ up' \in Seq(Inputs)
      /\ \A i \in DOMAIN up' : i + 1 \in DOMAIN up /\ up'[i] = up[i + 1]
  BY <1>2, <1>3, Queue
<1>5. e.seq \in Nat /\ e.seq < next
  <2>1. e.seq \in 1 .. MaxKeys
    BY <1>4 DEF Inputs
  <2>2. e.seq < next
    BY <1>1, <1>4 DEF Timely
  <2> QED
    BY <2>1, <2>2
<1> HIDE DEF e
<1>6. /\ next \in Nat /\ received \in Nat /\ acked \in Nat /\ prog.echo \in Nat
      /\ acked <= received /\ received < next /\ prog.echo <= received
  BY <1>1, NumberTypes
<1>7. /\ received' \in Nat /\ received' < next /\ received <= received' /\ e.seq <= received'
      /\ acked <= received' /\ prog.echo <= received'
  BY <1>2, <1>5, <1>6
<1>8. /\ tty' \in Seq(Inputs)
      /\ \A i \in DOMAIN tty' : \/ i \in DOMAIN tty /\ tty'[i] = tty[i]
                                \/ tty'[i] = e
  BY <1>2, <1>3, <1>4, Longer
<1>9. dirty' \in [rows : BOOLEAN, cursor : BOOLEAN]
  BY <1>2, <1>3
<1>10. TypeOK'
  BY <1>1, <1>2, <1>4, <1>7, <1>8, <1>9 DEF TypeOK
<1>11. ASSUME NEW i \in DOMAIN tty' PROVE tty'[i].seq <= received'
  <2>1. CASE i \in DOMAIN tty /\ tty'[i] = tty[i]
    <3>1. tty[i] \in Inputs
      BY <1>3, <2>1, ElementOfSeq, LenProperties
    <3>2. tty[i].seq \in Nat /\ tty[i].seq <= received
      BY <1>1, <2>1, <3>1 DEF Timely, Inputs
    <3> QED
      BY <1>6, <1>7, <2>1, <3>2
  <2>2. CASE tty'[i] = e
    BY <1>7, <2>2
  <2> QED
    BY <1>8, <2>1, <2>2
<1>12. ASSUME NEW i \in DOMAIN chan PROVE chan[i].got <= received'
  <2>1. chan[i] \in Frames
    BY <1>3, ElementOfSeq, LenProperties
  <2>2. chan[i].got \in Nat /\ chan[i].got <= received
    BY <1>1, <2>1 DEF Timely, Frames
  <2> QED
    BY <1>6, <1>7, <2>2
<1>13. Timely'
  BY <1>1, <1>2, <1>4, <1>11, <1>12 DEF Timely
<1>14. LineKept'
  BY <1>1, <1>2 DEF LineKept
<1> QED
  BY <1>2, <1>10, <1>13, <1>14 DEF EchoInv

\* What the editor does to its line.
LEMMA EditedLine ==
    ASSUME NEW s \in Acknowledged, NEW k \in Key, k # "enter", Editable(s, k),
           s.at >= 1, s.text[Cols - 1] = Blank, NEW n \in Nat
    PROVE  /\ [Edited(s, k) EXCEPT !.echo = n] \in Acknowledged
           /\ [Edited(s, k) EXCEPT !.echo = n].at >= 1
           /\ [Edited(s, k) EXCEPT !.echo = n].text[Cols - 1] = Blank
           /\ [Edited(s, k) EXCEPT !.echo = n].echo = n
<1>1. s.text \in Row /\ s.at \in Col /\ s.mode \in Mode
  BY DEF Acknowledged
<1>2. /\ Cols \in Nat /\ Cols > 2 /\ Cols - 1 \in Col /\ Cols - 2 \in Col
      /\ s.at \in Nat /\ s.at <= Cols - 1
  BY <1>1, Columns DEF Col
<1> DEFINE Kept(t, a) == t \in Row /\ a \in Col /\ a >= 1 /\ t[Cols - 1] = Blank
<1>3. ASSUME NEW t, NEW a, Kept(t, a), Edited(s, k) = [s EXCEPT !.text = t, !.at = a]
      PROVE  /\ [Edited(s, k) EXCEPT !.echo = n] \in Acknowledged
             /\ [Edited(s, k) EXCEPT !.echo = n].at >= 1
             /\ [Edited(s, k) EXCEPT !.echo = n].text[Cols - 1] = Blank
             /\ [Edited(s, k) EXCEPT !.echo = n].echo = n
  <2> DEFINE q == Edited(s, k)
             e == [q EXCEPT !.echo = n]
  <2>1. q \in Acknowledged /\ q.at = a /\ q.text = t
    BY <1>1, <1>3 DEF Acknowledged
  <2> HIDE DEF q
  <2>2. e \in Acknowledged /\ e.at = q.at /\ e.text = q.text /\ e.echo = n
    BY <2>1 DEF Acknowledged
  <2> QED
    BY <1>3, <2>1, <2>2 DEF q
<1>4. CASE k \in Letter
  <2>1. s.at < Cols - 1 /\ s.text[Cols - 2] = Blank
    BY <1>4, Keys DEF Editable
  <2>2. Opened(s.text, s.at, k) \in Row
    BY <1>1, <1>4, Rows DEF Text
  <2>3. Opened(s.text, s.at, k)[Cols - 1] = Blank
    <3>1. Opened(s.text, s.at, k)[Cols - 1] = s.text[Cols - 1 - 1]
      BY <1>2, <2>1 DEF Opened
    <3>2. Cols - 1 - 1 = Cols - 2
      BY <1>2
    <3> QED
      BY <2>1, <3>1, <3>2
  <2>4. s.at + 1 \in Col /\ s.at + 1 >= 1
    BY <1>2, <2>1 DEF Col
  <2>5. Edited(s, k) = [s EXCEPT !.text = Opened(s.text, s.at, k), !.at = s.at + 1]
    BY <1>4, Keys DEF Edited
  <2> QED
    BY <1>3, <2>2, <2>3, <2>4, <2>5
<1>5. CASE k = "back"
  <2>1. s.at > 1
    BY <1>5, Keys DEF Editable
  <2>2. s.at - 1 \in Col /\ s.at - 1 >= 1
    BY <1>2, <2>1 DEF Col
  <2>3. Closed(s.text, s.at - 1) \in Row
    BY <1>1, <2>2, Rows DEF Text
  <2>4. Closed(s.text, s.at - 1)[Cols - 1] = Blank
    <3>1. ~(Cols - 1 < s.at - 1)
      BY <1>2
    <3> QED
      BY <1>2, <3>1 DEF Closed
  <2>5. Edited(s, k) = [s EXCEPT !.text = Closed(s.text, s.at - 1), !.at = s.at - 1]
    BY <1>5, Keys DEF Edited
  <2> QED
    BY <1>3, <2>2, <2>3, <2>4, <2>5
<1>6. CASE k = "left"
  <2>1. s.at > 1
    BY <1>6, Keys DEF Editable
  <2>2. s.at - 1 \in Col /\ s.at - 1 >= 1
    BY <1>2, <2>1 DEF Col
  <2>3. Edited(s, k) = [s EXCEPT !.at = s.at - 1]
    BY <1>6, Keys DEF Edited
  <2>4. [s EXCEPT !.at = s.at - 1] = [s EXCEPT !.text = s.text, !.at = s.at - 1]
    BY DEF Acknowledged
  <2> QED
    BY <1>1, <1>3, <2>2, <2>3, <2>4
<1>7. CASE k = "right"
  <2>1. s.text[s.at] # Blank
    BY <1>7, Keys DEF Editable
  <2>2. s.at + 1 \in Col /\ s.at + 1 >= 1
    BY <1>2, <2>1 DEF Col
  <2>3. Edited(s, k) = [s EXCEPT !.at = s.at + 1]
    BY <1>7, Keys DEF Edited
  <2>4. [s EXCEPT !.at = s.at + 1] = [s EXCEPT !.text = s.text, !.at = s.at + 1]
    BY DEF Acknowledged
  <2> QED
    BY <1>1, <1>3, <2>2, <2>3, <2>4
<1> QED
  BY <1>4, <1>5, <1>6, <1>7 DEF Editable

LEMMA ReadKeeps ==
    ASSUME EchoInv, Read
    PROVE  EchoInv'
<1> DEFINE e == Head(tty)
           k == e.key
           n == e.seq
           editable == prog.mode # "password" /\ Editable(prog, k)
<1>1. TypeOK /\ Timely /\ LineKept
  BY DEF EchoInv
<1>2. /\ tty # <<>> /\ tty' = Tail(tty)
      /\ UNCHANGED <<next, newline, grid, overlay, up, received, acked, pane, dirty, debounce, chan>>
  BY DEF Read, client, daemon
<1>3. tty \in Seq(Inputs) /\ prog \in Acknowledged /\ wrote \in BOOLEAN
  BY <1>1 DEF TypeOK
<1>4. /\ e \in Inputs /\ e = tty[1] /\ 1 \in DOMAIN tty /\ tty' \in Seq(Inputs)
      /\ \A i \in DOMAIN tty' : i + 1 \in DOMAIN tty /\ tty'[i] = tty[i + 1]
  BY <1>2, <1>3, Queue
<1>5. k \in Key /\ n \in Nat /\ n <= received
  BY <1>1, <1>4 DEF Inputs, Timely
<1>6. /\ prog.at >= 1 /\ prog.text[Cols - 1] = Blank /\ prog.echo <= received
  BY <1>1 DEF LineKept, TypeOK
<1>7. \/ /\ k = "enter"
         /\ \E m \in Mode : prog' = [prog EXCEPT !.text = NewRow, !.at = 1, !.mode = m]
         /\ wrote' = TRUE
      \/ /\ k # "enter" /\ Editable(prog, k)
         /\ prog' = [Edited(prog, k) EXCEPT !.echo = n]
         /\ wrote' = TRUE
      \/ prog' = prog /\ wrote' \in BOOLEAN
  BY <1>3 DEF Read, Reply, program
<1> HIDE DEF e, k, n
<1>8. /\ prog' \in Acknowledged /\ prog'.at >= 1 /\ prog'.text[Cols - 1] = Blank
      /\ prog'.echo <= received /\ wrote' \in BOOLEAN
  <2>1. CASE /\ k = "enter"
             /\ \E m \in Mode : prog' = [prog EXCEPT !.text = NewRow, !.at = 1, !.mode = m]
             /\ wrote' = TRUE
    <3>1. PICK m \in Mode : prog' = [prog EXCEPT !.text = NewRow, !.at = 1, !.mode = m]
      BY <2>1
    <3>2. Cols - 1 \in Col /\ Cols - 1 # 0 /\ 1 \in Col
      BY Columns
    <3>3. NewRow \in Row /\ NewRow[Cols - 1] = Blank
      BY <3>2 DEF NewRow, Row, Text
    <3>4. /\ prog' \in Acknowledged /\ prog'.at = 1 /\ prog'.text = NewRow
          /\ prog'.echo = prog.echo
      BY <1>3, <3>1, <3>2, <3>3 DEF Acknowledged
    <3> QED
      BY <1>6, <2>1, <3>3, <3>4
  <2>2. CASE /\ k # "enter" /\ Editable(prog, k)
             /\ prog' = [Edited(prog, k) EXCEPT !.echo = n]
             /\ wrote' = TRUE
    <3>1. /\ [Edited(prog, k) EXCEPT !.echo = n] \in Acknowledged
          /\ [Edited(prog, k) EXCEPT !.echo = n].at >= 1
          /\ [Edited(prog, k) EXCEPT !.echo = n].text[Cols - 1] = Blank
          /\ [Edited(prog, k) EXCEPT !.echo = n].echo = n
      BY <1>3, <1>5, <1>6, <2>2, EditedLine
    <3> QED
      BY <1>5, <2>2, <3>1
  <2>3. CASE prog' = prog /\ wrote' \in BOOLEAN
    BY <1>3, <1>6, <2>3
  <2> QED
    BY <1>7, <2>1, <2>2, <2>3
<1>9. TypeOK'
  BY <1>1, <1>2, <1>4, <1>8 DEF TypeOK
<1>10. Timely'
  BY <1>1, <1>2, <1>4 DEF Timely
<1>11. LineKept'
  BY <1>8 DEF LineKept
<1> QED
  BY <1>2, <1>9, <1>10, <1>11 DEF EchoInv

LEMMA DrainedTypes ==
    ASSUME TypeOK
    PROVE  /\ Drained.pane \in Screens /\ Drained.acked \in Nat
           /\ acked <= Drained.acked /\ Drained.acked <= received
           /\ Drained.rows \in BOOLEAN /\ Drained.cursor \in BOOLEAN
<1> DEFINE s == IF wrote THEN Screen(prog) ELSE pane
<1>1. /\ prog \in Acknowledged /\ pane \in Screens /\ wrote \in BOOLEAN
      /\ dirty \in [rows : BOOLEAN, cursor : BOOLEAN]
  BY DEF TypeOK
<1>2. Screen(prog) \in Screens
  BY <1>1 DEF Screen, Acknowledged, Screens
<1>3. /\ Drained.pane = s /\ Drained.acked = IF wrote THEN received ELSE acked
      /\ Drained.rows = (dirty.rows \/ s.text # pane.text)
      /\ Drained.cursor = (dirty.cursor \/ s # pane)
  BY DEF Drained
<1>4. s \in Screens
  BY <1>1, <1>2
<1> HIDE DEF s
<1>5. received \in Nat /\ acked \in Nat /\ acked <= received
  BY NumberTypes
<1> QED
  BY <1>1, <1>3, <1>4, <1>5

\* More is acknowledged; frames are not touched.
LEMMA TickDrainKeeps ==
    ASSUME EchoInv, TickDrain
    PROVE  EchoInv'
<1>1. TypeOK /\ Timely /\ LineKept
  BY DEF EchoInv
<1>2. /\ pane' = Drained.pane /\ acked' = Drained.acked /\ wrote' = FALSE
      /\ dirty' = [rows |-> Drained.rows, cursor |-> Drained.cursor]
      /\ UNCHANGED <<next, newline, grid, overlay, up, received, debounce, tty, prog, chan>>
  BY DEF TickDrain, client
<1>3. /\ pane' \in Screens /\ acked' \in Nat /\ acked <= acked' /\ acked' <= received
      /\ dirty' \in [rows : BOOLEAN, cursor : BOOLEAN]
  BY <1>1, <1>2, DrainedTypes
<1>4. /\ acked \in Nat /\ grid.echo \in Nat /\ grid.echo <= acked
      /\ \A i \in DOMAIN chan : chan[i].echo \in Nat /\ chan[i].echo <= acked
  <2>1. chan \in Seq(Frames)
    BY <1>1 DEF TypeOK
  <2>2. \A i \in DOMAIN chan : chan[i] \in Frames
    BY <2>1, ElementOfSeq, LenProperties
  <2> QED
    BY <1>1, <2>2, NumberTypes DEF Timely, Frames
<1>5. grid.echo <= acked' /\ \A i \in DOMAIN chan : chan[i].echo <= acked'
  BY <1>3, <1>4
<1>6. TypeOK'
  BY <1>1, <1>2, <1>3, <1>5 DEF TypeOK
<1>7. Timely' /\ LineKept'
  BY <1>1, <1>2, <1>5 DEF Timely, LineKept
<1> QED
  BY <1>2, <1>6, <1>7 DEF EchoInv

LEMMA ThrottleTypes ==
    ASSUME TypeOK, NEW s \in Screens
    PROVE  /\ Throttle(s).sent \in Col /\ Throttle(s).held \in BOOLEAN
           /\ Throttle(s).state \in {None} \cup [sent : Col, pending : Col \cup {None}]
<1>1. debounce \in {None} \cup [sent : Col, pending : Col \cup {None}]
  BY DEF TypeOK
<1>2. s.at \in Col
  BY DEF Screens
<1>3. \/ Throttle(s) = [sent |-> s.at, held |-> FALSE, state |-> None]
      \/ /\ debounce # None
         /\ Throttle(s) = [sent |-> debounce.sent, held |-> TRUE,
                           state |-> [debounce EXCEPT !.pending = s.at]]
      \/ Throttle(s) = [sent |-> s.at, held |-> FALSE,
                        state |-> [sent |-> s.at, pending |-> None]]
  BY DEF Throttle
<1>4. CASE Throttle(s) = [sent |-> s.at, held |-> FALSE, state |-> None]
  BY <1>2, <1>4
<1>5. CASE /\ debounce # None
           /\ Throttle(s) = [sent |-> debounce.sent, held |-> TRUE,
                             state |-> [debounce EXCEPT !.pending = s.at]]
  <2>1. debounce \in [sent : Col, pending : Col \cup {None}]
    BY <1>1, <1>5
  <2>2. [debounce EXCEPT !.pending = s.at] \in [sent : Col, pending : Col \cup {None}]
        /\ debounce.sent \in Col
    BY <1>2, <2>1
  <2> QED
    BY <1>5, <2>2
<1>6. CASE Throttle(s) = [sent |-> s.at, held |-> FALSE,
                          state |-> [sent |-> s.at, pending |-> None]]
  BY <1>2, <1>6
<1> QED
  BY <1>3, <1>4, <1>5, <1>6

LEMMA TickFrameKeeps ==
    ASSUME EchoInv, TickFrame
    PROVE  EchoInv'
<1> DEFINE d == Drained
           t == Throttle(d.pane)
           e == [text |-> IF d.rows THEN d.pane.text ELSE NoRow, at |-> t.sent,
                 mode |-> d.pane.mode, got |-> received, echo |-> d.acked]
<1>1. TypeOK /\ Timely /\ LineKept
  BY DEF EchoInv
<1>2. /\ pane' = d.pane /\ acked' = d.acked /\ wrote' = FALSE
      /\ chan' = Append(chan, e) /\ debounce' = t.state
      /\ dirty' = [rows |-> FALSE, cursor |-> t.held]
      /\ UNCHANGED <<next, newline, grid, overlay, up, received, tty, prog>>
  BY DEF TickFrame, client
<1>3. /\ d.pane \in Screens /\ d.acked \in Nat /\ acked <= d.acked /\ d.acked <= received
      /\ d.rows \in BOOLEAN
  BY <1>1, DrainedTypes
<1> HIDE DEF d
<1>4. /\ t.sent \in Col /\ t.held \in BOOLEAN
      /\ t.state \in {None} \cup [sent : Col, pending : Col \cup {None}]
  BY <1>1, <1>3, ThrottleTypes
<1> HIDE DEF t
<1>5. /\ acked \in Nat /\ received \in Nat /\ grid.echo \in Nat /\ grid.echo <= acked
  BY <1>1, NumberTypes
<1>6. e \in Frames /\ e.got = received /\ e.echo = d.acked
  BY <1>3, <1>4, <1>5 DEF Frames, Screens
<1> HIDE DEF e
<1>7. chan \in Seq(Frames) /\ \A i \in DOMAIN chan : chan[i] \in Frames
  <2>1. chan \in Seq(Frames)
    BY <1>1 DEF TypeOK
  <2> QED
    BY <2>1, ElementOfSeq, LenProperties
<1>8. \A i \in DOMAIN chan :
        /\ chan[i].echo \in Nat /\ grid.echo <= chan[i].echo /\ chan[i].echo <= acked
        /\ chan[i].echo <= chan[i].got /\ chan[i].got <= received
  BY <1>1, <1>7 DEF Timely, Frames
<1>9. /\ chan' \in Seq(Frames)
      /\ \A i \in DOMAIN chan' :
            \/ i \in DOMAIN chan /\ chan'[i] = chan[i]
            \/ i = Len(chan) + 1 /\ chan'[i] = e
      /\ \A i \in DOMAIN chan : i <= Len(chan)
      /\ Len(chan) \in Nat
  BY <1>2, <1>6, <1>7, Longer
<1>10. ASSUME NEW i \in DOMAIN chan'
       PROVE  /\ grid.echo <= chan'[i].echo /\ chan'[i].echo <= acked'
              /\ chan'[i].echo <= chan'[i].got /\ chan'[i].got <= received
  <2>1. CASE i \in DOMAIN chan /\ chan'[i] = chan[i]
    BY <1>2, <1>3, <1>5, <1>8, <2>1
  <2>2. CASE chan'[i] = e
    BY <1>2, <1>3, <1>5, <1>6, <2>2
  <2> QED
    BY <1>9, <2>1, <2>2
<1>11. ASSUME NEW i \in DOMAIN chan', NEW j \in DOMAIN chan', i < j
       PROVE  chan'[i].echo <= chan'[j].echo
  <2>1. i \in DOMAIN chan /\ chan'[i] = chan[i]
    <3>1. CASE i = Len(chan) + 1
      <4>1. j \in DOMAIN chan \/ j = Len(chan) + 1
        BY <1>9
      <4>2. ~(i < j)
        <5>1. CASE j \in DOMAIN chan
          <6>1. j <= Len(chan) /\ j \in Nat
            BY <1>7, <1>9, <5>1, LenProperties
          <6> QED
            BY <1>9, <3>1, <6>1
        <5>2. CASE j = Len(chan) + 1
          BY <1>9, <3>1, <5>2
        <5> QED
          BY <4>1, <5>1, <5>2
      <4> QED
        BY <1>11, <4>2
    <3> QED
      BY <1>9, <3>1
  <2>2. CASE j \in DOMAIN chan /\ chan'[j] = chan[j]
    BY <1>1, <1>11, <2>1, <2>2 DEF Timely
  <2>3. CASE chan'[j] = e
    BY <1>3, <1>5, <1>6, <1>8, <2>1, <2>3
  <2> QED
    BY <1>9, <2>2, <2>3
<1>12. grid.echo <= acked'
  BY <1>2, <1>3, <1>5
<1>13. TypeOK'
  BY <1>1, <1>2, <1>3, <1>4, <1>9, <1>12 DEF TypeOK
<1>14. Timely'
  BY <1>1, <1>2, <1>10, <1>11 DEF Timely
<1>15. LineKept'
  BY <1>1, <1>2 DEF LineKept
<1> QED
  BY <1>2, <1>13, <1>14, <1>15 DEF EchoInv

-----------------------------------------------------------------------------
(* A frame that agrees with what it acknowledges.                          *)

\* With none past its time nothing but older cursors is dropped.
LEMMA NoneExpired ==
    ASSUME NEW o, Steady(o), o.cursors # <<>>
    PROVE  /\ ExpireOld(o, 0).cell = o.cell
           /\ ExpireOld(o, 0).cursors # <<>>
           /\ Last(ExpireOld(o, 0).cursors) = Last(o.cursors)
<1> DEFINE p == ExpireOld(o, 0)
           cell == [c \in Col |-> IF o.cell[c] # Off /\ o.cell[c].ack <= 0 THEN Off ELSE o.cell[c]]
           keep(i) == /\ o.cursors[i].ack > 0
                      /\ \/ i = Len(o.cursors)
                         \/ o.start # None
                         \/ \E c \in Col : cell[c] # Off /\ cell[c].epoch = o.cursors[i].epoch
           K == {i \in DOMAIN o.cursors : keep(i)}
<1>1. /\ o \in Overlays /\ o.cell \in [Col -> Cells \cup {Off}]
      /\ DOMAIN o.cursors = 1 .. Len(o.cursors) /\ o.cursors \in Seq(Cursors)
      /\ \A i \in DOMAIN o.cursors : o.cursors[i] \in Cursors
      /\ \A c \in Active(o) : o.cell[c] \in Cells
  BY SteadyTypes
<1>2. p = [o EXCEPT !.cell = cell, !.cursors = AtIndices(o.cursors, K)]
  BY DEF ExpireOld
<1>3. cell = o.cell
  <2>1. \A c \in Col : o.cell[c] # Off => ~(o.cell[c].ack <= 0)
    BY <1>1 DEF Active, Cells
  <2>2. \A c \in Col : cell[c] = o.cell[c]
    BY <2>1
  <2> QED
    BY <1>1, <2>2
<1>4. K \in SUBSET (1 .. Len(o.cursors))
  BY <1>1
<1>5. Len(o.cursors) \in K
  <2>1. Len(o.cursors) \in DOMAIN o.cursors
    BY <1>1, EmptySeq
  <2>2. o.cursors[Len(o.cursors)].ack > 0
    BY <1>1, <2>1 DEF Cursors
  <2> QED
    BY <2>1, <2>2
<1> HIDE DEF cell, K
<1>6. AtIndices(o.cursors, K) # <<>> /\ Last(AtIndices(o.cursors, K)) = Last(o.cursors)
  BY <1>1, <1>4, <1>5, Picking
<1>7. p.cell = cell /\ p.cursors = AtIndices(o.cursors, K)
  BY <1>1, <1>2 DEF Overlays
<1> QED
  BY <1>3, <1>6, <1>7

\* What it acknowledges goes, and nothing is wrong.
LEMMA ConfirmAgreed ==
    ASSUME NEW o, Steady(o), NEW g, NEW f,
           \A c \in Active(o) : o.cell[c].ack <= f.echo =>
              o.cell[c].unknown \/ o.cell[c].ch = g.text[c]
    PROVE  /\ Confirm(o, g, f).cell = [c \in Col |-> IF Mature(o, c, f) THEN Off ELSE o.cell[c]]
           /\ WrongEpochs(Confirm(o, g, f), g, f) = {}
<1> DEFINE p == Confirm(o, g, f)
<1>1. o \in Overlays
  BY SteadyTypes
<1>2. Wrong(o, g, f) = {}
  BY DEF Wrong, Known, Mature, Active
<1>3. p.cell = [c \in Col |-> IF Mature(o, c, f) /\ c \notin Wrong(o, g, f) THEN Off ELSE o.cell[c]]
  BY <1>1 DEF Confirm, Overlays
<1>4. p.cell = [c \in Col |-> IF Mature(o, c, f) THEN Off ELSE o.cell[c]]
  BY <1>2, <1>3
<1> HIDE DEF p
<1>5. \A c \in Col : ~Mature(p, c, f)
  <2> SUFFICES ASSUME NEW c \in Col, Mature(p, c, f) PROVE FALSE
    OBVIOUS
  <2>1. p.cell[c] # Off /\ p.cell[c] = o.cell[c] /\ ~Mature(o, c, f)
    BY <1>4 DEF Mature
  <2> QED
    BY <2>1 DEF Mature
<1>6. WrongEpochs(p, g, f) = {}
  BY <1>5 DEF WrongEpochs, Wrong, Known
<1> QED
  BY <1>4, <1>6 DEF p

\* The cursor of a later input is not judged.
LEMMA LaterCursorStays ==
    ASSUME NEW o, Steady(o), NEW g \in Acknowledged, NEW f, f.echo \in Nat,
           o.cursors # <<>>, Last(o.cursors).ack > f.echo
    PROVE  /\ JudgeCursors(o, g, f) \in Overlays
           /\ JudgeCursors(o, g, f).cell = o.cell
           /\ JudgeCursors(o, g, f).cursors # <<>>
           /\ Last(JudgeCursors(o, g, f).cursors) = Last(o.cursors)
<1> DEFINE judged(cur) == cur.ack <= f.got /\ cur.ack <= f.echo
           K == {i \in DOMAIN o.cursors : ~judged(o.cursors[i])}
           rest == [o EXCEPT !.cursors = AtIndices(o.cursors, K)]
<1>1. /\ o \in Overlays
      /\ DOMAIN o.cursors = 1 .. Len(o.cursors) /\ o.cursors \in Seq(Cursors)
      /\ \A i \in DOMAIN o.cursors : o.cursors[i] \in Cursors
  BY SteadyTypes
<1>2. K \in SUBSET (1 .. Len(o.cursors))
  BY <1>1
<1>3. Len(o.cursors) \in DOMAIN o.cursors
  BY <1>1, EmptySeq
<1>4. ~judged(Last(o.cursors))
  <2>1. Last(o.cursors) \in Cursors
    BY <1>1, <1>3 DEF Last
  <2> QED
    BY <2>1 DEF Cursors
<1>5. Len(o.cursors) \in K
  BY <1>3, <1>4 DEF Last
<1>6. JudgeCursors(o, g, f) = rest
  BY <1>4 DEF JudgeCursors
<1> HIDE DEF K
<1>7. /\ AtIndices(o.cursors, K) \in Seq(Cursors)
      /\ AtIndices(o.cursors, K) # <<>> /\ Last(AtIndices(o.cursors, K)) = Last(o.cursors)
  BY <1>1, <1>2, <1>5, Picking
<1>8. rest \in Overlays /\ rest.cell = o.cell /\ rest.cursors = AtIndices(o.cursors, K)
  BY <1>1, <1>7 DEF Overlays
<1> QED
  BY <1>6, <1>7, <1>8

LEMMA AgreeingFrame ==
    ASSUME EchoInv, Receive(0), overlay # NoOverlay, Agrees(Head(chan))
    PROVE  /\ overlay' # NoOverlay /\ overlay'.cursors # <<>>
           /\ Last(overlay'.cursors) = Last(overlay.cursors)
           /\ \A c \in Col : overlay.cell[c] # Off /\ overlay.cell[c].ack > Head(chan).echo =>
                 overlay'.cell[c] = overlay.cell[c]
<1> DEFINE o == overlay
           f == Head(chan)
           g == [text |-> IF f.text = NoRow THEN grid.text ELSE f.text,
                 at |-> f.at, mode |-> f.mode, echo |-> f.echo]
           n == Noticed(o, g)
           x == ExpireOld(n, 0)
           p == Confirm(x, g, f)
           r == JudgeCursors(p, g, f)
<1>1. TypeOK /\ Sound(o) /\ Steady(o)
  BY SoundSteady DEF EchoInv, TypeOK
<1>2. chan # <<>> /\ overlay' = Sync(o, g, f, 0)
  BY DEF Receive
<1>3. f \in Frames /\ grid \in Acknowledged
  <2>1. chan \in Seq(Frames) /\ grid \in Acknowledged
    BY <1>1 DEF TypeOK
  <2> QED
    BY <1>2, <2>1, Queue
<1>4. /\ f.mode = o.context /\ f.mode # "password"
      /\ \A c \in Active(o) : o.cell[c].ack <= f.echo =>
            o.cell[c].unknown \/ o.cell[c].ch = g.text[c]
      /\ o.cursors # <<>> /\ Last(o.cursors).ack > f.echo
  BY DEF Agrees
<1> HIDE DEF f
<1>5. g \in Acknowledged /\ g.mode = f.mode /\ f.echo \in Nat
  BY <1>3 DEF Frames, Acknowledged
<1> HIDE DEF g
<1>6. ~Disturbed(o, g)
  BY <1>4, <1>5 DEF Disturbed, IsEmpty
<1>7. Reduces(o, n) /\ Steady(n) /\ n.cell = o.cell /\ n.cursors = o.cursors
  BY <1>1, <1>5, NoticedReduces, ReducesSteady
<1>8. overlay' = Judged(x, g, f)
  <2>1. ~IsEmpty(n)
    BY <1>4, <1>7 DEF IsEmpty
  <2> QED
    BY <1>2, <1>6, <2>1 DEF Sync
<1> HIDE DEF o, n
<1>9. /\ Steady(x) /\ x.cell = o.cell /\ x.cursors # <<>> /\ Last(x.cursors) = Last(o.cursors)
  BY <1>4, <1>7, NoneExpired, ExpireOldReduces, ReducesSteady
<1> HIDE DEF x
<1>10. Active(x) = Active(o)
  BY <1>9 DEF Active
<1>11. /\ p.cell = [c \in Col |-> IF Mature(x, c, f) THEN Off ELSE x.cell[c]]
       /\ WrongEpochs(p, g, f) = {}
  BY <1>4, <1>9, <1>10, ConfirmAgreed
<1>12. Steady(p) /\ p.cursors = x.cursors
  BY <1>5, <1>9, ConfirmProperties
<1> HIDE DEF p
<1>13. Reject(p, g, f) = p
  BY <1>11 DEF Reject
<1>14. /\ r \in Overlays /\ r.cell = p.cell
       /\ r.cursors # <<>> /\ Last(r.cursors) = Last(o.cursors)
  BY <1>4, <1>5, <1>9, <1>12, LaterCursorStays
<1>15. r # NoOverlay
  BY <1>14, EchoAssumption
<1>16. overlay' = Tidied(r)
  BY <1>8, <1>11, <1>13, <1>15 DEF Judged, p
<1> HIDE DEF r
<1>17. overlay' = [r EXCEPT !.timer = TRUE]
  BY <1>14, <1>16 DEF Tidied, IsEmpty
<1>18. overlay' \in Overlays /\ overlay'.cell = p.cell /\ overlay'.cursors = r.cursors
  BY <1>14, <1>17 DEF Overlays
<1>19. overlay' # NoOverlay
  BY <1>18, EchoAssumption
<1>20. ASSUME NEW c \in Col, o.cell[c] # Off, o.cell[c].ack > f.echo
       PROVE  overlay'.cell[c] = o.cell[c]
  <2>1. o.cell[c].ack \in Nat
    BY <1>1, <1>20, PredictionTypes DEF Active
  <2>2. ~Mature(x, c, f)
    BY <1>5, <1>9, <1>20, <2>1 DEF Mature
  <2> QED
    BY <1>9, <1>11, <1>18, <2>2
<1> QED
  BY <1>14, <1>18, <1>19, <1>20 DEF o, f

-----------------------------------------------------------------------------
(* Theorems.                                                               *)

LEMMA InvariantKept == EchoInv /\ [Next]_vars => EchoInv'
<1> SUFFICES ASSUME EchoInv, [Next]_vars PROVE EchoInv'
  OBVIOUS
<1>1. CASE \E k \in Key : Press(k)
  BY <1>1, PressKeeps
<1>2. CASE \E old \in 0 .. MaxKeys : old < next /\ Receive(old)
  <2>1. PICK old \in 0 .. MaxKeys : Receive(old)
    BY <1>2
  <2>2. old \in Nat
    BY <2>1, EchoAssumption
  <2> QED
    BY <2>1, <2>2, ReceiveKeeps
<1>3. CASE Expire
  BY <1>3, ExpireKeeps
<1>4. CASE Input
  BY <1>4, InputKeeps
<1>5. CASE Read
  BY <1>5, ReadKeeps
<1>6. CASE TickDrain
  BY <1>6, TickDrainKeeps
<1>7. CASE TickFrame
  BY <1>7, TickFrameKeeps
<1>8. CASE UNCHANGED vars
  <2>1. UNCHANGED <<next, newline, grid, overlay, up, received, acked, pane, dirty, debounce,
                    tty, prog, wrote, chan>>
    BY <1>8 DEF vars, client, daemon, program
  <2>2. TypeOK'
    BY <2>1 DEF EchoInv, TypeOK
  <2>3. Timely' /\ LineKept'
    BY <2>1 DEF EchoInv, Timely, LineKept
  <2> QED
    BY <2>1, <2>2, <2>3 DEF EchoInv
<1> QED
  BY <1>1, <1>2, <1>3, <1>4, <1>5, <1>6, <1>7, <1>8 DEF Next

\* The invariant that the other theorems follow from: inputs and frames are in
\* the order of their acknowledgements, an overlay belongs to the mode on the
\* screen and predicts only what no frame has acknowledged, and what is typed
\* after Enter stays in an unconfirmed epoch until a frame acknowledges it.
THEOREM EchoInvariant == Spec => []EchoInv
<1> QED
  BY InitHolds, InvariantKept, PTL DEF Spec

\* Whatever is typed, expires or arrives: acknowledgements follow the inputs,
\* cursors are in the order of their epochs, and what is predicted has a deadline.
THEOREM EchoTypes == Spec => []TypeOK
<1>1. EchoInv => TypeOK
  BY DEF EchoInv
<1> QED
  BY <1>1, EchoInvariant, PTL

\* Nothing stays predicted for an input that a frame has acknowledged.
THEOREM PredictionsJudged == Spec => []JudgedAtOnce
<1>1. EchoInv => JudgedAtOnce
  <2> SUFFICES ASSUME EchoInv, overlay # NoOverlay, NEW n \in Numbers(overlay)
               PROVE  n > grid.echo
    BY DEF JudgedAtOnce
  <2>1. TypeOK /\ Sound(overlay) /\ Anchored(overlay, grid, next)
    BY DEF EchoInv, TypeOK
  <2>2. grid.echo \in Nat
    BY <2>1, NumberTypes
  <2>3. /\ \A c \in Active(overlay) : overlay.cell[c].ack \in Nat
        /\ \A i \in DOMAIN overlay.cursors : overlay.cursors[i].ack \in Nat
    BY <2>1, SoundSteady, PredictionTypes
  <2>4. CASE \E c \in Active(overlay) : n = overlay.cell[c].ack
    BY <2>1, <2>2, <2>3, <2>4 DEF Anchored
  <2>5. CASE \E i \in DOMAIN overlay.cursors : n = overlay.cursors[i].ack
    BY <2>1, <2>2, <2>3, <2>5 DEF Anchored
  <2> QED
    BY <2>4, <2>5 DEF Numbers, ToSet
<1> QED
  BY <1>1, EchoInvariant, PTL

\* What is typed after Enter is not shown before a frame has acknowledged some
\* of it.
THEOREM EnterHides == Spec => []NoBlindEcho
<1>1. EchoInv => NoBlindEcho
  <2> SUFFICES ASSUME EchoInv, overlay # NoOverlay, ~overlay.forced,
                      Display = "always" => AppMode(overlay.context),
                      NEW c \in Predicted, overlay.cell[c].ack > newline,
                      ~(grid.echo > newline)
               PROVE  FALSE
    BY DEF NoBlindEcho
  <2>1. TypeOK /\ Sound(overlay) /\ Steady(overlay) /\ Tentative(overlay, grid, newline)
    BY SoundSteady DEF EchoInv, TypeOK
  <2>2. /\ grid.echo \in Nat /\ newline \in Nat
        /\ overlay.confirmed \in Nat
        /\ \A d \in Active(overlay) : overlay.cell[d].epoch \in Nat
    BY <2>1, NumberTypes, PredictionTypes
  <2>3. c \in Active(overlay)
    BY DEF Predicted, Active
  <2>4. /\ AppMode(overlay.context) => ~overlay.proven
        /\ overlay.confirmed < overlay.cell[c].epoch
    BY <2>1, <2>2, <2>3 DEF Tentative
  <2>5. /\ ~(AppMode(overlay.context) /\ ~overlay.proven)
        /\ Display = "always" \/ AppMode(overlay.context)
             \/ overlay.cell[c].epoch <= overlay.confirmed
    BY DEF Predicted, Permitted, Trusted
  <2> QED
    BY <2>2, <2>3, <2>4, <2>5
<1> QED
  BY <1>1, EchoInvariant, PTL

\* A frame that contradicts nothing it acknowledges leaves later predictions.
THEOREM AgreeingFramesKeep == Spec => LaterKept
<1>1. EchoInv =>
        (Receive(0) /\ overlay # NoOverlay /\ Agrees(Head(chan)) =>
          /\ overlay' # NoOverlay /\ overlay'.cursors # <<>>
          /\ Last(overlay'.cursors) = Last(overlay.cursors)
          /\ \A c \in Col : overlay.cell[c] # Off /\ overlay.cell[c].ack > Head(chan).echo =>
                overlay'.cell[c] = overlay.cell[c])
  BY AgreeingFrame
<1> QED
  BY <1>1, EchoInvariant, PTL DEF LaterKept

=============================================================================
