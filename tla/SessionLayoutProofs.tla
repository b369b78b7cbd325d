------------------------- MODULE SessionLayoutProofs -------------------------
(***************************************************************************)
(* Proofs about SessionLayout, for every set of panes.                     *)
(***************************************************************************)
EXTENDS SessionLayout, SequenceTheorems, FiniteSetTheorems, TLAPS

-----------------------------------------------------------------------------
(* Numbers.                                                                *)

\* Every set of numbers has a least one: what the proofs by induction below
\* apply to the set of counterexamples.
LEMMA LeastNat ==
    ASSUME NEW T, T \subseteq Nat, T # {}
    PROVE  \E n \in T : \A m \in T : n <= m
<1> DEFINE R == StrictSubsetOrdering(Nat)
           U == {1..n : n \in T}
<1>1. IsWellFoundedOn(R, FiniteSubsetsOf(Nat))
  BY FS_StrictSubsetOrderingWellFounded
<1>2. U \subseteq FiniteSubsetsOf(Nat)
  BY FS_Interval DEF FiniteSubsetsOf
<1>3. U # {}
  OBVIOUS
<1>4. PICK x \in U : \A y \in U : <<y, x>> \notin R
  BY <1>1, <1>2, <1>3, WFMin
<1>5. PICK n \in T : x = 1..n
  OBVIOUS
<1>6. ASSUME NEW m \in T, m < n PROVE FALSE
  <2>1. (1..m) \subseteq (1..n) /\ 1..m # 1..n /\ 1..m \in U
    BY <1>6
  <2>2. <<1..m, 1..n>> \in R
    BY <2>1 DEF StrictSubsetOrdering
  <2> QED
    BY <2>1, <2>2, <1>4, <1>5
<1> QED
  BY <1>6

\* How many elements of K there are up to k.
Rank(K, k) == Cardinality({j \in K : j <= k})

LEMMA RankProperties ==
    ASSUME NEW n \in Nat, NEW K \in SUBSET (1..n)
    PROVE  /\ IsFiniteSet(K) /\ Cardinality(K) \in Nat /\ Cardinality(K) <= n
           /\ \A k \in K : Rank(K, k) \in 1..Cardinality(K)
           /\ \A j, k \in K : j < k => Rank(K, j) < Rank(K, k)
           /\ \A i \in 1..Cardinality(K) : \E k \in K : Rank(K, k) = i
<1> DEFINE upTo(k) == {j \in K : j <= k}
           m == Cardinality(K)
           rank == [k \in K |-> Rank(K, k)]
<1>1. IsFiniteSet(1..n) /\ Cardinality(1..n) = n
  BY FS_Interval
<1>2. IsFiniteSet(K) /\ m <= n
  BY <1>1, FS_Subset
<1>3. m \in Nat
  BY <1>2, FS_CardinalityType
<1>4. \A k \in K : IsFiniteSet(upTo(k)) /\ Cardinality(upTo(k)) <= m
                   /\ Cardinality(upTo(k)) \in Nat
  BY <1>2, FS_Subset, FS_CardinalityType
<1>5. \A k \in K : Rank(K, k) \in 1..m
  <2> SUFFICES ASSUME NEW k \in K PROVE Rank(K, k) \in 1..m
    OBVIOUS
  <2>1. k \in upTo(k)
    OBVIOUS
  <2>2. Cardinality(upTo(k)) # 0
    BY <2>1, <1>4, FS_EmptySet
  <2> QED
    BY <2>2, <1>3, <1>4 DEF Rank
<1>6. \A j, k \in K : j < k => Rank(K, j) < Rank(K, k)
  <2> SUFFICES ASSUME NEW j \in K, NEW k \in K, j < k PROVE Rank(K, j) < Rank(K, k)
    OBVIOUS
  <2>1. upTo(j) \subseteq upTo(k)
    <3>1. j \in 1..n /\ k \in 1..n /\ \A i \in K : i \in 1..n
      OBVIOUS
    <3>2. \A i \in K : i <= j => i <= k
      BY <3>1
    <3> QED
      BY <3>2
  <2>2. k \in upTo(k) /\ k \notin upTo(j)
    OBVIOUS
  <2>3. Cardinality(upTo(j)) <= Cardinality(upTo(k))
        /\ Cardinality(upTo(j)) # Cardinality(upTo(k))
    BY <2>1, <2>2, <1>4, FS_Subset
  <2> QED
    BY <2>3, <1>4 DEF Rank
<1>7. rank \in Injection(K, 1..m)
  <2>1. rank \in [K -> 1..m]
    BY <1>5
  <2>2. \A j, k \in K : rank[j] = rank[k] => j = k
    BY <1>5, <1>6
  <2> QED
    BY <2>1, <2>2 DEF Injection, IsInjective
<1>8. rank \in Surjection(K, 1..m)
  <2>1. IsFiniteSet(1..m) /\ Cardinality(1..m) = m
    BY <1>3, FS_Interval
  <2> QED
    BY <2>1, <1>7, FS_Injection
<1>9. \A i \in 1..m : \E k \in K : Rank(K, k) = i
  BY <1>8 DEF Surjection
<1> QED
  BY <1>2, <1>3, <1>5, <1>6, <1>9

\* The i-th element of K, upwards.
Nth(K, i) == CHOOSE k \in K : Rank(K, k) = i

LEMMA NthProperties ==
    ASSUME NEW n \in Nat, NEW K \in SUBSET (1..n)
    PROVE  /\ \A i \in 1..Cardinality(K) : Nth(K, i) \in K
           /\ \A i, j \in 1..Cardinality(K) : i < j => Nth(K, i) < Nth(K, j)
           /\ \A k \in K : Rank(K, k) \in 1..Cardinality(K) /\ Nth(K, Rank(K, k)) = k
<1> DEFINE m == Cardinality(K)
<1>1. /\ IsFiniteSet(K) /\ m \in Nat
      /\ \A k \in K : Rank(K, k) \in 1..m
      /\ \A j, k \in K : j < k => Rank(K, j) < Rank(K, k)
      /\ \A i \in 1..m : \E k \in K : Rank(K, k) = i
  BY RankProperties
<1>2. \A i \in 1..m : Nth(K, i) \in K /\ Rank(K, Nth(K, i)) = i
  BY <1>1 DEF Nth
<1>3. \A k \in K : k \in Nat
  OBVIOUS
<1>4. \A j, k \in K : Rank(K, j) = Rank(K, k) => j = k
  <2> SUFFICES ASSUME NEW j \in K, NEW k \in K, Rank(K, j) = Rank(K, k), j # k
               PROVE  FALSE
    OBVIOUS
  <2>1. Rank(K, k) \in Int /\ (j < k \/ k < j)
    BY <1>1, <1>3
  <2> QED
    BY <2>1, <1>1
<1>5. \A i, j \in 1..m : i < j => Nth(K, i) < Nth(K, j)
  <2> SUFFICES ASSUME NEW i \in 1..m, NEW j \in 1..m, i < j PROVE Nth(K, i) < Nth(K, j)
    OBVIOUS
  <2>1. Nth(K, i) \in K /\ Nth(K, j) \in K /\ Rank(K, Nth(K, i)) = i /\ Rank(K, Nth(K, j)) = j
    BY <1>2
  <2>2. Nth(K, j) < Nth(K, i) => j < i
    BY <2>1, <1>1
  <2>3. Nth(K, i) # Nth(K, j)
    BY <2>1
  <2>4. Nth(K, i) \in Nat /\ Nth(K, j) \in Nat
    BY <2>1, <1>3
  <2> QED
    BY <2>2, <2>3, <2>4
<1>6. \A k \in K : Rank(K, k) \in 1..m /\ Nth(K, Rank(K, k)) = k
  BY <1>1, <1>2, <1>4
<1> QED
  BY <1>2, <1>5, <1>6

\* AtIndices goes through the elements of K upwards, and leaves none out.
LEMMA AtIndicesProperties ==
    ASSUME NEW S, NEW s \in Seq(S), NEW K \in SUBSET (1..Len(s))
    PROVE  /\ AtIndices(s, K) \in Seq(S)
           /\ Len(AtIndices(s, K)) = Cardinality(K)
           /\ IsFiniteSet(K) /\ Cardinality(K) \in Nat
           /\ \A i \in 1..Cardinality(K) :
                AtIndices(s, K)[i] = s[Nth(K, i)] /\ Nth(K, i) \in K
           /\ \A i, j \in 1..Cardinality(K) : i < j => Nth(K, i) < Nth(K, j)
           /\ \A k \in K : Rank(K, k) \in 1..Cardinality(K) /\ Nth(K, Rank(K, k)) = k
<1> DEFINE m == Cardinality(K)
<1>1. Len(s) \in Nat /\ \A k \in K : s[k] \in S
  BY ElementOfSeq
<1>2. IsFiniteSet(K) /\ m \in Nat
  BY <1>1, RankProperties
<1>3. /\ \A i \in 1..m : Nth(K, i) \in K
      /\ \A i, j \in 1..m : i < j => Nth(K, i) < Nth(K, j)
      /\ \A k \in K : Rank(K, k) \in 1..m /\ Nth(K, Rank(K, k)) = k
  BY <1>1, NthProperties
<1>4. AtIndices(s, K) = [i \in 1..m |-> s[Nth(K, i)]]
  BY DEF AtIndices, Nth, Rank
<1>5. \A i \in 1..m : s[Nth(K, i)] \in S
  BY <1>1, <1>3
<1>6. AtIndices(s, K) \in Seq(S) /\ Len(AtIndices(s, K)) = m
  BY <1>2, <1>4, <1>5
<1> QED
  BY <1>2, <1>3, <1>4, <1>6

LEMMA RemoveAtProperties ==
    ASSUME NEW S, NEW s \in Seq(S), NEW i \in 1..Len(s)
    PROVE  /\ RemoveAt(s, i) \in Seq(S)
           /\ Len(RemoveAt(s, i)) = Len(s) - 1
           /\ \A j \in 1..(Len(s) - 1) :
                RemoveAt(s, i)[j] = IF j < i THEN s[j] ELSE s[j + 1]
<1> DEFINE left == SubSeq(s, 1, i - 1)
           right == SubSeq(s, i + 1, Len(s))
<1>1. Len(s) \in Nat /\ \A j \in 1..Len(s) : s[j] \in S
  BY ElementOfSeq
<1>2. /\ left \in Seq(S) /\ Len(left) = i - 1
      /\ \A j \in 1..(i - 1) : left[j] = s[j]
  <2>1. \A j \in 1..(i - 1) : s[j] \in S
    BY <1>1
  <2> QED
    BY <1>1, <2>1, SubSeqProperties
<1>3. /\ right \in Seq(S) /\ Len(right) = Len(s) - i
      /\ \A j \in 1..(Len(s) - i) : right[j] = s[i + j]
  <2>1. \A j \in (i + 1)..Len(s) : s[j] \in S
    BY <1>1
  <2>2. /\ right \in Seq(S)
        /\ Len(right) = IF i + 1 <= Len(s) THEN Len(s) - (i + 1) + 1 ELSE 0
        /\ \A j \in 1..(Len(s) - (i + 1) + 1) : right[j] = s[(i + 1) + j - 1]
    BY <1>1, <2>1, SubSeqProperties
  <2> QED
    BY <1>1, <2>2
<1>4. RemoveAt(s, i) = left \o right
  BY DEF RemoveAt
<1> HIDE DEF left, right
<1>5. /\ left \o right \in Seq(S)
      /\ Len(left \o right) = Len(left) + Len(right)
      /\ \A j \in 1..(Len(left) + Len(right)) :
            (left \o right)[j] = IF j <= Len(left) THEN left[j] ELSE right[j - Len(left)]
  BY <1>2, <1>3, ConcatProperties
<1> QED
  BY <1>1, <1>2, <1>3, <1>4, <1>5

LEMMA InsertAtProperties ==
    ASSUME NEW S, NEW s \in Seq(S), NEW i \in 1..(Len(s) + 1), NEW e \in S
    PROVE  /\ InsertAt(s, i, e) \in Seq(S)
           /\ Len(InsertAt(s, i, e)) = Len(s) + 1
           /\ \A j \in 1..(Len(s) + 1) :
                InsertAt(s, i, e)[j] = IF j < i THEN s[j] ELSE IF j = i THEN e ELSE s[j - 1]
<1> DEFINE left == SubSeq(s, 1, i - 1)
           right == SubSeq(s, i, Len(s))
           begin == left \o <<e>>
<1>1. Len(s) \in Nat /\ \A j \in 1..Len(s) : s[j] \in S
  BY ElementOfSeq
<1>2. /\ left \in Seq(S) /\ Len(left) = i - 1
      /\ \A j \in 1..(i - 1) : left[j] = s[j]
  <2>1. \A j \in 1..(i - 1) : s[j] \in S
    BY <1>1
  <2> QED
    BY <1>1, <2>1, SubSeqProperties
<1>3. /\ right \in Seq(S) /\ Len(right) = Len(s) - i + 1
      /\ \A j \in 1..(Len(s) - i + 1) : right[j] = s[i + j - 1]
  <2>1. \A j \in i..Len(s) : s[j] \in S
    BY <1>1
  <2>2. /\ right \in Seq(S)
        /\ Len(right) = IF i <= Len(s) THEN Len(s) - i + 1 ELSE 0
        /\ \A j \in 1..(Len(s) - i + 1) : right[j] = s[i + j - 1]
    BY <1>1, <2>1, SubSeqProperties
  <2> QED
    BY <1>1, <2>2
<1>4. InsertAt(s, i, e) = begin \o right
  BY DEF InsertAt
<1>5. <<e>> \in Seq(S) /\ Len(<<e>>) = 1 /\ <<e>>[1] = e
  OBVIOUS
<1> HIDE DEF left, right
<1>6. /\ begin \in Seq(S) /\ Len(begin) = i
      /\ \A j \in 1..i : begin[j] = IF j < i THEN s[j] ELSE e
  <2>1. /\ begin \in Seq(S)
        /\ Len(begin) = Len(left) + Len(<<e>>)
        /\ \A j \in 1..(Len(left) + Len(<<e>>)) :
              begin[j] = IF j <= Len(left) THEN left[j] ELSE <<e>>[j - Len(left)]
    BY <1>2, <1>5, ConcatProperties
  <2> QED
    BY <1>1, <1>2, <1>5, <2>1
<1> HIDE DEF begin
<1>7. /\ begin \o right \in Seq(S)
      /\ Len(begin \o right) = Len(begin) + Len(right)
      /\ \A j \in 1..(Len(begin) + Len(right)) :
            (begin \o right)[j] = IF j <= Len(begin) THEN begin[j]
                                  ELSE right[j - Len(begin)]
  BY <1>3, <1>6, ConcatProperties
<1> QED
  BY <1>1, <1>3, <1>4, <1>6, <1>7

-----------------------------------------------------------------------------
(* One column.                                                             *)

Tiles(col) == {col.tiles[t] : t \in 1..Len(col.tiles)}

\* A column shows no pane twice and has an active tile.
WellColumn(col) ==
    /\ col \in Columns(Pane)
    /\ col.active \in 1..Len(col.tiles)
    /\ \A t, u \in 1..Len(col.tiles) : col.tiles[t] = col.tiles[u] => t = u

LEMMA ColumnType ==
    ASSUME NEW col \in Columns(Pane)
    PROVE  /\ col.tiles \in Seq(Pane) /\ Len(col.tiles) \in Nat
           /\ DOMAIN col.tiles = 1..Len(col.tiles)
           /\ \A t \in 1..Len(col.tiles) : col.tiles[t] \in Pane
           /\ col.active \in Nat \ {0}
           /\ col = [tiles |-> col.tiles, active |-> col.active]
<1>1. col.tiles \in Seq(Pane) /\ col.active \in Nat \ {0}
      /\ col = [tiles |-> col.tiles, active |-> col.active]
  BY DEF Columns
<1> QED
  BY <1>1, LenProperties, ElementOfSeq

LEMMA ClampProperties ==
    ASSUME NEW i \in Nat \ {0}, NEW n \in Nat
    PROVE  /\ Clamp(i, n) \in Nat \ {0}
           /\ n # 0 => Clamp(i, n) \in 1..n
           /\ i <= n => Clamp(i, n) = i
BY DEF Clamp

LEMMA NewColumnWell ==
    ASSUME NEW p \in Pane
    PROVE  WellColumn(NewColumn(p)) /\ Tiles(NewColumn(p)) = {p}
<1> DEFINE col == NewColumn(p)
<1>1. col.tiles = <<p>> /\ col.active = 1 /\ col \in Columns(Pane)
  BY DEF NewColumn, Columns
<1>2. Len(<<p>>) = 1 /\ <<p>>[1] = p
  OBVIOUS
<1> HIDE DEF col
<1> QED
  BY <1>1, <1>2 DEF WellColumn, Tiles, col

LEMMA PushTileWell ==
    ASSUME NEW col, WellColumn(col), NEW p \in Pane, p \notin Tiles(col)
    PROVE  WellColumn(PushTile(col, p)) /\ Tiles(PushTile(col, p)) = Tiles(col) \cup {p}
<1> DEFINE s == col.tiles
           r == Append(s, p)
           new == PushTile(col, p)
<1>1. s \in Seq(Pane) /\ Len(s) \in Nat
  BY ColumnType DEF WellColumn
<1>2. /\ r \in Seq(Pane) /\ Len(r) = Len(s) + 1
      /\ \A i \in 1..Len(s) : r[i] = s[i]
      /\ r[Len(s) + 1] = p
  BY <1>1, AppendProperties
<1>3. new.tiles = r /\ new.active = Len(s) + 1 /\ new = [tiles |-> r, active |-> Len(s) + 1]
  BY DEF PushTile
<1>4. \A t \in 1..Len(s) : s[t] # p
  BY DEF Tiles
<1> HIDE DEF r, new
<1>5. Tiles(new) = Tiles(col) \cup {p}
  <2>1. ASSUME NEW q \in Tiles(new) PROVE q \in Tiles(col) \cup {p}
    <3>1. PICK t \in 1..Len(r) : q = r[t]
      BY <1>3 DEF Tiles
    <3>2. t \in 1..Len(s) \/ t = Len(s) + 1
      BY <1>1, <1>2
    <3> QED
      BY <3>1, <3>2, <1>2 DEF Tiles
  <2>2. ASSUME NEW q \in Tiles(col) PROVE q \in Tiles(new)
    <3>1. PICK t \in 1..Len(s) : q = s[t]
      BY DEF Tiles
    <3>2. t \in 1..Len(r) /\ r[t] = q
      BY <3>1, <1>1, <1>2
    <3> QED
      BY <3>2, <1>3 DEF Tiles
  <2>3. p \in Tiles(new)
    <3>1. Len(s) + 1 \in 1..Len(r)
      BY <1>1, <1>2
    <3> QED
      BY <3>1, <1>2, <1>3 DEF Tiles
  <2> QED
    BY <2>1, <2>2, <2>3
<1>6. \A t, u \in 1..Len(r) : r[t] = r[u] => t = u
  BY <1>1, <1>2, <1>4 DEF WellColumn
<1>7. WellColumn(new)
  BY <1>1, <1>2, <1>3, <1>6 DEF WellColumn, Columns
<1> QED
  BY <1>5, <1>7 DEF new

\* Taking a tile out of a column leaves the others, once each.
LEMMA TakeTileWell ==
    ASSUME NEW col, WellColumn(col), NEW i \in 1..Len(col.tiles)
    PROVE  /\ Tiles(TakeTile(col, i)) = Tiles(col) \ {col.tiles[i]}
           /\ Len(TakeTile(col, i).tiles) = Len(col.tiles) - 1
           /\ Len(col.tiles) > 1 => WellColumn(TakeTile(col, i))
<1> DEFINE s == col.tiles
           r == RemoveAt(s, i)
           new == TakeTile(col, i)
<1>1. /\ s \in Seq(Pane) /\ Len(s) \in Nat /\ col.active \in 1..Len(s) /\ i \in 1..Len(s)
      /\ \A t, u \in 1..Len(s) : s[t] = s[u] => t = u
  BY ColumnType DEF WellColumn
<1>2. Tiles(col) = {s[t] : t \in 1..Len(s)}
  BY DEF Tiles
<1>3. /\ r \in Seq(Pane) /\ Len(r) = Len(s) - 1
      /\ \A j \in 1..(Len(s) - 1) : r[j] = IF j < i THEN s[j] ELSE s[j + 1]
  BY <1>1, RemoveAtProperties
<1>4. /\ new.tiles = r
      /\ new.active = IF i < col.active THEN col.active - 1 ELSE Clamp(col.active, Len(r))
      /\ new = [tiles |-> new.tiles, active |-> new.active]
  BY DEF TakeTile
<1> HIDE DEF r, new, s
<1>5. Tiles(new) = Tiles(col) \ {s[i]}
  <2>1. ASSUME NEW p \in Tiles(new) PROVE p \in Tiles(col) \ {s[i]}
    <3>1. PICK j \in 1..Len(r) : p = r[j]
      BY <2>1, <1>4 DEF Tiles
    <3>2. PICK k \in 1..Len(s) : p = s[k] /\ k # i
      <4>1. j \in 1..(Len(s) - 1) /\ j \in 1..Len(s) /\ j + 1 \in 1..Len(s)
        BY <1>1, <1>3
      <4>2. j < i => p = s[j] /\ j # i
        BY <3>1, <4>1, <1>3
      <4>3. ~(j < i) => p = s[j + 1] /\ j + 1 # i
        BY <3>1, <4>1, <1>1, <1>3
      <4> QED
        BY <4>1, <4>2, <4>3
    <3>3. p # s[i]
      BY <3>2, <1>1
    <3> QED
      BY <3>2, <3>3, <1>2
  <2>2. ASSUME NEW p \in Tiles(col), p # s[i] PROVE p \in Tiles(new)
    <3>1. PICK j \in 1..Len(s) : p = s[j]
      BY <2>2, <1>2
    <3>2. CASE j < i
      <4>1. j \in 1..Len(r) /\ r[j] = p
        BY <3>1, <3>2, <1>1, <1>3
      <4> QED
        BY <4>1, <1>4 DEF Tiles
    <3>3. CASE i < j
      <4>1. j - 1 \in 1..Len(r) /\ r[j - 1] = p
        BY <3>1, <3>3, <1>1, <1>3
      <4> QED
        BY <4>1, <1>4 DEF Tiles
    <3> QED
      BY <3>1, <3>2, <3>3, <2>2, <1>1
  <2> QED
    BY <2>1, <2>2
<1>6. ASSUME Len(s) > 1 PROVE WellColumn(new)
  <2>1. new.active \in 1..Len(r)
    <3>1. Len(r) \in Nat /\ Len(r) # 0 /\ col.active \in Nat \ {0}
      BY <1>1, <1>3, <1>6
    <3>2. Clamp(col.active, Len(r)) \in 1..Len(r)
      BY <3>1, ClampProperties
    <3>3. i < col.active => col.active - 1 \in 1..Len(r)
      BY <1>1, <1>3
    <3> QED
      BY <3>2, <3>3, <1>4
  <2>2. \A t, u \in 1..Len(r) : r[t] = r[u] => t = u
    BY <1>1, <1>3
  <2>3. new \in Columns(Pane)
    <3>1. new.active \in Nat \ {0}
      BY <2>1, <1>1, <1>3
    <3> QED
      BY <3>1, <1>3, <1>4 DEF Columns
  <2> QED
    BY <2>1, <2>2, <2>3, <1>4 DEF WellColumn
<1> QED
  BY <1>3, <1>4, <1>5, <1>6 DEF new, s

\* What a restore makes of a column: its tiles of S.
LEMMA RestoreColumnWell ==
    ASSUME NEW col, WellColumn(col), NEW S
    PROVE  /\ RestoreColumn(col, S) \in Columns(Pane)
           /\ Tiles(RestoreColumn(col, S)) = Tiles(col) \cap S
           /\ RestoreColumn(col, S).tiles # <<>> => WellColumn(RestoreColumn(col, S))
<1> DEFINE s == col.tiles
           K == {t \in DOMAIN s : s[t] \in S}
           r == AtIndices(s, K)
           n == Len(r)
           new == RestoreColumn(col, S)
<1>1. /\ s \in Seq(Pane) /\ Len(s) \in Nat /\ col.active \in Nat \ {0}
      /\ DOMAIN s = 1..Len(s)
      /\ \A t, u \in 1..Len(s) : s[t] = s[u] => t = u
  BY ColumnType DEF WellColumn
<1>2. K \in SUBSET (1..Len(s))
  BY <1>1
<1>3. new.tiles = r /\ new.active = Clamp(col.active, Len(r))
      /\ new = [tiles |-> r, active |-> Clamp(col.active, Len(r))]
  BY DEF RestoreColumn
<1>4. \A k \in 1..Len(s) : k \in K <=> s[k] \in S
  BY <1>1
<1>5. Tiles(col) = {s[t] : t \in 1..Len(s)}
  BY DEF Tiles
<1> HIDE DEF s, K, new
<1>6. r \in Seq(Pane) /\ n \in Nat
  BY <1>1, <1>2, AtIndicesProperties
<1>7. /\ \A i \in 1..n : Nth(K, i) \in K /\ r[i] = s[Nth(K, i)]
      /\ \A i, j \in 1..n : i < j => Nth(K, i) < Nth(K, j)
      /\ \A k \in K : Rank(K, k) \in 1..n /\ Nth(K, Rank(K, k)) = k
  BY <1>1, <1>2, AtIndicesProperties
<1>8. \A k \in K : k \in 1..Len(s)
  BY <1>2
<1> HIDE DEF r
<1>9. new \in Columns(Pane)
  <2>1. Clamp(col.active, n) \in Nat \ {0}
    BY <1>1, <1>6, ClampProperties
  <2> QED
    BY <2>1, <1>3, <1>6 DEF Columns
<1>10. Tiles(new) = Tiles(col) \cap S
  <2>1. ASSUME NEW p \in Tiles(new) PROVE p \in Tiles(col) \cap S
    <3>1. PICK i \in 1..n : p = r[i]
      BY <1>3 DEF Tiles
    <3>2. Nth(K, i) \in K /\ Nth(K, i) \in 1..Len(s) /\ p = s[Nth(K, i)]
      BY <3>1, <1>8, <1>7
    <3> QED
      BY <3>2, <1>4, <1>5
  <2>2. ASSUME NEW p \in Tiles(col) \cap S PROVE p \in Tiles(new)
    <3>1. PICK k \in 1..Len(s) : p = s[k]
      BY <1>5
    <3>2. PICK i \in 1..n : Nth(K, i) = k
      BY <3>1, <1>4, <1>7
    <3> QED
      BY <3>1, <3>2, <1>3, <1>7 DEF Tiles
  <2> QED
    BY <2>1, <2>2
<1>11. ASSUME new.tiles # <<>> PROVE WellColumn(new)
  <2>1. n # 0
    BY <1>3, <1>6, <1>11, EmptySeq
  <2>2. new.active \in 1..n
    <3>1. Clamp(col.active, n) \in 1..n
      BY <2>1, <1>1, <1>6, ClampProperties
    <3> QED
      BY <3>1, <1>3
  <2>3. ASSUME NEW i \in 1..n, NEW j \in 1..n, r[i] = r[j] PROVE i = j
    <3>1. /\ Nth(K, i) \in 1..Len(s) /\ Nth(K, j) \in 1..Len(s)
          /\ s[Nth(K, i)] = s[Nth(K, j)]
      BY <2>3, <1>8, <1>7
    <3>2. Nth(K, i) = Nth(K, j) /\ Nth(K, i) \in Nat
      BY <3>1, <1>1
    <3>3. i \in Int /\ j \in Int
      OBVIOUS
    <3> QED
      BY <3>2, <3>3, <1>7
  <2> QED
    BY <2>2, <2>3, <1>3, <1>9 DEF WellColumn
<1> QED
  BY <1>9, <1>10, <1>11 DEF new

-----------------------------------------------------------------------------
(* The columns of a workspace.                                             *)

\* Well-formed columns that share no pane.
WellColumns(cs) ==
    /\ cs \in Seq(Columns(Pane))
    /\ \A c \in 1..Len(cs) : WellColumn(cs[c])
    /\ \A c, d \in 1..Len(cs) : \A p \in Tiles(cs[c]) : p \in Tiles(cs[d]) => c = d

Shown(cs) == UNION {Tiles(cs[c]) : c \in 1..Len(cs)}

\* Columns that are among those of cs, and no two of them the same.
LEMMA SomeColumns ==
    ASSUME NEW cs, WellColumns(cs), NEW r \in Seq(Columns(Pane)),
           NEW g \in [1..Len(r) -> 1..Len(cs)],
           \A i \in 1..Len(r) : r[i] = cs[g[i]],
           \A i, j \in 1..Len(r) : g[i] = g[j] => i = j
    PROVE  /\ WellColumns(r)
           /\ \A p : p \in Shown(r) <=> \E i \in 1..Len(r) : p \in Tiles(cs[g[i]])
<1>1. \A i \in 1..Len(r) : g[i] \in 1..Len(cs)
  OBVIOUS
<1>2. WellColumns(r)
  <2>1. \A i \in 1..Len(r) : WellColumn(r[i])
    BY <1>1 DEF WellColumns
  <2>2. ASSUME NEW i \in 1..Len(r), NEW j \in 1..Len(r),
               NEW p \in Tiles(r[i]), p \in Tiles(r[j])
        PROVE  i = j
    <3>1. g[i] = g[j]
      BY <2>2, <1>1 DEF WellColumns
    <3> QED
      BY <3>1
  <2> QED
    BY <2>1, <2>2 DEF WellColumns
<1>3. \A p : p \in Shown(r) <=> \E i \in 1..Len(r) : p \in Tiles(cs[g[i]])
  BY DEF Shown
<1> QED
  BY <1>2, <1>3

LEMMA RemoveColumn ==
    ASSUME NEW cs, WellColumns(cs), NEW i \in 1..Len(cs)
    PROVE  /\ WellColumns(RemoveAt(cs, i)) /\ Len(RemoveAt(cs, i)) = Len(cs) - 1
           /\ Shown(RemoveAt(cs, i)) = Shown(cs) \ Tiles(cs[i])
<1> DEFINE r == RemoveAt(cs, i)
           n == Len(cs)
           g == [j \in 1..(n - 1) |-> IF j < i THEN j ELSE j + 1]
<1>1. /\ cs \in Seq(Columns(Pane)) /\ n \in Nat /\ i \in 1..n
      /\ \A c, d \in 1..n : \A p \in Tiles(cs[c]) : p \in Tiles(cs[d]) => c = d
  BY LenProperties DEF WellColumns
<1>2. /\ r \in Seq(Columns(Pane)) /\ Len(r) = n - 1
      /\ \A j \in 1..(n - 1) : r[j] = IF j < i THEN cs[j] ELSE cs[j + 1]
  BY <1>1, RemoveAtProperties
<1>3. /\ g \in [1..Len(r) -> 1..n]
      /\ \A j \in 1..Len(r) : r[j] = cs[g[j]]
      /\ \A j, k \in 1..Len(r) : g[j] = g[k] => j = k
  BY <1>1, <1>2
<1>4. \A c \in 1..n : c # i <=> \E j \in 1..Len(r) : g[j] = c
  <2>1. ASSUME NEW c \in 1..n, c # i PROVE \E j \in 1..Len(r) : g[j] = c
    <3>1. c < i => c \in 1..Len(r) /\ g[c] = c
      BY <1>1, <1>2, <2>1
    <3>2. c > i => c - 1 \in 1..Len(r) /\ g[c - 1] = c
      BY <1>1, <1>2, <2>1
    <3>3. c < i \/ c > i
      BY <1>1, <2>1
    <3> QED
      BY <3>1, <3>2, <3>3
  <2>2. ASSUME NEW j \in 1..Len(r) PROVE g[j] # i
    BY <1>1, <1>2
  <2> QED
    BY <2>1, <2>2
<1> HIDE DEF r, g
<1>5. /\ WellColumns(r)
      /\ \A p : p \in Shown(r) <=> \E j \in 1..Len(r) : p \in Tiles(cs[g[j]])
  BY <1>2, <1>3, SomeColumns
<1>6. Shown(r) = Shown(cs) \ Tiles(cs[i])
  <2>1. ASSUME NEW p \in Shown(r) PROVE p \in Shown(cs) \ Tiles(cs[i])
    <3>1. PICK j \in 1..Len(r) : p \in Tiles(cs[g[j]])
      BY <1>5
    <3>2. g[j] \in 1..n /\ g[j] # i
      BY <1>3, <1>4
    <3> QED
      BY <3>1, <3>2, <1>1 DEF Shown
  <2>2. ASSUME NEW p \in Shown(cs), p \notin Tiles(cs[i]) PROVE p \in Shown(r)
    <3>1. PICK c \in 1..n : p \in Tiles(cs[c])
      BY DEF Shown
    <3>2. PICK j \in 1..Len(r) : g[j] = c
      BY <2>2, <3>1, <1>4
    <3> QED
      BY <3>1, <3>2, <1>5
  <2> QED
    BY <2>1, <2>2
<1> QED
  BY <1>2, <1>5, <1>6 DEF r

LEMMA InsertColumn ==
    ASSUME NEW cs, WellColumns(cs), NEW i \in 1..(Len(cs) + 1),
           NEW col, WellColumn(col), Tiles(col) \cap Shown(cs) = {}
    PROVE  /\ WellColumns(InsertAt(cs, i, col)) /\ Len(InsertAt(cs, i, col)) = Len(cs) + 1
           /\ Shown(InsertAt(cs, i, col)) = Shown(cs) \cup Tiles(col)
<1> DEFINE r == InsertAt(cs, i, col)
           n == Len(cs)
           from(j) == IF j < i THEN j ELSE j - 1
<1>1. /\ cs \in Seq(Columns(Pane)) /\ n \in Nat /\ i \in 1..(n + 1) /\ col \in Columns(Pane)
      /\ \A c \in 1..n : WellColumn(cs[c])
      /\ \A c, d \in 1..n : \A p \in Tiles(cs[c]) : p \in Tiles(cs[d]) => c = d
      /\ \A c \in 1..n : \A p \in Tiles(cs[c]) : p \notin Tiles(col)
  <2>1. \A c \in 1..n : \A p \in Tiles(cs[c]) : p \in Shown(cs)
    BY DEF Shown
  <2>2. cs \in Seq(Columns(Pane)) /\ n \in Nat /\ col \in Columns(Pane)
    BY LenProperties DEF WellColumns, WellColumn
  <2> QED
    BY <2>1, <2>2 DEF WellColumns
<1>2. /\ r \in Seq(Columns(Pane)) /\ Len(r) = n + 1
      /\ \A j \in 1..(n + 1) :
           r[j] = IF j < i THEN cs[j] ELSE IF j = i THEN col ELSE cs[j - 1]
  BY <1>1, InsertAtProperties
<1> HIDE DEF r
<1>3. r[i] = col /\ i \in 1..Len(r)
  BY <1>1, <1>2
<1>4. \A j \in 1..Len(r) : j # i => from(j) \in 1..n /\ r[j] = cs[from(j)]
  BY <1>1, <1>2
<1>5. \A j, k \in 1..Len(r) : j # i /\ k # i /\ from(j) = from(k) => j = k
  BY <1>1, <1>2
<1>6. \A c \in 1..n : \E j \in 1..Len(r) : j # i /\ from(j) = c
  <2> SUFFICES ASSUME NEW c \in 1..n PROVE \E j \in 1..Len(r) : j # i /\ from(j) = c
    OBVIOUS
  <2>1. c < i => c \in 1..Len(r) /\ c # i /\ from(c) = c
    BY <1>1, <1>2
  <2>2. ~(c < i) => c + 1 \in 1..Len(r) /\ c + 1 # i /\ from(c + 1) = c
    BY <1>1, <1>2
  <2> QED
    BY <2>1, <2>2
<1> HIDE DEF from
<1>7. \A j \in 1..Len(r) : WellColumn(r[j])
  BY <1>1, <1>3, <1>4
<1>8. ASSUME NEW j \in 1..Len(r), NEW k \in 1..Len(r),
             NEW p \in Tiles(r[j]), p \in Tiles(r[k])
      PROVE  j = k
  BY <1>1, <1>3, <1>4, <1>5, <1>8
<1>9. WellColumns(r)
  BY <1>2, <1>7, <1>8 DEF WellColumns
<1>10. Shown(r) = Shown(cs) \cup Tiles(col)
  <2>1. ASSUME NEW p \in Shown(r) PROVE p \in Shown(cs) \cup Tiles(col)
    <3>1. PICK j \in 1..Len(r) : p \in Tiles(r[j])
      BY DEF Shown
    <3> QED
      BY <3>1, <1>3, <1>4 DEF Shown
  <2>2. ASSUME NEW p \in Shown(cs) PROVE p \in Shown(r)
    <3>1. PICK c \in 1..n : p \in Tiles(cs[c])
      BY DEF Shown
    <3>2. PICK j \in 1..Len(r) : j # i /\ from(j) = c
      BY <1>6
    <3> QED
      BY <3>1, <3>2, <1>4 DEF Shown
  <2>3. ASSUME NEW p \in Tiles(col) PROVE p \in Shown(r)
    BY <1>3 DEF Shown
  <2> QED
    BY <2>1, <2>2, <2>3
<1> QED
  BY <1>2, <1>9, <1>10 DEF r

\* Another column in the place of the i-th.
LEMMA ReplaceColumn ==
    ASSUME NEW cs, WellColumns(cs), NEW i \in 1..Len(cs),
           NEW col, WellColumn(col), Tiles(col) \cap (Shown(cs) \ Tiles(cs[i])) = {}
    PROVE  /\ WellColumns([cs EXCEPT ![i] = col]) /\ Len([cs EXCEPT ![i] = col]) = Len(cs)
           /\ Shown([cs EXCEPT ![i] = col]) = (Shown(cs) \ Tiles(cs[i])) \cup Tiles(col)
<1> DEFINE r == [cs EXCEPT ![i] = col]
           n == Len(cs)
<1>1. /\ cs \in Seq(Columns(Pane)) /\ n \in Nat /\ i \in 1..n /\ col \in Columns(Pane)
      /\ \A c \in 1..n : WellColumn(cs[c])
      /\ \A c, d \in 1..n : \A p \in Tiles(cs[c]) : p \in Tiles(cs[d]) => c = d
  BY LenProperties DEF WellColumns, WellColumn
<1>2. /\ r \in Seq(Columns(Pane)) /\ Len(r) = n
      /\ \A j \in 1..n : r[j] = IF j = i THEN col ELSE cs[j]
  BY <1>1, ExceptSeq
<1>3. \A c \in 1..n : \A p \in Tiles(cs[c]) : c # i => p \notin Tiles(col)
  BY <1>1 DEF Shown
<1> HIDE DEF r
<1>4. WellColumns(r)
  BY <1>1, <1>2, <1>3 DEF WellColumns
<1>5. Shown(r) = (Shown(cs) \ Tiles(cs[i])) \cup Tiles(col)
  <2>1. ASSUME NEW p \in Shown(r) PROVE p \in (Shown(cs) \ Tiles(cs[i])) \cup Tiles(col)
    <3>1. PICK j \in 1..n : p \in Tiles(r[j])
      BY <1>2 DEF Shown
    <3> QED
      BY <3>1, <1>1, <1>2 DEF Shown
  <2>2. ASSUME NEW p \in Shown(cs), p \notin Tiles(cs[i]) PROVE p \in Shown(r)
    <3>1. PICK j \in 1..n : p \in Tiles(cs[j])
      BY DEF Shown
    <3> QED
      BY <3>1, <2>2, <1>2 DEF Shown
  <2>3. ASSUME NEW p \in Tiles(col) PROVE p \in Shown(r)
    BY <1>1, <1>2 DEF Shown
  <2> QED
    BY <2>1, <2>2, <2>3
<1> QED
  BY <1>2, <1>4, <1>5 DEF r

LEMMA SwapColumns ==
    ASSUME NEW cs, WellColumns(cs), NEW i \in 1..Len(cs), NEW j \in 1..Len(cs)
    PROVE  /\ WellColumns([cs EXCEPT ![i] = cs[j], ![j] = cs[i]])
           /\ Len([cs EXCEPT ![i] = cs[j], ![j] = cs[i]]) = Len(cs)
           /\ Shown([cs EXCEPT ![i] = cs[j], ![j] = cs[i]]) = Shown(cs)
<1> DEFINE r == [cs EXCEPT ![i] = cs[j], ![j] = cs[i]]
           n == Len(cs)
           g == [k \in 1..n |-> IF k = j THEN i ELSE IF k = i THEN j ELSE k]
<1>1. /\ cs \in Seq(Columns(Pane)) /\ n \in Nat /\ i \in 1..n /\ j \in 1..n
      /\ DOMAIN cs = 1..n /\ \A k \in 1..n : cs[k] \in Columns(Pane)
  BY LenProperties, ElementOfSeq DEF WellColumns
<1>2. /\ r \in Seq(Columns(Pane)) /\ Len(r) = n
      /\ \A k \in 1..n : r[k] = IF k = j THEN cs[i] ELSE IF k = i THEN cs[j] ELSE cs[k]
  <2>1. r = [k \in 1..n |-> IF k = j THEN cs[i] ELSE IF k = i THEN cs[j] ELSE cs[k]]
    BY <1>1
  <2> QED
    BY <2>1, <1>1
<1>3. /\ g \in [1..Len(r) -> 1..n]
      /\ \A k \in 1..Len(r) : r[k] = cs[g[k]]
      /\ \A k, l \in 1..Len(r) : g[k] = g[l] => k = l
      /\ \A k \in 1..n : g[g[k]] = k
  BY <1>1, <1>2
<1> HIDE DEF r, g
<1>4. /\ WellColumns(r)
      /\ \A p : p \in Shown(r) <=> \E k \in 1..Len(r) : p \in Tiles(cs[g[k]])
  BY <1>2, <1>3, SomeColumns
<1>5. \A k \in 1..n : g[k] \in 1..n
  BY <1>2, <1>3
<1>6. \A p : (\E k \in 1..n : p \in Tiles(cs[g[k]])) <=> \E k \in 1..n : p \in Tiles(cs[k])
  BY <1>3, <1>5
<1>7. Shown(r) = Shown(cs)
  BY <1>2, <1>4, <1>6 DEF Shown
<1> QED
  BY <1>2, <1>4, <1>7 DEF r

-----------------------------------------------------------------------------
(* One workspace.                                                          *)

Rows == [columns : Seq(Columns(Pane)), active : Nat \ {0}]

\* A workspace has well-formed columns and, if any, an active one.
WellWorkspace(ws) ==
    /\ ws \in Rows
    /\ WellColumns(ws.columns)
    /\ Blank(ws) \/ ws.active \in 1..Len(ws.columns)

PanesIn(ws) == Shown(ws.columns)

LEMMA WorkspaceType ==
    ASSUME NEW ws, WellWorkspace(ws)
    PROVE  /\ ws.columns \in Seq(Columns(Pane)) /\ Len(ws.columns) \in Nat
           /\ DOMAIN ws.columns = 1..Len(ws.columns)
           /\ ws.active \in Nat \ {0}
           /\ ws = [columns |-> ws.columns, active |-> ws.active]
           /\ Blank(ws) <=> Len(ws.columns) = 0
           /\ WellColumns(ws.columns)
           /\ ~Blank(ws) => ws.active \in 1..Len(ws.columns)
<1>1. /\ ws.columns \in Seq(Columns(Pane)) /\ ws.active \in Nat \ {0}
      /\ ws = [columns |-> ws.columns, active |-> ws.active]
  BY DEF WellWorkspace, Rows
<1>2. Blank(ws) <=> Len(ws.columns) = 0
  BY <1>1, EmptySeq DEF Blank
<1> QED
  BY <1>1, <1>2, LenProperties DEF WellWorkspace

LEMMA MakeWorkspace ==
    ASSUME NEW cs, WellColumns(cs), NEW a \in Nat \ {0}, Len(cs) # 0 => a \in 1..Len(cs)
    PROVE  /\ WellWorkspace([columns |-> cs, active |-> a])
           /\ PanesIn([columns |-> cs, active |-> a]) = Shown(cs)
<1>1. cs \in Seq(Columns(Pane)) /\ (Len(cs) = 0 => cs = <<>>)
  BY EmptySeq DEF WellColumns
<1> QED
  BY <1>1 DEF WellWorkspace, Rows, Blank, PanesIn

LEMMA NoColumns == WellColumns(<<>>) /\ Shown(<<>>) = {}
BY EmptySeq DEF WellColumns, Shown

LEMMA NewWorkspaceWell ==
    /\ WellWorkspace(NewWorkspace) /\ Blank(NewWorkspace) /\ PanesIn(NewWorkspace) = {}
<1>1. Len(<<>>) = 0
  OBVIOUS
<1> QED
  BY <1>1, NoColumns, MakeWorkspace DEF NewWorkspace, Blank

LEMMA AddColumnRightWell ==
    ASSUME NEW ws, WellWorkspace(ws), NEW p \in Pane, p \notin PanesIn(ws)
    PROVE  /\ WellWorkspace(AddColumnRight(ws, p)) /\ ~Blank(AddColumnRight(ws, p))
           /\ PanesIn(AddColumnRight(ws, p)) = PanesIn(ws) \cup {p}
<1> DEFINE cs == ws.columns
           i == IF Blank(ws) THEN 1 ELSE ws.active + 1
           r == InsertAt(cs, i, NewColumn(p))
<1>1. i \in 1..(Len(cs) + 1) /\ i \in Nat \ {0} /\ WellColumns(cs) /\ Len(cs) \in Nat
  BY WorkspaceType
<1>2. WellColumn(NewColumn(p)) /\ Tiles(NewColumn(p)) = {p}
  BY NewColumnWell
<1>3. p \notin Shown(cs)
  BY DEF PanesIn
<1>4. AddColumnRight(ws, p) = [columns |-> r, active |-> i]
  BY DEF AddColumnRight, PutColumn
<1> HIDE DEF i, cs
<1>5. WellColumns(r) /\ Len(r) = Len(cs) + 1 /\ Shown(r) = Shown(cs) \cup {p}
  BY <1>1, <1>2, <1>3, InsertColumn
<1> HIDE DEF r
<1>6. /\ WellWorkspace([columns |-> r, active |-> i])
      /\ PanesIn([columns |-> r, active |-> i]) = Shown(r)
  BY <1>1, <1>5, MakeWorkspace
<1>7. ~Blank([columns |-> r, active |-> i])
  BY <1>1, <1>5, EmptySeq DEF Blank
<1> QED
  BY <1>4, <1>5, <1>6, <1>7 DEF PanesIn, cs

\* Columns of which the active one is replaced.
LEMMA ReplaceActive ==
    ASSUME NEW ws, WellWorkspace(ws), NEW i \in 1..Len(ws.columns),
           NEW col, WellColumn(col),
           Tiles(col) \cap (PanesIn(ws) \ Tiles(ws.columns[i])) = {}
    PROVE  /\ WellWorkspace([ws EXCEPT !.columns[i] = col])
           /\ ~Blank([ws EXCEPT !.columns[i] = col])
           /\ PanesIn([ws EXCEPT !.columns[i] = col]) =
                (PanesIn(ws) \ Tiles(ws.columns[i])) \cup Tiles(col)
<1> DEFINE cs == ws.columns
           r == [cs EXCEPT ![i] = col]
<1>1. /\ WellColumns(cs) /\ Len(cs) \in Nat /\ i \in 1..Len(cs)
      /\ ws.active \in Nat \ {0} /\ (Len(cs) # 0 => ws.active \in 1..Len(cs))
      /\ ws = [columns |-> cs, active |-> ws.active]
  BY WorkspaceType
<1>2. [ws EXCEPT !.columns[i] = col] = [columns |-> r, active |-> ws.active]
  BY <1>1
<1>3. Tiles(col) \cap (Shown(cs) \ Tiles(cs[i])) = {}
  BY DEF PanesIn
<1> HIDE DEF cs
<1>4. WellColumns(r) /\ Len(r) = Len(cs) /\ Shown(r) = (Shown(cs) \ Tiles(cs[i])) \cup Tiles(col)
  BY <1>1, <1>3, ReplaceColumn
<1> HIDE DEF r
<1>5. /\ WellWorkspace([columns |-> r, active |-> ws.active])
      /\ PanesIn([columns |-> r, active |-> ws.active]) = Shown(r)
  BY <1>1, <1>4, MakeWorkspace
<1>6. ~Blank([columns |-> r, active |-> ws.active])
  BY <1>1, <1>4, EmptySeq DEF Blank
<1> QED
  BY <1>2, <1>4, <1>5, <1>6 DEF PanesIn, cs

LEMMA ColumnOf ==
    ASSUME NEW ws, WellWorkspace(ws), NEW i \in 1..Len(ws.columns)
    PROVE  /\ WellColumn(ws.columns[i]) /\ Tiles(ws.columns[i]) \subseteq PanesIn(ws)
           /\ \A j \in 1..Len(ws.columns) : j # i =>
                Tiles(ws.columns[i]) \cap Tiles(ws.columns[j]) = {}
<1>1. WellColumns(ws.columns)
  BY WorkspaceType
<1> QED
  BY <1>1 DEF WellColumns, PanesIn, Shown

LEMMA AddTileWell ==
    ASSUME NEW ws, WellWorkspace(ws), NEW p \in Pane, p \notin PanesIn(ws)
    PROVE  /\ WellWorkspace(AddTile(ws, p)) /\ ~Blank(AddTile(ws, p))
           /\ PanesIn(AddTile(ws, p)) = PanesIn(ws) \cup {p}
<1>1. CASE Blank(ws)
  BY <1>1, AddColumnRightWell DEF AddTile
<1>2. CASE ~Blank(ws)
  <2> DEFINE i == ws.active
             col == ws.columns[i]
             new == PushTile(col, p)
  <2>1. i \in 1..Len(ws.columns)
    BY <1>2, WorkspaceType
  <2>2. WellColumn(col) /\ Tiles(col) \subseteq PanesIn(ws)
    BY <2>1, ColumnOf
  <2>3. WellColumn(new) /\ Tiles(new) = Tiles(col) \cup {p}
    BY <2>2, PushTileWell
  <2>4. AddTile(ws, p) = [ws EXCEPT !.columns[i] = new]
    BY <1>2, <2>1, WorkspaceType DEF AddTile
  <2> HIDE DEF new
  <2>5. Tiles(new) \cap (PanesIn(ws) \ Tiles(ws.columns[i])) = {}
    BY <2>3
  <2> HIDE DEF i
  <2>6. /\ WellWorkspace([ws EXCEPT !.columns[i] = new])
        /\ ~Blank([ws EXCEPT !.columns[i] = new])
        /\ PanesIn([ws EXCEPT !.columns[i] = new]) =
             (PanesIn(ws) \ Tiles(ws.columns[i])) \cup Tiles(new)
    BY <2>1, <2>3, <2>5, ReplaceActive
  <2> QED
    BY <2>2, <2>3, <2>4, <2>6
<1> QED
  BY <1>1, <1>2

LEMMA SwapColumnWell ==
    ASSUME NEW ws, WellWorkspace(ws), NEW i \in Int
    PROVE  WellWorkspace(SwapColumn(ws, i)) /\ PanesIn(SwapColumn(ws, i)) = PanesIn(ws)
<1> DEFINE cs == ws.columns
           a == ws.active
           r == [cs EXCEPT ![i] = cs[a], ![a] = cs[i]]
<1>1. /\ WellColumns(cs) /\ Len(cs) \in Nat /\ DOMAIN cs = 1..Len(cs)
      /\ Len(cs) # 0 => a \in 1..Len(cs)
  BY WorkspaceType
<1>2. CASE i \notin 1..Len(cs)
  BY <1>1, <1>2 DEF SwapColumn
<1>3. CASE i \in 1..Len(cs)
  <2>1. SwapColumn(ws, i) = [columns |-> r, active |-> i]
    BY <1>1, <1>3 DEF SwapColumn
  <2>2. a \in 1..Len(cs) /\ i \in Nat \ {0}
    BY <1>1, <1>3
  <2>3. PanesIn(ws) = Shown(cs)
    BY DEF PanesIn
  <2> HIDE DEF cs, a
  <2>4. WellColumns(r) /\ Len(r) = Len(cs) /\ Shown(r) = Shown(cs)
    BY <1>1, <1>3, <2>2, SwapColumns
  <2> HIDE DEF r
  <2>5. /\ WellWorkspace([columns |-> r, active |-> i])
        /\ PanesIn([columns |-> r, active |-> i]) = Shown(r)
    BY <1>3, <2>2, <2>4, MakeWorkspace
  <2> QED
    BY <2>1, <2>3, <2>4, <2>5
<1> QED
  BY <1>2, <1>3

\* Closing a pane takes it away, wherever it is, and nothing else.
LEMMA CloseInWell ==
    ASSUME NEW ws, WellWorkspace(ws), NEW p
    PROVE  WellWorkspace(CloseIn(ws, p)) /\ PanesIn(CloseIn(ws, p)) = PanesIn(ws) \ {p}
<1> DEFINE cs == ws.columns
           C == {c \in DOMAIN cs : Contains(cs[c].tiles, p)}
           c == CHOOSE x \in C : TRUE
           tiles == cs[c].tiles
           t == CHOOSE x \in DOMAIN tiles : tiles[x] = p
           new == TakeTile(cs[c], t)
           rest == RemoveAt(cs, c)
           a == Clamp(ws.active, Len(cs) - 1)
<1>1. /\ WellColumns(cs) /\ Len(cs) \in Nat /\ DOMAIN cs = 1..Len(cs)
      /\ ws.active \in Nat \ {0} /\ (Len(cs) # 0 => ws.active \in 1..Len(cs))
      /\ ws = [columns |-> cs, active |-> ws.active]
  BY WorkspaceType
<1>2. \A x : x \in C <=> x \in 1..Len(cs) /\ p \in Tiles(cs[x])
  BY <1>1 DEF Contains, Tiles
<1>3. CloseIn(ws, p) =
        IF C = {} THEN ws
        ELSE IF Len(tiles) > 1 THEN [ws EXCEPT !.columns[c] = new]
             ELSE [columns |-> rest, active |-> a]
  BY <1>1 DEF CloseIn
<1>4. CASE C = {}
  <2>1. p \notin PanesIn(ws)
    BY <1>2, <1>4 DEF PanesIn, Shown
  <2> QED
    BY <2>1, <1>3, <1>4
<1>5. CASE C # {}
  <2>1. c \in C
    BY <1>5
  <2>2. c \in 1..Len(cs) /\ p \in Tiles(cs[c])
    BY <2>1, <1>2
  <2>3. WellColumn(cs[c]) /\ Tiles(cs[c]) \subseteq PanesIn(ws)
    BY <2>2, ColumnOf
  <2>4. /\ tiles \in Seq(Pane) /\ DOMAIN tiles = 1..Len(tiles) /\ Len(tiles) \in Nat
        /\ \A x, y \in 1..Len(tiles) : tiles[x] = tiles[y] => x = y
    BY <2>3, ColumnType DEF WellColumn
  <2>5. t \in 1..Len(tiles) /\ tiles[t] = p
    BY <2>2, <2>4 DEF Tiles
  <2>6. PanesIn(ws) = Shown(cs)
    BY DEF PanesIn
  <2> HIDE DEF C, cs, c, t
  <2>7. CASE Len(tiles) > 1
    <3>1. WellColumn(new) /\ Tiles(new) = Tiles(cs[c]) \ {p}
      BY <2>3, <2>5, <2>7, TakeTileWell
    <3>2. CloseIn(ws, p) = [ws EXCEPT !.columns[c] = new]
      BY <1>3, <1>5, <2>7
    <3> HIDE DEF new
    <3>3. Tiles(new) \cap (PanesIn(ws) \ Tiles(ws.columns[c])) = {}
          /\ c \in 1..Len(ws.columns)
      BY <3>1, <2>2 DEF cs
    <3>4. /\ WellWorkspace([ws EXCEPT !.columns[c] = new])
          /\ PanesIn([ws EXCEPT !.columns[c] = new]) =
               (PanesIn(ws) \ Tiles(ws.columns[c])) \cup Tiles(new)
      BY <3>1, <3>3, ReplaceActive
    <3> QED
      BY <3>1, <3>2, <3>4, <2>2, <2>3 DEF cs
  <2>8. CASE ~(Len(tiles) > 1)
    <3>1. Tiles(cs[c]) = {p}
      <4>1. Len(tiles) \in Nat /\ t \in 1..Len(tiles) /\ ~(Len(tiles) > 1)
        BY <2>4, <2>5, <2>8
      <4>2. \A n \in Nat : \A x \in 1..n : ~(n > 1) => n = 1 /\ x = 1
        OBVIOUS
      <4>3. Len(tiles) = 1 /\ t = 1
        BY <4>1, <4>2
      <4> QED
        BY <4>3, <2>5 DEF Tiles
    <3>2. CloseIn(ws, p) = [columns |-> rest, active |-> a]
      BY <1>3, <1>5, <2>8
    <3>3. WellColumns(rest) /\ Len(rest) = Len(cs) - 1 /\ Shown(rest) = Shown(cs) \ {p}
      BY <3>1, <1>1, <2>2, RemoveColumn
    <3>4. Len(cs) - 1 \in Nat
      BY <1>1, <2>2
    <3>5. a \in Nat \ {0} /\ (Len(cs) - 1 # 0 => a \in 1..(Len(cs) - 1))
      BY <3>4, <1>1, ClampProperties
    <3> HIDE DEF rest, a
    <3>6. /\ WellWorkspace([columns |-> rest, active |-> a])
          /\ PanesIn([columns |-> rest, active |-> a]) = Shown(rest)
      BY <3>3, <3>5, MakeWorkspace
    <3> QED
      BY <3>2, <3>3, <3>6, <2>6
  <2> QED
    BY <2>7, <2>8
<1> QED
  BY <1>4, <1>5

LEMMA PutColumnWell ==
    ASSUME NEW ws, WellWorkspace(ws), NEW i \in 1..(Len(ws.columns) + 1),
           NEW col, WellColumn(col), Tiles(col) \cap PanesIn(ws) = {}
    PROVE  /\ WellWorkspace(PutColumn(ws, i, col))
           /\ PanesIn(PutColumn(ws, i, col)) = PanesIn(ws) \cup Tiles(col)
<1> DEFINE cs == ws.columns
           r == InsertAt(cs, i, col)
<1>1. WellColumns(cs) /\ Len(cs) \in Nat /\ i \in 1..(Len(cs) + 1) /\ i \in Nat \ {0}
  BY WorkspaceType
<1>2. Tiles(col) \cap Shown(cs) = {} /\ PanesIn(ws) = Shown(cs)
  BY DEF PanesIn
<1>3. PutColumn(ws, i, col) = [columns |-> r, active |-> i]
  BY DEF PutColumn
<1> HIDE DEF cs
<1>4. WellColumns(r) /\ Len(r) = Len(cs) + 1 /\ Shown(r) = Shown(cs) \cup Tiles(col)
  BY <1>1, <1>2, InsertColumn
<1> HIDE DEF r
<1>5. /\ WellWorkspace([columns |-> r, active |-> i])
      /\ PanesIn([columns |-> r, active |-> i]) = Shown(r)
  BY <1>1, <1>4, MakeWorkspace
<1> QED
  BY <1>2, <1>3, <1>4, <1>5

LEMMA ConsumeRightWell ==
    ASSUME NEW ws, WellWorkspace(ws)
    PROVE  WellWorkspace(ConsumeRight(ws)) /\ PanesIn(ConsumeRight(ws)) = PanesIn(ws)
<1> DEFINE cs == ws.columns
           a == ws.active
           right == cs[a + 1]
           tile == right.tiles[right.active]
           rest == TakeTile(right, right.active)
           push == PushTile(cs[a], tile)
           joined == [cs EXCEPT ![a] = push]
<1>1. /\ WellColumns(cs) /\ Len(cs) \in Nat /\ DOMAIN cs = 1..Len(cs)
      /\ cs \in Seq(Columns(Pane))
      /\ a \in Nat \ {0} /\ (Len(cs) # 0 => a \in 1..Len(cs))
      /\ ws = [columns |-> cs, active |-> a]
      /\ PanesIn(ws) = Shown(cs)
  BY WorkspaceType DEF PanesIn
<1>2. CASE a + 1 > Len(cs)
  BY <1>2 DEF ConsumeRight
<1>3. CASE ~(a + 1 > Len(cs))
  <2>1. a \in 1..Len(cs) /\ a + 1 \in 1..Len(cs) /\ a + 1 # a
    BY <1>1, <1>3
  <2>2. /\ WellColumn(right) /\ WellColumn(cs[a])
        /\ Tiles(right) \subseteq Shown(cs) /\ Tiles(cs[a]) \subseteq Shown(cs)
        /\ Tiles(right) \cap Tiles(cs[a]) = {}
    BY <1>1, <2>1, ColumnOf
  <2>3. /\ right.active \in 1..Len(right.tiles)
        /\ tile \in Pane /\ tile \in Tiles(right)
        /\ right.tiles \in Seq(Pane) /\ Len(right.tiles) \in Nat
    BY <2>2, ColumnType DEF WellColumn, Tiles
  <2>4. /\ Tiles(rest) = Tiles(right) \ {tile}
        /\ Len(rest.tiles) = Len(right.tiles) - 1
        /\ Len(right.tiles) > 1 => WellColumn(rest)
    BY <2>2, <2>3, TakeTileWell
  <2>5. WellColumn(push) /\ Tiles(push) = Tiles(cs[a]) \cup {tile} /\ push \in Columns(Pane)
    <3>1. tile \notin Tiles(cs[a])
      BY <2>2, <2>3
    <3>2. WellColumn(push) /\ Tiles(push) = Tiles(cs[a]) \cup {tile}
      BY <3>1, <2>2, <2>3, PushTileWell
    <3> QED
      BY <3>2 DEF WellColumn
  <2>6. ConsumeRight(ws) =
          [columns |-> IF rest.tiles = <<>> THEN RemoveAt(joined, a + 1)
                       ELSE [joined EXCEPT ![a + 1] = rest],
           active |-> a]
    BY <1>1, <1>3 DEF ConsumeRight
  <2>7. right.tiles \in Seq(Pane) => rest.tiles = RemoveAt(right.tiles, right.active)
    BY DEF TakeTile
  <2>8. Tiles(right) = {right.tiles[x] : x \in 1..Len(right.tiles)}
    BY DEF Tiles
  <2> HIDE DEF cs, a, right, tile, rest, push
  <2>9. /\ joined \in Seq(Columns(Pane)) /\ Len(joined) = Len(cs)
        /\ \A j \in 1..Len(cs) : joined[j] = IF j = a THEN push ELSE cs[j]
    BY <1>1, <2>1, <2>5, ExceptSeq
  <2>10. CASE rest.tiles = <<>>
    <3> DEFINE r == RemoveAt(joined, a + 1)
               rs == RemoveAt(cs, a + 1)
               q == [rs EXCEPT ![a] = push]
    <3>1. ConsumeRight(ws) = [columns |-> r, active |-> a]
      BY <2>6, <2>10
    <3>2. Tiles(right) = {tile}
      <4>1. Tiles(rest) = {}
        BY <2>10, EmptySeq DEF Tiles
      <4> QED
        BY <4>1, <2>3, <2>4
    <3>3. WellColumns(rs) /\ Len(rs) = Len(cs) - 1 /\ Shown(rs) = Shown(cs) \ {tile}
      BY <3>2, <1>1, <2>1, RemoveColumn DEF right
    <3>4. \A j \in 1..(Len(cs) - 1) : rs[j] = IF j < a + 1 THEN cs[j] ELSE cs[j + 1]
      BY <1>1, <2>1, RemoveAtProperties
    <3> HIDE DEF joined
    <3>5. rs[a] = cs[a] /\ a \in 1..Len(rs)
      BY <1>1, <2>1, <3>3, <3>4
    <3>6. /\ r \in Seq(Columns(Pane)) /\ Len(r) = Len(cs) - 1
          /\ \A j \in 1..(Len(cs) - 1) : r[j] = IF j < a + 1 THEN joined[j] ELSE joined[j + 1]
      BY <2>1, <2>9, RemoveAtProperties
    <3> HIDE DEF rs, joined, r
    <3>7. Tiles(push) \cap (Shown(rs) \ Tiles(rs[a])) = {}
      BY <3>3, <3>5, <2>5
    <3>8. /\ WellColumns(q) /\ Len(q) = Len(rs)
          /\ Shown(q) = (Shown(rs) \ Tiles(rs[a])) \cup Tiles(push)
      BY <3>3, <3>5, <3>7, <2>5, ReplaceColumn
    <3>9. q \in Seq(Columns(Pane)) /\ \A j \in 1..Len(rs) : q[j] = IF j = a THEN push ELSE rs[j]
      BY <3>3, <3>5, <2>5, ExceptSeq DEF WellColumns
    <3> HIDE DEF q
    <3>10. r = q
      <4>1. Len(r) = Len(q)
        BY <3>3, <3>6, <3>8
      <4>2. ASSUME NEW j \in 1..Len(r) PROVE r[j] = q[j]
        <5>1. j \in 1..(Len(cs) - 1) /\ j \in 1..Len(cs) /\ j + 1 \in 1..Len(cs)
              /\ j \in 1..Len(rs) /\ (j < a + 1 \/ j + 1 # a)
          BY <3>3, <3>6, <1>1, <2>1
        <5>2. CASE j < a + 1
          BY <5>1, <5>2, <3>4, <3>6, <3>9, <2>9
        <5>3. CASE ~(j < a + 1)
          <6>1. j # a /\ j + 1 # a
            BY <5>1, <5>3, <1>1
          <6> QED
            BY <6>1, <5>1, <5>3, <3>4, <3>6, <3>9, <2>9
        <5> QED
          BY <5>2, <5>3
      <4> QED
        BY <4>1, <4>2, <3>6, <3>9, SeqEqual
    <3>11. Shown(q) = Shown(cs)
      BY <3>3, <3>5, <3>8, <2>2, <2>3, <2>5
    <3>12. /\ WellWorkspace([columns |-> q, active |-> a])
           /\ PanesIn([columns |-> q, active |-> a]) = Shown(q)
      BY <1>1, <3>5, <3>8, MakeWorkspace
    <3> QED
      BY <3>1, <3>10, <3>11, <3>12, <1>1
  <2>11. CASE rest.tiles # <<>>
    <3> DEFINE rs == [cs EXCEPT ![a + 1] = rest]
               q == [rs EXCEPT ![a] = push]
    <3>1. Len(right.tiles) > 1
      <4>1. rest.tiles \in Seq(Pane)
        BY <2>3, <2>7, RemoveAtProperties
      <4>2. Len(rest.tiles) # 0 /\ Len(rest.tiles) \in Nat
        BY <4>1, <2>11, EmptySeq
      <4>3. Len(rest.tiles) = Len(right.tiles) - 1 /\ Len(right.tiles) \in Nat
        BY <2>3, <2>4
      <4>4. \A m, n \in Nat : m = n - 1 /\ m # 0 => n > 1
        OBVIOUS
      <4> QED
        BY <4>2, <4>3, <4>4
    <3>2. WellColumn(rest) /\ rest \in Columns(Pane)
      BY <3>1, <2>4 DEF WellColumn
    <3>3. ConsumeRight(ws) = [columns |-> q, active |-> a]
      <4>1. [joined EXCEPT ![a + 1] = rest] = q
        BY <1>1, <2>1
      <4> QED
        BY <4>1, <2>6, <2>11
    <3>4. Tiles(rest) = Tiles(cs[a + 1]) \ {tile} /\ Tiles(cs[a + 1]) \cap Tiles(cs[a]) = {}
          /\ tile \in Tiles(cs[a + 1]) /\ Tiles(cs[a + 1]) \subseteq Shown(cs)
      BY <2>2, <2>3, <2>4 DEF right
    <3>5. Tiles(rest) \cap (Shown(cs) \ Tiles(cs[a + 1])) = {}
      BY <3>4
    <3>6. /\ WellColumns(rs) /\ Len(rs) = Len(cs)
          /\ Shown(rs) = (Shown(cs) \ Tiles(cs[a + 1])) \cup Tiles(rest)
      BY <3>2, <3>5, <1>1, <2>1, ReplaceColumn
    <3>7. rs[a] = cs[a] /\ a \in 1..Len(rs)
      BY <1>1, <2>1, <3>2, <3>6, ExceptSeq
    <3> HIDE DEF rs
    <3>8. Tiles(push) \cap (Shown(rs) \ Tiles(rs[a])) = {}
      BY <3>6, <3>7, <3>4, <2>5
    <3>9. /\ WellColumns(q) /\ Len(q) = Len(rs)
          /\ Shown(q) = (Shown(rs) \ Tiles(rs[a])) \cup Tiles(push)
      <4>1. WellColumns(rs) /\ a \in 1..Len(rs) /\ WellColumn(push)
        BY <3>6, <3>7, <2>5
      <4> QED
        BY <4>1, <3>8, ReplaceColumn
    <3> HIDE DEF q
    <3>10. Shown(q) = Shown(cs)
      BY <3>6, <3>7, <3>9, <3>4, <2>2, <2>5
    <3>11. /\ WellWorkspace([columns |-> q, active |-> a])
           /\ PanesIn([columns |-> q, active |-> a]) = Shown(q)
      BY <1>1, <3>6, <3>7, <3>9, MakeWorkspace
    <3> QED
      BY <3>3, <3>10, <3>11, <1>1
  <2> QED
    BY <2>10, <2>11
<1> QED
  BY <1>2, <1>3

LEMMA ExpelTileWell ==
    ASSUME NEW ws, WellWorkspace(ws), ~Blank(ws)
    PROVE  WellWorkspace(ExpelTile(ws)) /\ PanesIn(ExpelTile(ws)) = PanesIn(ws)
<1> DEFINE a == ws.active
           col == ws.columns[a]
           tile == col.tiles[col.active]
           rest == TakeTile(col, col.active)
           left == [ws EXCEPT !.columns[a] = rest]
<1>1. a \in 1..Len(ws.columns) /\ Len(ws.columns) \in Nat
      /\ ws.columns \in Seq(Columns(Pane))
      /\ ws = [columns |-> ws.columns, active |-> a]
  BY WorkspaceType
<1>2. WellColumn(col) /\ Tiles(col) \subseteq PanesIn(ws)
  BY <1>1, ColumnOf
<1>3. col.active \in 1..Len(col.tiles) /\ Len(col.tiles) \in Nat
      /\ tile \in Pane /\ tile \in Tiles(col)
  BY <1>2, ColumnType DEF WellColumn, Tiles
<1>4. CASE Len(col.tiles) = 1
  BY <1>4 DEF ExpelTile
<1>5. CASE Len(col.tiles) # 1
  <2>1. WellColumn(rest) /\ Tiles(rest) = Tiles(col) \ {tile} /\ rest \in Columns(Pane)
    <3>1. Len(col.tiles) > 1
      <4>1. \A n \in Nat : \A x \in 1..n : n # 1 => n > 1
        OBVIOUS
      <4> QED
        BY <4>1, <1>3, <1>5
    <3>2. WellColumn(rest) /\ Tiles(rest) = Tiles(col) \ {tile}
      BY <3>1, <1>2, <1>3, TakeTileWell
    <3> QED
      BY <3>2 DEF WellColumn
  <2>2. ExpelTile(ws) = PutColumn(left, a + 1, NewColumn(tile))
    BY <1>5 DEF ExpelTile
  <2>3. Len(left.columns) = Len(ws.columns)
    BY <1>1, <2>1, ExceptSeq
  <2> HIDE DEF rest, tile, a
  <2>4. Tiles(rest) \cap (PanesIn(ws) \ Tiles(ws.columns[a])) = {}
    BY <2>1
  <2>5. /\ WellWorkspace(left)
        /\ PanesIn(left) = (PanesIn(ws) \ Tiles(ws.columns[a])) \cup Tiles(rest)
    BY <1>1, <2>1, <2>4, ReplaceActive
  <2> HIDE DEF left
  <2>6. a + 1 \in 1..(Len(left.columns) + 1)
    BY <1>1, <2>3
  <2>7. WellColumn(NewColumn(tile)) /\ Tiles(NewColumn(tile)) = {tile}
    BY <1>3, NewColumnWell
  <2>8. Tiles(NewColumn(tile)) \cap PanesIn(left) = {}
    BY <2>1, <2>5, <2>7, <1>3
  <2>9. /\ WellWorkspace(PutColumn(left, a + 1, NewColumn(tile)))
        /\ PanesIn(PutColumn(left, a + 1, NewColumn(tile)))
             = PanesIn(left) \cup Tiles(NewColumn(tile))
    BY <2>5, <2>6, <2>7, <2>8, PutColumnWell
  <2> QED
    BY <2>1, <2>2, <2>5, <2>7, <2>9, <1>2, <1>3
<1> QED
  BY <1>4, <1>5

\* What a restore makes of a workspace: its panes of S.
LEMMA RestoreWorkspaceWell ==
    ASSUME NEW ws, WellWorkspace(ws), NEW S
    PROVE  /\ WellWorkspace(RestoreWorkspace(ws, S))
           /\ PanesIn(RestoreWorkspace(ws, S)) = PanesIn(ws) \cap S
<1> DEFINE cs == ws.columns
           all == [c \in DOMAIN cs |-> RestoreColumn(cs[c], S)]
           K == {c \in DOMAIN all : all[c].tiles # <<>>}
           r == AtIndices(all, K)
           n == Len(r)
           a == Clamp(ws.active, n)
<1>1. /\ WellColumns(cs) /\ Len(cs) \in Nat /\ DOMAIN cs = 1..Len(cs)
      /\ ws.active \in Nat \ {0} /\ PanesIn(ws) = Shown(cs)
  BY WorkspaceType DEF PanesIn
<1>2. /\ \A c \in 1..Len(cs) : WellColumn(cs[c])
      /\ \A c, d \in 1..Len(cs) : \A p \in Tiles(cs[c]) : p \in Tiles(cs[d]) => c = d
  BY <1>1 DEF WellColumns
<1>3. \A c \in 1..Len(cs) :
        /\ all[c] \in Columns(Pane)
        /\ Tiles(all[c]) = Tiles(cs[c]) \cap S
        /\ all[c].tiles # <<>> => WellColumn(all[c])
  BY <1>1, <1>2, RestoreColumnWell
<1>4. RestoreWorkspace(ws, S) = [columns |-> r, active |-> a]
  BY DEF RestoreWorkspace
<1>5. all \in Seq(Columns(Pane)) /\ Len(all) = Len(cs) /\ DOMAIN all = 1..Len(cs)
  <2>1. all = [c \in 1..Len(cs) |-> RestoreColumn(cs[c], S)]
    BY <1>1
  <2>2. \A c \in 1..Len(cs) : RestoreColumn(cs[c], S) \in Columns(Pane)
    BY <1>2, RestoreColumnWell
  <2> HIDE DEF all, cs
  <2> QED
    BY <2>1, <2>2, <1>1
<1>6. K \in SUBSET (1..Len(all))
  BY <1>5
<1>7. \A c \in 1..Len(cs) : c \in K <=> all[c].tiles # <<>>
  BY <1>5
<1> HIDE DEF cs, all, K
<1>8. /\ r \in Seq(Columns(Pane)) /\ n \in Nat
      /\ \A i \in 1..n : Nth(K, i) \in K /\ r[i] = all[Nth(K, i)]
      /\ \A i, j \in 1..n : i < j => Nth(K, i) < Nth(K, j)
      /\ \A k \in K : Rank(K, k) \in 1..n /\ Nth(K, Rank(K, k)) = k
  <2> HIDE DEF a
  <2>1. /\ r \in Seq(Columns(Pane)) /\ n = Cardinality(K) /\ n \in Nat
    BY <1>5, <1>6, AtIndicesProperties
  <2>2. /\ \A i \in 1..Cardinality(K) : r[i] = all[Nth(K, i)] /\ Nth(K, i) \in K
        /\ \A i, j \in 1..Cardinality(K) : i < j => Nth(K, i) < Nth(K, j)
        /\ \A k \in K : Rank(K, k) \in 1..Cardinality(K) /\ Nth(K, Rank(K, k)) = k
    BY <1>5, <1>6, AtIndicesProperties
  <2> QED
    BY <2>1, <2>2
<1>9. \A i \in 1..n : Nth(K, i) \in 1..Len(cs)
  BY <1>5, <1>6, <1>8
<1> HIDE DEF r
<1>10. WellColumns(r)
  <2>1. \A i \in 1..n : WellColumn(r[i])
    BY <1>3, <1>7, <1>8, <1>9
  <2>2. ASSUME NEW i \in 1..n, NEW j \in 1..n,
               NEW p \in Tiles(r[i]), p \in Tiles(r[j])
        PROVE  i = j
    <3>1. p \in Tiles(cs[Nth(K, i)]) /\ p \in Tiles(cs[Nth(K, j)])
      BY <2>2, <1>3, <1>8, <1>9
    <3>2. Nth(K, i) = Nth(K, j) /\ Nth(K, i) \in Nat
      <4>1. Nth(K, i) \in 1..Len(cs) /\ Nth(K, j) \in 1..Len(cs)
        BY <1>9
      <4>2. Nth(K, i) = Nth(K, j)
        BY <3>1, <4>1, <1>2, Zenon
      <4> QED
        BY <4>1, <4>2
    <3>3. i \in Int /\ j \in Int
      OBVIOUS
    <3> QED
      BY <3>2, <3>3, <1>8
  <2> QED
    BY <2>1, <2>2, <1>8 DEF WellColumns
<1>11. Shown(r) = Shown(cs) \cap S
  <2>1. ASSUME NEW p \in Shown(r) PROVE p \in Shown(cs) \cap S
    <3>1. PICK i \in 1..n : p \in Tiles(r[i])
      BY DEF Shown
    <3>2. p \in Tiles(cs[Nth(K, i)]) \cap S
      BY <3>1, <1>3, <1>8, <1>9
    <3> QED
      BY <3>2, <1>9 DEF Shown
  <2>2. ASSUME NEW p \in Shown(cs) \cap S PROVE p \in Shown(r)
    <3>1. PICK c \in 1..Len(cs) : p \in Tiles(cs[c])
      BY DEF Shown
    <3>2. p \in Tiles(all[c])
      BY <3>1, <1>3
    <3>3. all[c].tiles # <<>>
      BY <3>2, EmptySeq DEF Tiles
    <3>4. PICK i \in 1..n : Nth(K, i) = c
      BY <3>3, <1>7, <1>8
    <3> QED
      BY <3>2, <3>4, <1>8 DEF Shown
  <2> QED
    BY <2>1, <2>2
<1>12. a \in Nat \ {0} /\ (n # 0 => a \in 1..n)
  BY <1>1, <1>8, ClampProperties
<1> HIDE DEF a
<1>13. /\ WellWorkspace([columns |-> r, active |-> a])
       /\ PanesIn([columns |-> r, active |-> a]) = Shown(r)
  BY <1>10, <1>12, MakeWorkspace
<1> QED
  BY <1>1, <1>4, <1>11, <1>13

-----------------------------------------------------------------------------
(* The workspaces of a layout.                                             *)

\* Well-formed workspaces that share no pane.
WellStack(s) ==
    /\ s \in Seq(Rows)
    /\ \A w \in 1..Len(s) : WellWorkspace(s[w])
    /\ \A v, w \in 1..Len(s) : \A p \in PanesIn(s[v]) : p \in PanesIn(s[w]) => v = w

AllIn(s) == UNION {PanesIn(s[w]) : w \in 1..Len(s)}

LEMMA StackType ==
    ASSUME NEW s, WellStack(s)
    PROVE  /\ s \in Seq(Rows) /\ Len(s) \in Nat /\ DOMAIN s = 1..Len(s)
           /\ \A w \in 1..Len(s) : WellWorkspace(s[w]) /\ s[w] \in Rows
                                   /\ PanesIn(s[w]) \subseteq AllIn(s)
BY LenProperties, ElementOfSeq DEF WellStack, AllIn

\* Another workspace in the place of the i-th.
LEMMA ReplaceWorkspace ==
    ASSUME NEW s, WellStack(s), NEW i \in 1..Len(s),
           NEW ws, WellWorkspace(ws), PanesIn(ws) \cap (AllIn(s) \ PanesIn(s[i])) = {}
    PROVE  /\ WellStack([s EXCEPT ![i] = ws]) /\ Len([s EXCEPT ![i] = ws]) = Len(s)
           /\ AllIn([s EXCEPT ![i] = ws]) = (AllIn(s) \ PanesIn(s[i])) \cup PanesIn(ws)
<1> DEFINE r == [s EXCEPT ![i] = ws]
           n == Len(s)
<1>1. /\ s \in Seq(Rows) /\ n \in Nat /\ i \in 1..n /\ ws \in Rows
      /\ \A w \in 1..n : WellWorkspace(s[w])
      /\ \A v, w \in 1..n : \A p \in PanesIn(s[v]) : p \in PanesIn(s[w]) => v = w
  BY LenProperties DEF WellStack, WellWorkspace
<1>2. /\ r \in Seq(Rows) /\ Len(r) = n
      /\ \A w \in 1..n : r[w] = IF w = i THEN ws ELSE s[w]
  BY <1>1, ExceptSeq
<1>3. \A w \in 1..n : \A p \in PanesIn(s[w]) : w # i => p \notin PanesIn(ws)
  BY <1>1 DEF AllIn
<1> HIDE DEF r
<1>4. WellStack(r)
  BY <1>1, <1>2, <1>3 DEF WellStack
<1>5. AllIn(r) = (AllIn(s) \ PanesIn(s[i])) \cup PanesIn(ws)
  <2>1. ASSUME NEW p \in AllIn(r) PROVE p \in (AllIn(s) \ PanesIn(s[i])) \cup PanesIn(ws)
    <3>1. PICK w \in 1..n : p \in PanesIn(r[w])
      BY <1>2 DEF AllIn
    <3> QED
      BY <3>1, <1>1, <1>2 DEF AllIn
  <2>2. ASSUME NEW p \in AllIn(s), p \notin PanesIn(s[i]) PROVE p \in AllIn(r)
    <3>1. PICK w \in 1..n : p \in PanesIn(s[w])
      BY DEF AllIn
    <3> QED
      BY <3>1, <2>2, <1>2 DEF AllIn
  <2>3. ASSUME NEW p \in PanesIn(ws) PROVE p \in AllIn(r)
    BY <1>1, <1>2 DEF AllIn
  <2> QED
    BY <2>1, <2>2, <2>3
<1> QED
  BY <1>2, <1>4, <1>5 DEF r

\* A new workspace at the end.
LEMMA AppendWorkspace ==
    ASSUME NEW s, WellStack(s), NEW ws, WellWorkspace(ws), PanesIn(ws) \cap AllIn(s) = {}
    PROVE  /\ WellStack(Append(s, ws)) /\ Len(Append(s, ws)) = Len(s) + 1
           /\ AllIn(Append(s, ws)) = AllIn(s) \cup PanesIn(ws)
           /\ \A w \in 1..Len(s) : Append(s, ws)[w] = s[w]
           /\ Append(s, ws)[Len(s) + 1] = ws
<1> DEFINE r == Append(s, ws)
           n == Len(s)
<1>1. /\ s \in Seq(Rows) /\ n \in Nat /\ ws \in Rows
      /\ \A w \in 1..n : WellWorkspace(s[w])
      /\ \A v, w \in 1..n : \A p \in PanesIn(s[v]) : p \in PanesIn(s[w]) => v = w
      /\ \A w \in 1..n : \A p \in PanesIn(s[w]) : p \notin PanesIn(ws)
  <2>1. \A w \in 1..n : PanesIn(s[w]) \subseteq AllIn(s)
    BY StackType
  <2> QED
    BY <2>1, LenProperties DEF WellStack, WellWorkspace
<1>2. /\ r \in Seq(Rows) /\ Len(r) = n + 1
      /\ \A w \in 1..n : r[w] = s[w]
      /\ r[n + 1] = ws
  BY <1>1, AppendProperties
<1>3. \A w \in 1..Len(r) : w \in 1..n \/ w = n + 1
  BY <1>1, <1>2
<1>4. \A w \in 1..n : w \in 1..Len(r) /\ w # n + 1
  BY <1>1, <1>2
<1>5. n + 1 \in 1..Len(r)
  BY <1>1, <1>2
<1> HIDE DEF r, n
<1>6. WellStack(r)
  <2>1. \A w \in 1..Len(r) : WellWorkspace(r[w])
    BY <1>1, <1>2, <1>3
  <2>2. ASSUME NEW v \in 1..Len(r), NEW w \in 1..Len(r),
               NEW p \in PanesIn(r[v]), p \in PanesIn(r[w])
        PROVE  v = w
    BY <2>2, <1>1, <1>2, <1>3
  <2> QED
    BY <2>1, <2>2, <1>2 DEF WellStack
<1>7. AllIn(r) = AllIn(s) \cup PanesIn(ws)
  <2>1. AllIn(s) = UNION {PanesIn(s[w]) : w \in 1..n}
    BY DEF AllIn, n
  <2>2. ASSUME NEW p \in AllIn(r) PROVE p \in AllIn(s) \cup PanesIn(ws)
    <3>1. PICK w \in 1..Len(r) : p \in PanesIn(r[w])
      BY DEF AllIn
    <3> QED
      BY <3>1, <2>1, <1>2, <1>3
  <2>3. ASSUME NEW p \in AllIn(s) PROVE p \in AllIn(r)
    <3>1. PICK w \in 1..n : p \in PanesIn(s[w])
      BY <2>1
    <3> QED
      BY <3>1, <1>2, <1>4 DEF AllIn
  <2>4. ASSUME NEW p \in PanesIn(ws) PROVE p \in AllIn(r)
    BY <1>2, <1>5 DEF AllIn
  <2> QED
    BY <2>2, <2>3, <2>4
<1> QED
  BY <1>2, <1>6, <1>7 DEF r, n

\* A new workspace at the top.
LEMMA PrependWorkspace ==
    ASSUME NEW s, WellStack(s), NEW ws, WellWorkspace(ws), PanesIn(ws) \cap AllIn(s) = {}
    PROVE  /\ WellStack(<<ws>> \o s) /\ Len(<<ws>> \o s) = Len(s) + 1
           /\ AllIn(<<ws>> \o s) = AllIn(s) \cup PanesIn(ws)
           /\ \A w \in 1..Len(s) : (<<ws>> \o s)[w + 1] = s[w]
           /\ (<<ws>> \o s)[1] = ws
<1> DEFINE r == <<ws>> \o s
           n == Len(s)
<1>1. /\ s \in Seq(Rows) /\ n \in Nat /\ ws \in Rows
      /\ \A w \in 1..n : WellWorkspace(s[w])
      /\ \A v, w \in 1..n : \A p \in PanesIn(s[v]) : p \in PanesIn(s[w]) => v = w
      /\ \A w \in 1..n : \A p \in PanesIn(s[w]) : p \notin PanesIn(ws)
  <2>1. \A w \in 1..n : PanesIn(s[w]) \subseteq AllIn(s)
    BY StackType
  <2> QED
    BY <2>1, LenProperties DEF WellStack, WellWorkspace
<1>2. /\ r \in Seq(Rows) /\ Len(r) = n + 1
      /\ \A w \in 1..n : r[w + 1] = s[w]
      /\ r[1] = ws
  <2>1. <<ws>> \in Seq(Rows) /\ Len(<<ws>>) = 1 /\ <<ws>>[1] = ws
    BY <1>1
  <2>2. /\ r \in Seq(Rows) /\ Len(r) = Len(<<ws>>) + n
        /\ \A w \in 1..(Len(<<ws>>) + n) :
             r[w] = IF w <= Len(<<ws>>) THEN <<ws>>[w] ELSE s[w - Len(<<ws>>)]
    BY <2>1, <1>1, ConcatProperties
  <2>3. /\ r \in Seq(Rows) /\ Len(r) = n + 1
        /\ \A w \in 1..(1 + n) : r[w] = IF w <= 1 THEN <<ws>>[w] ELSE s[w - 1]
    BY <2>1, <2>2, <1>1
  <2> HIDE DEF r
  <2>4. \A w \in 1..n : w + 1 \in 1..(1 + n) /\ ~(w + 1 <= 1) /\ (w + 1) - 1 = w
    BY <1>1
  <2> QED
    BY <2>1, <2>3, <2>4, <1>1
<1>3. \A w \in 1..Len(r) : w = 1 \/ (w - 1 \in 1..n /\ (w - 1) + 1 = w)
  BY <1>1, <1>2
<1>4. \A w \in 1..n : w + 1 \in 1..Len(r) /\ w + 1 # 1
  BY <1>1, <1>2
<1>5. 1 \in 1..Len(r)
  BY <1>1, <1>2
<1> HIDE DEF r, n
<1>6. WellStack(r)
  <2>1. \A w \in 1..Len(r) : WellWorkspace(r[w])
    BY <1>1, <1>2, <1>3
  <2>2. ASSUME NEW v \in 1..Len(r), NEW w \in 1..Len(r),
               NEW p \in PanesIn(r[v]), p \in PanesIn(r[w])
        PROVE  v = w
    <3>1. CASE v = 1 /\ w = 1
      BY <3>1
    <3>2. CASE v = 1 /\ w # 1
      <4>1. w - 1 \in 1..n /\ r[(w - 1) + 1] = s[w - 1] /\ (w - 1) + 1 = w
        BY <3>2, <1>2, <1>3
      <4>2. p \in PanesIn(s[w - 1]) /\ p \in PanesIn(ws)
        BY <4>1, <3>2, <2>2, <1>2
      <4> QED
        BY <4>1, <4>2, <1>1
    <3>3. CASE v # 1 /\ w = 1
      <4>1. v - 1 \in 1..n /\ r[(v - 1) + 1] = s[v - 1] /\ (v - 1) + 1 = v
        BY <3>3, <1>2, <1>3
      <4>2. p \in PanesIn(s[v - 1]) /\ p \in PanesIn(ws)
        BY <4>1, <3>3, <2>2, <1>2
      <4> QED
        BY <4>1, <4>2, <1>1
    <3>4. CASE v # 1 /\ w # 1
      <4>1. v - 1 \in 1..n /\ w - 1 \in 1..n /\ r[v] = s[v - 1] /\ r[w] = s[w - 1]
        BY <3>4, <1>2, <1>3
      <4>2. v - 1 = w - 1
        BY <4>1, <2>2, <1>1
      <4> QED
        BY <4>2
    <3> QED
      BY <3>1, <3>2, <3>3, <3>4
  <2> QED
    BY <2>1, <2>2, <1>2 DEF WellStack
<1>7. AllIn(r) = AllIn(s) \cup PanesIn(ws)
  <2>1. AllIn(s) = UNION {PanesIn(s[w]) : w \in 1..n}
    BY DEF AllIn, n
  <2>2. ASSUME NEW p \in AllIn(r) PROVE p \in AllIn(s) \cup PanesIn(ws)
    <3>1. PICK w \in 1..Len(r) : p \in PanesIn(r[w])
      BY DEF AllIn
    <3>2. CASE w = 1
      BY <3>1, <3>2, <1>2
    <3>3. CASE w # 1
      BY <3>1, <3>3, <2>1, <1>2, <1>3
    <3> QED
      BY <3>2, <3>3
  <2>3. ASSUME NEW p \in AllIn(s) PROVE p \in AllIn(r)
    <3>1. PICK w \in 1..n : p \in PanesIn(s[w])
      BY <2>1
    <3> QED
      BY <3>1, <1>2, <1>4 DEF AllIn
  <2>4. ASSUME NEW p \in PanesIn(ws) PROVE p \in AllIn(r)
    BY <1>2, <1>5 DEF AllIn
  <2> QED
    BY <2>2, <2>3, <2>4
<1> QED
  BY <1>2, <1>6, <1>7 DEF r, n

\* The workspaces of K, in their order.
LEMMA SomeWorkspaces ==
    ASSUME NEW s, WellStack(s), NEW K \in SUBSET (1..Len(s))
    PROVE  /\ WellStack(AtIndices(s, K)) /\ Len(AtIndices(s, K)) = Cardinality(K)
           /\ AllIn(AtIndices(s, K)) = UNION {PanesIn(s[w]) : w \in K}
<1> DEFINE r == AtIndices(s, K)
           n == Cardinality(K)
<1>1. /\ s \in Seq(Rows) /\ Len(s) \in Nat
      /\ \A w \in 1..Len(s) : WellWorkspace(s[w])
      /\ \A v, w \in 1..Len(s) : \A p \in PanesIn(s[v]) : p \in PanesIn(s[w]) => v = w
  BY LenProperties DEF WellStack
<1>2. /\ r \in Seq(Rows) /\ Len(r) = n /\ n \in Nat
      /\ \A i \in 1..n : r[i] = s[Nth(K, i)] /\ Nth(K, i) \in K
      /\ \A i, j \in 1..n : i < j => Nth(K, i) < Nth(K, j)
      /\ \A k \in K : Rank(K, k) \in 1..n /\ Nth(K, Rank(K, k)) = k
  BY <1>1, AtIndicesProperties
<1>3. \A i \in 1..n : Nth(K, i) \in 1..Len(s)
  BY <1>2
<1> HIDE DEF r, n
<1>4. WellStack(r)
  <2>1. \A w \in 1..n : WellWorkspace(r[w])
    BY <1>1, <1>2, <1>3
  <2>2. ASSUME NEW i \in 1..n, NEW j \in 1..n, NEW p \in PanesIn(r[i]), p \in PanesIn(r[j])
        PROVE  i = j
    <3>1. p \in PanesIn(s[Nth(K, i)]) /\ p \in PanesIn(s[Nth(K, j)])
      BY <2>2, <1>2
    <3>2. Nth(K, i) \in 1..Len(s) /\ Nth(K, j) \in 1..Len(s)
      BY <1>3
    <3>3. Nth(K, i) = Nth(K, j)
      BY <3>1, <3>2, <1>1, Zenon
    <3>4. i \in Int /\ j \in Int /\ Nth(K, i) \in Int
      BY <3>2, <1>2
    <3> QED
      BY <3>3, <3>4, <1>2
  <2> QED
    BY <2>1, <2>2, <1>2 DEF WellStack
<1>5. AllIn(r) = UNION {PanesIn(s[w]) : w \in K}
  <2>1. ASSUME NEW p \in AllIn(r) PROVE p \in UNION {PanesIn(s[w]) : w \in K}
    <3>1. PICK i \in 1..n : p \in PanesIn(r[i])
      BY <1>2 DEF AllIn
    <3> QED
      BY <3>1, <1>2
  <2>2. ASSUME NEW w \in K, NEW p \in PanesIn(s[w]) PROVE p \in AllIn(r)
    <3>1. Rank(K, w) \in 1..Len(r) /\ r[Rank(K, w)] = s[w]
      BY <1>2
    <3> QED
      BY <3>1 DEF AllIn
  <2> QED
    BY <2>1, <2>2
<1> QED
  BY <1>2, <1>4, <1>5 DEF r, n

\* Workspaces that keep some of their panes each.
LEMMA MapWorkspaces ==
    ASSUME NEW s, WellStack(s), NEW r \in Seq(Rows), Len(r) = Len(s),
           \A w \in 1..Len(s) : WellWorkspace(r[w]) /\ PanesIn(r[w]) \subseteq PanesIn(s[w])
    PROVE  WellStack(r)
<1>1. ASSUME NEW v \in 1..Len(r), NEW w \in 1..Len(r),
             NEW p \in PanesIn(r[v]), p \in PanesIn(r[w])
      PROVE  v = w
  BY <1>1 DEF WellStack
<1> QED
  BY <1>1 DEF WellStack

-----------------------------------------------------------------------------
(* Whole layouts.                                                          *)

\* Nothing in it points nowhere and no pane is in two places.
Well(l) ==
    /\ l \in Layouts(Pane)
    /\ WellStack(l.workspaces)
    /\ l.active \in 1..Len(l.workspaces)

AllPanes(l) == AllIn(l.workspaces)

LEMMA LayoutType ==
    ASSUME NEW l, Well(l)
    PROVE  /\ l.workspaces \in Seq(Rows) /\ Len(l.workspaces) \in Nat
           /\ DOMAIN l.workspaces = 1..Len(l.workspaces)
           /\ WellStack(l.workspaces)
           /\ l.active \in 1..Len(l.workspaces) /\ l.active \in Nat \ {0}
           /\ l = [workspaces |-> l.workspaces, active |-> l.active]
           /\ WellWorkspace(ActiveWorkspace(l))
           /\ PanesIn(ActiveWorkspace(l)) \subseteq AllPanes(l)
<1>1. l \in [workspaces : Seq(Rows), active : Nat \ {0}]
  BY DEF Well, Layouts, Rows
<1>2. WellStack(l.workspaces) /\ l.active \in 1..Len(l.workspaces)
  BY DEF Well
<1>3. l = [workspaces |-> l.workspaces, active |-> l.active] /\ l.active \in Nat \ {0}
  BY <1>1
<1> QED
  BY <1>2, <1>3, StackType DEF ActiveWorkspace, AllPanes

LEMMA MakeLayout ==
    ASSUME NEW s, WellStack(s), NEW a \in 1..Len(s)
    PROVE  /\ Well([workspaces |-> s, active |-> a])
           /\ AllPanes([workspaces |-> s, active |-> a]) = AllIn(s)
<1>1. s \in Seq(Rows) /\ Len(s) \in Nat /\ a \in Nat \ {0}
  BY StackType
<1>2. [workspaces |-> s, active |-> a] \in Layouts(Pane)
  BY <1>1 DEF Layouts, Rows
<1> QED
  BY <1>2 DEF Well, AllPanes

\* One well-formed workspace is a layout.
LEMMA OneWorkspace ==
    ASSUME NEW ws, WellWorkspace(ws)
    PROVE  /\ Well([workspaces |-> <<ws>>, active |-> 1])
           /\ AllPanes([workspaces |-> <<ws>>, active |-> 1]) = PanesIn(ws)
<1>1. /\ <<ws>> \in Seq(Rows) /\ Len(<<ws>>) = 1 /\ 1 \in 1..1
      /\ \A w \in 1..1 : w = 1 /\ <<ws>>[w] = ws
  BY DEF WellWorkspace
<1>2. WellStack(<<ws>>) /\ AllIn(<<ws>>) = PanesIn(ws)
  BY <1>1 DEF WellStack, AllIn
<1> QED
  BY <1>1, <1>2, MakeLayout

LEMMA NewLayoutWell == Well(NewLayout) /\ AllPanes(NewLayout) = {}
BY NewWorkspaceWell, OneWorkspace DEF NewLayout

\* Another workspace in the place of the one with the focus.
LEMMA OnActiveWell ==
    ASSUME NEW l, Well(l), NEW ws, WellWorkspace(ws),
           PanesIn(ws) \cap (AllPanes(l) \ PanesIn(ActiveWorkspace(l))) = {}
    PROVE  /\ Well(OnActive(l, ws))
           /\ AllPanes(OnActive(l, ws)) =
                (AllPanes(l) \ PanesIn(ActiveWorkspace(l))) \cup PanesIn(ws)
           /\ ActiveWorkspace(OnActive(l, ws)) = ws
<1> DEFINE s == l.workspaces
           r == [s EXCEPT ![l.active] = ws]
<1>1. /\ WellStack(s) /\ l.active \in 1..Len(s) /\ DOMAIN s = 1..Len(s)
      /\ l = [workspaces |-> s, active |-> l.active]
  BY LayoutType
<1>2. /\ WellStack(r) /\ Len(r) = Len(s)
      /\ AllIn(r) = (AllIn(s) \ PanesIn(s[l.active])) \cup PanesIn(ws)
  BY <1>1, ReplaceWorkspace DEF AllPanes, ActiveWorkspace
<1>3. OnActive(l, ws) = [workspaces |-> r, active |-> l.active]
  BY <1>1 DEF OnActive
<1>4. r[l.active] = ws
  BY <1>1
<1> HIDE DEF r
<1>5. /\ Well([workspaces |-> r, active |-> l.active])
      /\ AllPanes([workspaces |-> r, active |-> l.active]) = AllIn(r)
  BY <1>1, <1>2, MakeLayout
<1> QED
  BY <1>2, <1>3, <1>4, <1>5 DEF AllPanes, ActiveWorkspace

\* Only the index of the active workspace changes.
LEMMA SwitchWell ==
    ASSUME NEW l, Well(l), NEW i \in 1..Len(l.workspaces)
    PROVE  Well([l EXCEPT !.active = i]) /\ AllPanes([l EXCEPT !.active = i]) = AllPanes(l)
<1>1. [l EXCEPT !.active = i] = [workspaces |-> l.workspaces, active |-> i]
  BY LayoutType
<1> QED
  BY <1>1, LayoutType, MakeLayout DEF AllPanes

\* Only the index of the active column of a workspace changes.
LEMMA FocusColumnWell ==
    ASSUME NEW ws, WellWorkspace(ws), NEW a \in Nat \ {0},
           Len(ws.columns) # 0 => a \in 1..Len(ws.columns)
    PROVE  /\ WellWorkspace([ws EXCEPT !.active = a])
           /\ PanesIn([ws EXCEPT !.active = a]) = PanesIn(ws)
           /\ [ws EXCEPT !.active = a] = [columns |-> ws.columns, active |-> a]
<1>1. [ws EXCEPT !.active = a] = [columns |-> ws.columns, active |-> a]
  BY WorkspaceType
<1> QED
  BY <1>1, WorkspaceType, MakeWorkspace DEF PanesIn

\* Only the index of the active tile of a column changes.
LEMMA FocusTileWell ==
    ASSUME NEW ws, WellWorkspace(ws), NEW c \in 1..Len(ws.columns),
           NEW t \in 1..Len(ws.columns[c].tiles)
    PROVE  /\ WellWorkspace([ws EXCEPT !.columns[c].active = t])
           /\ PanesIn([ws EXCEPT !.columns[c].active = t]) = PanesIn(ws)
           /\ [ws EXCEPT !.columns[c].active = t].active = ws.active
           /\ Len([ws EXCEPT !.columns[c].active = t].columns) = Len(ws.columns)
<1> DEFINE col == [ws.columns[c] EXCEPT !.active = t]
           s == ws.columns
<1>1. s \in Seq(Columns(Pane)) /\ WellColumn(s[c]) /\ Tiles(s[c]) \subseteq PanesIn(ws)
      /\ DOMAIN s = 1..Len(s) /\ ws = [columns |-> s, active |-> ws.active]
  BY WorkspaceType, ColumnOf
<1>2. s[c] \in Columns(Pane)
  BY <1>1 DEF WellColumn
<1>3. col = [tiles |-> s[c].tiles, active |-> t] /\ t \in Nat \ {0}
  BY <1>2, ColumnType
<1>4. WellColumn(col) /\ Tiles(col) = Tiles(s[c])
  <2>1. col \in Columns(Pane)
    BY <1>2, <1>3, ColumnType DEF Columns
  <2> QED
    BY <2>1, <1>1, <1>3 DEF WellColumn, Tiles
<1>5. [ws EXCEPT !.columns[c].active = t] = [ws EXCEPT !.columns[c] = col]
  BY <1>1
<1> HIDE DEF col
<1>6. /\ WellWorkspace([ws EXCEPT !.columns[c] = col])
      /\ PanesIn([ws EXCEPT !.columns[c] = col]) = (PanesIn(ws) \ Tiles(s[c])) \cup Tiles(col)
  <2>1. Tiles(col) \cap (PanesIn(ws) \ Tiles(ws.columns[c])) = {}
    BY <1>4
  <2> QED
    BY <2>1, <1>4, ReplaceActive
<1>7. [ws EXCEPT !.columns[c] = col] =
        [columns |-> [s EXCEPT ![c] = col], active |-> ws.active]
  <2>1. ws \in [columns : Seq(Columns(Pane)), active : Nat \ {0}]
    BY DEF WellWorkspace, Rows
  <2> QED
    BY <2>1
<1>8. Len([s EXCEPT ![c] = col]) = Len(s)
  BY <1>1, <1>4, ExceptSeq DEF WellColumn
<1> QED
  BY <1>1, <1>4, <1>5, <1>6, <1>7, <1>8

LEMMA BlankShowsNothing ==
    ASSUME NEW ws, Blank(ws)
    PROVE  PanesIn(ws) = {}
BY NoColumns DEF Blank, PanesIn

LEMMA CleanupEmptyWell ==
    ASSUME NEW l, Well(l)
    PROVE  Well(CleanupEmpty(l)) /\ AllPanes(CleanupEmpty(l)) = AllPanes(l)
<1> DEFINE s == l.workspaces
           n == Len(s)
           Kept == {i \in 1..n : ~Blank(s[i])}
           focus == IF n = 1 \/ l.active \in Kept THEN l.active
                    ELSE IF l.active > 1 THEN l.active - 1
                    ELSE IF Kept = {} THEN 1
                    ELSE CHOOSE i \in Kept : \A j \in Kept : i <= j
           a == Clamp(Cardinality({i \in Kept : i < focus}) + 1, Cardinality(Kept))
           r == AtIndices(s, Kept)
<1>1. WellStack(s) /\ n \in Nat /\ l.active \in 1..n
  BY LayoutType
<1>2. CleanupEmpty(l) = IF Kept = {} THEN [workspaces |-> <<Last(s)>>, active |-> 1]
                        ELSE [workspaces |-> r, active |-> a]
  BY DEF CleanupEmpty
<1>3. AllIn(s) = UNION {PanesIn(s[w]) : w \in Kept}
  BY BlankShowsNothing DEF AllIn
<1>4. CASE Kept = {}
  <2>1. Last(s) = s[n] /\ n \in 1..n
    BY <1>1 DEF Last
  <2>2. WellWorkspace(s[n]) /\ PanesIn(s[n]) = {} /\ AllIn(s) = {}
    BY <2>1, <1>1, <1>3, <1>4, BlankShowsNothing, StackType
  <2> QED
    BY <2>1, <2>2, <1>2, <1>4, OneWorkspace DEF AllPanes
<1>5. CASE Kept # {}
  <2> DEFINE before == {i \in Kept : i < focus}
  <2>1. Kept \in SUBSET (1..n) /\ IsFiniteSet(Kept)
    <3>1. IsFiniteSet(1..n)
      BY <1>1, FS_Interval
    <3>2. Kept \subseteq 1..n
      OBVIOUS
    <3> QED
      BY <3>1, <3>2, FS_Subset
  <2>2. Cardinality(Kept) \in Nat /\ Cardinality(Kept) # 0
    BY <2>1, <1>5, FS_CardinalityType, FS_EmptySet
  <2>3. Cardinality(before) \in Nat
    <3>1. before \subseteq Kept
      OBVIOUS
    <3> QED
      BY <3>1, <2>1, FS_Subset, FS_CardinalityType
  <2> HIDE DEF before
  <2>4. a \in 1..Cardinality(Kept)
    <3>1. Cardinality(before) + 1 \in Nat \ {0}
      BY <2>3
    <3>2. Clamp(Cardinality(before) + 1, Cardinality(Kept)) \in 1..Cardinality(Kept)
      BY <3>1, <2>2, ClampProperties
    <3> QED
      BY <3>2 DEF before
  <2>5. WellStack(r) /\ Len(r) = Cardinality(Kept) /\ AllIn(r) = AllIn(s)
    BY <1>1, <1>3, <2>1, SomeWorkspaces
  <2> HIDE DEF a, r, Kept
  <2> QED
    BY <1>2, <1>5, <2>4, <2>5, MakeLayout DEF AllPanes
<1> QED
  BY <1>4, <1>5

\* What ClosePane cleans up.
Closed(l, p) ==
    [workspaces |-> [w \in 1..Len(l.workspaces) |-> CloseIn(l.workspaces[w], p)],
     active |-> l.active]

LEMMA ClosedWell ==
    ASSUME NEW l, Well(l), NEW p
    PROVE  /\ Well(Closed(l, p)) /\ AllPanes(Closed(l, p)) = AllPanes(l) \ {p}
           /\ ClosePane(l, p) = CleanupEmpty(Closed(l, p))
           /\ Len(Closed(l, p).workspaces) = Len(l.workspaces)
           /\ Closed(l, p).active = l.active
           /\ \A w \in 1..Len(l.workspaces) :
                Closed(l, p).workspaces[w] = CloseIn(l.workspaces[w], p)
<1> DEFINE s == l.workspaces
           r == [w \in 1..Len(s) |-> CloseIn(s[w], p)]
<1>1. /\ WellStack(s) /\ Len(s) \in Nat /\ l.active \in 1..Len(s) /\ DOMAIN s = 1..Len(s)
      /\ l = [workspaces |-> s, active |-> l.active]
  BY LayoutType
<1>2. \A w \in 1..Len(s) : /\ WellWorkspace(CloseIn(s[w], p))
                           /\ PanesIn(CloseIn(s[w], p)) = PanesIn(s[w]) \ {p}
                           /\ CloseIn(s[w], p) \in Rows
  <2>1. ASSUME NEW w \in 1..Len(s)
        PROVE  WellWorkspace(CloseIn(s[w], p)) /\ PanesIn(CloseIn(s[w], p)) = PanesIn(s[w]) \ {p}
    <3>1. WellWorkspace(s[w])
      BY <1>1, StackType
    <3> QED
      BY <3>1, CloseInWell
  <2> QED
    BY <2>1 DEF WellWorkspace
<1>3. /\ r \in Seq(Rows) /\ Len(r) = Len(s)
      /\ \A w \in 1..Len(s) : r[w] = CloseIn(s[w], p)
  BY <1>1, <1>2
<1>4. Closed(l, p) = [workspaces |-> r, active |-> l.active]
  BY DEF Closed
<1> HIDE DEF r
<1>5. WellStack(r)
  BY <1>1, <1>2, <1>3, MapWorkspaces
<1>6. AllIn(r) = AllIn(s) \ {p}
  <2>1. ASSUME NEW q \in AllIn(r) PROVE q \in AllIn(s) \ {p}
    <3>1. PICK w \in 1..Len(s) : q \in PanesIn(r[w])
      BY <1>3 DEF AllIn
    <3> QED
      BY <3>1, <1>2, <1>3 DEF AllIn
  <2>2. ASSUME NEW q \in AllIn(s), q # p PROVE q \in AllIn(r)
    <3>1. PICK w \in 1..Len(s) : q \in PanesIn(s[w])
      BY DEF AllIn
    <3> QED
      BY <3>1, <2>2, <1>2, <1>3 DEF AllIn
  <2> QED
    BY <2>1, <2>2
<1>7. /\ Well([workspaces |-> r, active |-> l.active])
      /\ AllPanes([workspaces |-> r, active |-> l.active]) = AllIn(s) \ {p}
  BY <1>1, <1>3, <1>5, <1>6, MakeLayout
<1>8. ClosePane(l, p) = CleanupEmpty([workspaces |-> r, active |-> l.active])
  <2>1. l \in [workspaces : Seq(Rows), active : Nat \ {0}]
    BY DEF Well, Layouts, Rows
  <2>2. r = [w \in DOMAIN l.workspaces |-> CloseIn(l.workspaces[w], p)]
    BY <1>1 DEF r
  <2>3. [l EXCEPT !.workspaces = r] = [workspaces |-> r, active |-> l.active]
    BY <2>1
  <2> QED
    BY <2>2, <2>3, Zenon DEF ClosePane
<1> QED
  BY <1>3, <1>4, <1>7, <1>8 DEF AllPanes

LEMMA ClosePaneWell ==
    ASSUME NEW l, Well(l), NEW p
    PROVE  Well(ClosePane(l, p)) /\ AllPanes(ClosePane(l, p)) = AllPanes(l) \ {p}
BY ClosedWell, CleanupEmptyWell

LEMMA AddWorkspaceBelowWell ==
    ASSUME NEW l, Well(l), NEW p \in Pane, p \notin AllPanes(l)
    PROVE  /\ Well(AddWorkspaceBelow(l, p))
           /\ AllPanes(AddWorkspaceBelow(l, p)) = AllPanes(l) \cup {p}
<1> DEFINE s == l.workspaces
           next == l.active + 1
           under == IF next > Len(s) THEN Append(s, NewWorkspace) ELSE s
           ws == AddColumnRight(under[next], p)
           r == [under EXCEPT ![next] = ws]
<1>1. WellStack(s) /\ Len(s) \in Nat /\ l.active \in 1..Len(s) /\ next \in Nat
  BY LayoutType
<1>2. WellStack(under) /\ AllIn(under) = AllIn(s) /\ next \in 1..Len(under)
  <2>1. CASE next > Len(s)
    <3>1. WellStack(Append(s, NewWorkspace)) /\ AllIn(Append(s, NewWorkspace)) = AllIn(s)
          /\ Len(Append(s, NewWorkspace)) = Len(s) + 1
      <4>1. PanesIn(NewWorkspace) \cap AllIn(s) = {}
        BY NewWorkspaceWell
      <4> QED
        <5>1. /\ WellStack(Append(s, NewWorkspace))
              /\ Len(Append(s, NewWorkspace)) = Len(s) + 1
              /\ AllIn(Append(s, NewWorkspace)) = AllIn(s) \cup PanesIn(NewWorkspace)
          BY <4>1, <1>1, NewWorkspaceWell, AppendWorkspace
        <5> QED
          BY <5>1, NewWorkspaceWell
    <3> QED
      BY <3>1, <2>1, <1>1
  <2>2. CASE ~(next > Len(s))
    <3>1. under = s /\ next \in 1..Len(s)
      BY <2>2, <1>1
    <3> QED
      BY <3>1, <1>1
  <2> QED
    BY <2>1, <2>2
<1>3. AddWorkspaceBelow(l, p) = [workspaces |-> r, active |-> next]
  BY DEF AddWorkspaceBelow
<1> HIDE DEF under, next
<1>4. WellWorkspace(under[next]) /\ PanesIn(under[next]) \subseteq AllIn(under)
  BY <1>2, StackType
<1>5. WellWorkspace(ws) /\ PanesIn(ws) = PanesIn(under[next]) \cup {p}
  BY <1>2, <1>4, AddColumnRightWell DEF AllPanes
<1> HIDE DEF ws
<1>6. /\ WellStack(r) /\ Len(r) = Len(under)
      /\ AllIn(r) = (AllIn(under) \ PanesIn(under[next])) \cup PanesIn(ws)
  <2>1. p \notin AllIn(under)
    BY <1>2 DEF AllPanes
  <2>2. PanesIn(ws) \cap (AllIn(under) \ PanesIn(under[next])) = {}
    BY <2>1, <1>5
  <2> QED
    <3>1. WellStack(under) /\ next \in 1..Len(under) /\ WellWorkspace(ws)
      BY <1>2, <1>5
    <3> QED
      BY <3>1, <2>2, ReplaceWorkspace
<1> HIDE DEF r
<1> QED
  BY <1>2, <1>3, <1>4, <1>5, <1>6, MakeLayout DEF AllPanes

\* Another workspace with the same panes in the place of the w-th.
LEMMA PutWorkspaceWell ==
    ASSUME NEW l, Well(l), NEW w \in 1..Len(l.workspaces), NEW ws, WellWorkspace(ws),
           PanesIn(ws) = PanesIn(l.workspaces[w])
    PROVE  /\ Well([l EXCEPT !.workspaces[w] = ws])
           /\ AllPanes([l EXCEPT !.workspaces[w] = ws]) = AllPanes(l)
           /\ [l EXCEPT !.workspaces[w] = ws].workspaces = [l.workspaces EXCEPT ![w] = ws]
<1> DEFINE r == [l.workspaces EXCEPT ![w] = ws]
<1>1. /\ WellStack(r) /\ Len(r) = Len(l.workspaces)
      /\ AllIn(r) = (AllIn(l.workspaces) \ PanesIn(l.workspaces[w])) \cup PanesIn(ws)
  <2>1. PanesIn(ws) \cap (AllIn(l.workspaces) \ PanesIn(l.workspaces[w])) = {}
    OBVIOUS
  <2> QED
    BY <2>1, LayoutType, ReplaceWorkspace
<1>2. PanesIn(l.workspaces[w]) \subseteq AllIn(l.workspaces)
  BY LayoutType, StackType
<1>3. [l EXCEPT !.workspaces[w] = ws] = [workspaces |-> r, active |-> l.active]
  <2>1. l = [workspaces |-> l.workspaces, active |-> l.active]
    BY LayoutType
  <2> HIDE DEF r
  <2>2. [l EXCEPT !.workspaces = r] = [workspaces |-> r, active |-> l.active]
    <3>1. l \in [workspaces : Seq(Rows), active : Nat \ {0}]
      BY DEF Well, Layouts, Rows
    <3> QED
      BY <3>1
  <2> QED
    BY <2>2, Zenon DEF r
<1>4. l.active \in 1..Len(l.workspaces)
  BY LayoutType
<1> HIDE DEF r
<1>5. /\ Well([workspaces |-> r, active |-> l.active])
      /\ AllPanes([workspaces |-> r, active |-> l.active]) = AllIn(r)
  BY <1>1, <1>4, MakeLayout
<1> QED
  BY <1>1, <1>2, <1>3, <1>5 DEF r, AllPanes

\* A workspace of a layout gets the focus, and its column at a.
FocusColumnOn(l, w, a) == [l EXCEPT !.active = w, !.workspaces[w].active = a]

LEMMA FocusColumnOnWell ==
    ASSUME NEW l, Well(l), NEW w \in 1..Len(l.workspaces), NEW a \in Nat \ {0},
           Len(l.workspaces[w].columns) # 0 => a \in 1..Len(l.workspaces[w].columns)
    PROVE  /\ Well(FocusColumnOn(l, w, a)) /\ AllPanes(FocusColumnOn(l, w, a)) = AllPanes(l)
           /\ Len(FocusColumnOn(l, w, a).workspaces) = Len(l.workspaces)
           /\ FocusColumnOn(l, w, a).active = w
           /\ FocusColumnOn(l, w, a).workspaces[w].columns = l.workspaces[w].columns
           /\ FocusColumnOn(l, w, a).workspaces[w].active = a
<1> DEFINE m == FocusColumnOn(l, w, a)
           s == l.workspaces
           n == [l EXCEPT !.active = w]
           ws == [s[w] EXCEPT !.active = a]
<1>1. Well(n) /\ AllPanes(n) = AllPanes(l) /\ n.workspaces = s /\ n.active = w
  BY SwitchWell DEF Well, Layouts
<1>2. WellWorkspace(s[w]) /\ DOMAIN s = 1..Len(s)
  BY LayoutType, StackType
<1>3. m = [n EXCEPT !.workspaces[w].active = a]
  BY DEF FocusColumnOn
<1> HIDE DEF n
<1>4. [n EXCEPT !.workspaces[w].active = a] = [n EXCEPT !.workspaces[w] = ws]
  BY <1>1
<1>5. /\ WellWorkspace(ws) /\ PanesIn(ws) = PanesIn(s[w])
      /\ ws = [columns |-> s[w].columns, active |-> a]
  BY <1>2, FocusColumnWell
<1> HIDE DEF ws
<1>6. /\ Well([n EXCEPT !.workspaces[w] = ws])
      /\ AllPanes([n EXCEPT !.workspaces[w] = ws]) = AllPanes(n)
      /\ [n EXCEPT !.workspaces[w] = ws].workspaces = [s EXCEPT ![w] = ws]
  BY <1>1, <1>5, PutWorkspaceWell
<1>7. [n EXCEPT !.workspaces[w] = ws].active = w
  BY <1>1 DEF Well, Layouts
<1>8. Len([s EXCEPT ![w] = ws]) = Len(s) /\ [s EXCEPT ![w] = ws][w] = ws
  <2>1. ws \in Rows /\ s \in Seq(Rows)
    BY <1>5, LayoutType DEF WellWorkspace
  <2> QED
    BY <2>1, ExceptSeq
<1> QED
  BY <1>1, <1>3, <1>4, <1>5, <1>6, <1>7, <1>8

LEMMA FocusWorkspaceWell ==
    ASSUME NEW l, Well(l), NEW i \in 1..Len(l.workspaces)
    PROVE  Well(FocusWorkspace(l, i)) /\ AllPanes(FocusWorkspace(l, i)) = AllPanes(l)
<1> DEFINE a == Clamp(ActiveWorkspace(l).active, Len(l.workspaces[i].columns))
<1>1. WellWorkspace(l.workspaces[i]) /\ WellWorkspace(ActiveWorkspace(l))
  BY LayoutType, StackType
<1>2. /\ Len(l.workspaces[i].columns) \in Nat
      /\ ActiveWorkspace(l).active \in Nat \ {0}
  BY <1>1, WorkspaceType
<1>3. /\ a \in Nat \ {0}
      /\ Len(l.workspaces[i].columns) # 0 => a \in 1..Len(l.workspaces[i].columns)
  BY <1>2, ClampProperties
<1>4. FocusWorkspace(l, i) = FocusColumnOn(l, i, a)
  BY DEF FocusWorkspace, FocusColumnOn
<1> HIDE DEF a
<1>5. Well(FocusColumnOn(l, i, a)) /\ AllPanes(FocusColumnOn(l, i, a)) = AllPanes(l)
  BY <1>3, FocusColumnOnWell
<1> QED
  BY <1>4, <1>5

\* A column of a layout gives the focus to its tile at t.
FocusTileOn(l, w, c, t) == [l EXCEPT !.workspaces[w].columns[c].active = t]

LEMMA FocusTileOnWell ==
    ASSUME NEW l, Well(l), NEW w \in 1..Len(l.workspaces),
           NEW c \in 1..Len(l.workspaces[w].columns),
           NEW t \in 1..Len(l.workspaces[w].columns[c].tiles)
    PROVE  Well(FocusTileOn(l, w, c, t)) /\ AllPanes(FocusTileOn(l, w, c, t)) = AllPanes(l)
<1> DEFINE s == l.workspaces
           ws == [s[w] EXCEPT !.columns[c].active = t]
<1>1. WellWorkspace(s[w])
  BY LayoutType, StackType
<1>2. WellWorkspace(ws) /\ PanesIn(ws) = PanesIn(s[w])
  BY <1>1, FocusTileWell
<1>3. FocusTileOn(l, w, c, t) = [l EXCEPT !.workspaces[w] = ws]
  BY DEF FocusTileOn
<1> HIDE DEF ws
<1> QED
  BY <1>2, <1>3, PutWorkspaceWell
-----------------------------------------------------------------------------
(* Where the panes of a layout are.                                        *)

LEMMA PlacesAre ==
    ASSUME NEW l, Well(l)
    PROVE  \A x : x \in Places(l) <=>
                    \E w \in 1..Len(l.workspaces) :
                      \E c \in 1..Len(l.workspaces[w].columns) :
                        \E t \in 1..Len(l.workspaces[w].columns[c].tiles) : x = <<w, c, t>>
<1>1. DOMAIN l.workspaces = 1..Len(l.workspaces)
  BY LayoutType
<1>2. ASSUME NEW w \in 1..Len(l.workspaces)
      PROVE  /\ DOMAIN l.workspaces[w].columns = 1..Len(l.workspaces[w].columns)
             /\ \A c \in 1..Len(l.workspaces[w].columns) :
                  DOMAIN l.workspaces[w].columns[c].tiles
                    = 1..Len(l.workspaces[w].columns[c].tiles)
  <2>1. WellWorkspace(l.workspaces[w])
    BY LayoutType, StackType
  <2>2. \A c \in 1..Len(l.workspaces[w].columns) : WellColumn(l.workspaces[w].columns[c])
    BY <2>1, ColumnOf
  <2> QED
    BY <2>1, <2>2, WorkspaceType, ColumnType DEF WellColumn
<1>3. ASSUME NEW x \in Places(l)
      PROVE  \E w \in 1..Len(l.workspaces) :
               \E c \in 1..Len(l.workspaces[w].columns) :
                 \E t \in 1..Len(l.workspaces[w].columns[c].tiles) : x = <<w, c, t>>
  <2>1. PICK w \in DOMAIN l.workspaces :
          x \in UNION {{<<w, c, t>> : t \in DOMAIN l.workspaces[w].columns[c].tiles} :
                         c \in DOMAIN l.workspaces[w].columns}
    BY DEF Places
  <2>2. PICK c \in DOMAIN l.workspaces[w].columns :
          x \in {<<w, c, t>> : t \in DOMAIN l.workspaces[w].columns[c].tiles}
    BY <2>1
  <2> QED
    BY <2>1, <2>2, <1>1, <1>2
<1>4. ASSUME NEW w \in 1..Len(l.workspaces),
             NEW c \in 1..Len(l.workspaces[w].columns),
             NEW t \in 1..Len(l.workspaces[w].columns[c].tiles)
      PROVE  <<w, c, t>> \in Places(l)
  <2>1. /\ w \in DOMAIN l.workspaces /\ c \in DOMAIN l.workspaces[w].columns
        /\ t \in DOMAIN l.workspaces[w].columns[c].tiles
    BY <1>1, <1>2
  <2> QED
    BY <2>1 DEF Places
<1> QED
  BY <1>3, <1>4

LEMMA PlaceParts ==
    ASSUME NEW l, Well(l), NEW x \in Places(l)
    PROVE  /\ x[1] \in 1..Len(l.workspaces)
           /\ x[2] \in 1..Len(l.workspaces[x[1]].columns)
           /\ x[3] \in 1..Len(l.workspaces[x[1]].columns[x[2]].tiles)
           /\ x = <<x[1], x[2], x[3]>>
BY PlacesAre

LEMMA PanesOfAre ==
    ASSUME NEW l, Well(l)
    PROVE  PanesOf(l) = AllPanes(l)
<1>1. ASSUME NEW p \in PanesOf(l) PROVE p \in AllPanes(l)
  <2>1. PICK x \in Places(l) : PaneAt(l, x) = p
    BY DEF PanesOf
  <2> DEFINE w == x[1]
             c == x[2]
             t == x[3]
  <2>2. /\ w \in 1..Len(l.workspaces) /\ c \in 1..Len(l.workspaces[w].columns)
        /\ t \in 1..Len(l.workspaces[w].columns[c].tiles)
    BY <2>1, PlaceParts
  <2>3. p = l.workspaces[w].columns[c].tiles[t]
    BY <2>1 DEF PaneAt
  <2> HIDE DEF w, c, t
  <2>4. p \in Tiles(l.workspaces[w].columns[c])
    BY <2>2, <2>3 DEF Tiles
  <2>5. p \in PanesIn(l.workspaces[w])
    BY <2>2, <2>4 DEF PanesIn, Shown
  <2> QED
    BY <2>2, <2>5 DEF AllPanes, AllIn
<1>2. ASSUME NEW p \in AllPanes(l) PROVE p \in PanesOf(l)
  <2>1. PICK w \in 1..Len(l.workspaces) : p \in PanesIn(l.workspaces[w])
    BY DEF AllPanes, AllIn
  <2>2. PICK c \in 1..Len(l.workspaces[w].columns) : p \in Tiles(l.workspaces[w].columns[c])
    BY <2>1 DEF PanesIn, Shown
  <2>3. PICK t \in 1..Len(l.workspaces[w].columns[c].tiles) :
           p = l.workspaces[w].columns[c].tiles[t]
    BY <2>2 DEF Tiles
  <2>4. <<w, c, t>> \in Places(l)
    BY PlacesAre
  <2>5. PaneAt(l, <<w, c, t>>) = p
    BY <2>3 DEF PaneAt
  <2> QED
    BY <2>4, <2>5 DEF PanesOf
<1> QED
  BY <1>1, <1>2

\* Two places never show the same pane.
LEMMA PlacesDiffer ==
    ASSUME NEW l, Well(l), NEW x \in Places(l), NEW y \in Places(l),
           PaneAt(l, x) = PaneAt(l, y)
    PROVE  x = y
<1> DEFINE w == x[1]
           c == x[2]
           t == x[3]
           v == y[1]
           d == y[2]
           u == y[3]
           p == l.workspaces[w].columns[c].tiles[t]
<1>1. /\ w \in 1..Len(l.workspaces) /\ c \in 1..Len(l.workspaces[w].columns)
      /\ t \in 1..Len(l.workspaces[w].columns[c].tiles) /\ x = <<w, c, t>>
  BY PlaceParts
<1>2. /\ v \in 1..Len(l.workspaces) /\ d \in 1..Len(l.workspaces[v].columns)
      /\ u \in 1..Len(l.workspaces[v].columns[d].tiles) /\ y = <<v, d, u>>
  BY PlaceParts
<1>3. p = l.workspaces[v].columns[d].tiles[u]
  BY DEF PaneAt
<1> HIDE DEF w, c, t, v, d, u
<1>4. /\ p \in Tiles(l.workspaces[w].columns[c])
      /\ p \in Tiles(l.workspaces[v].columns[d])
  BY <1>1, <1>2, <1>3 DEF Tiles
<1>5. p \in PanesIn(l.workspaces[w]) /\ p \in PanesIn(l.workspaces[v])
  BY <1>1, <1>2, <1>4 DEF PanesIn, Shown
<1>6. w = v
  BY <1>1, <1>2, <1>5 DEF Well, WellStack
<1>7. WellWorkspace(l.workspaces[w])
  BY <1>1, LayoutType, StackType
<1>8. WellColumns(l.workspaces[w].columns)
  BY <1>7, WorkspaceType
<1>9. c = d
  BY <1>1, <1>2, <1>4, <1>6, <1>8 DEF WellColumns
<1>10. WellColumn(l.workspaces[w].columns[c])
  BY <1>1, <1>7, ColumnOf
<1>11. t = u
  BY <1>1, <1>2, <1>3, <1>6, <1>9, <1>10 DEF WellColumn
<1> QED
  BY <1>1, <1>2, <1>6, <1>9, <1>11

LEMMA FocusOnWell ==
    ASSUME NEW l, Well(l), NEW p \in AllPanes(l)
    PROVE  Well(FocusOn(l, p)) /\ AllPanes(FocusOn(l, p)) = AllPanes(l)
<1> DEFINE x == PlaceOf(l, p)
<1>1. x \in Places(l)
  BY PanesOfAre DEF PanesOf, PlaceOf
<1> DEFINE w == x[1]
           c == x[2]
           t == x[3]
           m == FocusColumnOn(l, w, c)
<1>2. /\ w \in 1..Len(l.workspaces) /\ c \in 1..Len(l.workspaces[w].columns)
      /\ t \in 1..Len(l.workspaces[w].columns[c].tiles)
  BY <1>1, PlaceParts
<1>3. FocusOn(l, p) = [l EXCEPT !.active = w, !.workspaces[w].active = c,
                                !.workspaces[w].columns[c].active = t]
  BY DEF FocusOn
<1> HIDE DEF w, c, t
<1>4. FocusOn(l, p) = FocusTileOn(m, w, c, t)
  BY <1>3 DEF FocusTileOn, FocusColumnOn
<1>5. /\ Well(m) /\ AllPanes(m) = AllPanes(l)
      /\ Len(m.workspaces) = Len(l.workspaces)
      /\ m.workspaces[w].columns = l.workspaces[w].columns
  <2>1. WellWorkspace(l.workspaces[w])
    BY <1>2, LayoutType, StackType
  <2>2. c \in Nat \ {0}
    BY <1>2, <2>1, WorkspaceType
  <2>3. /\ Well(m) /\ AllPanes(m) = AllPanes(l)
        /\ Len(m.workspaces) = Len(l.workspaces)
        /\ m.workspaces[w].columns = l.workspaces[w].columns
    BY <1>2, <2>2, FocusColumnOnWell
  <2> QED
    BY <2>3
<1> HIDE DEF m
<1>6. Well(FocusTileOn(m, w, c, t)) /\ AllPanes(FocusTileOn(m, w, c, t)) = AllPanes(m)
  <2>1. /\ w \in 1..Len(m.workspaces) /\ c \in 1..Len(m.workspaces[w].columns)
        /\ t \in 1..Len(m.workspaces[w].columns[c].tiles)
    BY <1>2, <1>5
  <2> QED
    BY <2>1, <1>5, FocusTileOnWell
<1> QED
  BY <1>4, <1>5, <1>6

LEMMA FocusedShown ==
    ASSUME NEW l, Well(l), NEW p \in Focused(l)
    PROVE  p \in PanesIn(ActiveWorkspace(l)) /\ p \in Pane /\ ~Blank(ActiveWorkspace(l))
<1> DEFINE ws == ActiveWorkspace(l)
<1>1. WellWorkspace(ws)
  BY LayoutType
<1>2. PICK c \in DOMAIN ws.columns : /\ c = ws.active
                                     /\ p = ws.columns[c].tiles[ws.columns[c].active]
  BY DEF Focused, FocusOf
<1>3. c \in 1..Len(ws.columns) /\ Len(ws.columns) # 0
  BY <1>1, <1>2, WorkspaceType
<1>4. WellColumn(ws.columns[c])
  BY <1>1, <1>3, ColumnOf
<1>5. p \in Tiles(ws.columns[c]) /\ p \in Pane
  BY <1>2, <1>4, ColumnType DEF WellColumn, Tiles
<1>6. p \in PanesIn(ws)
  BY <1>3, <1>5 DEF PanesIn, Shown
<1> QED
  BY <1>1, <1>3, <1>5, <1>6, WorkspaceType

\* The focused pane leaves its workspace: what is left.
LEMMA LeaveWorkspace ==
    ASSUME NEW l, Well(l), NEW p \in Focused(l),
           NEW left, left = [l.workspaces EXCEPT ![l.active] = CloseIn(@, p)]
    PROVE  WellStack(left) /\ Len(left) = Len(l.workspaces) /\ AllIn(left) = AllPanes(l) \ {p}
<1> DEFINE s == l.workspaces
           a == l.active
           ws == CloseIn(s[a], p)
<1>1. WellStack(s) /\ a \in 1..Len(s) /\ WellWorkspace(s[a]) /\ DOMAIN s = 1..Len(s)
  BY LayoutType DEF ActiveWorkspace
<1>2. WellWorkspace(ws) /\ PanesIn(ws) = PanesIn(s[a]) \ {p}
  BY <1>1, CloseInWell
<1>3. left = [s EXCEPT ![a] = ws]
  BY <1>1
<1>4. p \in PanesIn(s[a]) /\ PanesIn(s[a]) \subseteq AllIn(s)
  BY <1>1, FocusedShown, StackType DEF ActiveWorkspace
<1> HIDE DEF ws
<1>5. /\ WellStack([s EXCEPT ![a] = ws]) /\ Len([s EXCEPT ![a] = ws]) = Len(s)
      /\ AllIn([s EXCEPT ![a] = ws]) = (AllIn(s) \ PanesIn(s[a])) \cup PanesIn(ws)
  <2>1. PanesIn(ws) \cap (AllIn(s) \ PanesIn(s[a])) = {}
    BY <1>2
  <2> QED
    BY <2>1, <1>1, <1>2, ReplaceWorkspace
<1> QED
  BY <1>2, <1>3, <1>4, <1>5 DEF AllPanes

\* A pane that is in no workspace goes to the right end of one.
Enter(s, i, p) ==
    [s EXCEPT ![i] = AddColumnRight([@ EXCEPT !.active = Len(s[i].columns)], p)]

LEMMA EnterWorkspace ==
    ASSUME NEW s, WellStack(s), NEW i \in 1..Len(s), NEW p \in Pane, p \notin AllIn(s)
    PROVE  /\ WellStack(Enter(s, i, p)) /\ Len(Enter(s, i, p)) = Len(s)
           /\ AllIn(Enter(s, i, p)) = AllIn(s) \cup {p}
<1> DEFINE end == [s[i] EXCEPT !.active = Len(s[i].columns)]
           n == Len(s[i].columns)
           ws == PutColumn(s[i], n + 1, NewColumn(p))
<1>1. WellWorkspace(s[i]) /\ PanesIn(s[i]) \subseteq AllIn(s) /\ s \in Seq(Rows)
  BY StackType
<1>2. /\ n \in Nat /\ (Blank(s[i]) <=> n = 0)
      /\ s[i] = [columns |-> s[i].columns, active |-> s[i].active]
  BY <1>1, WorkspaceType
<1>3. end = [columns |-> s[i].columns, active |-> n]
  BY <1>2
<1>4. AddColumnRight(end, p) = ws
  BY <1>2, <1>3 DEF AddColumnRight, PutColumn, Blank
<1>5. WellWorkspace(ws) /\ PanesIn(ws) = PanesIn(s[i]) \cup {p}
  <2>1. WellColumn(NewColumn(p)) /\ Tiles(NewColumn(p)) = {p}
    BY NewColumnWell
  <2>2. n + 1 \in 1..(n + 1)
    BY <1>2
  <2>3. Tiles(NewColumn(p)) \cap PanesIn(s[i]) = {}
    BY <2>1, <1>1
  <2> HIDE DEF n
  <2>4. n = Len(s[i].columns)
    BY DEF n
  <2>5. /\ WellWorkspace(ws)
        /\ PanesIn(ws) = PanesIn(s[i]) \cup Tiles(NewColumn(p))
    BY <2>1, <2>2, <2>3, <2>4, <1>1, PutColumnWell
  <2> QED
    BY <2>1, <2>5
<1>6. Enter(s, i, p) = [s EXCEPT ![i] = ws]
  <2>1. Enter(s, i, p) = [s EXCEPT ![i] = AddColumnRight(end, p)]
    BY DEF Enter
  <2> QED
    BY <2>1, <1>4
<1> HIDE DEF ws
<1>7. /\ WellStack([s EXCEPT ![i] = ws]) /\ Len([s EXCEPT ![i] = ws]) = Len(s)
      /\ AllIn([s EXCEPT ![i] = ws]) = (AllIn(s) \ PanesIn(s[i])) \cup PanesIn(ws)
  <2>1. PanesIn(ws) \cap (AllIn(s) \ PanesIn(s[i])) = {}
    BY <1>5
  <2> QED
    BY <2>1, <1>1, <1>5, ReplaceWorkspace
<1> QED
  BY <1>1, <1>5, <1>6, <1>7

LEMMA MoveVerticallyWell ==
    ASSUME NEW l, Well(l), Focused(l) # {}, NEW down \in {0, 1}
    PROVE  Well(MoveVertically(l, down)) /\ AllPanes(MoveVertically(l, down)) = AllPanes(l)
<1> DEFINE p == CHOOSE x \in Focused(l) : TRUE
           left == [l.workspaces EXCEPT ![l.active] = CloseIn(@, p)]
           above == IF l.active = 1 THEN <<NewWorkspace>> \o left ELSE left
           below == IF l.active = Len(left) THEN Append(left, NewWorkspace) ELSE left
           target == IF down = 1 THEN l.active + 1
                     ELSE IF l.active = 1 THEN 1 ELSE l.active - 1
           all == IF down = 1 THEN below ELSE above
           r == Enter(all, target, p)
<1>1. MoveVertically(l, down) = CleanupEmpty([workspaces |-> r, active |-> target])
  BY DEF MoveVertically, Enter
<1>2. p \in Focused(l)
  OBVIOUS
<1>3. p \in Pane /\ p \in AllPanes(l) /\ l.active \in 1..Len(l.workspaces)
      /\ Len(l.workspaces) \in Nat
  BY <1>2, FocusedShown, LayoutType
<1>4. WellStack(left) /\ Len(left) = Len(l.workspaces) /\ AllIn(left) = AllPanes(l) \ {p}
  BY <1>2, LeaveWorkspace
<1> HIDE DEF p, left
<1>5. WellStack(all) /\ AllIn(all) = AllPanes(l) \ {p} /\ target \in 1..Len(all)
  <2>1. /\ PanesIn(NewWorkspace) = {} /\ WellWorkspace(NewWorkspace)
        /\ PanesIn(NewWorkspace) \cap AllIn(left) = {}
    BY NewWorkspaceWell
  <2>2. /\ WellStack(Append(left, NewWorkspace))
        /\ Len(Append(left, NewWorkspace)) = Len(left) + 1
        /\ AllIn(Append(left, NewWorkspace)) = AllIn(left) \cup PanesIn(NewWorkspace)
    BY <2>1, <1>4, AppendWorkspace
  <2>3. /\ WellStack(<<NewWorkspace>> \o left)
        /\ Len(<<NewWorkspace>> \o left) = Len(left) + 1
        /\ AllIn(<<NewWorkspace>> \o left) = AllIn(left) \cup PanesIn(NewWorkspace)
    BY <2>1, <1>4, PrependWorkspace
  <2>4. CASE down = 1
    <3>1. WellStack(below) /\ AllIn(below) = AllPanes(l) \ {p}
      BY <2>1, <2>2, <1>4
    <3>2. l.active + 1 \in 1..Len(below)
      BY <2>2, <1>3, <1>4
    <3> QED
      BY <3>1, <3>2, <2>4
  <2>5. CASE down # 1
    <3>1. WellStack(above) /\ AllIn(above) = AllPanes(l) \ {p}
      BY <2>1, <2>3, <1>4
    <3>2. (IF l.active = 1 THEN 1 ELSE l.active - 1) \in 1..Len(above)
      BY <2>3, <1>3, <1>4
    <3> QED
      BY <3>1, <3>2, <2>5
  <2> QED
    BY <2>4, <2>5
<1> HIDE DEF all, target
<1>6. WellStack(r) /\ Len(r) = Len(all) /\ AllIn(r) = AllIn(all) \cup {p}
  <2>1. p \notin AllIn(all)
    BY <1>5
  <2> QED
    BY <2>1, <1>3, <1>5, EnterWorkspace
<1> HIDE DEF r
<1>7. /\ Well([workspaces |-> r, active |-> target])
      /\ AllPanes([workspaces |-> r, active |-> target]) = AllIn(r)
  BY <1>5, <1>6, MakeLayout
<1>8. AllIn(r) = AllPanes(l)
  BY <1>3, <1>5, <1>6
<1> QED
  BY <1>1, <1>7, <1>8, CleanupEmptyWell

LEMMA RestoredWell ==
    ASSUME NEW l, Well(l), NEW S
    PROVE  Well(Restored(l, S)) /\ AllPanes(Restored(l, S)) = AllPanes(l) \cap S
<1> DEFINE s == l.workspaces
           r == [w \in DOMAIN s |-> RestoreWorkspace(s[w], S)]
           a == Clamp(l.active, Len(s))
<1>1. /\ WellStack(s) /\ Len(s) \in Nat /\ l.active \in 1..Len(s) /\ DOMAIN s = 1..Len(s)
      /\ l.active \in Nat \ {0}
  BY LayoutType
<1>2. \A w \in 1..Len(s) : /\ WellWorkspace(RestoreWorkspace(s[w], S))
                           /\ PanesIn(RestoreWorkspace(s[w], S)) = PanesIn(s[w]) \cap S
                           /\ RestoreWorkspace(s[w], S) \in Rows
  <2>1. ASSUME NEW w \in 1..Len(s)
        PROVE  /\ WellWorkspace(RestoreWorkspace(s[w], S))
               /\ PanesIn(RestoreWorkspace(s[w], S)) = PanesIn(s[w]) \cap S
    <3>1. WellWorkspace(s[w])
      BY <1>1, StackType
    <3> QED
      BY <3>1, RestoreWorkspaceWell
  <2> QED
    BY <2>1 DEF WellWorkspace
<1>3. /\ r \in Seq(Rows) /\ Len(r) = Len(s)
      /\ \A w \in 1..Len(s) : r[w] = RestoreWorkspace(s[w], S)
  BY <1>1, <1>2
<1>4. Restored(l, S) = [workspaces |-> r, active |-> a]
  BY DEF Restored
<1>5. a \in 1..Len(s)
  BY <1>1, ClampProperties
<1> HIDE DEF r, a
<1>6. WellStack(r)
  BY <1>1, <1>2, <1>3, MapWorkspaces
<1>7. AllIn(r) = AllIn(s) \cap S
  <2>1. ASSUME NEW q \in AllIn(r) PROVE q \in AllIn(s) \cap S
    <3>1. PICK w \in 1..Len(s) : q \in PanesIn(r[w])
      BY <1>3 DEF AllIn
    <3> QED
      BY <3>1, <1>2, <1>3 DEF AllIn
  <2>2. ASSUME NEW q \in AllIn(s), q \in S PROVE q \in AllIn(r)
    <3>1. PICK w \in 1..Len(s) : q \in PanesIn(s[w])
      BY DEF AllIn
    <3> QED
      BY <3>1, <2>2, <1>2, <1>3 DEF AllIn
  <2> QED
    BY <2>1, <2>2
<1>8. /\ Well([workspaces |-> r, active |-> a])
      /\ AllPanes([workspaces |-> r, active |-> a]) = AllIn(r)
  BY <1>3, <1>5, <1>6, MakeLayout
<1> QED
  BY <1>4, <1>7, <1>8 DEF AllPanes

-----------------------------------------------------------------------------
(* Closing several panes, one after the other.                             *)

\* The equation of the fold, for the closes of the panes of s on l: iter[t] is
\* what the closes at the indices of t leave.
Closes(l, s, n, iter) ==
    iter = [t \in SUBSET (1..n) |->
              IF t = {} THEN l ELSE ClosePane(iter[t \ {Max(t)}], s[Max(t)])]

LEMMA MaxOfTop ==
    ASSUME NEW n \in Nat, NEW t \in SUBSET (1..(n + 1)), n + 1 \in t
    PROVE  Max(t) = n + 1
<1>1. \A y \in t : n + 1 >= y
  OBVIOUS
<1>2. \A x \in t : (\A y \in t : x >= y) => x = n + 1
  OBVIOUS
<1> QED
  BY <1>1, <1>2 DEF Max

\* It has a solution.
LEMMA ClosesExist ==
    ASSUME NEW l, NEW s, NEW n \in Nat
    PROVE  \E iter : Closes(l, s, n, iter)
<1> DEFINE T == {m \in Nat : ~ \E iter : Closes(l, s, m, iter)}
<1>1. ASSUME T # {} PROVE FALSE
  <2>1. PICK m \in T : \A k \in T : m <= k
    BY <1>1, LeastNat
  <2>2. m \in Nat /\ ~ \E iter : Closes(l, s, m, iter)
    OBVIOUS
  <2>3. CASE m = 0
    <3> DEFINE iter == [t \in SUBSET (1..0) |-> l]
    <3>1. \A t \in SUBSET (1..0) : t = {}
      OBVIOUS
    <3>2. Closes(l, s, 0, iter)
      BY <3>1, Zenon DEF Closes
    <3> QED
      BY <3>2, <2>2, <2>3
  <2>4. CASE m # 0
    <3>1. m - 1 \in Nat /\ ~(m <= m - 1)
      BY <2>2, <2>4
    <3> DEFINE k == m - 1
    <3>2. k \in Nat /\ k \notin T /\ m = k + 1
      BY <2>1, <2>2, <3>1
    <3> HIDE DEF k
    <3>3. PICK old : Closes(l, s, k, old)
      BY <3>2
    <3> DEFINE iter == [t \in SUBSET (1..(k + 1)) |->
                          IF k + 1 \in t THEN ClosePane(old[t \ {k + 1}], s[k + 1])
                                         ELSE old[t]]
    <3>4. ASSUME NEW t \in SUBSET (1..(k + 1))
          PROVE  iter[t] = IF t = {} THEN l ELSE ClosePane(iter[t \ {Max(t)}], s[Max(t)])
      <4>1. CASE k + 1 \in t
        <5>1. Max(t) = k + 1 /\ t # {}
          BY <4>1, <3>2, MaxOfTop
        <5>2. t \ {k + 1} \in SUBSET (1..k) /\ t \ {k + 1} \in SUBSET (1..(k + 1))
              /\ k + 1 \notin t \ {k + 1}
          BY <3>2
        <5>3. iter[t] = ClosePane(old[t \ {k + 1}], s[k + 1])
          BY <4>1
        <5>4. iter[t \ {k + 1}] = old[t \ {k + 1}]
          BY <5>2
        <5> QED
          BY <5>1, <5>3, <5>4
      <4>2. CASE k + 1 \notin t
        <5>1. t \in SUBSET (1..k)
          BY <4>2, <3>2
        <5>2. old[t] = IF t = {} THEN l ELSE ClosePane(old[t \ {Max(t)}], s[Max(t)])
          BY <5>1, <3>3 DEF Closes
        <5>3. iter[t] = old[t]
          BY <4>2
        <5>4. t \ {Max(t)} \in SUBSET (1..(k + 1)) /\ k + 1 \notin t \ {Max(t)}
          BY <4>2
        <5>5. iter[t \ {Max(t)}] = old[t \ {Max(t)}]
          BY <5>4
        <5> QED
          BY <5>2, <5>3, <5>5
      <4> QED
        BY <4>1, <4>2
    <3>5. DOMAIN iter = SUBSET (1..(k + 1)) /\ iter = [t \in SUBSET (1..(k + 1)) |-> iter[t]]
      OBVIOUS
    <3> HIDE DEF iter
    <3>6. Closes(l, s, k + 1, iter)
      BY <3>4, <3>5 DEF Closes
    <3> QED
      BY <3>6, <3>2, <2>2
  <2> QED
    BY <2>3, <2>4
<1> QED
  BY <1>1

\* What a pass of the tick loop leaves of a layout: a run of closes.
AllClosed(l, s) == FoldLeft(ClosePane, l, s)

IsRun(run, l, n, s) ==
    /\ run[0] = l
    /\ \A i \in 1..n : run[i] = ClosePane(run[i - 1], s[i])
    /\ run[n] = AllClosed(l, s)

LEMMA FoldRun ==
    ASSUME NEW l, NEW n \in Nat, NEW s, DOMAIN s = 1..n
    PROVE  \E run : IsRun(run, l, n, s)
<1> DEFINE iter == CHOOSE iter : Closes(l, s, n, iter)
<1>1. Closes(l, s, n, iter)
  BY ClosesExist
<1>2. AllClosed(l, s) = iter[1..n]
  BY Zenon DEF AllClosed, FoldLeft, MapThenFoldSet, Closes
<1> HIDE DEF iter
<1> DEFINE run == [i \in 0..n |-> iter[1..i]]
<1>3. run[0] = l
  <2>1. 1..0 = {} /\ {} \in SUBSET (1..n) /\ 0 \in 0..n
    OBVIOUS
  <2> QED
    BY <2>1, <1>1 DEF Closes
<1>4. ASSUME NEW i \in 1..n PROVE run[i] = ClosePane(run[i - 1], s[i])
  <2> DEFINE k == i - 1
  <2>1. k \in Nat /\ i = k + 1 /\ i \in 0..n /\ k \in 0..n /\ i <= n /\ i \in Nat
    OBVIOUS
  <2> HIDE DEF k
  <2>2. Max(1..i) = i
    <3>1. 1..(k + 1) \in SUBSET (1..(k + 1)) /\ k + 1 \in 1..(k + 1)
      BY <2>1
    <3> QED
      BY <3>1, <2>1, MaxOfTop
  <2>3. 1..i \in SUBSET (1..n) /\ 1..i # {} /\ (1..i) \ {i} = 1..k
    <3>1. \A j \in 1..i : j \in 1..n
      BY <2>1
    <3>2. i \in 1..i
      BY <2>1
    <3>3. \A j : j \in 1..i /\ j # i <=> j \in 1..k
      BY <2>1
    <3> QED
      BY <3>1, <3>2, <3>3
  <2>4. iter[1..i] = ClosePane(iter[1..k], s[i])
    BY <2>2, <2>3, <1>1 DEF Closes
  <2> QED
    BY <2>1, <2>4 DEF k
<1>5. run[n] = iter[1..n]
  OBVIOUS
<1> HIDE DEF run
<1> QED
  BY <1>2, <1>3, <1>4, <1>5 DEF IsRun

LEMMA FoldClosesWell ==
    ASSUME NEW l, Well(l), NEW n \in Nat, NEW s, DOMAIN s = 1..n
    PROVE  /\ Well(AllClosed(l, s))
           /\ AllPanes(AllClosed(l, s)) = AllPanes(l) \ {s[i] : i \in 1..n}
<1>1. PICK run : IsRun(run, l, n, s)
  BY FoldRun
<1> DEFINE P(k) == Well(run[k]) /\ AllPanes(run[k]) = AllPanes(l) \ {s[i] : i \in 1..k}
           T == {k \in Nat : k <= n /\ ~P(k)}
<1>2. ASSUME T # {} PROVE FALSE
  <2>1. PICK m \in T : \A k \in T : m <= k
    BY <1>2, LeastNat
  <2>2. m \in Nat /\ m <= n /\ ~P(m)
    OBVIOUS
  <2>3. CASE m = 0
    <3>1. 1..0 = {}
      OBVIOUS
    <3>2. {s[i] : i \in 1..0} = {}
      BY <3>1
    <3> QED
      BY <3>2, <2>2, <2>3, <1>1 DEF IsRun
  <2>4. CASE m # 0
    <3> DEFINE k == m - 1
    <3>1. k \in Nat /\ m = k + 1 /\ k <= n /\ ~(m <= k) /\ m \in 1..n
      BY <2>2, <2>4
    <3>2. P(k) /\ run[m] = ClosePane(run[k], s[m])
      BY <2>1, <3>1, <1>1 DEF IsRun
    <3> HIDE DEF k
    <3>3. 1..m = (1..k) \cup {m}
      BY <3>1
    <3>4. {s[i] : i \in 1..m} = {s[i] : i \in 1..k} \cup {s[m]}
      BY <3>3
    <3>5. Well(run[m]) /\ AllPanes(run[m]) = AllPanes(run[k]) \ {s[m]}
      BY <3>2, ClosePaneWell
    <3> QED
      BY <3>2, <3>4, <3>5, <2>2
  <2> QED
    BY <2>3, <2>4
<1>3. P(n)
  <2>1. n <= n /\ n \notin T
    BY <1>2
  <2> QED
    BY <2>1
<1> QED
  BY <1>1, <1>3 DEF IsRun

\* An order of D has all of D.
LEMMA OrderHasAll ==
    ASSUME NEW D, IsFiniteSet(D), NEW order \in SetToSeqs(D)
    PROVE  /\ Cardinality(D) \in Nat /\ DOMAIN order = 1..Cardinality(D)
           /\ {order[i] : i \in 1..Cardinality(D)} = D
<1> DEFINE n == Cardinality(D)
<1>1. n \in Nat
  BY FS_CardinalityType
<1>2. order \in [1..n -> D] /\ \A i, j \in 1..n : i # j => order[i] # order[j]
  BY DEF SetToSeqs
<1>3. order \in Injection(1..n, D)
  BY <1>2 DEF Injection, IsInjective
<1>4. Cardinality(1..n) = n
  BY <1>1, FS_Interval
<1>5. order \in Surjection(1..n, D)
  BY <1>3, <1>4, FS_Injection
<1> QED
  BY <1>1, <1>2, <1>5 DEF Surjection

LEMMA TickClosesWell ==
    ASSUME NEW l, Well(l), NEW D, IsFiniteSet(D), NEW order \in SetToSeqs(D)
    PROVE  /\ Well(FoldLeft(ClosePane, l, order))
           /\ AllPanes(FoldLeft(ClosePane, l, order)) = AllPanes(l) \ D
BY OrderHasAll, FoldClosesWell DEF AllClosed

-----------------------------------------------------------------------------
(* The panes of a layout, counted.                                         *)

LEMMA FiniteUnion ==
    ASSUME NEW n \in Nat, NEW f, DOMAIN f = 1..n, \A i \in 1..n : IsFiniteSet(f[i])
    PROVE  IsFiniteSet(UNION {f[i] : i \in 1..n})
<1> DEFINE R == {f[i] : i \in 1..n}
           g == [i \in 1..n |-> f[i]]
<1>1. g \in Surjection(1..n, R)
  BY DEF Surjection
<1>2. IsFiniteSet(1..n)
  <2>1. n \in Int /\ 1 \in Int
    OBVIOUS
  <2> QED
    BY <2>1, FS_Interval
<1>3. IsFiniteSet(R)
  BY <1>1, <1>2, FS_Surjection
<1>4. \A T \in R : IsFiniteSet(T)
  OBVIOUS
<1> HIDE DEF R
<1>5. IsFiniteSet(UNION R)
  BY <1>3, <1>4, FS_UNION
<1> QED
  BY <1>5 DEF R

LEMMA FiniteTiles ==
    ASSUME NEW col, WellColumn(col)
    PROVE  IsFiniteSet(Tiles(col)) /\ Tiles(col) \subseteq Pane
<1> DEFINE n == Len(col.tiles)
           g == [t \in 1..n |-> col.tiles[t]]
<1>1. n \in Nat /\ \A t \in 1..n : col.tiles[t] \in Pane
  BY ColumnType DEF WellColumn
<1>2. g \in Surjection(1..n, Tiles(col))
  BY DEF Surjection, Tiles
<1>3. IsFiniteSet(1..n)
  BY <1>1, FS_Interval
<1>4. IsFiniteSet(Tiles(col))
  BY <1>2, <1>3, FS_Surjection
<1> QED
  BY <1>1, <1>4 DEF Tiles

LEMMA FinitePanes ==
    ASSUME NEW l, Well(l)
    PROVE  IsFiniteSet(AllPanes(l)) /\ AllPanes(l) \subseteq Pane
<1> DEFINE s == l.workspaces
           f == [w \in 1..Len(s) |-> PanesIn(s[w])]
<1>1. Len(s) \in Nat /\ \A w \in 1..Len(s) : WellWorkspace(s[w])
  BY LayoutType, StackType
<1>2. ASSUME NEW w \in 1..Len(s)
      PROVE  IsFiniteSet(PanesIn(s[w])) /\ PanesIn(s[w]) \subseteq Pane
  <2> DEFINE cs == s[w].columns
             g == [c \in 1..Len(cs) |-> Tiles(cs[c])]
  <2>1. Len(cs) \in Nat /\ \A c \in 1..Len(cs) : WellColumn(cs[c])
    BY <1>1, WorkspaceType, ColumnOf
  <2>2. \A c \in 1..Len(cs) : IsFiniteSet(Tiles(cs[c])) /\ Tiles(cs[c]) \subseteq Pane
    BY <2>1, FiniteTiles
  <2>3. DOMAIN g = 1..Len(cs) /\ \A c \in 1..Len(cs) : g[c] = Tiles(cs[c])
    OBVIOUS
  <2>4. PanesIn(s[w]) = UNION {g[c] : c \in 1..Len(cs)}
    BY <2>3 DEF PanesIn, Shown
  <2> HIDE DEF g, cs
  <2>5. IsFiniteSet(UNION {g[c] : c \in 1..Len(cs)})
    BY <2>1, <2>2, <2>3, FiniteUnion
  <2> QED
    BY <2>2, <2>3, <2>4, <2>5
<1>3. DOMAIN f = 1..Len(s) /\ \A w \in 1..Len(s) : f[w] = PanesIn(s[w])
  OBVIOUS
<1>4. AllPanes(l) = UNION {f[w] : w \in 1..Len(s)}
  BY <1>3 DEF AllPanes, AllIn
<1> HIDE DEF f, s
<1>5. IsFiniteSet(UNION {f[w] : w \in 1..Len(s)})
  BY <1>1, <1>2, <1>3, FiniteUnion
<1> QED
  BY <1>2, <1>3, <1>4, <1>5

\* Every pane has one place.
LEMMA PlacesCounted ==
    ASSUME NEW l, Well(l)
    PROVE  Cardinality(Places(l)) = Cardinality(AllPanes(l))
<1> DEFINE f == [x \in Places(l) |-> PaneAt(l, x)]
<1>1. PanesOf(l) = AllPanes(l) /\ IsFiniteSet(AllPanes(l))
  BY PanesOfAre, FinitePanes
<1>2. f \in [Places(l) -> AllPanes(l)] /\ \A x \in Places(l) : f[x] = PaneAt(l, x)
  BY <1>1 DEF PanesOf
<1>3. \A x, y \in Places(l) : f[x] = f[y] => x = y
  BY <1>2, PlacesDiffer
<1>4. \A p \in AllPanes(l) : \E x \in Places(l) : f[x] = p
  BY <1>1, <1>2 DEF PanesOf
<1> HIDE DEF f
<1>5. f \in Injection(Places(l), AllPanes(l)) /\ f \in Surjection(Places(l), AllPanes(l))
  BY <1>2, <1>3, <1>4 DEF Injection, IsInjective, Surjection
<1> QED
  BY <1>1, <1>5, FS_Injection

LEMMA WellPointsSomewhere ==
    ASSUME NEW l, Well(l)
    PROVE  /\ l.active \in DOMAIN l.workspaces
           /\ \A w \in DOMAIN l.workspaces :
                LET ws == l.workspaces[w]
                IN  Blank(ws) \/ /\ ws.active \in DOMAIN ws.columns
                                 /\ \A c \in DOMAIN ws.columns :
                                      ws.columns[c].active \in DOMAIN ws.columns[c].tiles
<1>1. l.active \in DOMAIN l.workspaces
  BY LayoutType
<1>2. ASSUME NEW w \in DOMAIN l.workspaces
      PROVE  LET ws == l.workspaces[w]
             IN  Blank(ws) \/ /\ ws.active \in DOMAIN ws.columns
                              /\ \A c \in DOMAIN ws.columns :
                                   ws.columns[c].active \in DOMAIN ws.columns[c].tiles
  <2> DEFINE ws == l.workspaces[w]
  <2>1. WellWorkspace(ws)
    BY LayoutType, StackType
  <2> HIDE DEF ws
  <2>2. DOMAIN ws.columns = 1..Len(ws.columns) /\ (~Blank(ws) => ws.active \in 1..Len(ws.columns))
    BY <2>1, WorkspaceType
  <2>3. ASSUME NEW c \in DOMAIN ws.columns
        PROVE  ws.columns[c].active \in DOMAIN ws.columns[c].tiles
    <3>1. WellColumn(ws.columns[c])
      BY <2>1, <2>2, ColumnOf
    <3> QED
      BY <3>1, ColumnType DEF WellColumn
  <2> QED
    BY <2>2, <2>3 DEF ws
<1> QED
  BY <1>1, <1>2

-----------------------------------------------------------------------------
(* The session.                                                            *)

\* The inductive invariant.  The saved layouts are well-formed too, because a
\* restore turns one of them into the layout of the session.
SessionInv ==
    /\ {up, live, dirty, fresh, panicked} \subseteq BOOLEAN
    /\ ~up => ~live
    /\ ~live => layout = NewLayout /\ ~dirty
    /\ Well(layout) /\ AllPanes(layout) = panes
    /\ disk # NoFile => Well(disk)
    /\ promised # NoFile => Well(promised)
    /\ CleanMeansSaved

LEMMA InvGivesTypes == SessionInv => TypeOK
<1> SUFFICES ASSUME SessionInv PROVE TypeOK
  OBVIOUS
<1>1. \A l : Well(l) => l \in Layouts(Pane)
  BY DEF Well
<1>2. panes \subseteq Pane
  BY FinitePanes DEF SessionInv
<1>3. layout \in Layouts(Pane) /\ {disk, promised} \subseteq Layouts(Pane) \cup {NoFile}
  BY <1>1 DEF SessionInv
<1>4. ~live => panes = {}
  BY NewLayoutWell DEF SessionInv
<1> QED
  BY <1>2, <1>3, <1>4 DEF SessionInv, TypeOK

LEMMA InvGivesArranged == SessionInv => Arranged
<1> SUFFICES ASSUME SessionInv PROVE Arranged
  OBVIOUS
<1>1. Well(layout) /\ AllPanes(layout) = panes
  BY DEF SessionInv
<1>2. PanesOf(layout) = panes /\ Cardinality(Places(layout)) = Cardinality(panes)
  BY <1>1, PanesOfAre, PlacesCounted
<1>3. /\ layout.active \in DOMAIN layout.workspaces
      /\ \A w \in DOMAIN layout.workspaces :
           LET ws == layout.workspaces[w]
           IN  Blank(ws) \/ /\ ws.active \in DOMAIN ws.columns
                            /\ \A c \in DOMAIN ws.columns :
                                 ws.columns[c].active \in DOMAIN ws.columns[c].tiles
  BY <1>1, WellPointsSomewhere
<1> QED
  BY <1>2, <1>3 DEF Arranged

\* A handler that leaves a well-formed layout of the panes it leaves.
LEMMA ChangedKeepsInv ==
    ASSUME SessionInv, Serving, NEW l, Well(l), Changed(l), panes' = AllPanes(l)
    PROVE  SessionInv'
<1>1. /\ layout' = l /\ dirty' = TRUE /\ fresh' = FALSE /\ promised' = NoFile
      /\ up' = up /\ live' = live /\ disk' = disk /\ panicked' = panicked
  BY DEF Changed, MarkDirty
<1>2. up /\ live
  BY DEF Serving
<1> QED
  BY <1>1, <1>2 DEF SessionInv, CleanMeansSaved

LEMMA RearrangedKeepsInv ==
    ASSUME SessionInv, Serving, NEW l, Well(l), AllPanes(l) = panes, Rearranged(l)
    PROVE  SessionInv'
<1>1. Changed(l) /\ panes' = AllPanes(l)
  BY DEF Rearranged
<1> QED
  BY <1>1, ChangedKeepsInv

LEMMA CreatedKeepsInv ==
    ASSUME SessionInv, Serving, NEW l, NEW p, Well(l), AllPanes(l) = panes \cup {p},
           Created(p, l)
    PROVE  SessionInv'
<1>1. Changed(l) /\ panes' = AllPanes(l)
  BY DEF Created
<1> QED
  BY <1>1, ChangedKeepsInv

\* A new pane in the workspace with the focus.
LEMMA NewPaneWell ==
    ASSUME NEW l, Well(l), NEW p \in Pane, p \notin AllPanes(l),
           NEW ws \in {AddColumnRight(ActiveWorkspace(l), p), AddTile(ActiveWorkspace(l), p)}
    PROVE  Well(OnActive(l, ws)) /\ AllPanes(OnActive(l, ws)) = AllPanes(l) \cup {p}
<1> DEFINE old == ActiveWorkspace(l)
<1>1. WellWorkspace(old) /\ PanesIn(old) \subseteq AllPanes(l)
  BY LayoutType
<1>2. p \notin PanesIn(old)
  BY <1>1
<1>3. WellWorkspace(ws) /\ PanesIn(ws) = PanesIn(old) \cup {p}
  <2>1. /\ WellWorkspace(AddColumnRight(old, p))
        /\ PanesIn(AddColumnRight(old, p)) = PanesIn(old) \cup {p}
    BY <1>1, <1>2, AddColumnRightWell
  <2>2. /\ WellWorkspace(AddTile(old, p)) /\ PanesIn(AddTile(old, p)) = PanesIn(old) \cup {p}
    BY <1>1, <1>2, AddTileWell
  <2> QED
    BY <2>1, <2>2
<1>4. PanesIn(ws) \cap (AllPanes(l) \ PanesIn(old)) = {}
  BY <1>3
<1>5. /\ Well(OnActive(l, ws))
      /\ AllPanes(OnActive(l, ws)) = (AllPanes(l) \ PanesIn(old)) \cup PanesIn(ws)
  BY <1>3, <1>4, OnActiveWell
<1> QED
  BY <1>1, <1>3, <1>5

\* The workspace with the focus changes and keeps its panes.
LEMMA SamePanesWell ==
    ASSUME NEW l, Well(l), NEW ws, WellWorkspace(ws),
           PanesIn(ws) = PanesIn(ActiveWorkspace(l))
    PROVE  Well(OnActive(l, ws)) /\ AllPanes(OnActive(l, ws)) = AllPanes(l)
<1>1. PanesIn(ActiveWorkspace(l)) \subseteq AllPanes(l)
  BY LayoutType
<1>2. PanesIn(ws) \cap (AllPanes(l) \ PanesIn(ActiveWorkspace(l))) = {}
  OBVIOUS
<1>3. /\ Well(OnActive(l, ws))
      /\ AllPanes(OnActive(l, ws)) = (AllPanes(l) \ PanesIn(ActiveWorkspace(l))) \cup PanesIn(ws)
  BY <1>2, OnActiveWell
<1> QED
  BY <1>1, <1>3

LEMMA PaneStepKeepsInv ==
    ASSUME SessionInv, NEW p \in Pane, PaneStep(p)
    PROVE  SessionInv'
<1>1. Well(layout) /\ AllPanes(layout) = panes
  BY DEF SessionInv
<1>2. CASE CreatePane(p)
  <2> DEFINE ws == AddColumnRight(ActiveWorkspace(layout), p)
  <2>1. Serving /\ p \notin panes /\ Created(p, OnActive(layout, ws))
    BY <1>2 DEF CreatePane
  <2>2. Well(OnActive(layout, ws)) /\ AllPanes(OnActive(layout, ws)) = panes \cup {p}
    BY <1>1, <2>1, NewPaneWell
  <2> QED
    BY <2>1, <2>2, CreatedKeepsInv
<1>3. CASE SplitDown(p)
  <2>1. Serving /\ p \notin panes /\ Created(p, AddWorkspaceBelow(layout, p))
    BY <1>3 DEF SplitDown
  <2>2. /\ Well(AddWorkspaceBelow(layout, p))
        /\ AllPanes(AddWorkspaceBelow(layout, p)) = panes \cup {p}
    BY <1>1, <2>1, AddWorkspaceBelowWell
  <2> QED
    BY <2>1, <2>2, CreatedKeepsInv
<1>4. CASE NewTileBelow(p)
  <2> DEFINE ws == AddTile(ActiveWorkspace(layout), p)
  <2>1. Serving /\ p \notin panes /\ Created(p, OnActive(layout, ws))
    BY <1>4 DEF NewTileBelow
  <2>2. Well(OnActive(layout, ws)) /\ AllPanes(OnActive(layout, ws)) = panes \cup {p}
    BY <1>1, <2>1, NewPaneWell
  <2> QED
    BY <2>1, <2>2, CreatedKeepsInv
<1>5. CASE \E q \in Pane : CreatePaneAt(q, p)
  <2>1. PICK q \in Pane : CreatePaneAt(q, p)
    BY <1>5
  <2> DEFINE at == FocusOn(layout, q)
  <2>2. Serving /\ q \in panes /\ p \notin panes
    BY <2>1 DEF CreatePaneAt
  <2>3. PICK new \in {AddColumnRight(ActiveWorkspace(at), p), AddTile(ActiveWorkspace(at), p)} :
          Created(p, OnActive(at, new))
    BY <2>1 DEF CreatePaneAt
  <2>4. Well(at) /\ AllPanes(at) = panes
    BY <1>1, <2>2, FocusOnWell
  <2> HIDE DEF at
  <2>5. Well(OnActive(at, new)) /\ AllPanes(OnActive(at, new)) = panes \cup {p}
    BY <2>2, <2>4, NewPaneWell
  <2> QED
    BY <2>2, <2>3, <2>5, CreatedKeepsInv
<1>6. CASE CreatePaneAtFails(p)
  <2>1. Serving /\ p \in panes /\ Rearranged(FocusOn(layout, p))
    BY <1>6 DEF CreatePaneAtFails
  <2>2. Well(FocusOn(layout, p)) /\ AllPanes(FocusOn(layout, p)) = panes
    BY <1>1, <2>1, FocusOnWell
  <2> QED
    BY <2>1, <2>2, RearrangedKeepsInv
<1>7. CASE FocusPane(p)
  <2>1. Serving /\ p \in PanesOf(layout) /\ Rearranged(FocusOn(layout, p))
    BY <1>7 DEF FocusPane
  <2>2. p \in AllPanes(layout)
    BY <1>1, <2>1, PanesOfAre
  <2>3. Well(FocusOn(layout, p)) /\ AllPanes(FocusOn(layout, p)) = panes
    BY <1>1, <2>2, FocusOnWell
  <2> QED
    BY <2>1, <2>3, RearrangedKeepsInv
<1>8. CASE CloseRequest(p)
  <2>1. Serving /\ Changed(ClosePane(layout, p)) /\ panes' = panes \ {p}
    BY <1>8 DEF CloseRequest
  <2>2. Well(ClosePane(layout, p)) /\ AllPanes(ClosePane(layout, p)) = panes \ {p}
    BY <1>1, ClosePaneWell
  <2> QED
    BY <2>1, <2>2, ChangedKeepsInv
<1> QED
  BY <1>2, <1>3, <1>4, <1>5, <1>6, <1>7, <1>8 DEF PaneStep

LEMMA FocusColumnKeepsInv ==
    ASSUME SessionInv, NEW d \in {-1, 1}, FocusColumn(d)
    PROVE  SessionInv'
<1> DEFINE ws == ActiveWorkspace(layout)
           new == [ws EXCEPT !.active = @ + d]
<1>1. Well(layout) /\ AllPanes(layout) = panes
  BY DEF SessionInv
<1>2. Serving /\ ws.active + d \in DOMAIN ws.columns /\ Rearranged(OnActive(layout, new))
  BY DEF FocusColumn
<1>3. WellWorkspace(ws)
  BY <1>1, LayoutType
<1>4. /\ ws.active + d \in 1..Len(ws.columns) /\ ws.active + d \in Nat \ {0}
      /\ Len(ws.columns) \in Nat
  BY <1>2, <1>3, WorkspaceType
<1> DEFINE a == ws.active + d
<1>5. new = [ws EXCEPT !.active = a]
  OBVIOUS
<1> HIDE DEF new, a
<1>6. a \in Nat \ {0} /\ a \in 1..Len(ws.columns)
  BY <1>4 DEF a
<1>7. WellWorkspace(new) /\ PanesIn(new) = PanesIn(ws)
  BY <1>3, <1>5, <1>6, FocusColumnWell
<1>8. Well(OnActive(layout, new)) /\ AllPanes(OnActive(layout, new)) = panes
  BY <1>1, <1>7, SamePanesWell
<1> QED
  BY <1>2, <1>8, RearrangedKeepsInv

LEMMA FocusVerticallyKeepsInv ==
    ASSUME SessionInv, NEW d \in {-1, 1}, FocusVertically(d)
    PROVE  SessionInv'
<1> DEFINE ws == ActiveWorkspace(layout)
           tile == IF Blank(ws) THEN 0 ELSE ws.columns[ws.active].active + d
<1>1. Well(layout) /\ AllPanes(layout) = panes
  BY DEF SessionInv
<1>2. Serving
  BY DEF FocusVertically
<1>3. /\ WellWorkspace(ws) /\ layout.active \in 1..Len(layout.workspaces)
      /\ DOMAIN layout.workspaces = 1..Len(layout.workspaces)
  BY <1>1, LayoutType
<1>4. CASE /\ ~Blank(ws) /\ tile \in DOMAIN ws.columns[ws.active].tiles
           /\ Rearranged([layout EXCEPT
                !.workspaces[layout.active].columns[ws.active].active = tile])
  <2>1. ws.active \in 1..Len(ws.columns)
    BY <1>3, <1>4, WorkspaceType
  <2>2. WellColumn(ws.columns[ws.active])
    BY <2>1, <1>3, ColumnOf
  <2>3. tile \in 1..Len(ws.columns[ws.active].tiles)
    BY <2>2, <1>4, ColumnType DEF WellColumn
  <2> DEFINE l == FocusTileOn(layout, layout.active, ws.active, tile)
  <2>4. Rearranged(l)
    BY <1>4 DEF FocusTileOn
  <2>5. ws = layout.workspaces[layout.active]
    BY DEF ActiveWorkspace
  <2> HIDE DEF tile, ws
  <2>6. Well(l) /\ AllPanes(l) = panes
    BY <1>1, <1>3, <2>1, <2>3, <2>5, FocusTileOnWell
  <2> QED
    BY <1>2, <2>4, <2>6, RearrangedKeepsInv
<1>5. CASE /\ layout.active + d \in DOMAIN layout.workspaces
           /\ Rearranged(FocusWorkspace(layout, layout.active + d))
  <2> DEFINE i == layout.active + d
  <2>1. i \in 1..Len(layout.workspaces) /\ Rearranged(FocusWorkspace(layout, i))
    BY <1>3, <1>5
  <2> HIDE DEF i
  <2>2. Well(FocusWorkspace(layout, i)) /\ AllPanes(FocusWorkspace(layout, i)) = panes
    BY <1>1, <2>1, FocusWorkspaceWell
  <2> QED
    BY <1>2, <2>1, <2>2, RearrangedKeepsInv
<1> QED
  BY <1>4, <1>5 DEF FocusVertically

LEMMA LayoutStepKeepsInv ==
    ASSUME SessionInv, LayoutStep
    PROVE  SessionInv'
<1> DEFINE ws == ActiveWorkspace(layout)
<1>1. /\ Well(layout) /\ AllPanes(layout) = panes /\ WellWorkspace(ws)
      /\ DOMAIN layout.workspaces = 1..Len(layout.workspaces)
  BY LayoutType DEF SessionInv
<1>2. ASSUME NEW d \in {-1, 1}, MoveColumn(d) PROVE SessionInv'
  <2> DEFINE new == SwapColumn(ws, ws.active + d)
  <2>1. Serving /\ Rearranged(OnActive(layout, new))
    BY <1>2 DEF MoveColumn
  <2>2. ws.active + d \in Int
    BY <1>1, WorkspaceType
  <2>3. WellWorkspace(new) /\ PanesIn(new) = PanesIn(ws)
    BY <1>1, <2>2, SwapColumnWell
  <2> HIDE DEF new
  <2>4. Well(OnActive(layout, new)) /\ AllPanes(OnActive(layout, new)) = panes
    BY <1>1, <2>3, SamePanesWell
  <2> QED
    BY <2>1, <2>4, RearrangedKeepsInv
<1>3. ASSUME NEW i \in DOMAIN layout.workspaces, SwitchWorkspace(i) PROVE SessionInv'
  <2> DEFINE l == [layout EXCEPT !.active = i]
  <2>1. Serving /\ Rearranged(l)
    BY <1>3 DEF SwitchWorkspace
  <2>2. Well(l) /\ AllPanes(l) = panes
    BY <1>1, <1>3, SwitchWell
  <2> HIDE DEF l
  <2> QED
    BY <2>1, <2>2, RearrangedKeepsInv
<1>4. ASSUME NEW down \in {0, 1}, MovePane(down) PROVE SessionInv'
  <2>1. Serving /\ Focused(layout) # {} /\ Rearranged(MoveVertically(layout, down))
    BY <1>4 DEF MovePane, MayMove
  <2>2. /\ Well(MoveVertically(layout, down))
        /\ AllPanes(MoveVertically(layout, down)) = panes
    BY <1>1, <2>1, MoveVerticallyWell
  <2> QED
    BY <2>1, <2>2, RearrangedKeepsInv
<1>5. CASE ConsumeIntoColumn
  <2> DEFINE new == ConsumeRight(ws)
  <2>1. Serving /\ Rearranged(OnActive(layout, new))
    BY <1>5 DEF ConsumeIntoColumn
  <2>2. WellWorkspace(new) /\ PanesIn(new) = PanesIn(ws)
    BY <1>1, ConsumeRightWell
  <2> HIDE DEF new
  <2>3. Well(OnActive(layout, new)) /\ AllPanes(OnActive(layout, new)) = panes
    BY <1>1, <2>2, SamePanesWell
  <2> QED
    BY <2>1, <2>3, RearrangedKeepsInv
<1>6. CASE ExpelFromColumn
  <2> DEFINE new == ExpelTile(ws)
  <2>1. CASE ~Blank(ws) /\ Rearranged(OnActive(layout, new))
    <3>1. WellWorkspace(new) /\ PanesIn(new) = PanesIn(ws)
      BY <1>1, <2>1, ExpelTileWell
    <3> HIDE DEF new
    <3>2. Well(OnActive(layout, new)) /\ AllPanes(OnActive(layout, new)) = panes
      BY <1>1, <3>1, SamePanesWell
    <3>3. Serving
      BY <1>6 DEF ExpelFromColumn
    <3> QED
      BY <2>1, <3>2, <3>3, RearrangedKeepsInv
  <2>2. CASE panicked' = TRUE /\ UNCHANGED <<up, live, panes, layout, dirty, fresh, store>>
    BY <2>2 DEF SessionInv, CleanMeansSaved, store
  <2> QED
    BY <1>6, <2>1, <2>2 DEF ExpelFromColumn
<1>7. CASE Reshape
  <2>1. Serving /\ Rearranged(layout)
    BY <1>7 DEF Reshape
  <2> QED
    BY <1>1, <2>1, RearrangedKeepsInv
<1> QED
  BY <1>2, <1>3, <1>4, <1>5, <1>6, <1>7, FocusColumnKeepsInv, FocusVerticallyKeepsInv
     DEF LayoutStep

\* The default pane, or none: the only workspace has it, or no column.
LEMMA DefaultWell ==
    ASSUME NEW l, l.active = 1, NEW P \in DefaultPane
    PROVE  Well(Default(l, P)) /\ AllPanes(Default(l, P)) = P
<1> DEFINE ws == IF P = {} THEN NewWorkspace
                 ELSE AddColumnRight(NewWorkspace, CHOOSE p \in P : TRUE)
<1>1. Default(l, P) = [workspaces |-> <<ws>>, active |-> 1]
  BY DEF Default
<1>2. WellWorkspace(ws) /\ PanesIn(ws) = P
  <2>1. WellWorkspace(NewWorkspace) /\ PanesIn(NewWorkspace) = {}
    BY NewWorkspaceWell
  <2>2. CASE P = {}
    BY <2>1, <2>2
  <2>3. CASE P # {}
    <3>1. PICK p \in Pane : P = {p}
      BY <2>3 DEF DefaultPane
    <3>2. (CHOOSE q \in P : TRUE) = p
      BY <3>1
    <3>3. ws = AddColumnRight(NewWorkspace, p)
      BY <2>3, <3>2
    <3>4. /\ WellWorkspace(AddColumnRight(NewWorkspace, p))
          /\ PanesIn(AddColumnRight(NewWorkspace, p)) = PanesIn(NewWorkspace) \cup {p}
      BY <2>1, AddColumnRightWell
    <3> HIDE DEF ws
    <3> QED
      BY <2>1, <3>1, <3>3, <3>4
  <2> QED
    BY <2>2, <2>3
<1> HIDE DEF ws
<1> QED
  BY <1>1, <1>2, OneWorkspace

LEMMA AttachKeepsInv ==
    ASSUME SessionInv, up, NEW l, AttachDefault(l), promised' = NoFile,
           UNCHANGED <<up, disk>>
    PROVE  SessionInv'
<1>1. CASE /\ l.active = 1 /\ live' = TRUE
           /\ \E P \in DefaultPane : panes' = P /\ layout' = Default(l, P)
           /\ UNCHANGED <<dirty, panicked>> /\ fresh' = ~dirty
  <2>1. PICK P \in DefaultPane : panes' = P /\ layout' = Default(l, P)
    BY <1>1
  <2>2. Well(layout') /\ AllPanes(layout') = panes'
    BY <1>1, <2>1, DefaultWell
  <2>3. /\ up' = up /\ disk' = disk /\ dirty' = dirty /\ panicked' = panicked
        /\ live' = TRUE /\ fresh' = ~dirty
    BY <1>1
  <2>4. {up', live', dirty', fresh', panicked'} \subseteq BOOLEAN
    BY <2>3 DEF SessionInv
  <2>5. CleanMeansSaved'
    BY <2>3 DEF SessionInv, CleanMeansSaved
  <2> QED
    BY <2>2, <2>3, <2>4, <2>5 DEF SessionInv
<1>2. CASE panicked' = TRUE /\ UNCHANGED <<live, panes, layout, dirty, fresh>>
  BY <1>2 DEF SessionInv, CleanMeansSaved
<1> QED
  BY <1>1, <1>2 DEF AttachDefault

\* The session is gone.
LEMMA GoneKeepsInv ==
    ASSUME SessionInv, Gone, up' \in BOOLEAN, panicked' = panicked,
           disk' \in {NoFile, disk}, promised' \in {NoFile, promised}
    PROVE  SessionInv'
<1>1. /\ live' = FALSE /\ panes' = {} /\ layout' = NewLayout
      /\ dirty' = FALSE /\ fresh' = FALSE
  BY DEF Gone
<1>2. Well(layout') /\ AllPanes(layout') = panes'
  BY <1>1, NewLayoutWell
<1> QED
  BY <1>1, <1>2 DEF SessionInv, CleanMeansSaved

LEMMA SessionStepKeepsInv ==
    ASSUME SessionInv, SessionStep
    PROVE  SessionInv'
<1>1. Well(layout) /\ AllPanes(layout) = panes
  BY DEF SessionInv
<1>2. ASSUME NEW D \in SUBSET panes \ {{}}, TickCloses(D) PROVE SessionInv'
  <2>1. PICK order \in SetToSeqs(D) : Changed(FoldLeft(ClosePane, layout, order))
    BY <1>2 DEF TickCloses
  <2>2. Serving /\ panes' = panes \ D
    BY <1>2 DEF TickCloses
  <2>3. IsFiniteSet(D)
    BY <1>1, FinitePanes, FS_Subset
  <2> DEFINE l == FoldLeft(ClosePane, layout, order)
  <2>4. Well(l) /\ AllPanes(l) = panes \ D
    BY <1>1, <2>3, TickClosesWell
  <2>5. Changed(l)
    BY <2>1
  <2> HIDE DEF l
  <2> QED
    BY <2>2, <2>4, <2>5, ChangedKeepsInv
<1>3. CASE TickEndsSession
  <2>1. Gone /\ up' = up /\ panicked' = panicked /\ disk' \in {NoFile, disk} /\ promised' = NoFile
    BY <1>3 DEF TickEndsSession, Delete
  <2>2. up' \in BOOLEAN
    BY <2>1 DEF SessionInv
  <2> QED
    BY <2>1, <2>2, GoneKeepsInv
<1>4. CASE TickSaves
  <2>1. /\ Serving /\ disk' = layout /\ dirty' = FALSE
        /\ up' = up /\ live' = live /\ panes' = panes /\ layout' = layout
        /\ fresh' = fresh /\ promised' = promised /\ panicked' = panicked
    BY <1>4 DEF TickSaves
  <2> QED
    BY <2>1 DEF SessionInv, CleanMeansSaved, Serving
<1>5. CASE AgentsChange
  <2>1. /\ Serving /\ dirty' = TRUE /\ fresh' = FALSE
        /\ up' = up /\ live' = live /\ panes' = panes /\ layout' = layout
        /\ disk' = disk /\ promised' = promised /\ panicked' = panicked
    BY <1>5 DEF AgentsChange, MarkDirty, store
  <2> QED
    BY <2>1 DEF SessionInv, CleanMeansSaved, Serving
<1>6. CASE KillSession
  <2>1. Gone /\ up' = up /\ panicked' = panicked /\ disk' \in {NoFile, disk} /\ promised' = NoFile
    BY <1>6 DEF KillSession, Delete
  <2>2. up' \in BOOLEAN
    BY <2>1 DEF SessionInv
  <2> QED
    BY <2>1, <2>2, GoneKeepsInv
<1>7. CASE AttachNew
  <2>1. up /\ ~live /\ promised' = NoFile /\ UNCHANGED <<up, disk>>
    BY <1>7 DEF AttachNew
  <2>2. CASE AttachDefault(NewLayout)
    BY <2>1, <2>2, AttachKeepsInv
  <2>3. CASE disk # NoFile /\ \E S \in SUBSET PanesOf(disk) :
                 \/ S = {} /\ AttachDefault(Restored(disk, S))
                 \/ /\ S # {}
                    /\ live' = TRUE
                    /\ panes' = S /\ layout' = Restored(disk, S)
                    /\ fresh' = TRUE
                    /\ UNCHANGED <<dirty, panicked>>
    <3>1. PICK S \in SUBSET PanesOf(disk) :
                 \/ S = {} /\ AttachDefault(Restored(disk, S))
                 \/ /\ S # {}
                    /\ live' = TRUE
                    /\ panes' = S /\ layout' = Restored(disk, S)
                    /\ fresh' = TRUE
                    /\ UNCHANGED <<dirty, panicked>>
      BY <2>3
    <3>2. CASE AttachDefault(Restored(disk, S))
      BY <2>1, <3>2, AttachKeepsInv
    <3>3. CASE /\ live' = TRUE
               /\ panes' = S /\ layout' = Restored(disk, S)
               /\ fresh' = TRUE
               /\ UNCHANGED <<dirty, panicked>>
      <4>1. Well(disk) /\ S \subseteq AllPanes(disk)
        BY <2>3, PanesOfAre DEF SessionInv
      <4>2. Well(Restored(disk, S)) /\ AllPanes(Restored(disk, S)) = AllPanes(disk) \cap S
        BY <4>1, RestoredWell
      <4>3. Well(layout') /\ AllPanes(layout') = panes'
        BY <3>3, <4>1, <4>2
      <4> QED
        BY <2>1, <3>3, <4>3 DEF SessionInv, CleanMeansSaved
    <3> QED
      BY <3>1, <3>2, <3>3
  <2> QED
    BY <1>7, <2>2, <2>3 DEF AttachNew
<1>8. CASE AttachEmpty
  <2>1. up /\ AttachDefault(layout) /\ promised' = NoFile /\ UNCHANGED <<up, disk>>
    BY <1>8 DEF AttachEmpty, Serving
  <2> QED
    BY <2>1, AttachKeepsInv
<1> QED
  BY <1>2, <1>3, <1>4, <1>5, <1>6, <1>7, <1>8 DEF SessionStep

LEMMA DaemonStepKeepsInv ==
    ASSUME SessionInv, DaemonStep
    PROVE  SessionInv'
<1>1. CASE GracefulShutdown
  <2>1. /\ Serving /\ promised' = layout
        /\ disk' = IF Valid(layout) THEN layout ELSE disk
        /\ up' = up /\ live' = live /\ panes' = panes /\ layout' = layout
        /\ dirty' = dirty /\ fresh' = fresh /\ panicked' = panicked
    BY <1>1 DEF GracefulShutdown
  <2>2. CleanMeansSaved'
    BY <2>1 DEF SessionInv, CleanMeansSaved
  <2> QED
    BY <2>1, <2>2 DEF SessionInv
<1>2. CASE DaemonEnds
  <2>1. Gone /\ up' = FALSE /\ disk' = disk /\ promised' = promised /\ panicked' = panicked
    BY <1>2 DEF DaemonEnds, store
  <2> QED
    BY <2>1, GoneKeepsInv
<1>3. CASE DaemonStarts
  <2>1. /\ ~up /\ up' = TRUE /\ live' = live /\ panes' = panes /\ layout' = layout
        /\ dirty' = dirty /\ fresh' = fresh /\ disk' = disk /\ promised' = promised
        /\ panicked' = panicked
    BY <1>3 DEF DaemonStarts, store
  <2> QED
    BY <2>1 DEF SessionInv, CleanMeansSaved
<1> QED
  BY <1>1, <1>2, <1>3 DEF DaemonStep

LEMMA InvHoldsAtFirst == Init => SessionInv
BY NewLayoutWell DEF Init, SessionInv, CleanMeansSaved

LEMMA NextKeepsInv == SessionInv /\ [Next]_vars => SessionInv'
<1>1. ASSUME SessionInv, UNCHANGED vars PROVE SessionInv'
  BY <1>1 DEF vars, store, SessionInv, CleanMeansSaved
<1> QED
  BY <1>1, PaneStepKeepsInv, LayoutStepKeepsInv, SessionStepKeepsInv, DaemonStepKeepsInv
     DEF Next

\* In every reachable state the layout of the session, and the one in its file, are
\* well-formed.
THEOREM InvAlways == Spec => []SessionInv
<1>1. Init => SessionInv
  BY InvHoldsAtFirst
<1>2. SessionInv /\ [Next]_vars => SessionInv'
  BY NextKeepsInv
<1> QED
  BY <1>1, <1>2, PTL DEF Spec

\* Type correctness.
THEOREM TypesHold == Spec => []TypeOK
BY InvAlways, InvGivesTypes, PTL

\* Through every create, close, move, focus, restore and shutdown, each pane of the
\* session has one place in the layout and each place shows a pane of the session.
THEOREM LayoutArranged == Spec => []Arranged
BY InvAlways, InvGivesArranged, PTL

\* A session that is neither dirty nor as it was restored equals its file.
THEOREM CleanSessionsSaved == Spec => []CleanMeansSaved
<1>1. SessionInv => CleanMeansSaved
  BY DEF SessionInv
<1> QED
  BY <1>1, InvAlways, PTL

-----------------------------------------------------------------------------
(* The focus, when panes end.                                              *)

LEMMA CloseInElsewhere ==
    ASSUME NEW ws, WellWorkspace(ws), NEW p, p \notin PanesIn(ws)
    PROVE  CloseIn(ws, p) = ws
<1> DEFINE cs == ws.columns
           C == {c \in DOMAIN cs : Contains(cs[c].tiles, p)}
<1>1. DOMAIN cs = 1..Len(cs)
  BY WorkspaceType
<1>2. ASSUME NEW c \in C PROVE FALSE
  <2>1. c \in 1..Len(cs) /\ \E t \in 1..Len(cs[c].tiles) : cs[c].tiles[t] = p
    BY <1>1 DEF Contains
  <2> QED
    BY <2>1 DEF PanesIn, Shown, Tiles
<1>3. C = {}
  BY <1>2
<1> QED
  BY <1>3 DEF CloseIn

LEMMA CloseInAt ==
    ASSUME NEW ws, WellWorkspace(ws), NEW c \in 1..Len(ws.columns),
           NEW t \in 1..Len(ws.columns[c].tiles), NEW p, p = ws.columns[c].tiles[t]
    PROVE  CloseIn(ws, p) =
             IF Len(ws.columns[c].tiles) > 1
             THEN [ws EXCEPT !.columns[c] = TakeTile(ws.columns[c], t)]
             ELSE [columns |-> RemoveAt(ws.columns, c),
                   active |-> Clamp(ws.active, Len(ws.columns) - 1)]
<1> DEFINE cs == ws.columns
           C == {x \in DOMAIN cs : Contains(cs[x].tiles, p)}
           b == CHOOSE x \in C : TRUE
           u == CHOOSE x \in DOMAIN cs[b].tiles : cs[b].tiles[x] = p
<1>1. WellColumns(cs) /\ DOMAIN cs = 1..Len(cs) /\ ws \in Rows
  BY WorkspaceType DEF WellWorkspace
<1>2. \A x : x \in C <=> x \in 1..Len(cs) /\ p \in Tiles(cs[x])
  BY <1>1 DEF Contains, Tiles
<1>3. p \in Tiles(cs[c]) /\ c \in C
  BY <1>2 DEF Tiles
<1>4. b = c
  <2>1. b \in C
    BY <1>3
  <2> QED
    BY <2>1, <1>1, <1>2, <1>3 DEF WellColumns
<1>5. u = t
  <2>1. WellColumn(cs[c]) /\ DOMAIN cs[c].tiles = 1..Len(cs[c].tiles)
    BY <1>1, ColumnType DEF WellColumns, WellColumn
  <2>2. u \in 1..Len(cs[c].tiles) /\ cs[c].tiles[u] = p
    BY <2>1, <1>4
  <2> QED
    BY <2>1, <2>2 DEF WellColumn
<1>6. CloseIn(ws, p) =
        IF C = {} THEN ws
        ELSE IF Len(cs[b].tiles) > 1 THEN [ws EXCEPT !.columns[b] = TakeTile(@, u)]
             ELSE [columns |-> RemoveAt(cs, b), active |-> Clamp(ws.active, Len(cs) - 1)]
  BY DEF CloseIn
<1>7. [ws EXCEPT !.columns[c] = TakeTile(@, t)] = [ws EXCEPT !.columns[c] = TakeTile(cs[c], t)]
  OBVIOUS
<1> HIDE DEF C, b, u
<1> QED
  BY <1>3, <1>4, <1>5, <1>6, <1>7

LEMMA FocusIs ==
    ASSUME NEW ws, WellWorkspace(ws)
    PROVE  /\ Blank(ws) => FocusOf(ws) = {}
           /\ ~Blank(ws) =>
                FocusOf(ws) = {ws.columns[ws.active].tiles[ws.columns[ws.active].active]}
BY WorkspaceType DEF FocusOf

\* No column to the left of the active one loses all its tiles with the panes of D.
Guarded(ws, D) ==
    \A c \in 1..Len(ws.columns) : c < ws.active => ~(Tiles(ws.columns[c]) \subseteq D)

LEMMA TakeTileFocus ==
    ASSUME NEW col, WellColumn(col), NEW t \in 1..Len(col.tiles), t # col.active
    PROVE  TakeTile(col, t).tiles[TakeTile(col, t).active] = col.tiles[col.active]
<1> DEFINE s == col.tiles
           n == Len(s)
           a == col.active
           r == RemoveAt(s, t)
           b == IF t < a THEN a - 1 ELSE Clamp(a, Len(r))
<1>1. s \in Seq(Pane) /\ n \in Nat /\ a \in 1..n
  BY ColumnType DEF WellColumn
<1>2. Len(r) = n - 1 /\ \A j \in 1..(n - 1) : r[j] = IF j < t THEN s[j] ELSE s[j + 1]
  BY <1>1, RemoveAtProperties
<1>3. TakeTile(col, t).tiles = r /\ TakeTile(col, t).active = b
  BY DEF TakeTile
<1> HIDE DEF r
<1>4. CASE t < a
  BY <1>1, <1>2, <1>3, <1>4
<1>5. CASE a < t
  <2>1. b = a /\ a \in 1..(n - 1)
    BY <1>1, <1>2, <1>5 DEF Clamp
  <2> HIDE DEF b
  <2> QED
    BY <2>1, <1>1, <1>2, <1>3, <1>5
<1> QED
  BY <1>1, <1>4, <1>5

LEMMA CloseInFocus ==
    ASSUME NEW ws, WellWorkspace(ws), NEW D, NEW p \in D,
           FocusOf(ws) # {}, FocusOf(ws) \cap D = {}, Guarded(ws, D)
    PROVE  FocusOf(CloseIn(ws, p)) = FocusOf(ws) /\ Guarded(CloseIn(ws, p), D)
<1> DEFINE cs == ws.columns
           n == Len(cs)
           a == ws.active
           new == CloseIn(ws, p)
<1>1. /\ WellColumns(cs) /\ cs \in Seq(Columns(Pane)) /\ n \in Nat /\ DOMAIN cs = 1..n
      /\ ~Blank(ws) /\ a \in 1..n /\ ws = [columns |-> cs, active |-> a]
      /\ WellWorkspace(new)
  BY WorkspaceType, FocusIs, CloseInWell
<1>2. FocusOf(ws) = {cs[a].tiles[cs[a].active]} /\ cs[a].tiles[cs[a].active] # p
  BY <1>1, FocusIs
<1>3. \A c \in 1..n : WellColumn(cs[c]) /\ cs[c].tiles \in Seq(Pane) /\ Len(cs[c].tiles) \in Nat
                      /\ cs[c].active \in 1..Len(cs[c].tiles)
  BY <1>1, ColumnType DEF WellColumns, WellColumn
<1>4. CASE p \notin PanesIn(ws)
  BY <1>4, CloseInElsewhere
<1>5. CASE p \in PanesIn(ws)
  <2>1. PICK c \in 1..n : \E t \in 1..Len(cs[c].tiles) : cs[c].tiles[t] = p
    BY <1>5 DEF PanesIn, Shown, Tiles
  <2>2. PICK t \in 1..Len(cs[c].tiles) : cs[c].tiles[t] = p
    BY <2>1
  <2> DEFINE short == TakeTile(cs[c], t)
             rest == RemoveAt(cs, c)
  <2>3. new = IF Len(cs[c].tiles) > 1 THEN [ws EXCEPT !.columns[c] = short]
              ELSE [columns |-> rest, active |-> Clamp(a, n - 1)]
    BY <2>2, CloseInAt
  <2>4. CASE Len(cs[c].tiles) > 1
    <3> DEFINE r == [cs EXCEPT ![c] = short]
    <3>1. new = [columns |-> r, active |-> a]
      BY <2>3, <2>4, <1>1
    <3>2. Tiles(short) = Tiles(cs[c]) \ {p} /\ WellColumn(short)
      BY <2>2, <2>4, <1>3, TakeTileWell
    <3>3. c = a => short.tiles[short.active] = cs[a].tiles[cs[a].active]
      <4>1. c = a => t # cs[c].active
        BY <1>2, <2>2
      <4> QED
        BY <4>1, <1>3, TakeTileFocus
    <3> HIDE DEF short, new
    <3>4. /\ Len(r) = n /\ DOMAIN r = 1..n
          /\ \A x \in 1..n : r[x] = IF x = c THEN short ELSE cs[x]
      BY <1>1
    <3> HIDE DEF r
    <3>5. r[a].tiles[r[a].active] = cs[a].tiles[cs[a].active]
      BY <3>3, <3>4, <1>1
    <3>6. FocusOf(new) = {r[a].tiles[r[a].active]}
      BY <3>1, <3>4, <1>1 DEF FocusOf
    <3>7. Guarded(new, D)
      <4> SUFFICES ASSUME NEW x \in 1..n, x < a PROVE ~(Tiles(r[x]) \subseteq D)
        BY <3>1, <3>4 DEF Guarded
      <4>1. ~(Tiles(cs[x]) \subseteq D)
        BY DEF Guarded
      <4> QED
        BY <4>1, <3>2, <3>4
    <3> QED
      BY <3>5, <3>6, <3>7, <1>2 DEF new
  <2>5. CASE ~(Len(cs[c].tiles) > 1)
    <3>1. Len(cs[c].tiles) = 1 /\ t = 1
      <4>1. \A m \in Nat : \A x \in 1..m : ~(m > 1) => m = 1 /\ x = 1
        OBVIOUS
      <4>2. Len(cs[c].tiles) \in Nat
        BY <1>3
      <4> QED
        BY <4>1, <4>2, <2>5
    <3>2. Tiles(cs[c]) = {p}
      BY <3>1, <2>2 DEF Tiles
    <3>3. c # a
      BY <3>1, <2>2, <1>2, <1>3
    <3>4. ~(c < a)
      BY <3>2 DEF Guarded
    <3>5. a < c /\ a \in 1..(n - 1) /\ Clamp(a, n - 1) = a
      BY <3>3, <3>4, <1>1 DEF Clamp
    <3>6. /\ Len(rest) = n - 1 /\ rest \in Seq(Columns(Pane))
          /\ \A j \in 1..(n - 1) : j < c => rest[j] = cs[j]
      BY <1>1, RemoveAtProperties
    <3>7. new = [columns |-> rest, active |-> a]
      BY <2>3, <2>5, <3>5
    <3> HIDE DEF rest, new
    <3>8. FocusOf(new) = {rest[a].tiles[rest[a].active]}
      <4>1. DOMAIN rest = 1..(n - 1)
        BY <3>6
      <4> QED
        BY <4>1, <3>5, <3>7 DEF FocusOf
    <3>9. Guarded(new, D)
      <4> SUFFICES ASSUME NEW x \in 1..(n - 1), x < a PROVE ~(Tiles(rest[x]) \subseteq D)
        BY <3>6, <3>7 DEF Guarded
      <4>1. x < c /\ x \in 1..n /\ rest[x] = cs[x]
        BY <3>5, <3>6, <1>1
      <4> QED
        BY <4>1 DEF Guarded
    <3> QED
      BY <3>5, <3>6, <3>8, <3>9, <1>2 DEF new
  <2> QED
    BY <2>4, <2>5
<1> QED
  BY <1>4, <1>5

\* How many elements of K lie before one of them, and one more: its place in K.
LEMMA RankBelow ==
    ASSUME NEW n \in Nat, NEW K \in SUBSET (1..n), NEW k \in K
    PROVE  Cardinality({i \in K : i < k}) + 1 = Rank(K, k)
<1> DEFINE below == {i \in K : i < k}
<1>1. IsFiniteSet(K)
  BY RankProperties
<1>2. IsFiniteSet(below)
  BY <1>1, FS_Subset
<1>3. {j \in K : j <= k} = below \cup {k} /\ k \notin below
  <2>1. k \in 1..n /\ \A j \in K : j \in 1..n
    OBVIOUS
  <2>2. ~(k < k) /\ \A j \in K : j <= k <=> j < k \/ j = k
    BY <2>1
  <2> QED
    BY <2>2
<1> HIDE DEF below
<1>4. Cardinality(below \cup {k}) = Cardinality(below) + 1
  BY <1>2, <1>3, FS_AddElement
<1> QED
  BY <1>3, <1>4 DEF Rank, below

\* The workspace to which cleanup_empty leaves the focus.
Heir(l) ==
    LET n == Len(l.workspaces)
        Kept == {i \in 1..n : ~Blank(l.workspaces[i])}
    IN  IF n = 1 \/ l.active \in Kept THEN l.active
        ELSE IF l.active > 1 THEN l.active - 1
        ELSE IF Kept = {} THEN 1
        ELSE CHOOSE i \in Kept : \A j \in Kept : i <= j

LEMMA CleanupEmptyFocus ==
    ASSUME NEW l, Well(l), Heir(l) \in 1..Len(l.workspaces), ~Blank(l.workspaces[Heir(l)])
    PROVE  ActiveWorkspace(CleanupEmpty(l)) = l.workspaces[Heir(l)]
<1> DEFINE s == l.workspaces
           n == Len(s)
           Kept == {i \in 1..n : ~Blank(s[i])}
           h == Heir(l)
           below == Cardinality({i \in Kept : i < h})
           r == AtIndices(s, Kept)
<1>1. WellStack(s) /\ s \in Seq(Rows) /\ n \in Nat
  BY LayoutType
<1>2. h \in Kept /\ Kept \in SUBSET (1..n)
  OBVIOUS
<1>3. CleanupEmpty(l) = [workspaces |-> r, active |-> Clamp(below + 1, Cardinality(Kept))]
  <2>1. Kept # {}
    BY <1>2
  <2> QED
    BY <2>1 DEF CleanupEmpty, Heir
<1> HIDE DEF h, Kept
<1>4. below + 1 = Rank(Kept, h)
  BY <1>1, <1>2, RankBelow
<1>5. /\ Cardinality(Kept) \in Nat /\ Rank(Kept, h) \in 1..Cardinality(Kept)
      /\ r[Rank(Kept, h)] = s[h]
  BY <1>1, <1>2, AtIndicesProperties
<1>6. Clamp(Rank(Kept, h), Cardinality(Kept)) = Rank(Kept, h)
  BY <1>5 DEF Clamp
<1> HIDE DEF r, below
<1>7. ActiveWorkspace(CleanupEmpty(l)) = r[Rank(Kept, h)]
  BY <1>3, <1>4, <1>6 DEF ActiveWorkspace
<1> QED
  BY <1>5, <1>7 DEF h

\* In particular it stays where it is, if there is something to show.
LEMMA CleanupEmptyStays ==
    ASSUME NEW l, Well(l), ~Blank(ActiveWorkspace(l))
    PROVE  ActiveWorkspace(CleanupEmpty(l)) = ActiveWorkspace(l)
<1>1. l.active \in 1..Len(l.workspaces)
  BY LayoutType
<1>2. Heir(l) = l.active
  BY <1>1 DEF Heir, ActiveWorkspace
<1> QED
  BY <1>1, <1>2, CleanupEmptyFocus DEF ActiveWorkspace

\* One pane of several that end does not take the focus away.
LEMMA ClosePaneFocus ==
    ASSUME NEW l, Well(l), NEW D, NEW p \in D,
           Focused(l) # {}, Focused(l) \cap D = {}, Guarded(ActiveWorkspace(l), D)
    PROVE  /\ Focused(ClosePane(l, p)) = Focused(l)
           /\ Guarded(ActiveWorkspace(ClosePane(l, p)), D)
<1> DEFINE ws == ActiveWorkspace(l)
           new == CloseIn(ws, p)
           m == Closed(l, p)
<1>1. WellWorkspace(ws) /\ l.active \in 1..Len(l.workspaces) /\ ws = l.workspaces[l.active]
  BY LayoutType DEF ActiveWorkspace
<1>2. FocusOf(new) = FocusOf(ws) /\ Guarded(new, D) /\ WellWorkspace(new)
  BY <1>1, CloseInFocus, CloseInWell DEF Focused
<1>3. ~Blank(new)
  BY <1>2, FocusIs DEF Focused
<1>4. Well(m) /\ ClosePane(l, p) = CleanupEmpty(m) /\ ActiveWorkspace(m) = new
  BY <1>1, ClosedWell DEF ActiveWorkspace
<1> HIDE DEF new, ws, m
<1>5. ActiveWorkspace(CleanupEmpty(m)) = new
  BY <1>3, <1>4, CleanupEmptyStays
<1> QED
  BY <1>2, <1>4, <1>5 DEF Focused, ws

\* What holds at the beginning of a run and is kept holds at its end.
LEMMA FoldFocus ==
    ASSUME NEW l, Well(l), NEW n \in Nat, NEW s, DOMAIN s = 1..n,
           NEW D, \A i \in 1..n : s[i] \in D,
           Focused(l) # {}, Focused(l) \cap D = {}, Guarded(ActiveWorkspace(l), D)
    PROVE  Focused(AllClosed(l, s)) = Focused(l)
<1>1. PICK run : IsRun(run, l, n, s)
  BY FoldRun
<1> DEFINE P(k) == Well(run[k]) /\ Focused(run[k]) = Focused(l)
                   /\ Guarded(ActiveWorkspace(run[k]), D)
           T == {k \in Nat : k <= n /\ ~P(k)}
<1>2. ASSUME T # {} PROVE FALSE
  <2>1. PICK m \in T : \A k \in T : m <= k
    BY <1>2, LeastNat
  <2>2. m \in Nat /\ m <= n /\ ~P(m)
    OBVIOUS
  <2>3. m # 0
    BY <2>2, <1>1 DEF IsRun
  <2>4. m \in 1..n /\ m - 1 \in Nat /\ m - 1 <= n /\ ~(m <= m - 1)
    BY <2>2, <2>3
  <2>5. P(m - 1)
    BY <2>1, <2>4
  <2>6. run[m] = ClosePane(run[m - 1], s[m]) /\ s[m] \in D
    BY <2>4, <1>1 DEF IsRun
  <2> QED
    BY <2>2, <2>5, <2>6, ClosePaneWell, ClosePaneFocus
<1>3. P(n)
  BY <1>2
<1> QED
  BY <1>1, <1>3 DEF IsRun

\* The steps after which a session has fewer panes.
LEMMA PanesEnd ==
    ASSUME SessionInv, [Next]_vars, live', panes \ panes' # {}
    PROVE  /\ Well(layout) /\ AllPanes(layout) = panes /\ IsFiniteSet(panes)
           /\ \/ \E p \in Pane : panes' = panes \ {p} /\ layout' = ClosePane(layout, p)
              \/ \E D \in SUBSET panes : \E order \in SetToSeqs(D) :
                   panes' = panes \ D /\ layout' = AllClosed(layout, order)
<1>1. Well(layout) /\ AllPanes(layout) = panes /\ IsFiniteSet(panes)
  BY FinitePanes DEF SessionInv
<1>2. live /\ panes # {}
  BY NewLayoutWell DEF SessionInv
<1>3. ASSUME NEW p \in Pane, PaneStep(p)
      PROVE  panes' = panes \ {p} /\ layout' = ClosePane(layout, p)
  <2>1. ~CreatePane(p) /\ ~SplitDown(p) /\ ~NewTileBelow(p)
        /\ (\A q \in Pane : ~CreatePaneAt(q, p))
    BY DEF CreatePane, SplitDown, NewTileBelow, CreatePaneAt, Created
  <2>2. ~CreatePaneAtFails(p) /\ ~FocusPane(p)
    BY DEF CreatePaneAtFails, FocusPane, Rearranged
  <2>3. CloseRequest(p)
    BY <1>3, <2>1, <2>2 DEF PaneStep
  <2> QED
    BY <2>3 DEF CloseRequest, Changed
<1>4. ~LayoutStep
  <2>1. LayoutStep => panes' = panes
    BY Zenon
       DEF LayoutStep, FocusColumn, FocusVertically, MoveColumn, SwitchWorkspace, MovePane,
           ConsumeIntoColumn, ExpelFromColumn, Reshape, Rearranged
  <2> QED
    BY <2>1
<1>5. ASSUME SessionStep
      PROVE  \E D \in SUBSET panes : \E order \in SetToSeqs(D) :
               panes' = panes \ D /\ layout' = AllClosed(layout, order)
  <2>1. ~TickEndsSession /\ ~KillSession
    BY DEF TickEndsSession, KillSession, Gone
  <2>2. ~TickSaves /\ ~AgentsChange
    BY DEF TickSaves, AgentsChange
  <2>3. ~AttachNew /\ ~AttachEmpty
    BY <1>2 DEF AttachNew, AttachEmpty
  <2>4. PICK D \in SUBSET panes : TickCloses(D)
    BY <1>5, <2>1, <2>2, <2>3 DEF SessionStep
  <2> QED
    BY <2>4 DEF TickCloses, Changed, AllClosed
<1>6. ~DaemonStep
  BY DEF DaemonStep, GracefulShutdown, DaemonEnds, DaemonStarts, Gone
<1>7. ~UNCHANGED vars
  BY DEF vars
<1> QED
  BY <1>1, <1>3, <1>4, <1>5, <1>6, <1>7 DEF Next

LEMMA PanesEndElsewhere ==
    ASSUME SessionInv, [Next]_vars, NEW D, D = panes \ panes', live', D # {},
           Focused(layout) # {}, Focused(layout) \cap D = {}, ~ShiftsFocus(D)
    PROVE  Focused(layout') = Focused(layout)
<1> DEFINE ws == ActiveWorkspace(layout)
<1>1. /\ Well(layout) /\ IsFiniteSet(panes)
      /\ \/ \E p \in Pane : panes' = panes \ {p} /\ layout' = ClosePane(layout, p)
         \/ \E E \in SUBSET panes : \E order \in SetToSeqs(E) :
              panes' = panes \ E /\ layout' = AllClosed(layout, order)
  BY PanesEnd
<1>2. Guarded(ws, D)
  <2>1. /\ WellWorkspace(ws) /\ Len(ws.columns) \in Nat /\ ws.active \in Nat
        /\ DOMAIN ws.columns = 1..Len(ws.columns)
    BY <1>1, LayoutType, WorkspaceType
  <2>2. \A c \in 1..Len(ws.columns) : DOMAIN ws.columns[c].tiles = 1..Len(ws.columns[c].tiles)
    BY <2>1, ColumnOf, ColumnType DEF WellColumn
  <2> SUFFICES ASSUME NEW c \in 1..Len(ws.columns), c < ws.active,
                      Tiles(ws.columns[c]) \subseteq D
               PROVE  FALSE
    BY DEF Guarded
  <2>3. c \in 1..(ws.active - 1) /\ c \in DOMAIN ws.columns
    BY <2>1
  <2>4. ToSet(ws.columns[c].tiles) \subseteq D
    BY <2>2 DEF ToSet, Tiles
  <2> QED
    BY <2>3, <2>4 DEF ShiftsFocus
<1>3. ASSUME NEW p \in Pane, panes' = panes \ {p}, layout' = ClosePane(layout, p)
      PROVE  Focused(layout') = Focused(layout)
  <2>1. p \in D
    BY <1>3
  <2> QED
    BY <2>1, <1>1, <1>2, <1>3, ClosePaneFocus
<1>4. ASSUME NEW E \in SUBSET panes, NEW order \in SetToSeqs(E),
             panes' = panes \ E, layout' = AllClosed(layout, order)
      PROVE  Focused(layout') = Focused(layout)
  <2>1. E = D /\ IsFiniteSet(E)
    BY <1>1, <1>4, FS_Subset
  <2>2. /\ Cardinality(E) \in Nat /\ DOMAIN order = 1..Cardinality(E)
        /\ {order[i] : i \in 1..Cardinality(E)} = E
    BY <2>1, OrderHasAll
  <2>3. \A i \in 1..Cardinality(E) : order[i] \in D
    BY <2>1, <2>2
  <2> QED
    BY <2>2, <2>3, <1>1, <1>2, <1>4, FoldFocus
<1> QED
  BY <1>1, <1>3, <1>4

\* Panes that end elsewhere do not take the focus away, unless a column to the left
\* of the active one goes.
THEOREM FocusUndisturbed == Spec => FocusStays
<1> DEFINE D == panes \ panes'
           A == live' /\ D # {} /\ panes' \subseteq panes /\ Focused(layout) # {}
                /\ Focused(layout) \cap D = {} /\ ~ShiftsFocus(D)
                  => Focused(layout') = Focused(layout)
<1>1. SessionInv /\ [Next]_vars => A
  BY PanesEndElsewhere
<1>2. Spec => [][A]_vars
  BY <1>1, InvAlways, PTL DEF Spec
<1> QED
  BY <1>2 DEF FocusStays

LEMMA FinitePlaces ==
    ASSUME NEW l, Well(l)
    PROVE  IsFiniteSet(Places(l))
<1> DEFINE f == [x \in Places(l) |-> PaneAt(l, x)]
<1>1. PanesOf(l) = AllPanes(l) /\ IsFiniteSet(AllPanes(l))
  BY PanesOfAre, FinitePanes
<1>2. f \in [Places(l) -> AllPanes(l)] /\ \A x \in Places(l) : f[x] = PaneAt(l, x)
  BY <1>1 DEF PanesOf
<1>3. \A x, y \in Places(l) : f[x] = f[y] => x = y
  BY <1>2, PlacesDiffer
<1> HIDE DEF f
<1>4. f \in Injection(Places(l), AllPanes(l))
  BY <1>2, <1>3 DEF Injection, IsInjective
<1> QED
  BY <1>1, <1>4, FS_Injection

\* A workspace with one place in the layout has one column with one tile.
LEMMA Alone ==
    ASSUME NEW l, Well(l), ~Blank(ActiveWorkspace(l)),
           OnePane(l)
    PROVE  /\ Len(ActiveWorkspace(l).columns) = 1
           /\ Len(ActiveWorkspace(l).columns[1].tiles) = 1
<1> DEFINE here == {x \in Places(l) : x[1] = l.active}
           ws == ActiveWorkspace(l)
           a == l.active
<1>1. IsFiniteSet(here) /\ Cardinality(here) = 1
  BY FinitePlaces, FS_Subset DEF OnePane
<1>2. PICK x : here = {x}
  BY <1>1, FS_Singleton
<1>3. /\ WellWorkspace(ws) /\ Len(ws.columns) \in Nat \ {0} /\ WellColumns(ws.columns)
      /\ a \in 1..Len(l.workspaces) /\ ws = l.workspaces[a]
  BY LayoutType, WorkspaceType DEF ActiveWorkspace
<1>4. \A c \in 1..Len(ws.columns) : \A t \in 1..Len(ws.columns[c].tiles) : <<a, c, t>> \in here
  <2> SUFFICES ASSUME NEW c \in 1..Len(ws.columns), NEW t \in 1..Len(ws.columns[c].tiles)
               PROVE  <<a, c, t>> \in here
    OBVIOUS
  <2>1. <<a, c, t>> \in Places(l)
    BY <1>3, PlacesAre
  <2> QED
    BY <2>1
<1>5. \A c \in 1..Len(ws.columns) : Len(ws.columns[c].tiles) \in Nat \ {0}
  <2> SUFFICES ASSUME NEW c \in 1..Len(ws.columns)
               PROVE  Len(ws.columns[c].tiles) \in Nat \ {0}
    OBVIOUS
  <2>1. WellColumn(ws.columns[c])
    BY <1>3 DEF WellColumns
  <2>2. Len(ws.columns[c].tiles) \in Nat /\ ws.columns[c].active \in 1..Len(ws.columns[c].tiles)
    BY <2>1, ColumnType DEF WellColumn
  <2> QED
    BY <2>2
<1> HIDE DEF here, ws, a
<1>8. \A n \in Nat \ {0} : n # 1 => 1 \in 1..n /\ 2 \in 1..n
  OBVIOUS
<1>6. Len(ws.columns) = 1
  <2> SUFFICES ASSUME Len(ws.columns) # 1 PROVE FALSE
    OBVIOUS
  <2>1. 1 \in 1..Len(ws.columns) /\ 2 \in 1..Len(ws.columns)
    BY <1>3, <1>8
  <2>2. 1 \in 1..Len(ws.columns[1].tiles) /\ 1 \in 1..Len(ws.columns[2].tiles)
    <3>1. \A n \in Nat \ {0} : 1 \in 1..n
      OBVIOUS
    <3> QED
      BY <3>1, <2>1, <1>5
  <2>3. <<a, 1, 1>> = x /\ <<a, 2, 1>> = x
    BY <2>1, <2>2, <1>2, <1>4
  <2> QED
    BY <2>3
<1>7. Len(ws.columns[1].tiles) = 1
  <2> SUFFICES ASSUME Len(ws.columns[1].tiles) # 1 PROVE FALSE
    OBVIOUS
  <2>1. 1 \in 1..Len(ws.columns) /\ Len(ws.columns[1].tiles) \in Nat \ {0}
    <3>1. 1 \in 1..Len(ws.columns)
      BY <1>6
    <3> QED
      BY <3>1, <1>5
  <2>2. 1 \in 1..Len(ws.columns[1].tiles) /\ 2 \in 1..Len(ws.columns[1].tiles)
    BY <2>1, <1>8
  <2>3. <<a, 1, 1>> = x /\ <<a, 1, 2>> = x
    BY <2>1, <2>2, <1>2, <1>4
  <2> QED
    BY <2>3
<1> QED
  BY <1>6, <1>7 DEF ws

\* Its pane ends: the focus goes up, or down from the top.
LEMMA LastOfWorkspaceEnds ==
    ASSUME NEW l, Well(l), NEW p \in Focused(l),
           OnePane(l), Len(l.workspaces) > 1,
           \A w \in 1..Len(l.workspaces) : w # l.active => ~Blank(l.workspaces[w])
    PROVE  Focused(ClosePane(l, p)) =
             FocusOf(l.workspaces[IF l.active > 1 THEN l.active - 1 ELSE 2])
<1> DEFINE s == l.workspaces
           n == Len(s)
           a == l.active
           ws == s[a]
           m == Closed(l, p)
           r == m.workspaces
           to == IF a > 1 THEN a - 1 ELSE 2
           Kept == {i \in 1..n : ~Blank(r[i])}
<1>1. /\ WellStack(s) /\ n \in Nat /\ a \in 1..n /\ WellWorkspace(ws) /\ ws = ActiveWorkspace(l)
  BY LayoutType DEF ActiveWorkspace
<1>2. p \in PanesIn(ws) /\ ~Blank(ws) /\ FocusOf(ws) = {ws.columns[ws.active].tiles[ws.columns[ws.active].active]}
  BY <1>1, FocusedShown, FocusIs
<1>3. Len(ws.columns) = 1 /\ Len(ws.columns[1].tiles) = 1
  BY <1>1, <1>2, Alone
<1>4. /\ Well(m) /\ ClosePane(l, p) = CleanupEmpty(m) /\ Len(r) = n /\ m.active = a
      /\ \A w \in 1..n : r[w] = CloseIn(s[w], p)
  BY ClosedWell
<1>5. p = ws.columns[1].tiles[1]
  <2>1. PICK c \in 1..Len(ws.columns) : \E t \in 1..Len(ws.columns[c].tiles) : ws.columns[c].tiles[t] = p
    BY <1>2 DEF PanesIn, Shown, Tiles
  <2> QED
    BY <2>1, <1>3
<1>6. Blank(r[a])
  <2>1. 1 \in 1..Len(ws.columns) /\ 1 \in 1..Len(ws.columns[1].tiles) /\ ~(1 > 1)
    BY <1>3
  <2>2. r[a] = [columns |-> RemoveAt(ws.columns, 1), active |-> Clamp(ws.active, Len(ws.columns) - 1)]
    BY <2>1, <1>1, <1>3, <1>4, <1>5, CloseInAt
  <2>3. Len(RemoveAt(ws.columns, 1)) = 0
    <3>1. /\ Len(RemoveAt(ws.columns, 1)) = Len(ws.columns) - 1
      BY <2>1, <1>1, WorkspaceType, RemoveColumn
    <3> QED
      BY <3>1, <1>3
  <2>4. WellWorkspace(r[a])
    <3>1. WellStack(r) /\ a \in 1..Len(r)
      BY <1>1, <1>4, LayoutType
    <3> HIDE DEF r
    <3> QED
      BY <3>1, StackType
  <2> QED
    BY <2>2, <2>3, <2>4, WorkspaceType
<1>7. \A w \in 1..n : w # a => r[w] = s[w] /\ ~Blank(r[w])
  <2> SUFFICES ASSUME NEW w \in 1..n, w # a PROVE r[w] = s[w] /\ ~Blank(r[w])
    OBVIOUS
  <2>1. WellWorkspace(s[w]) /\ p \notin PanesIn(s[w])
    BY <1>1, <1>2, StackType DEF WellStack
  <2>2. r[w] = s[w]
    BY <2>1, <1>4, CloseInElsewhere
  <2> QED
    BY <2>2
<1>8. to \in 1..n /\ to # a
  BY <1>1
<1>9. Heir(m) = to
  <2>1. Heir(m) = IF n = 1 \/ a \in Kept THEN a
                  ELSE IF a > 1 THEN a - 1
                  ELSE IF Kept = {} THEN 1
                  ELSE CHOOSE i \in Kept : \A j \in Kept : i <= j
    BY <1>4 DEF Heir
  <2>2. a \notin Kept /\ n # 1
    BY <1>1, <1>6
  <2>3. CASE a > 1
    BY <2>1, <2>2, <2>3
  <2>4. CASE ~(a > 1)
    <3>1. a = 1 /\ to = 2
      BY <2>4, <1>1
    <3>2. 2 \in Kept /\ \A i \in Kept : i \in Nat /\ 2 <= i
      BY <3>1, <1>1, <1>6, <1>7, <1>8
    <3> HIDE DEF Kept
    <3>3. \A i \in Kept : (\A j \in Kept : i <= j) => i = 2
      BY <3>2
    <3>4. (CHOOSE i \in Kept : \A j \in Kept : i <= j) = 2
      BY <3>2, <3>3
    <3> QED
      BY <2>1, <2>2, <3>1, <3>2, <3>4
  <2> QED
    BY <2>3, <2>4
<1> HIDE DEF m, to
<1>10. ActiveWorkspace(CleanupEmpty(m)) = s[to]
  BY <1>4, <1>7, <1>8, <1>9, CleanupEmptyFocus
<1> QED
  BY <1>4, <1>10 DEF Focused, to

LEMMA OnePaneClosed ==
    ASSUME NEW l, NEW p, NEW order \in SetToSeqs({p})
    PROVE  AllClosed(l, order) = ClosePane(l, p)
<1>1. IsFiniteSet({p}) /\ Cardinality({p}) = 1
  BY FS_Singleton
<1>2. DOMAIN order = 1..1 /\ {order[i] : i \in 1..1} = {p}
  BY <1>1, OrderHasAll
<1>3. order[1] = p
  BY <1>2
<1>4. PICK run : IsRun(run, l, 1, order)
  BY <1>2, FoldRun
<1>5. run[1] = ClosePane(run[1 - 1], p) /\ run[0] = l /\ run[1] = AllClosed(l, order)
  BY <1>3, <1>4 DEF IsRun
<1>6. 1 - 1 = 0
  OBVIOUS
<1>7. run[1 - 1] = l
  BY <1>5, <1>6, Zenon
<1> QED
  BY <1>5, <1>7, Zenon

LEMMA FocusedPaneEnds ==
    ASSUME SessionInv, [Next]_vars, live', panes' # panes, panes' = panes \ Focused(layout),
           OnePane(layout),
           DOMAIN layout.workspaces \ {layout.active} # {},
           \A w \in DOMAIN layout.workspaces \ {layout.active} : ~Blank(layout.workspaces[w])
    PROVE  Focused(layout') =
             FocusOf(layout.workspaces[IF layout.active > 1 THEN layout.active - 1 ELSE 2])
<1>1. /\ Well(layout) /\ IsFiniteSet(panes)
      /\ \/ \E p \in Pane : panes' = panes \ {p} /\ layout' = ClosePane(layout, p)
         \/ \E D \in SUBSET panes : \E order \in SetToSeqs(D) :
              panes' = panes \ D /\ layout' = AllClosed(layout, order)
  BY PanesEnd
<1>2. PICK f : f \in Focused(layout) /\ f \in panes
  <2> SUFFICES ASSUME \A f \in Focused(layout) : f \notin panes PROVE FALSE
    OBVIOUS
  <2>1. panes \ Focused(layout) = panes
    OBVIOUS
  <2> QED
    BY <2>1
<1>3. Focused(layout) = {f}
  <2>1. WellWorkspace(ActiveWorkspace(layout))
    BY <1>1, LayoutType
  <2> QED
    BY <2>1, <1>2, FocusIs DEF Focused
<1>4. layout' = ClosePane(layout, f)
  <2>1. ASSUME NEW p \in Pane, panes' = panes \ {p}, layout' = ClosePane(layout, p)
        PROVE  layout' = ClosePane(layout, f)
    <3>1. p = f
      BY <2>1, <1>2, <1>3
    <3> QED
      BY <3>1, <2>1
  <2>2. ASSUME NEW D \in SUBSET panes, NEW order \in SetToSeqs(D),
               panes' = panes \ D, layout' = AllClosed(layout, order)
        PROVE  layout' = ClosePane(layout, f)
    <3>1. D = {f}
      BY <2>2, <1>2, <1>3
    <3> QED
      BY <3>1, <2>2, OnePaneClosed
  <2> QED
    BY <1>1, <2>1, <2>2
<1>5. /\ Len(layout.workspaces) > 1
      /\ \A w \in 1..Len(layout.workspaces) :
            w # layout.active => ~Blank(layout.workspaces[w])
  <2>1. /\ DOMAIN layout.workspaces = 1..Len(layout.workspaces)
        /\ Len(layout.workspaces) \in Nat /\ layout.active \in 1..Len(layout.workspaces)
    BY <1>1, LayoutType
  <2> QED
    BY <2>1
<1> QED
  BY <1>1, <1>2, <1>4, <1>5, LastOfWorkspaceEnds

\* When the last pane of the focused workspace ends, the focus goes to the one
\* above, or from the top to the one below.
THEOREM FocusAbove == Spec => FocusGoesUp
<1> DEFINE Other == DOMAIN layout.workspaces \ {layout.active}
           to == IF layout.active > 1 THEN layout.active - 1 ELSE 2
           A == live' /\ panes' # panes /\ panes' = panes \ Focused(layout)
                /\ OnePane(layout) /\ Other # {}
                /\ (\A w \in Other : ~Blank(layout.workspaces[w]))
                  => Focused(layout') = FocusOf(layout.workspaces[to])
<1>1. SessionInv /\ [Next]_vars => A
  BY FocusedPaneEnds
<1>2. Spec => [][A]_vars
  BY <1>1, InvAlways, PTL DEF Spec
<1> QED
  BY <1>2 DEF FocusGoesUp

-----------------------------------------------------------------------------
(* The order of the panes.                                                 *)

\* p above q in a column, left of it in a row of columns, or before it in a stack
\* of workspaces.
InColumn(col, p, q) ==
    \E t, u \in 1..Len(col.tiles) : t < u /\ col.tiles[t] = p /\ col.tiles[u] = q

InRow(cs, p, q) ==
    \E c, d \in 1..Len(cs) : /\ p \in Tiles(cs[c]) /\ q \in Tiles(cs[d])
                             /\ c < d \/ (c = d /\ InColumn(cs[c], p, q))

InStack(s, p, q) ==
    \E v, w \in 1..Len(s) : /\ p \in PanesIn(s[v]) /\ q \in PanesIn(s[w])
                            /\ v < w \/ (v = w /\ InRow(s[v].columns, p, q))

LEMMA PrecedesIs ==
    ASSUME NEW l, Well(l), NEW p, NEW q
    PROVE  Precedes(l, p, q) <=> InStack(l.workspaces, p, q)
<1> DEFINE s == l.workspaces
<1>1. ASSUME Precedes(l, p, q) PROVE InStack(s, p, q)
  <2>1. PICK x \in Places(l), y \in Places(l) :
               PaneAt(l, x) = p /\ PaneAt(l, y) = q /\ Before(x, y)
    BY <1>1 DEF Precedes
  <2> DEFINE v == x[1]  c == x[2]  t == x[3]  w == y[1]  d == y[2]  u == y[3]
  <2>2. /\ v \in 1..Len(s) /\ c \in 1..Len(s[v].columns)
        /\ t \in 1..Len(s[v].columns[c].tiles)
        /\ w \in 1..Len(s) /\ d \in 1..Len(s[w].columns)
        /\ u \in 1..Len(s[w].columns[d].tiles)
    BY PlaceParts
  <2>3. s[v].columns[c].tiles[t] = p /\ s[w].columns[d].tiles[u] = q
    BY <2>1 DEF PaneAt
  <2>4. p \in Tiles(s[v].columns[c]) /\ q \in Tiles(s[w].columns[d])
    BY <2>2, <2>3 DEF Tiles
  <2>5. p \in PanesIn(s[v]) /\ q \in PanesIn(s[w])
    BY <2>2, <2>4 DEF PanesIn, Shown
  <2>6. v < w \/ (v = w /\ c < d) \/ (v = w /\ c = d /\ t < u)
    BY <2>1 DEF Before
  <2> HIDE DEF v, c, t, w, d, u, s
  <2>7. v = w /\ c = d /\ t < u => InColumn(s[v].columns[c], p, q)
    BY <2>2, <2>3 DEF InColumn
  <2>8. v = w /\ (c < d \/ (c = d /\ t < u)) => InRow(s[v].columns, p, q)
    BY <2>2, <2>4, <2>7 DEF InRow
  <2> QED
    BY <2>2, <2>5, <2>6, <2>8 DEF InStack
<1>2. ASSUME InStack(s, p, q) PROVE Precedes(l, p, q)
  <2>1. \A v \in 1..Len(s) : \A c \in 1..Len(s[v].columns) :
          \A t \in 1..Len(s[v].columns[c].tiles) :
            <<v, c, t>> \in Places(l) /\ PaneAt(l, <<v, c, t>>) = s[v].columns[c].tiles[t]
    BY PlacesAre DEF PaneAt
  <2>2. PICK v \in 1..Len(s), w \in 1..Len(s) :
               /\ p \in PanesIn(s[v]) /\ q \in PanesIn(s[w])
               /\ v < w \/ (v = w /\ InRow(s[v].columns, p, q))
    BY <1>2 DEF InStack
  <2> HIDE DEF s
  <2>3. CASE v < w
    <3>1. PICK c \in 1..Len(s[v].columns) :
                 \E t \in 1..Len(s[v].columns[c].tiles) : s[v].columns[c].tiles[t] = p
      BY <2>2 DEF PanesIn, Shown, Tiles
    <3>2. PICK d \in 1..Len(s[w].columns) :
                 \E u \in 1..Len(s[w].columns[d].tiles) : s[w].columns[d].tiles[u] = q
      BY <2>2 DEF PanesIn, Shown, Tiles
    <3>3. PICK t \in 1..Len(s[v].columns[c].tiles) : s[v].columns[c].tiles[t] = p
      BY <3>1
    <3>4. PICK u \in 1..Len(s[w].columns[d].tiles) : s[w].columns[d].tiles[u] = q
      BY <3>2
    <3>5. Before(<<v, c, t>>, <<w, d, u>>)
      BY <2>3 DEF Before
    <3> QED
      BY <3>3, <3>4, <3>5, <2>1 DEF Precedes
  <2>4. CASE v = w /\ InRow(s[v].columns, p, q)
    <3>1. PICK c \in 1..Len(s[v].columns), d \in 1..Len(s[v].columns) :
                 /\ p \in Tiles(s[v].columns[c]) /\ q \in Tiles(s[v].columns[d])
                 /\ c < d \/ (c = d /\ InColumn(s[v].columns[c], p, q))
      BY <2>4 DEF InRow
    <3>2. PICK t \in 1..Len(s[v].columns[c].tiles), u \in 1..Len(s[v].columns[d].tiles) :
                 /\ s[v].columns[c].tiles[t] = p /\ s[v].columns[d].tiles[u] = q
                 /\ c < d \/ (c = d /\ t < u)
      BY <3>1 DEF Tiles, InColumn
    <3>3. Before(<<v, c, t>>, <<v, d, u>>)
      BY <3>2 DEF Before
    <3> QED
      BY <3>2, <3>3, <2>1 DEF Precedes
  <2> QED
    BY <2>2, <2>3, <2>4
<1> QED
  BY <1>1, <1>2

\* Layouts that show the panes of P are in the same order if every two of them keep
\* the order of the first.
LEMMA OrderKept ==
    ASSUME NEW l, Well(l), NEW m, Well(m), NEW P, P \subseteq AllPanes(l),
           \A p, q \in P : Precedes(l, p, q) => Precedes(m, p, q)
    PROVE  SameOrder(l, m, P)
<1>1. ASSUME NEW p \in P, NEW q \in P, Precedes(m, p, q) PROVE Precedes(l, p, q)
  <2>1. PICK x \in Places(l) : PaneAt(l, x) = p
    BY PanesOfAre DEF PanesOf
  <2>2. PICK y \in Places(l) : PaneAt(l, y) = q
    BY PanesOfAre DEF PanesOf
  <2>3. PICK x2 \in Places(m), y2 \in Places(m) :
               PaneAt(m, x2) = p /\ PaneAt(m, y2) = q /\ Before(x2, y2)
    BY <1>1 DEF Precedes
  <2>4. /\ x2[1] \in Int /\ x2[2] \in Int /\ x2[3] \in Int
        /\ y2[1] \in Int /\ y2[2] \in Int /\ y2[3] \in Int
    BY PlaceParts
  <2>5. ~Before(y2, x2) /\ x2 # y2
    BY <2>3, <2>4 DEF Before
  <2>6. ~Precedes(m, q, p)
    <3> SUFFICES ASSUME NEW x3 \in Places(m), NEW y3 \in Places(m),
                        PaneAt(m, x3) = q, PaneAt(m, y3) = p, Before(x3, y3)
                 PROVE  FALSE
      BY DEF Precedes
    <3>1. x3 = y2 /\ y3 = x2
      BY <2>3, PlacesDiffer
    <3> QED
      BY <3>1, <2>5
  <2>7. ~Before(y, x)
    BY <2>1, <2>2, <2>6 DEF Precedes
  <2>8. x # y
    BY <2>1, <2>2, <2>3, <2>5, PlacesDiffer
  <2>9. /\ x[1] \in Int /\ x[2] \in Int /\ x[3] \in Int /\ x = <<x[1], x[2], x[3]>>
        /\ y[1] \in Int /\ y[2] \in Int /\ y[3] \in Int /\ y = <<y[1], y[2], y[3]>>
    BY PlaceParts
  <2>10. Before(x, y)
    <3>1. x[1] # y[1] \/ x[2] # y[2] \/ x[3] # y[3]
      BY <2>8, <2>9
    <3> QED
      BY <3>1, <2>7, <2>9 DEF Before
  <2> QED
    BY <2>1, <2>2, <2>10 DEF Precedes
<1> QED
  BY <1>1 DEF SameOrder

\* What holds p or q goes to the index that g gives it, and g keeps their order.
LEMMA KeepsInColumn ==
    ASSUME NEW col, NEW new, NEW p, NEW q, NEW g, InColumn(col, p, q),
           \A t \in 1..Len(col.tiles) : col.tiles[t] \in {p, q} =>
             g[t] \in 1..Len(new.tiles) /\ new.tiles[g[t]] = col.tiles[t],
           \A t, u \in 1..Len(col.tiles) :
             col.tiles[t] \in {p, q} /\ col.tiles[u] \in {p, q} /\ t < u => g[t] < g[u]
    PROVE  InColumn(new, p, q)
BY DEF InColumn

LEMMA KeepsInRow ==
    ASSUME NEW cs, NEW r, NEW p, NEW q, NEW g, InRow(cs, p, q),
           \A c \in 1..Len(cs) : Tiles(cs[c]) \cap {p, q} # {} =>
             /\ g[c] \in 1..Len(r) /\ Tiles(cs[c]) \cap {p, q} \subseteq Tiles(r[g[c]])
             /\ InColumn(cs[c], p, q) => InColumn(r[g[c]], p, q),
           \A c, d \in 1..Len(cs) :
             Tiles(cs[c]) \cap {p, q} # {} /\ Tiles(cs[d]) \cap {p, q} # {} /\ c < d
               => g[c] < g[d]
    PROVE  InRow(r, p, q)
<1>1. PICK c \in 1..Len(cs), d \in 1..Len(cs) :
             /\ p \in Tiles(cs[c]) /\ q \in Tiles(cs[d])
             /\ c < d \/ (c = d /\ InColumn(cs[c], p, q))
  BY DEF InRow
<1>2. Tiles(cs[c]) \cap {p, q} # {} /\ Tiles(cs[d]) \cap {p, q} # {}
  BY <1>1
<1>3. g[c] \in 1..Len(r) /\ g[d] \in 1..Len(r) /\ p \in Tiles(r[g[c]]) /\ q \in Tiles(r[g[d]])
  BY <1>1, <1>2
<1>4. g[c] < g[d] \/ (g[c] = g[d] /\ InColumn(r[g[c]], p, q))
  BY <1>1, <1>2
<1> QED
  BY <1>3, <1>4 DEF InRow

LEMMA KeepsInStack ==
    ASSUME NEW s, NEW r, NEW p, NEW q, NEW g, InStack(s, p, q),
           \A v \in 1..Len(s) : PanesIn(s[v]) \cap {p, q} # {} =>
             /\ g[v] \in 1..Len(r) /\ PanesIn(s[v]) \cap {p, q} \subseteq PanesIn(r[g[v]])
             /\ InRow(s[v].columns, p, q) => InRow(r[g[v]].columns, p, q),
           \A v, w \in 1..Len(s) :
             PanesIn(s[v]) \cap {p, q} # {} /\ PanesIn(s[w]) \cap {p, q} # {} /\ v < w
               => g[v] < g[w]
    PROVE  InStack(r, p, q)
<1>1. PICK v \in 1..Len(s), w \in 1..Len(s) :
             /\ p \in PanesIn(s[v]) /\ q \in PanesIn(s[w])
             /\ v < w \/ (v = w /\ InRow(s[v].columns, p, q))
  BY DEF InStack
<1>2. PanesIn(s[v]) \cap {p, q} # {} /\ PanesIn(s[w]) \cap {p, q} # {}
  BY <1>1
<1>3. g[v] \in 1..Len(r) /\ g[w] \in 1..Len(r) /\ p \in PanesIn(r[g[v]]) /\ q \in PanesIn(r[g[w]])
  BY <1>1, <1>2
<1>4. g[v] < g[w] \/ (g[v] = g[w] /\ InRow(r[g[v]].columns, p, q))
  BY <1>1, <1>2
<1> QED
  BY <1>3, <1>4 DEF InStack

LEMMA TakeTileOrder ==
    ASSUME NEW col, WellColumn(col), NEW i \in 1..Len(col.tiles), NEW p, NEW q,
           col.tiles[i] \notin {p, q}, InColumn(col, p, q)
    PROVE  InColumn(TakeTile(col, i), p, q)
<1> DEFINE s == col.tiles
           n == Len(s)
           new == TakeTile(col, i)
           r == new.tiles
           g == [t \in 1..n |-> IF t < i THEN t ELSE t - 1]
<1>1. s \in Seq(Pane) /\ n \in Nat
  BY ColumnType DEF WellColumn
<1>2. r = RemoveAt(s, i)
  BY DEF TakeTile
<1>3. Len(r) = n - 1 /\ \A j \in 1..(n - 1) : r[j] = IF j < i THEN s[j] ELSE s[j + 1]
  BY <1>1, <1>2, RemoveAtProperties
<1> HIDE DEF r
<1>4. \A t \in 1..n : s[t] \in {p, q} => g[t] \in 1..Len(r) /\ r[g[t]] = s[t]
  <2> SUFFICES ASSUME NEW t \in 1..n, s[t] \in {p, q}
               PROVE  g[t] \in 1..Len(r) /\ r[g[t]] = s[t]
    OBVIOUS
  <2>1. t # i
    OBVIOUS
  <2>2. CASE t < i
    <3>1. g[t] = t /\ t \in 1..(n - 1)
      BY <2>2, <1>1
    <3> QED
      BY <3>1, <2>2, <1>3
  <2>3. CASE i < t
    <3>1. g[t] = t - 1 /\ t - 1 \in 1..(n - 1) /\ ~(t - 1 < i) /\ t - 1 + 1 = t
      BY <2>3, <1>1
    <3> QED
      BY <3>1, <1>3
  <2> QED
    BY <2>1, <2>2, <2>3
<1>5. \A t, u \in 1..n : s[t] \in {p, q} /\ s[u] \in {p, q} /\ t < u => g[t] < g[u]
  <2>1. \A t \in 1..n : s[t] \in {p, q} => t # i
    OBVIOUS
  <2> QED
    BY <2>1, <1>1
<1> HIDE DEF g, new
<1> QED
  BY <1>4, <1>5, KeepsInColumn DEF r, new

LEMMA RemoveColumnOrder ==
    ASSUME NEW cs, WellColumns(cs), NEW i \in 1..Len(cs), NEW p, NEW q,
           p \notin Tiles(cs[i]), q \notin Tiles(cs[i]), InRow(cs, p, q)
    PROVE  InRow(RemoveAt(cs, i), p, q)
<1> DEFINE n == Len(cs)
           r == RemoveAt(cs, i)
           g == [t \in 1..n |-> IF t < i THEN t ELSE t - 1]
           held(c) == Tiles(cs[c]) \cap {p, q} # {}
<1>1. cs \in Seq(Columns(Pane)) /\ n \in Nat
  BY DEF WellColumns
<1>2. Len(r) = n - 1 /\ \A j \in 1..(n - 1) : r[j] = IF j < i THEN cs[j] ELSE cs[j + 1]
  BY <1>1, RemoveAtProperties
<1>3. \A c \in 1..n : held(c) => c # i
  OBVIOUS
<1> HIDE DEF r
<1>4. \A c \in 1..n : held(c) => g[c] \in 1..Len(r) /\ r[g[c]] = cs[c]
  <2> SUFFICES ASSUME NEW c \in 1..n, c # i PROVE g[c] \in 1..Len(r) /\ r[g[c]] = cs[c]
    BY <1>3
  <2>1. CASE c < i
    BY <2>1, <1>1, <1>2
  <2>2. CASE i < c
    <3>1. g[c] = c - 1 /\ c - 1 \in 1..(n - 1) /\ ~(c - 1 < i) /\ c - 1 + 1 = c
      BY <2>2, <1>1
    <3> QED
      BY <3>1, <1>2
  <2> QED
    BY <2>1, <2>2
<1>5. \A c, d \in 1..n : held(c) /\ held(d) /\ c < d => g[c] < g[d]
  BY <1>1, <1>3
<1> HIDE DEF g
<1>6. \A c \in 1..n : held(c) =>
        /\ g[c] \in 1..Len(r) /\ Tiles(cs[c]) \cap {p, q} \subseteq Tiles(r[g[c]])
        /\ InColumn(cs[c], p, q) => InColumn(r[g[c]], p, q)
  BY <1>4
<1> QED
  BY <1>5, <1>6, KeepsInRow DEF r

LEMMA ReplaceColumnOrder ==
    ASSUME NEW cs, WellColumns(cs), NEW i \in 1..Len(cs), NEW col, NEW p, NEW q,
           Tiles(cs[i]) \cap {p, q} \subseteq Tiles(col),
           InColumn(cs[i], p, q) => InColumn(col, p, q), InRow(cs, p, q)
    PROVE  InRow([cs EXCEPT ![i] = col], p, q)
<1> DEFINE n == Len(cs)
           r == [cs EXCEPT ![i] = col]
           g == [c \in 1..n |-> c]
<1>1. /\ n \in Nat /\ Len(r) = n
      /\ \A c \in 1..n : r[c] = IF c = i THEN col ELSE cs[c]
  <2>1. cs \in Seq(Columns(Pane)) /\ DOMAIN cs = 1..n
    BY DEF WellColumns
  <2> QED
    BY <2>1
<1> HIDE DEF r
<1>2. \A c \in 1..n :
        /\ g[c] \in 1..Len(r) /\ Tiles(cs[c]) \cap {p, q} \subseteq Tiles(r[g[c]])
        /\ InColumn(cs[c], p, q) => InColumn(r[g[c]], p, q)
  BY <1>1
<1>3. \A c, d \in 1..n : c < d => g[c] < g[d]
  OBVIOUS
<1> HIDE DEF g
<1> QED
  BY <1>2, <1>3, KeepsInRow DEF r

LEMMA InsertColumnOrder ==
    ASSUME NEW cs, WellColumns(cs), NEW i \in 1..(Len(cs) + 1), NEW col \in Columns(Pane),
           NEW p, NEW q, InRow(cs, p, q)
    PROVE  InRow(InsertAt(cs, i, col), p, q)
<1> DEFINE n == Len(cs)
           r == InsertAt(cs, i, col)
           g == [c \in 1..n |-> IF c < i THEN c ELSE c + 1]
<1>1. cs \in Seq(Columns(Pane)) /\ n \in Nat
  BY DEF WellColumns
<1>2. Len(r) = n + 1
      /\ \A j \in 1..(n + 1) : r[j] = IF j < i THEN cs[j] ELSE IF j = i THEN col ELSE cs[j - 1]
  BY <1>1, InsertAtProperties
<1> HIDE DEF r
<1>3. ASSUME NEW c \in 1..n PROVE g[c] \in 1..Len(r) /\ r[g[c]] = cs[c]
  <2>1. CASE c < i
    BY <2>1, <1>1, <1>2
  <2>2. CASE ~(c < i)
    <3>1. g[c] = c + 1 /\ c + 1 \in 1..(n + 1) /\ ~(c + 1 < i) /\ c + 1 # i /\ c + 1 - 1 = c
      BY <2>2, <1>1
    <3> QED
      BY <3>1, <1>2
  <2> QED
    BY <2>1, <2>2
<1>4. \A c, d \in 1..n : c < d => g[c] < g[d]
  BY <1>1
<1> HIDE DEF g
<1>5. \A c \in 1..n :
        /\ g[c] \in 1..Len(r) /\ Tiles(cs[c]) \cap {p, q} \subseteq Tiles(r[g[c]])
        /\ InColumn(cs[c], p, q) => InColumn(r[g[c]], p, q)
  BY <1>3
<1> QED
  BY <1>4, <1>5, KeepsInRow DEF r

\* A pane that leaves a workspace does not change the order of two others.
LEMMA CloseInOrder ==
    ASSUME NEW ws, WellWorkspace(ws), NEW x, NEW p, NEW q, x # p, x # q,
           InRow(ws.columns, p, q)
    PROVE  InRow(CloseIn(ws, x).columns, p, q)
<1> DEFINE cs == ws.columns
           n == Len(cs)
<1>1. /\ WellColumns(cs) /\ cs \in Seq(Columns(Pane)) /\ n \in Nat
      /\ ws = [columns |-> cs, active |-> ws.active]
  BY WorkspaceType
<1>2. CASE x \notin PanesIn(ws)
  BY <1>2, CloseInElsewhere
<1>3. CASE x \in PanesIn(ws)
  <2>1. PICK c \in 1..n : \E t \in 1..Len(cs[c].tiles) : cs[c].tiles[t] = x
    BY <1>3 DEF PanesIn, Shown, Tiles
  <2>2. PICK t \in 1..Len(cs[c].tiles) : cs[c].tiles[t] = x
    BY <2>1
  <2> DEFINE short == TakeTile(cs[c], t)
             rest == RemoveAt(cs, c)
  <2>3. CloseIn(ws, x) = IF Len(cs[c].tiles) > 1 THEN [ws EXCEPT !.columns[c] = short]
                         ELSE [columns |-> rest, active |-> Clamp(ws.active, n - 1)]
    BY <2>2, CloseInAt
  <2>4. WellColumn(cs[c]) /\ Len(cs[c].tiles) \in Nat
    BY <1>1, ColumnType DEF WellColumns, WellColumn
  <2>5. CASE Len(cs[c].tiles) > 1
    <3>1. Tiles(short) = Tiles(cs[c]) \ {x}
      BY <2>2, <2>4, TakeTileWell
    <3>2. InColumn(cs[c], p, q) => InColumn(short, p, q)
      BY <2>2, <2>4, TakeTileOrder
    <3> HIDE DEF short
    <3>3. CloseIn(ws, x).columns = [cs EXCEPT ![c] = short]
      BY <2>3, <2>5, <1>1
    <3>4. Tiles(cs[c]) \cap {p, q} \subseteq Tiles(short)
      BY <3>1
    <3>5. InRow([cs EXCEPT ![c] = short], p, q)
      BY <1>1, <3>2, <3>4, ReplaceColumnOrder
    <3> QED
      BY <3>3, <3>5
  <2>6. CASE ~(Len(cs[c].tiles) > 1)
    <3>1. Len(cs[c].tiles) = 1 /\ t = 1
      <4>1. \A m \in Nat : \A y \in 1..m : ~(m > 1) => m = 1 /\ y = 1
        OBVIOUS
      <4> QED
        BY <4>1, <2>4, <2>6
    <3>2. Tiles(cs[c]) = {x}
      BY <3>1, <2>2 DEF Tiles
    <3>3. InRow(rest, p, q)
      BY <3>2, <1>1, RemoveColumnOrder
    <3> QED
      BY <3>3, <2>3, <2>6
  <2> QED
    BY <2>5, <2>6
<1> QED
  BY <1>2, <1>3

\* Nor does expelling one.
LEMMA ExpelTileOrder ==
    ASSUME NEW ws, WellWorkspace(ws), ~Blank(ws), NEW p, NEW q,
           p \notin FocusOf(ws), q \notin FocusOf(ws), InRow(ws.columns, p, q)
    PROVE  InRow(ExpelTile(ws).columns, p, q)
<1> DEFINE cs == ws.columns
           a == ws.active
           col == cs[a]
           tile == col.tiles[col.active]
           rest == TakeTile(col, col.active)
           left == [ws EXCEPT !.columns[a] = rest]
           mid == [cs EXCEPT ![a] = rest]
<1>1. /\ a \in 1..Len(cs) /\ Len(cs) \in Nat /\ cs \in Seq(Columns(Pane)) /\ WellColumns(cs)
      /\ ws = [columns |-> cs, active |-> a]
  BY WorkspaceType
<1>2. WellColumn(col) /\ Tiles(col) \subseteq PanesIn(ws)
  BY <1>1, ColumnOf
<1>3. col.active \in 1..Len(col.tiles) /\ Len(col.tiles) \in Nat /\ tile \in Pane
  BY <1>2, ColumnType DEF WellColumn
<1>4. tile # p /\ tile # q
  BY <1>1, FocusIs
<1>5. CASE Len(col.tiles) = 1
  BY <1>5 DEF ExpelTile
<1>6. CASE Len(col.tiles) # 1
  <2>1. Len(col.tiles) > 1
    <3>1. \A n \in Nat : \A x \in 1..n : n # 1 => n > 1
      OBVIOUS
    <3> QED
      BY <3>1, <1>3, <1>6
  <2>2. /\ Tiles(rest) = Tiles(col) \ {tile} /\ WellColumn(rest)
        /\ InColumn(col, p, q) => InColumn(rest, p, q)
    BY <2>1, <1>2, <1>3, <1>4, TakeTileWell, TakeTileOrder
  <2>3. ExpelTile(ws) = PutColumn(left, a + 1, NewColumn(tile))
    BY <1>6 DEF ExpelTile
  <2>4. left.columns = mid
    BY <1>1
  <2> HIDE DEF rest, tile, left
  <2>5. InRow(mid, p, q)
    <3>1. Tiles(col) \cap {p, q} \subseteq Tiles(rest)
      BY <2>2, <1>4
    <3> QED
      BY <3>1, <2>2, <1>1, ReplaceColumnOrder
  <2>6. WellColumns(mid) /\ Len(mid) = Len(cs)
    <3>1. Tiles(rest) \cap (Shown(cs) \ Tiles(cs[a])) = {}
      BY <2>2
    <3> QED
      BY <3>1, <2>2, <1>1, ReplaceColumn
  <2>7. ExpelTile(ws).columns = InsertAt(mid, a + 1, NewColumn(tile))
    BY <2>3, <2>4 DEF PutColumn
  <2>8. a + 1 \in 1..(Len(mid) + 1) /\ NewColumn(tile) \in Columns(Pane)
    BY <2>6, <1>1, <1>3, NewColumnWell DEF WellColumn
  <2> HIDE DEF mid
  <2>9. InRow(InsertAt(mid, a + 1, NewColumn(tile)), p, q)
    BY <2>5, <2>6, <2>8, InsertColumnOrder
  <2> QED
    BY <2>7, <2>9
<1> QED
  BY <1>5, <1>6

\* What a restore leaves out does not change the order of the rest.
LEMMA RestoreColumnOrder ==
    ASSUME NEW col, WellColumn(col), NEW S, NEW p \in S, NEW q \in S, InColumn(col, p, q)
    PROVE  InColumn(RestoreColumn(col, S), p, q)
<1> DEFINE s == col.tiles
           n == Len(s)
           K == {t \in DOMAIN s : s[t] \in S}
           r == AtIndices(s, K)
           new == RestoreColumn(col, S)
           g == [t \in 1..n |-> Rank(K, t)]
<1>1. s \in Seq(Pane) /\ n \in Nat /\ DOMAIN s = 1..n
  BY ColumnType DEF WellColumn
<1>2. K \in SUBSET (1..n) /\ \A t \in 1..n : s[t] \in {p, q} => t \in K
  BY <1>1
<1>3. new.tiles = r
  BY DEF RestoreColumn
<1> HIDE DEF K
<1>4. /\ Len(r) = Cardinality(K)
      /\ \A i \in 1..Cardinality(K) : r[i] = s[Nth(K, i)]
      /\ \A k \in K : Rank(K, k) \in 1..Cardinality(K) /\ Nth(K, Rank(K, k)) = k
  BY <1>1, <1>2, AtIndicesProperties
<1>5. \A j, k \in K : j < k => Rank(K, j) < Rank(K, k)
  BY <1>1, <1>2, RankProperties
<1> HIDE DEF r, new
<1>6. \A t \in 1..n : s[t] \in {p, q} => g[t] \in 1..Len(new.tiles) /\ new.tiles[g[t]] = s[t]
  BY <1>2, <1>3, <1>4
<1>7. \A t, u \in 1..n : s[t] \in {p, q} /\ s[u] \in {p, q} /\ t < u => g[t] < g[u]
  BY <1>2, <1>5
<1> HIDE DEF g
<1> QED
  BY <1>6, <1>7, KeepsInColumn DEF new

LEMMA RestoreWorkspaceOrder ==
    ASSUME NEW ws, WellWorkspace(ws), NEW S, NEW p \in S, NEW q \in S,
           InRow(ws.columns, p, q)
    PROVE  InRow(RestoreWorkspace(ws, S).columns, p, q)
<1> DEFINE cs == ws.columns
           n == Len(cs)
           all == [c \in DOMAIN cs |-> RestoreColumn(cs[c], S)]
           K == {c \in DOMAIN all : all[c].tiles # <<>>}
           r == AtIndices(all, K)
           g == [c \in 1..n |-> Rank(K, c)]
           held(c) == Tiles(cs[c]) \cap {p, q} # {}
<1>1. WellColumns(cs) /\ n \in Nat /\ DOMAIN cs = 1..n /\ \A c \in 1..n : WellColumn(cs[c])
  BY WorkspaceType DEF WellColumns
<1>2. RestoreWorkspace(ws, S).columns = r
  BY DEF RestoreWorkspace
<1>3. \A c \in 1..n : /\ all[c] = RestoreColumn(cs[c], S) /\ all[c] \in Columns(Pane)
                      /\ Tiles(all[c]) = Tiles(cs[c]) \cap S
  BY <1>1, RestoreColumnWell
<1>4. all \in Seq(Columns(Pane)) /\ Len(all) = n /\ DOMAIN all = 1..n
  <2>1. all = [c \in 1..n |-> RestoreColumn(cs[c], S)]
    BY <1>1
  <2>2. \A c \in 1..n : RestoreColumn(cs[c], S) \in Columns(Pane)
    BY <1>1, RestoreColumnWell
  <2> HIDE DEF all, cs, n
  <2> QED
    BY <2>1, <2>2, <1>1
<1>5. K \in SUBSET (1..Len(all)) /\ \A c \in 1..n : c \in K <=> all[c].tiles # <<>>
  BY <1>4
<1> HIDE DEF all, K, cs, n
<1>6. \A c \in 1..n : held(c) => c \in K
  <2> SUFFICES ASSUME NEW c \in 1..n, held(c), all[c].tiles = <<>> PROVE FALSE
    BY <1>5
  <2>1. Tiles(all[c]) # {}
    BY <1>3
  <2> QED
    BY <2>1, EmptySeq DEF Tiles
<1>7. /\ Len(r) = Cardinality(K)
      /\ \A i \in 1..Cardinality(K) : r[i] = all[Nth(K, i)]
      /\ \A k \in K : Rank(K, k) \in 1..Cardinality(K) /\ Nth(K, Rank(K, k)) = k
  BY <1>4, <1>5, AtIndicesProperties
<1>8. \A j, k \in K : j < k => Rank(K, j) < Rank(K, k)
  BY <1>1, <1>4, <1>5, RankProperties
<1> HIDE DEF r
<1>9. \A c \in 1..n : held(c) => g[c] \in 1..Len(r) /\ r[g[c]] = all[c]
  BY <1>6, <1>7
<1>10. \A c \in 1..n : InColumn(cs[c], p, q) => InColumn(all[c], p, q)
  BY <1>1, <1>3, RestoreColumnOrder
<1>11. \A c \in 1..n : held(c) =>
        /\ g[c] \in 1..Len(r) /\ Tiles(cs[c]) \cap {p, q} \subseteq Tiles(r[g[c]])
        /\ InColumn(cs[c], p, q) => InColumn(r[g[c]], p, q)
  BY <1>3, <1>9, <1>10
<1>12. \A c, d \in 1..n : held(c) /\ held(d) /\ c < d => g[c] < g[d]
  BY <1>6, <1>8
<1> HIDE DEF g
<1>13. InRow(cs, p, q)
  BY DEF cs
<1> QED
  BY <1>2, <1>11, <1>12, <1>13, KeepsInRow DEF n

LEMMA ReplaceWorkspaceOrder ==
    ASSUME NEW s, WellStack(s), NEW i \in 1..Len(s), NEW ws, NEW p, NEW q,
           PanesIn(s[i]) \cap {p, q} \subseteq PanesIn(ws),
           InRow(s[i].columns, p, q) => InRow(ws.columns, p, q), InStack(s, p, q)
    PROVE  InStack([s EXCEPT ![i] = ws], p, q)
<1> DEFINE n == Len(s)
           r == [s EXCEPT ![i] = ws]
           g == [v \in 1..n |-> v]
<1>1. /\ n \in Nat /\ Len(r) = n
      /\ \A v \in 1..n : r[v] = IF v = i THEN ws ELSE s[v]
  <2>1. s \in Seq(Rows) /\ DOMAIN s = 1..n
    BY StackType
  <2> QED
    BY <2>1
<1> HIDE DEF r
<1>2. \A v \in 1..n :
        /\ g[v] \in 1..Len(r) /\ PanesIn(s[v]) \cap {p, q} \subseteq PanesIn(r[g[v]])
        /\ InRow(s[v].columns, p, q) => InRow(r[g[v]].columns, p, q)
  BY <1>1
<1>3. \A v, w \in 1..n : v < w => g[v] < g[w]
  OBVIOUS
<1> HIDE DEF g
<1> QED
  BY <1>2, <1>3, KeepsInStack DEF r

\* A workspace more at either end.
LEMMA ShiftedOrder ==
    ASSUME NEW s, NEW r, Len(s) \in Nat, NEW d \in Nat, NEW p, NEW q, InStack(s, p, q),
           \A w \in 1..Len(s) : \A v : v = w + d => v \in 1..Len(r) /\ r[v] = s[w]
    PROVE  InStack(r, p, q)
<1> DEFINE n == Len(s)
           g == [v \in 1..n |-> v + d]
<1>1. \A v \in 1..n :
        /\ g[v] \in 1..Len(r) /\ PanesIn(s[v]) \cap {p, q} \subseteq PanesIn(r[g[v]])
        /\ InRow(s[v].columns, p, q) => InRow(r[g[v]].columns, p, q)
  OBVIOUS
<1>2. \A v, w \in 1..n : v < w => g[v] < g[w]
  OBVIOUS
<1> HIDE DEF g
<1> QED
  BY <1>1, <1>2, KeepsInStack

LEMMA CleanupEmptyOrder ==
    ASSUME NEW l, Well(l), NEW p, NEW q, InStack(l.workspaces, p, q)
    PROVE  InStack(CleanupEmpty(l).workspaces, p, q)
<1> DEFINE s == l.workspaces
           n == Len(s)
           Kept == {i \in 1..n : ~Blank(s[i])}
           r == AtIndices(s, Kept)
           g == [v \in 1..n |-> Rank(Kept, v)]
           held(v) == PanesIn(s[v]) \cap {p, q} # {}
<1>1. s \in Seq(Rows) /\ n \in Nat
  BY LayoutType
<1>2. \A v \in 1..n : held(v) => v \in Kept
  BY BlankShowsNothing
<1>3. Kept # {}
  BY <1>2 DEF InStack
<1>4. CleanupEmpty(l).workspaces = r
  BY <1>3 DEF CleanupEmpty
<1>5. Kept \in SUBSET (1..n)
  OBVIOUS
<1> HIDE DEF Kept
<1>6. /\ Len(r) = Cardinality(Kept)
      /\ \A i \in 1..Cardinality(Kept) : r[i] = s[Nth(Kept, i)]
      /\ \A k \in Kept : Rank(Kept, k) \in 1..Cardinality(Kept) /\ Nth(Kept, Rank(Kept, k)) = k
  BY <1>1, <1>5, AtIndicesProperties
<1>7. \A j, k \in Kept : j < k => Rank(Kept, j) < Rank(Kept, k)
  BY <1>1, <1>5, RankProperties
<1> HIDE DEF r
<1>8. \A v \in 1..n : held(v) => g[v] \in 1..Len(r) /\ r[g[v]] = s[v]
  BY <1>2, <1>6
<1>9. \A v, w \in 1..n : held(v) /\ held(w) /\ v < w => g[v] < g[w]
  BY <1>2, <1>7
<1> HIDE DEF g
<1>10. \A v \in 1..n : held(v) =>
        /\ g[v] \in 1..Len(r) /\ PanesIn(s[v]) \cap {p, q} \subseteq PanesIn(r[g[v]])
        /\ InRow(s[v].columns, p, q) => InRow(r[g[v]].columns, p, q)
  BY <1>8
<1> QED
  BY <1>4, <1>9, <1>10, KeepsInStack

LEMMA EnterIs ==
    ASSUME NEW s, WellStack(s), NEW i \in 1..Len(s), NEW p
    PROVE  Enter(s, i, p) =
             [s EXCEPT ![i] = PutColumn(s[i], Len(s[i].columns) + 1, NewColumn(p))]
<1> DEFINE end == [s[i] EXCEPT !.active = Len(s[i].columns)]
           n == Len(s[i].columns)
           ws == PutColumn(s[i], n + 1, NewColumn(p))
<1>1. /\ n \in Nat /\ (Blank(s[i]) <=> n = 0)
      /\ s[i] = [columns |-> s[i].columns, active |-> s[i].active]
  BY StackType, WorkspaceType
<1>2. end = [columns |-> s[i].columns, active |-> n]
  BY <1>1
<1>3. AddColumnRight(end, p) = ws
  BY <1>1, <1>2 DEF AddColumnRight, PutColumn, Blank
<1>4. Enter(s, i, p) = [s EXCEPT ![i] = AddColumnRight(end, p)]
  BY DEF Enter
<1> QED
  BY <1>3, <1>4

LEMMA PutColumnFocus ==
    ASSUME NEW ws, WellWorkspace(ws), NEW i \in 1..(Len(ws.columns) + 1), NEW p \in Pane
    PROVE  FocusOf(PutColumn(ws, i, NewColumn(p))) = {p}
<1> DEFINE cs == ws.columns
           col == NewColumn(p)
           n == Len(cs)
           r == InsertAt(cs, i, col)
<1>1. cs \in Seq(Columns(Pane)) /\ n \in Nat /\ i \in 1..(Len(cs) + 1)
  BY WorkspaceType
<1>2. col \in Columns(Pane) /\ col.tiles[col.active] = p
  <2>1. col \in Columns(Pane)
    BY NewColumnWell DEF WellColumn
  <2> QED
    BY <2>1 DEF NewColumn
<1>3. PutColumn(ws, i, NewColumn(p)) = [columns |-> r, active |-> i]
  BY DEF PutColumn
<1> HIDE DEF cs, col
<1>4. r \in Seq(Columns(Pane)) /\ Len(r) = n + 1 /\ r[i] = col
  <2>1. /\ r \in Seq(Columns(Pane)) /\ Len(r) = Len(cs) + 1
        /\ \A j \in 1..(Len(cs) + 1) :
             r[j] = IF j < i THEN cs[j] ELSE IF j = i THEN col ELSE cs[j - 1]
    BY <1>1, <1>2, InsertAtProperties
  <2> QED
    BY <2>1, <1>1
<1> HIDE DEF r
<1>5. DOMAIN r = 1..(n + 1)
  BY <1>1, <1>4
<1>6. FocusOf([columns |-> r, active |-> i]) = {r[i].tiles[r[i].active]}
  BY <1>1, <1>5 DEF FocusOf
<1> QED
  BY <1>2, <1>3, <1>4, <1>6

\* Before it cleans up, MoveVertically has the pane p in the workspace target of r.
MovesTo(l, m, p, r, target) ==
    /\ m = CleanupEmpty([workspaces |-> r, active |-> target])
    /\ Well([workspaces |-> r, active |-> target])
    /\ FocusOf(r[target]) = {p} /\ ~Blank(r[target])
    /\ \A x, y : x # p /\ y # p /\ InStack(l.workspaces, x, y) => InStack(r, x, y)

LEMMA MovedIs ==
    ASSUME NEW l, Well(l), Focused(l) # {}, NEW down \in {0, 1}
    PROVE  \E p \in Focused(l) : \E r, target : MovesTo(l, MoveVertically(l, down), p, r, target)
<1> DEFINE p == CHOOSE x \in Focused(l) : TRUE
           s == l.workspaces
           a == l.active
           left == [s EXCEPT ![a] = CloseIn(@, p)]
           above == IF a = 1 THEN <<NewWorkspace>> \o left ELSE left
           below == IF a = Len(left) THEN Append(left, NewWorkspace) ELSE left
           target == IF down = 1 THEN a + 1 ELSE IF a = 1 THEN 1 ELSE a - 1
           all == IF down = 1 THEN below ELSE above
           r == Enter(all, target, p)
<1>1. MoveVertically(l, down) = CleanupEmpty([workspaces |-> r, active |-> target])
  BY DEF MoveVertically, Enter
<1>2. p \in Focused(l)
  OBVIOUS
<1>3. p \in Pane /\ a \in 1..Len(s) /\ Len(s) \in Nat /\ WellStack(s) /\ WellWorkspace(s[a])
      /\ DOMAIN s = 1..Len(s)
  BY <1>2, FocusedShown, LayoutType DEF ActiveWorkspace
<1>4. WellStack(left) /\ Len(left) = Len(s) /\ AllIn(left) = AllPanes(l) \ {p}
  BY <1>2, LeaveWorkspace
<1>5. ASSUME NEW x, NEW y, x # p, y # p, InStack(s, x, y) PROVE InStack(left, x, y)
  <2> DEFINE ws == CloseIn(s[a], p)
  <2>1. left = [s EXCEPT ![a] = ws]
    BY <1>3
  <2>2. PanesIn(ws) = PanesIn(s[a]) \ {p}
    BY <1>3, CloseInWell
  <2>3. PanesIn(s[a]) \cap {x, y} \subseteq PanesIn(ws)
    BY <2>2, <1>5
  <2>4. InRow(s[a].columns, x, y) => InRow(ws.columns, x, y)
    BY <1>3, <1>5, CloseInOrder
  <2> HIDE DEF ws, s, left
  <2> QED
    BY <2>1, <2>3, <2>4, <1>3, <1>5, ReplaceWorkspaceOrder
<1> HIDE DEF p, left, s, a
<1>6. /\ WellStack(all) /\ AllIn(all) = AllPanes(l) \ {p} /\ target \in 1..Len(all)
      /\ \A x, y : InStack(left, x, y) => InStack(all, x, y)
  <2>1. /\ PanesIn(NewWorkspace) = {} /\ WellWorkspace(NewWorkspace)
        /\ PanesIn(NewWorkspace) \cap AllIn(left) = {} /\ Len(left) \in Nat
    BY <1>3, <1>4, NewWorkspaceWell
  <2> DEFINE under == Append(left, NewWorkspace)
             over == <<NewWorkspace>> \o left
  <2>2. /\ WellStack(under) /\ Len(under) = Len(left) + 1
        /\ AllIn(under) = AllIn(left) \cup PanesIn(NewWorkspace)
        /\ \A w \in 1..Len(left) : under[w] = left[w]
    BY <2>1, <1>4, AppendWorkspace
  <2>3. /\ WellStack(over) /\ Len(over) = Len(left) + 1
        /\ AllIn(over) = AllIn(left) \cup PanesIn(NewWorkspace)
        /\ \A w \in 1..Len(left) : over[w + 1] = left[w]
    BY <2>1, <1>4, PrependWorkspace
  <2> HIDE DEF under, over
  <2>4. ASSUME NEW x, NEW y, InStack(left, x, y)
        PROVE  InStack(under, x, y) /\ InStack(over, x, y)
    <3>1. \A w \in 1..Len(left) : \A v : v = w + 0 => v \in 1..Len(under) /\ under[v] = left[w]
      BY <2>1, <2>2
    <3>2. \A w \in 1..Len(left) : \A v : v = w + 1 => v \in 1..Len(over) /\ over[v] = left[w]
      BY <2>1, <2>3
    <3>3. InStack(under, x, y)
      BY <2>1, <2>4, <3>1, ShiftedOrder
    <3>4. InStack(over, x, y)
      BY <2>1, <2>4, <3>2, ShiftedOrder
    <3> QED
      BY <3>3, <3>4
  <2>5. CASE down = 1
    <3>1. /\ WellStack(below) /\ AllIn(below) = AllPanes(l) \ {p}
          /\ \A x, y : InStack(left, x, y) => InStack(below, x, y)
      BY <2>1, <2>2, <2>4, <1>4 DEF under
    <3>2. a + 1 \in 1..Len(below)
      <4>1. Len(below) = IF a = Len(left) THEN Len(left) + 1 ELSE Len(left)
        BY <2>2 DEF under
      <4>2. /\ Len(left) \in Nat /\ a \in 1..Len(left)
            /\ Len(below) \in {Len(left), Len(left) + 1}
            /\ a = Len(left) => Len(below) = Len(left) + 1
        BY <4>1, <1>3, <1>4
      <4> HIDE DEF below, left, a
      <4> QED
        BY <4>2
    <3> QED
      BY <3>1, <3>2, <2>5
  <2>6. CASE down # 1
    <3>1. /\ WellStack(above) /\ AllIn(above) = AllPanes(l) \ {p}
          /\ \A x, y : InStack(left, x, y) => InStack(above, x, y)
      BY <2>1, <2>3, <2>4, <1>4 DEF over
    <3>2. (IF a = 1 THEN 1 ELSE a - 1) \in 1..Len(above)
      BY <2>3, <1>3, <1>4 DEF over
    <3> QED
      BY <3>1, <3>2, <2>6
  <2> QED
    BY <2>5, <2>6
<1> HIDE DEF all, target
<1>7. WellStack(r) /\ Len(r) = Len(all)
  <2>1. p \notin AllIn(all)
    BY <1>6
  <2> QED
    BY <2>1, <1>3, <1>6, EnterWorkspace
<1> DEFINE ws == PutColumn(all[target], Len(all[target].columns) + 1, NewColumn(p))
<1>8. r = [all EXCEPT ![target] = ws]
  BY <1>6, EnterIs
<1>9. WellWorkspace(all[target]) /\ Len(all[target].columns) \in Nat
      /\ WellColumns(all[target].columns) /\ DOMAIN all = 1..Len(all)
  BY <1>6, StackType, WorkspaceType
<1>10. r[target] = ws
  BY <1>6, <1>8, <1>9
<1>11. FocusOf(ws) = {p}
  <2>1. Len(all[target].columns) + 1 \in 1..(Len(all[target].columns) + 1)
    BY <1>9
  <2> QED
    BY <2>1, <1>3, <1>9, PutColumnFocus
<1>12. ~Blank(ws)
  <2>1. WellWorkspace(ws)
    BY <1>6, <1>7, <1>10, StackType
  <2> QED
    BY <2>1, <1>11, FocusIs
<1>13. ASSUME NEW x, NEW y, x # p, y # p, InStack(s, x, y) PROVE InStack(r, x, y)
  <2> DEFINE old == all[target]
             k == Len(old.columns) + 1
  <2>1. InStack(all, x, y)
    BY <1>5, <1>6, <1>13
  <2>2. ws.columns = InsertAt(old.columns, k, NewColumn(p))
    BY DEF PutColumn
  <2>3. NewColumn(p) \in Columns(Pane) /\ WellColumn(NewColumn(p))
    BY <1>3, NewColumnWell DEF WellColumn
  <2>4. k \in 1..(Len(old.columns) + 1)
    BY <1>9
  <2>5. InRow(old.columns, x, y) => InRow(ws.columns, x, y)
    BY <2>2, <2>3, <2>4, <1>9, InsertColumnOrder
  <2>6. PanesIn(old) \subseteq PanesIn(ws)
    <3>1. AllIn(all) = AllPanes(l) \ {p}
      BY <1>6
    <3>2. PanesIn(old) \subseteq AllIn(all)
      BY <1>6, StackType
    <3>3. Tiles(NewColumn(p)) \cap PanesIn(old) = {}
      BY <3>1, <3>2, <1>3, NewColumnWell
    <3> QED
      BY <3>3, <2>3, <2>4, <1>9, PutColumnWell
  <2>7. PanesIn(old) \cap {x, y} \subseteq PanesIn(ws)
    BY <2>6
  <2>8. InStack([all EXCEPT ![target] = ws], x, y)
    <3> HIDE DEF ws, r, k
    <3> QED
      BY <2>1, <2>5, <2>7, <1>6, ReplaceWorkspaceOrder
  <2> QED
    BY <2>8, <1>8
<1> HIDE DEF ws, r
<1>14. Well([workspaces |-> r, active |-> target])
  BY <1>6, <1>7, MakeLayout
<1>15. MovesTo(l, MoveVertically(l, down), p, r, target)
  BY <1>1, <1>10, <1>11, <1>12, <1>13, <1>14 DEF MovesTo, s
<1> QED
  BY <1>2, <1>15

LEMMA MoveVerticallyOrder ==
    ASSUME NEW l, Well(l), Focused(l) # {}, NEW down \in {0, 1}
    PROVE  /\ Focused(MoveVertically(l, down)) = Focused(l)
           /\ SameOrder(l, MoveVertically(l, down), AllPanes(l) \ Focused(l))
<1> DEFINE m == MoveVertically(l, down)
<1>1. PICK p \in Focused(l) : \E r, target : MovesTo(l, m, p, r, target)
  BY MovedIs
<1>2. PICK r, target :
             /\ m = CleanupEmpty([workspaces |-> r, active |-> target])
             /\ Well([workspaces |-> r, active |-> target])
             /\ FocusOf(r[target]) = {p} /\ ~Blank(r[target])
             /\ \A x, y : x # p /\ y # p /\ InStack(l.workspaces, x, y) => InStack(r, x, y)
  BY <1>1, Zenon DEF MovesTo
<1>3. Well(m)
  BY MoveVerticallyWell
<1> HIDE DEF m
<1> DEFINE mid == [workspaces |-> r, active |-> target]
<1>4. Focused(l) = {p}
  <2>1. WellWorkspace(ActiveWorkspace(l))
    BY LayoutType
  <2> QED
    BY <2>1, FocusIs DEF Focused
<1>5. Focused(m) = {p}
  <2>1. ActiveWorkspace(mid) = r[target]
    BY DEF ActiveWorkspace
  <2>2. ActiveWorkspace(m) = r[target]
    BY <2>1, <1>2, CleanupEmptyStays
  <2> QED
    BY <2>2, <1>2 DEF Focused
<1>6. ASSUME NEW x \in AllPanes(l) \ Focused(l), NEW y \in AllPanes(l) \ Focused(l),
             Precedes(l, x, y)
      PROVE  Precedes(m, x, y)
  <2>1. InStack(l.workspaces, x, y)
    BY <1>6, PrecedesIs
  <2>2. InStack(mid.workspaces, x, y)
    BY <2>1, <1>2, <1>4
  <2> HIDE DEF mid
  <2>3. InStack(m.workspaces, x, y)
    BY <2>2, <1>2, CleanupEmptyOrder DEF mid
  <2> QED
    BY <2>3, <1>3, PrecedesIs
<1>7. SameOrder(l, m, AllPanes(l) \ Focused(l))
  BY <1>3, <1>6, OrderKept
<1> QED
  BY <1>4, <1>5, <1>7 DEF m

LEMMA ExpelOrder ==
    ASSUME NEW l, Well(l), ~Blank(ActiveWorkspace(l)),
           NEW m, m = OnActive(l, ExpelTile(ActiveWorkspace(l))), m # l
    PROVE  Focused(m) = Focused(l) /\ SameOrder(l, m, AllPanes(l) \ Focused(l))
<1> DEFINE ws == ActiveWorkspace(l)
           new == ExpelTile(ws)
           s == l.workspaces
           a == l.active
           P == AllPanes(l) \ Focused(l)
<1>1. /\ WellWorkspace(ws) /\ ws = s[a] /\ WellStack(s) /\ a \in 1..Len(s)
      /\ DOMAIN s = 1..Len(s) /\ l = [workspaces |-> s, active |-> a]
  BY LayoutType DEF ActiveWorkspace
<1>2. WellWorkspace(new) /\ PanesIn(new) = PanesIn(ws)
  BY <1>1, ExpelTileWell
<1>3. Well(m) /\ ActiveWorkspace(m) = new
  BY <1>1, <1>2, OnActiveWell
<1>4. m.workspaces = [s EXCEPT ![a] = new]
  <2>1. l \in [workspaces : Seq(Rows), active : Nat \ {0}]
    BY DEF Well, Layouts, Rows
  <2>2. OnActive(l, new) = [l EXCEPT !.workspaces[a] = new]
    BY DEF OnActive
  <2> HIDE DEF new
  <2> QED
    BY <2>1, <2>2 DEF new
<1>5. new # ws
  <2>1. [s EXCEPT ![a] = s[a]] = s
    <3>1. s \in Seq(Rows)
      BY DEF Well, Layouts, Rows
    <3>2. s = [i \in 1..Len(s) |-> s[i]]
      BY <3>1
    <3> HIDE DEF s
    <3> QED
      BY <3>1, <3>2, <1>1
  <2>2. m = [workspaces |-> [s EXCEPT ![a] = new], active |-> a]
    BY <1>1 DEF OnActive
  <2> QED
    BY <2>1, <2>2, <1>1
<1>6. FocusOf(new) = FocusOf(ws)
  <2> DEFINE cs == ws.columns
             b == ws.active
             col == cs[b]
             tile == col.tiles[col.active]
             rest == TakeTile(col, col.active)
             left == [ws EXCEPT !.columns[b] = rest]
  <2>1. b \in 1..Len(cs) /\ Len(cs) \in Nat /\ FocusOf(ws) = {tile}
    BY <1>1, WorkspaceType, FocusIs
  <2>2. WellColumn(col)
    BY <1>1, <2>1, ColumnOf
  <2>3. col.active \in 1..Len(col.tiles) /\ Len(col.tiles) \in Nat /\ tile \in Pane
    BY <2>2, ColumnType DEF WellColumn
  <2>4. Len(col.tiles) # 1 /\ new = PutColumn(left, b + 1, NewColumn(tile))
    BY <1>5 DEF ExpelTile
  <2>5. WellColumn(rest) /\ Tiles(rest) = Tiles(col) \ {tile}
    <3>1. \A n \in Nat : \A x \in 1..n : n # 1 => n > 1
      OBVIOUS
    <3>2. Len(col.tiles) > 1
      BY <3>1, <2>3, <2>4
    <3> QED
      BY <3>2, <2>2, <2>3, TakeTileWell
  <2> HIDE DEF rest, tile
  <2>6. WellWorkspace(left)
    <3>1. Tiles(rest) \cap (PanesIn(ws) \ Tiles(ws.columns[b])) = {}
      BY <2>5
    <3> QED
      BY <3>1, <2>1, <2>5, <1>1, ReplaceActive
  <2>7. b + 1 \in 1..(Len(left.columns) + 1)
    <3>1. ws = [columns |-> cs, active |-> b] /\ DOMAIN cs = 1..Len(cs) /\ cs \in Seq(Columns(Pane))
      BY <1>1, WorkspaceType
    <3>2. left.columns = [cs EXCEPT ![b] = rest]
      BY <3>1
    <3>3. Len(left.columns) = Len(cs)
      BY <3>1, <3>2
    <3> QED
      BY <3>3, <2>1
  <2> HIDE DEF left
  <2> QED
    BY <2>1, <2>3, <2>4, <2>6, <2>7, PutColumnFocus
<1>7. ASSUME NEW x \in P, NEW y \in P, Precedes(l, x, y) PROVE Precedes(m, x, y)
  <2>1. InStack(s, x, y)
    BY <1>7, PrecedesIs
  <2>2. x \notin FocusOf(ws) /\ y \notin FocusOf(ws)
    BY DEF Focused
  <2>3. InRow(ws.columns, x, y) => InRow(new.columns, x, y)
    BY <2>2, <1>1, ExpelTileOrder
  <2> HIDE DEF new, s, a, ws
  <2>4. InStack([s EXCEPT ![a] = new], x, y)
    BY <2>1, <2>3, <1>1, <1>2, ReplaceWorkspaceOrder
  <2> QED
    BY <2>4, <1>3, <1>4, PrecedesIs
<1> HIDE DEF new, ws
<1>8. SameOrder(l, m, P)
  BY <1>3, <1>7, OrderKept
<1> QED
  BY <1>3, <1>6, <1>8 DEF Focused, ws

\* A pane that moves takes the focus with it, and leaves the others in order.
THEOREM MovedAlone == Spec => MovesAlone
<1> DEFINE A == layout' # layout /\ panes' = panes
                /\ ((\E down \in {0, 1} : MovePane(down)) \/ ExpelFromColumn)
                  => /\ Focused(layout') = Focused(layout)
                     /\ SameOrder(layout, layout', panes \ Focused(layout))
<1>1. ASSUME SessionInv, layout' # layout
      PROVE  (\E down \in {0, 1} : MovePane(down)) \/ ExpelFromColumn
               => /\ Focused(layout') = Focused(layout)
                  /\ SameOrder(layout, layout', panes \ Focused(layout))
  <2>1. Well(layout) /\ AllPanes(layout) = panes
    BY <1>1 DEF SessionInv
  <2>2. ASSUME NEW down \in {0, 1}, MovePane(down)
        PROVE  /\ Focused(layout') = Focused(layout)
               /\ SameOrder(layout, layout', panes \ Focused(layout))
    BY <2>1, <2>2, MoveVerticallyOrder DEF MovePane, MayMove, Rearranged, Changed
  <2>3. ASSUME ExpelFromColumn
        PROVE  /\ Focused(layout') = Focused(layout)
               /\ SameOrder(layout, layout', panes \ Focused(layout))
    <3>1. /\ ~Blank(ActiveWorkspace(layout))
          /\ layout' = OnActive(layout, ExpelTile(ActiveWorkspace(layout)))
      BY <2>3, <1>1 DEF ExpelFromColumn, Rearranged, Changed
    <3> QED
      BY <3>1, <2>1, <1>1, ExpelOrder
  <2> QED
    BY <2>2, <2>3
<1>2. SessionInv /\ [Next]_vars => A
  BY <1>1
<1>3. Spec => [][A]_vars
  BY <1>2, InvAlways, PTL DEF Spec
<1> QED
  BY <1>3 DEF MovesAlone

-----------------------------------------------------------------------------
(* What a restart brings back.                                             *)

\* What was promised is in the file, if it validates, and nothing has changed since.
PromiseKept ==
    promised # NoFile => /\ Valid(promised) => disk = promised
                         /\ live => layout = promised

LEMMA NextKeepsPromise ==
    ASSUME PromiseKept, SessionInv, [Next]_vars
    PROVE  PromiseKept'
<1>1. \A l : Changed(l) => PromiseKept'
  BY DEF Changed, PromiseKept
<1>2. ASSUME UNCHANGED vars PROVE PromiseKept'
  BY <1>2 DEF vars, store, PromiseKept
<1>3. ASSUME NEW p \in Pane, PaneStep(p) PROVE PromiseKept'
  BY <1>1, <1>3, Zenon
     DEF PaneStep, CreatePane, SplitDown, NewTileBelow, CreatePaneAt, CreatePaneAtFails,
         FocusPane, CloseRequest, Created, Rearranged
<1>4. ASSUME LayoutStep PROVE PromiseKept'
  <2>1. ASSUME ExpelFromColumn PROVE PromiseKept'
    BY <1>1, <2>1 DEF ExpelFromColumn, Rearranged, store, PromiseKept
  <2>2. ASSUME \/ \E d \in {-1, 1} : FocusColumn(d) \/ FocusVertically(d) \/ MoveColumn(d)
               \/ \E i \in DOMAIN layout.workspaces : SwitchWorkspace(i)
               \/ \E down \in {0, 1} : MovePane(down)
               \/ ConsumeIntoColumn \/ Reshape
        PROVE  \E l : Changed(l)
    BY <2>2, Zenon
       DEF FocusColumn, FocusVertically, MoveColumn, SwitchWorkspace, MovePane,
           ConsumeIntoColumn, Reshape, Rearranged
  <2> QED
    BY <1>1, <1>4, <2>1, <2>2 DEF LayoutStep
<1>5. ASSUME SessionStep PROVE PromiseKept'
  <2>1. ASSUME NEW D \in SUBSET panes, TickCloses(D) PROVE PromiseKept'
    BY <1>1, <2>1 DEF TickCloses
  <2>2. ASSUME TickEndsSession \/ KillSession \/ AttachNew \/ AttachEmpty PROVE PromiseKept'
    BY <2>2 DEF TickEndsSession, KillSession, AttachNew, AttachEmpty, PromiseKept
  <2>3. ASSUME TickSaves \/ AgentsChange PROVE PromiseKept'
    BY <2>3 DEF TickSaves, AgentsChange, Serving, store, PromiseKept
  <2> QED
    BY <1>5, <2>1, <2>2, <2>3 DEF SessionStep
<1>6. ASSUME DaemonStep PROVE PromiseKept'
  <2>1. ASSUME GracefulShutdown PROVE PromiseKept'
    BY <2>1 DEF GracefulShutdown, PromiseKept
  <2>2. ASSUME DaemonEnds \/ DaemonStarts PROVE PromiseKept'
    BY <2>2 DEF DaemonEnds, DaemonStarts, Gone, store, PromiseKept
  <2> QED
    BY <1>6, <2>1, <2>2 DEF DaemonStep
<1> QED
  BY <1>2, <1>3, <1>4, <1>5, <1>6 DEF Next

THEOREM PromiseAlways == Spec => []PromiseKept
<1>1. Init => PromiseKept
  BY DEF Init, PromiseKept
<1> QED
  BY <1>1, InvAlways, NextKeepsPromise, PTL DEF Spec

\* What is restored entirely is as it was.
LEMMA AllIndices ==
    ASSUME NEW S, NEW s \in Seq(S)
    PROVE  AtIndices(s, 1..Len(s)) = s
<1> DEFINE n == Len(s)
           K == 1..n
           r == AtIndices(s, K)
<1>1. n \in Nat /\ Cardinality(K) = n
  <2>1. n \in Nat
    OBVIOUS
  <2> HIDE DEF n
  <2> QED
    BY <2>1, FS_Interval
<1>2. ASSUME NEW k \in 1..n PROVE Nth(K, k) = k
  <2>1. {j \in K : j <= k} = 1..k
    BY <1>1
  <2>2. Cardinality(1..k) = k
    BY FS_Interval
  <2>3. Rank(K, k) = k
    BY <2>1, <2>2 DEF Rank
  <2> QED
    BY <2>3, <1>1, NthProperties
<1>3. r \in Seq(S) /\ Len(r) = n /\ \A i \in 1..n : r[i] = s[Nth(K, i)]
  BY <1>1, AtIndicesProperties
<1> HIDE DEF r
<1>4. r = s
  BY <1>2, <1>3
<1> QED
  BY <1>4 DEF r

LEMMA WholeColumn ==
    ASSUME NEW col, WellColumn(col), NEW S, Tiles(col) \subseteq S
    PROVE  RestoreColumn(col, S) = col
<1> DEFINE s == col.tiles
           K == {t \in DOMAIN s : s[t] \in S}
<1>1. /\ s \in Seq(Pane) /\ Len(s) \in Nat /\ DOMAIN s = 1..Len(s)
      /\ col = [tiles |-> s, active |-> col.active]
      /\ col.active \in 1..Len(s) /\ col.active \in Nat \ {0}
  BY ColumnType DEF WellColumn
<1>2. K = 1..Len(s)
  BY <1>1 DEF Tiles
<1>3. AtIndices(s, K) = s
  BY <1>1, <1>2, AllIndices
<1>4. Clamp(col.active, Len(s)) = col.active
  BY <1>1, ClampProperties
<1> QED
  BY <1>1, <1>3, <1>4 DEF RestoreColumn

LEMMA WholeWorkspace ==
    ASSUME NEW ws, WellWorkspace(ws), ~Blank(ws), NEW S, PanesIn(ws) \subseteq S
    PROVE  RestoreWorkspace(ws, S) = ws
<1> DEFINE cs == ws.columns
           all == [c \in DOMAIN cs |-> RestoreColumn(cs[c], S)]
           K == {c \in DOMAIN all : all[c].tiles # <<>>}
<1>1. /\ WellColumns(cs) /\ cs \in Seq(Columns(Pane)) /\ Len(cs) \in Nat /\ DOMAIN cs = 1..Len(cs)
      /\ ws = [columns |-> cs, active |-> ws.active]
      /\ ws.active \in 1..Len(cs) /\ ws.active \in Nat \ {0}
  BY WorkspaceType
<1>2. ASSUME NEW c \in 1..Len(cs)
      PROVE  RestoreColumn(cs[c], S) = cs[c] /\ cs[c].tiles # <<>>
  <2>1. WellColumn(cs[c]) /\ Tiles(cs[c]) \subseteq S
    BY <1>1 DEF WellColumns, PanesIn, Shown
  <2>2. cs[c].active \in 1..Len(cs[c].tiles)
    BY <2>1 DEF WellColumn
  <2>3. cs[c].tiles # <<>>
    BY <2>2
  <2> QED
    BY <2>1, <2>3, WholeColumn
<1>3. all = cs
  <2>1. cs = [c \in 1..Len(cs) |-> cs[c]]
    BY <1>1
  <2> QED
    BY <2>1, <1>1, <1>2, Zenon
<1>4. K = 1..Len(cs)
  BY <1>1, <1>2, <1>3
<1>5. AtIndices(cs, 1..Len(cs)) = cs
  BY <1>1, AllIndices
<1>6. Clamp(ws.active, Len(cs)) = ws.active
  <2>1. ws.active <= Len(cs)
    BY <1>1
  <2> QED
    BY <2>1, <1>1, ClampProperties
<1>7. RestoreWorkspace(ws, S) = [columns |-> AtIndices(all, K),
                                active |-> Clamp(ws.active, Len(AtIndices(all, K)))]
  BY DEF RestoreWorkspace
<1> HIDE DEF all, K
<1> QED
  BY <1>1, <1>3, <1>4, <1>5, <1>6, <1>7

LEMMA WholeLayout ==
    ASSUME NEW l, Well(l), \A w \in 1..Len(l.workspaces) : ~Blank(l.workspaces[w])
    PROVE  Restored(l, AllPanes(l)) = l
<1> DEFINE s == l.workspaces
           S == AllPanes(l)
           r == [w \in DOMAIN s |-> RestoreWorkspace(s[w], S)]
<1>1. /\ s \in Seq(Rows) /\ Len(s) \in Nat /\ DOMAIN s = 1..Len(s) /\ WellStack(s)
      /\ l = [workspaces |-> s, active |-> l.active]
      /\ l.active \in 1..Len(s) /\ l.active \in Nat \ {0}
  BY LayoutType
<1>2. ASSUME NEW w \in 1..Len(s) PROVE RestoreWorkspace(s[w], S) = s[w]
  BY <1>1, StackType, WholeWorkspace DEF AllPanes
<1>3. r = s
  <2>1. s = [w \in 1..Len(s) |-> s[w]]
    BY <1>1
  <2> QED
    BY <2>1, <1>1, <1>2, Zenon
<1>4. Clamp(l.active, Len(s)) = l.active
  BY <1>1, ClampProperties
<1>5. Restored(l, S) = [workspaces |-> r, active |-> Clamp(l.active, Len(s))]
  BY DEF Restored
<1> HIDE DEF r
<1> QED
  BY <1>1, <1>3, <1>4, <1>5

\* Every workspace of a layout that validates shows a pane.
LEMMA ValidShows ==
    ASSUME NEW l, Well(l), Valid(l)
    PROVE  /\ \A w \in 1..Len(l.workspaces) : ~Blank(l.workspaces[w])
           /\ \A w \in 1..Len(l.workspaces) : PanesIn(l.workspaces[w]) # {}
           /\ AllPanes(l) # {}
<1> DEFINE s == l.workspaces
<1>1. /\ DOMAIN s = 1..Len(s) /\ WellStack(s) /\ l.active \in 1..Len(s)
  BY LayoutType
<1>2. \A w \in 1..Len(s) : ~Blank(s[w])
  BY <1>1 DEF Valid
<1>3. ASSUME NEW w \in 1..Len(s) PROVE PanesIn(s[w]) # {}
  <2>1. WellWorkspace(s[w]) /\ s[w].active \in 1..Len(s[w].columns)
    BY <1>1, <1>2, StackType, WorkspaceType
  <2>2. WellColumn(s[w].columns[s[w].active])
    BY <2>1, WorkspaceType DEF WellColumns
  <2>3. Tiles(s[w].columns[s[w].active]) # {}
    BY <2>2 DEF WellColumn, Tiles
  <2> QED
    BY <2>1, <2>3 DEF PanesIn, Shown
<1> QED
  BY <1>1, <1>2, <1>3, StackType DEF AllPanes

\* Indices that are all the same are one.
LEMMA OneIndex ==
    ASSUME NEW n \in Nat, NEW a \in 1..n, \A v, w \in 1..n : v = w
    PROVE  n = 1 /\ a = 1
<1>1. 1 \in 1..n /\ n \in 1..n
  OBVIOUS
<1> QED
  BY <1>1

LEMMA InsertFirst ==
    ASSUME NEW S, NEW z \in Seq(S), Len(z) = 0, NEW e \in S
    PROVE  InsertAt(z, 1, e) = <<e>>
<1>1. /\ SubSeq(z, 1, 0) \in Seq(S) /\ Len(SubSeq(z, 1, 0)) = 0
      /\ SubSeq(z, 1, Len(z)) \in Seq(S) /\ Len(SubSeq(z, 1, Len(z))) = 0
  OBVIOUS
<1>2. InsertAt(z, 1, e) = SubSeq(z, 1, 0) \o <<e>> \o SubSeq(z, 1, Len(z))
  BY DEF InsertAt
<1> QED
  BY <1>1, <1>2

\* A layout that validates and shows one pane is the one a new session has.
LEMMA OnlyPane ==
    ASSUME NEW l, Well(l), Valid(l), NEW p \in Pane, AllPanes(l) = {p},
           NEW k, k.active = 1
    PROVE  Default(k, {p}) = l
<1> DEFINE s == l.workspaces
           ws == s[1]
           cs == ws.columns
           col == cs[1]
<1>1. /\ s \in Seq(Rows) /\ Len(s) \in Nat /\ WellStack(s) /\ l.active \in 1..Len(s)
      /\ l = [workspaces |-> s, active |-> l.active]
  BY LayoutType
<1>2. \A w \in 1..Len(s) : PanesIn(s[w]) = {p} /\ ~Blank(s[w]) /\ WellWorkspace(s[w])
  <2> SUFFICES ASSUME NEW w \in 1..Len(s)
               PROVE  PanesIn(s[w]) = {p} /\ ~Blank(s[w]) /\ WellWorkspace(s[w])
    OBVIOUS
  <2>1. ~Blank(s[w]) /\ PanesIn(s[w]) # {}
    BY ValidShows
  <2>2. WellWorkspace(s[w]) /\ PanesIn(s[w]) \subseteq AllIn(s)
    BY <1>1, StackType
  <2>3. AllIn(s) = {p}
    BY DEF AllPanes
  <2> HIDE DEF s
  <2> QED
    BY <2>1, <2>2, <2>3
<1>3. \A v, w \in 1..Len(s) : v = w
  <2>1. \A v, w \in 1..Len(s) : \A q \in PanesIn(s[v]) : q \in PanesIn(s[w]) => v = w
    BY <1>1 DEF WellStack
  <2> HIDE DEF s
  <2> QED
    BY <2>1, <1>2
<1>4. Len(s) = 1 /\ l.active = 1
  <2> HIDE DEF s
  <2> QED
    BY <1>1, <1>3, OneIndex
<1>5. /\ WellWorkspace(ws) /\ cs \in Seq(Columns(Pane)) /\ Len(cs) \in Nat /\ WellColumns(cs)
      /\ ws = [columns |-> cs, active |-> ws.active] /\ ws.active \in 1..Len(cs)
  <2>1. WellWorkspace(ws) /\ ~Blank(ws)
    BY <1>2, <1>4
  <2> HIDE DEF ws
  <2> QED
    BY <2>1, WorkspaceType
<1>6. \A c \in 1..Len(cs) : Tiles(cs[c]) = {p} /\ WellColumn(cs[c])
  <2> SUFFICES ASSUME NEW c \in 1..Len(cs) PROVE Tiles(cs[c]) = {p} /\ WellColumn(cs[c])
    OBVIOUS
  <2>1. WellColumn(cs[c])
    BY <1>5 DEF WellColumns
  <2>2. Tiles(cs[c]) # {}
    BY <2>1 DEF WellColumn, Tiles
  <2>3. Tiles(cs[c]) \subseteq {p}
    <3>1. PanesIn(ws) = {p}
      BY <1>2, <1>4
    <3> HIDE DEF ws
    <3> QED
      BY <3>1 DEF PanesIn, Shown
  <2> QED
    BY <2>1, <2>2, <2>3
<1>7. \A c, d \in 1..Len(cs) : c = d
  <2>1. \A c, d \in 1..Len(cs) : \A q \in Tiles(cs[c]) : q \in Tiles(cs[d]) => c = d
    BY <1>5 DEF WellColumns
  <2> HIDE DEF cs
  <2> QED
    BY <2>1, <1>6
<1>8. Len(cs) = 1 /\ ws.active = 1
  <2> HIDE DEF cs
  <2> QED
    BY <1>5, <1>7, OneIndex
<1>9. /\ col.tiles \in Seq(Pane) /\ Len(col.tiles) \in Nat
      /\ col = [tiles |-> col.tiles, active |-> col.active]
      /\ col.active \in 1..Len(col.tiles)
      /\ \A t, u \in 1..Len(col.tiles) : col.tiles[t] = col.tiles[u] => t = u
      /\ \A t \in 1..Len(col.tiles) : col.tiles[t] = p
  <2>1. WellColumn(col) /\ Tiles(col) = {p}
    BY <1>6, <1>8
  <2> HIDE DEF col
  <2> QED
    BY <2>1, ColumnType DEF WellColumn, Tiles
<1>10. Len(col.tiles) = 1 /\ col.active = 1
  <2>1. \A t, u \in 1..Len(col.tiles) : t = u
    BY <1>9
  <2> HIDE DEF col
  <2> QED
    BY <2>1, <1>9, OneIndex
<1>11. col = NewColumn(p)
  <2>1. col.tiles = <<p>>
    BY <1>9, <1>10
  <2> QED
    BY <2>1, <1>9, <1>10 DEF NewColumn
<1>12. ws = [columns |-> <<NewColumn(p)>>, active |-> 1]
  <2>1. cs = <<col>>
    BY <1>5, <1>8
  <2> HIDE DEF col, cs
  <2> QED
    BY <2>1, <1>5, <1>8, <1>11
<1>13. l = [workspaces |-> <<ws>>, active |-> 1]
  <2>1. s = <<ws>>
    BY <1>1, <1>4
  <2> HIDE DEF ws, s
  <2> QED
    BY <2>1, <1>1, <1>4
<1>14. AddColumnRight(NewWorkspace, p) = [columns |-> <<NewColumn(p)>>, active |-> 1]
  <2> DEFINE z == <<>>
             e == NewColumn(p)
  <2>1. z \in Seq(Columns(Pane)) /\ Len(z) = 0 /\ e \in Columns(Pane)
    BY NewColumnWell DEF WellColumn
  <2> HIDE DEF z, e
  <2>2. InsertAt(z, 1, e) = <<e>>
    BY <2>1, InsertFirst
  <2> USE DEF z, e
  <2> QED
    BY <2>2 DEF AddColumnRight, PutColumn, NewWorkspace, Blank
<1>15. Default(k, {p}) = [workspaces |-> <<AddColumnRight(NewWorkspace, p)>>, active |-> 1]
  <2>1. (CHOOSE q \in {p} : TRUE) = p
    OBVIOUS
  <2> QED
    BY <2>1 DEF Default
<1> HIDE DEF ws
<1> QED
  BY <1>12, <1>13, <1>14, <1>15

\* A restore keeps the order of what it restores.
LEMMA RestoredOrder ==
    ASSUME NEW l, Well(l), NEW S, S \subseteq AllPanes(l)
    PROVE  SameOrder(l, Restored(l, S), S)
<1> DEFINE s == l.workspaces
           m == Restored(l, S)
           r == m.workspaces
<1>1. Well(m) /\ WellStack(s) /\ DOMAIN s = 1..Len(s) /\ Len(s) \in Nat
  BY RestoredWell, LayoutType
<1>2. /\ r = [w \in 1..Len(s) |-> RestoreWorkspace(s[w], S)]
      /\ Len(r) = Len(s)
  <2>1. r = [w \in 1..Len(s) |-> RestoreWorkspace(s[w], S)]
    BY <1>1 DEF Restored
  <2> HIDE DEF r, s
  <2> QED
    BY <2>1, <1>1
<1>3. ASSUME NEW p \in S, NEW q \in S, Precedes(l, p, q) PROVE Precedes(m, p, q)
  <2> DEFINE g == [w \in 1..Len(s) |-> w]
  <2>1. InStack(s, p, q)
    BY <1>3, PrecedesIs
  <2>2. ASSUME NEW w \in 1..Len(s)
        PROVE  /\ g[w] \in 1..Len(r) /\ PanesIn(s[w]) \cap {p, q} \subseteq PanesIn(r[g[w]])
               /\ InRow(s[w].columns, p, q) => InRow(r[g[w]].columns, p, q)
    <3>1. r[g[w]] = RestoreWorkspace(s[w], S) /\ g[w] \in 1..Len(r)
      BY <1>2
    <3>2. WellWorkspace(s[w])
      BY <1>1, StackType
    <3> HIDE DEF g, r, s
    <3> QED
      BY <3>1, <3>2, <1>3, RestoreWorkspaceWell, RestoreWorkspaceOrder
  <2>3. \A v, w \in 1..Len(s) : v < w => g[v] < g[w]
    OBVIOUS
  <2> HIDE DEF g, r, s, m
  <2>4. InStack(r, p, q)
    BY <2>1, <2>2, <2>3, KeepsInStack
  <2> QED
    BY <2>4, <1>1, PrecedesIs DEF r
<1> HIDE DEF m
<1>4. SameOrder(l, m, S)
  BY <1>1, <1>3, OrderKept
<1> QED
  BY <1>4 DEF m

\* One pane has no order.
LEMMA OnePaneOrder ==
    ASSUME NEW l, Well(l), NEW m, Well(m), NEW P, P \subseteq AllPanes(l),
           \A p, q \in P : p = q
    PROVE  SameOrder(l, m, P)
<1>1. ASSUME NEW p \in P, Precedes(l, p, p) PROVE FALSE
  <2>1. PICK x \in Places(l), y \in Places(l) : PaneAt(l, x) = p /\ PaneAt(l, y) = p /\ Before(x, y)
    BY <1>1 DEF Precedes
  <2>2. x = y
    BY <2>1, PlacesDiffer
  <2>3. x[1] \in Int /\ x[2] \in Int /\ x[3] \in Int
    BY PlaceParts
  <2> QED
    BY <2>1, <2>2, <2>3 DEF Before
<1> QED
  BY <1>1, OrderKept

\* Only a client that attaches brings a session into being.
LEMMA OnlyAttachStarts ==
    ASSUME ~live, live', [Next]_vars
    PROVE  AttachNew
<1>1. ~Serving
  BY DEF Serving
<1>2. ~UNCHANGED vars
  BY DEF vars
<1>3. ~\E p \in Pane : PaneStep(p)
  BY <1>1, Zenon DEF PaneStep, CreatePane, SplitDown, NewTileBelow, CreatePaneAt,
                     CreatePaneAtFails, FocusPane, CloseRequest
<1>4. ~LayoutStep
  BY <1>1, Zenon DEF LayoutStep, FocusColumn, FocusVertically, MoveColumn, SwitchWorkspace,
                     MovePane, ConsumeIntoColumn, ExpelFromColumn, Reshape
<1>5. ~DaemonStep
  BY <1>1 DEF DaemonStep, GracefulShutdown, DaemonEnds, DaemonStarts, Gone
<1>6. SessionStep
  BY <1>2, <1>3, <1>4, <1>5 DEF Next
<1>7. ~KillSession
  BY DEF KillSession, Gone
<1> QED
  BY <1>1, <1>6, <1>7, Zenon DEF SessionStep, TickCloses, TickEndsSession, TickSaves,
                                 AgentsChange, AttachEmpty

\* A session saved at shutdown comes back as it was, as far as it can be started.
THEOREM ComesBack == Spec => RestartKeeps
<1> DEFINE A == ~live /\ live' /\ promised # NoFile /\ Valid(promised)
                  => /\ panes' = PanesOf(promised) => layout' = promised
                     /\ panes' \subseteq PanesOf(promised) => SameOrder(promised, layout', panes')
<1>1. ASSUME SessionInv, PromiseKept, [Next]_vars,
             ~live, live', promised # NoFile, Valid(promised)
      PROVE  /\ panes' = PanesOf(promised) => layout' = promised
             /\ panes' \subseteq PanesOf(promised) => SameOrder(promised, layout', panes')
  <2>1. AttachNew
    BY <1>1, OnlyAttachStarts
  <2>2. disk = promised /\ Well(promised) /\ PanesOf(promised) = AllPanes(promised)
    BY <1>1, PanesOfAre DEF PromiseKept, SessionInv
  <2>3. \E S \in SUBSET AllPanes(promised) :
          \/ S = {} /\ AttachDefault(Restored(promised, S))
          \/ S # {} /\ panes' = S /\ layout' = Restored(promised, S)
    BY <1>1, <2>1, <2>2 DEF AttachNew
  <2>4. PICK S \in SUBSET AllPanes(promised) :
          \/ AttachDefault(Restored(promised, S))
          \/ panes' = S /\ layout' = Restored(promised, S)
    BY <2>3
  <2>5. CASE panes' = S /\ layout' = Restored(promised, S)
    BY <2>2, <2>5, <1>1, ValidShows, WholeLayout, RestoredOrder
  <2>6. CASE AttachDefault(Restored(promised, S))
    <3> DEFINE k == Restored(promised, S)
    <3>1. k.active = 1
      BY <2>6, <1>1 DEF AttachDefault
    <3>2. PICK P \in DefaultPane : panes' = P /\ layout' = Default(k, P)
      BY <2>6, <1>1 DEF AttachDefault
    <3> HIDE DEF k
    <3>3. Well(Default(k, P)) /\ AllPanes(Default(k, P)) = P
      BY <3>1, DefaultWell
    <3>4. P = {} \/ \E p \in Pane : P = {p}
      BY DEF DefaultPane
    <3>5. ASSUME P = AllPanes(promised) PROVE Default(k, P) = promised
      <4>1. PICK p \in Pane : P = {p}
        BY <3>4, <3>5, <2>2, <1>1, ValidShows
      <4> QED
        BY <4>1, <3>1, <3>5, <2>2, <1>1, OnlyPane
    <3>6. ASSUME P \subseteq AllPanes(promised) PROVE SameOrder(promised, Default(k, P), P)
      <4>1. \A p, q \in P : p = q
        BY <3>4
      <4> QED
        BY <4>1, <3>3, <3>6, <2>2, OnePaneOrder
    <3> QED
      BY <3>2, <3>5, <3>6, <2>2
  <2> QED
    BY <2>4, <2>5, <2>6
<1>2. SessionInv /\ PromiseKept /\ [Next]_vars => A
  BY <1>1
<1>3. Spec => [][A]_vars
  BY <1>2, InvAlways, PromiseAlways, PTL DEF Spec
<1> QED
  BY <1>3 DEF RestartKeeps
=============================================================================
