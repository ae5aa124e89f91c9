------------------------------ MODULE Counting ------------------------------
(* Lemmas about rows of counters: row[n] events whose field "attempts" is n,  *)
(* up to last.  Each event is a pair <<n, i>>, each attempt that it allows a   *)
(* pair <<<<n, i>>, k>> with k from n to last.                                 *)
EXTENDS Integers, FiniteSets, FiniteSetTheorems, TLAPS

CopiesOf(row, last)  == UNION {{n} \X (1 .. row[n]) : n \in 1 .. last}
ChancesOf(row, last) == UNION {({n} \X (1 .. row[n])) \X (n .. last) : n \in 1 .. last}

\* The union of finitely many finite sets.
LEMMA FiniteFamily ==
  ASSUME NEW S, IsFiniteSet(S), NEW f, \A s \in S : IsFiniteSet(f[s])
  PROVE  IsFiniteSet(UNION {f[s] : s \in S})
<1> DEFINE T == {f[s] : s \in S}
           g == [s \in S |-> f[s]]
<1>1. g \in Surjection(S, T)
  BY DEF Surjection
<1>2. IsFiniteSet(T)
  BY <1>1, FS_Surjection
<1> QED
  BY <1>2, FS_UNION

LEMMA CopiesFinite ==
  ASSUME NEW last \in Nat, NEW row \in [1 .. last -> Nat]
  PROVE  IsFiniteSet(CopiesOf(row, last))
<1> DEFINE f == [n \in 1 .. last |-> {n} \X (1 .. row[n])]
<1>1. IsFiniteSet(1 .. last)
  BY FS_Interval
<1>2. \A n \in 1 .. last : IsFiniteSet(f[n])
  <2> SUFFICES ASSUME NEW n \in 1 .. last PROVE IsFiniteSet({n} \X (1 .. row[n]))
    OBVIOUS
  <2>1. row[n] \in Int
    OBVIOUS
  <2>2. IsFiniteSet({n})
    BY FS_Singleton
  <2>3. IsFiniteSet(1 .. row[n])
    BY <2>1, FS_Interval
  <2> QED
    BY <2>2, <2>3, FS_Product
<1>3. CopiesOf(row, last) = UNION {f[n] : n \in 1 .. last}
  BY DEF CopiesOf
<1> HIDE DEF f
<1> QED
  BY <1>1, <1>2, <1>3, FiniteFamily

LEMMA ChancesFinite ==
  ASSUME NEW last \in Nat, NEW row \in [1 .. last -> Nat]
  PROVE  IsFiniteSet(ChancesOf(row, last))
<1> DEFINE f == [n \in 1 .. last |-> ({n} \X (1 .. row[n])) \X (n .. last)]
<1>1. IsFiniteSet(1 .. last)
  BY FS_Interval
<1>2. \A n \in 1 .. last : IsFiniteSet(f[n])
  <2> SUFFICES ASSUME NEW n \in 1 .. last PROVE IsFiniteSet(({n} \X (1 .. row[n])) \X (n .. last))
    OBVIOUS
  <2>0. row[n] \in Int /\ n \in Int
    OBVIOUS
  <2>1. IsFiniteSet({n})
    BY FS_Singleton
  <2>2. IsFiniteSet(1 .. row[n])
    BY <2>0, FS_Interval
  <2>3. IsFiniteSet(n .. last)
    BY <2>0, FS_Interval
  <2>4. IsFiniteSet({n} \X (1 .. row[n]))
    BY <2>1, <2>2, FS_Product
  <2> QED
    BY <2>3, <2>4, FS_Product
<1>3. ChancesOf(row, last) = UNION {f[n] : n \in 1 .. last}
  BY DEF ChancesOf
<1> HIDE DEF f
<1> QED
  BY <1>1, <1>2, <1>3, FiniteFamily

\* An event more.
LEMMA CopyMore ==
  ASSUME NEW last \in Nat, NEW row \in [1 .. last -> Nat], NEW m \in 1 .. last,
         NEW more \in [1 .. last -> Nat],
         \A n \in 1 .. last : more[n] = IF n = m THEN row[n] + 1 ELSE row[n]
  PROVE  /\ Cardinality(CopiesOf(row, last)) \in Nat
         /\ Cardinality(CopiesOf(more, last)) = Cardinality(CopiesOf(row, last)) + 1
<1> DEFINE new == <<m, row[m] + 1>>
<1>1. \A n \in 1 .. last : 1 .. more[n] = (1 .. row[n]) \cup (IF n = m THEN {row[m] + 1} ELSE {})
  OBVIOUS
<1>2. CopiesOf(more, last) = CopiesOf(row, last) \cup {new}
  <2>1. \A n \in 1 .. last :
            {n} \X (1 .. more[n]) = ({n} \X (1 .. row[n])) \cup (IF n = m THEN {new} ELSE {})
    BY <1>1
  <2> QED
    BY <2>1 DEF CopiesOf
<1>3. new \notin CopiesOf(row, last)
  BY DEF CopiesOf
<1> HIDE DEF new
<1> QED
  BY <1>2, <1>3, CopiesFinite, FS_AddElement, FS_CardinalityType

LEMMA ChanceMore ==
  ASSUME NEW last \in Nat, NEW row \in [1 .. last -> Nat], NEW m \in 1 .. last,
         NEW more \in [1 .. last -> Nat],
         \A n \in 1 .. last : more[n] = IF n = m THEN row[n] + 1 ELSE row[n]
  PROVE  /\ Cardinality(ChancesOf(row, last)) \in Nat
         /\ Cardinality(ChancesOf(more, last)) = Cardinality(ChancesOf(row, last)) + (last - m + 1)
<1> DEFINE new == {<<m, row[m] + 1>>} \X (m .. last)
<1>1. \A n \in 1 .. last : 1 .. more[n] = (1 .. row[n]) \cup (IF n = m THEN {row[m] + 1} ELSE {})
  OBVIOUS
<1>2. ChancesOf(more, last) = ChancesOf(row, last) \cup new
  <2>1. \A n \in 1 .. last :
            {n} \X (1 .. more[n]) =
                ({n} \X (1 .. row[n])) \cup (IF n = m THEN {<<m, row[m] + 1>>} ELSE {})
    BY <1>1
  <2>2. \A n \in 1 .. last :
            ({n} \X (1 .. more[n])) \X (n .. last) =
                (({n} \X (1 .. row[n])) \X (n .. last)) \cup (IF n = m THEN new ELSE {})
    BY <2>1
  <2> QED
    BY <2>2 DEF ChancesOf
<1>3. new \cap ChancesOf(row, last) = {}
  BY DEF ChancesOf
<1>4. IsFiniteSet(new) /\ Cardinality(new) = last - m + 1
  <2>1. IsFiniteSet(m .. last) /\ Cardinality(m .. last) = last - m + 1
    BY FS_Interval
  <2>2. IsFiniteSet({<<m, row[m] + 1>>}) /\ Cardinality({<<m, row[m] + 1>>}) = 1
    BY FS_Singleton
  <2>3. IsFiniteSet(new) /\ Cardinality(new) =
            Cardinality({<<m, row[m] + 1>>}) * Cardinality(m .. last)
    BY <2>1, <2>2, FS_Product
  <2>4. 1 * (last - m + 1) = last - m + 1
    OBVIOUS
  <2> QED
    BY <2>1, <2>2, <2>3, <2>4, Zenon
<1>5. Cardinality(ChancesOf(row, last) \cap new) = 0
  BY <1>3, FS_EmptySet
<1>6. IsFiniteSet(ChancesOf(row, last)) /\ Cardinality(ChancesOf(row, last)) \in Nat
  BY ChancesFinite, FS_CardinalityType
<1>7. Cardinality(ChancesOf(row, last) \cup new) =
          Cardinality(ChancesOf(row, last)) + Cardinality(new)
              - Cardinality(ChancesOf(row, last) \cap new)
  BY <1>4, <1>6, FS_Union
<1> HIDE DEF new
<1> QED
  BY <1>2, <1>4, <1>5, <1>6, <1>7

\* Without an event there is nothing to count, and conversely.
LEMMA NoCopies ==
  ASSUME NEW last \in Nat, NEW row \in [1 .. last -> Nat]
  PROVE  Cardinality(CopiesOf(row, last)) = 0 <=> \A n \in 1 .. last : row[n] = 0
<1>1. Cardinality(CopiesOf(row, last)) = 0 <=> CopiesOf(row, last) = {}
  BY CopiesFinite, FS_EmptySet
<1>2. ASSUME NEW n \in 1 .. last, row[n] # 0 PROVE CopiesOf(row, last) # {}
  <2>1. <<n, 1>> \in {n} \X (1 .. row[n])
    BY <1>2
  <2> QED
    BY <2>1 DEF CopiesOf
<1>3. ASSUME \A n \in 1 .. last : row[n] = 0 PROVE CopiesOf(row, last) = {}
  BY <1>3 DEF CopiesOf
<1> QED
  BY <1>1, <1>2, <1>3

LEMMA NoChances ==
  ASSUME NEW last \in Nat, NEW row \in [1 .. last -> Nat], \A n \in 1 .. last : row[n] = 0
  PROVE  Cardinality(ChancesOf(row, last)) = 0
<1>1. ChancesOf(row, last) = {}
  BY DEF ChancesOf
<1> QED
  BY <1>1, FS_EmptySet

=============================================================================
