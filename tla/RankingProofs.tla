--------------------------- MODULE RankingProofs ---------------------------
(***************************************************************************)
(* What the operators of Ranking do to any sequence: what sorting,         *)
(* picking, cutting, taking distinct texts and adding up return. Induction *)
(* over a sequence is done with sets of numbers: Induct says that a set    *)
(* with 0 and every successor is Nat, from Least, which rests on the       *)
(* library's theorem that sets of finite sets are well founded.            *)
(***************************************************************************)
EXTENDS Ranking, FunctionTheorems, FiniteSetTheorems, SequenceTheorems, TLAPS

\* order lists every position in S once.
Lists(order, S) ==
  /\ order \in [1..Cardinality(S) -> S]
  /\ \A i \in S : \E k \in 1..Cardinality(S) : order[k] = i
  /\ \A k, l \in 1..Cardinality(S) : order[k] = order[l] => k = l

\* An interval from 1 is finite.
LEMMA UptoFinite ==
  ASSUME NEW n \in Nat
  PROVE  IsFiniteSet(1..n) /\ Cardinality(1..n) = n
BY FS_Interval

\* Order lists S by falling weight, earlier first among equals, as sorted does with
\* reverse=True.
LEMMA OrderLists ==
  ASSUME NEW S \in SUBSET Nat, IsFiniteSet(S), NEW w, \A i \in S : w[i] \in Int
  PROVE  /\ Cardinality(S) \in Nat
         /\ Lists(Order(S, w), S)
         /\ \A k, l \in 1..Cardinality(S) : k < l =>
              LET o == Order(S, w) IN
              \/ w[o[k]] > w[o[l]]
              \/ w[o[k]] = w[o[l]] /\ o[k] < o[l]
<1> DEFINE n == Cardinality(S)
           Upto(i) == {j \in S : w[j] > w[i] \/ (w[j] = w[i] /\ j <= i)}
           place == [i \in S |-> Cardinality(Upto(i))]
           Above(i, j) == w[i] > w[j] \/ (w[i] = w[j] /\ i < j)
           o == Order(S, w)
<1>1. n \in Nat /\ IsFiniteSet(1..n) /\ Cardinality(1..n) = n
  BY FS_CardinalityType, UptoFinite
<1>2. ASSUME NEW i \in S PROVE place[i] \in 1..n
  <2>1. IsFiniteSet(Upto(i)) /\ Cardinality(Upto(i)) <= n
    BY FS_Subset
  <2>2. i \in Upto(i)
    OBVIOUS
  <2>3. Cardinality(Upto(i)) \in Nat /\ Cardinality(Upto(i)) # 0
    BY <2>1, <2>2, FS_CardinalityType, FS_EmptySet
  <2> QED BY <1>1, <2>1, <2>3
<1>3. ASSUME NEW i \in S, NEW j \in S, Above(i, j) PROVE place[i] < place[j]
  <2> w[i] \in Int /\ w[j] \in Int /\ i \in Nat /\ j \in Nat
    OBVIOUS
  <2>0. ASSUME NEW k \in Upto(i) PROVE k \in Upto(j)
    <3>1. k \in Nat /\ k \in S /\ w[k] \in Int
      OBVIOUS
    <3> QED BY <3>1, <1>3
  <2>1. j \in Upto(j) /\ j \notin Upto(i)
    BY <1>3
  <2> HIDE DEF Upto
  <2>2. Upto(i) \subseteq Upto(j)
    BY <2>0
  <2>3. IsFiniteSet(Upto(i)) /\ IsFiniteSet(Upto(j))
    BY FS_Subset DEF Upto
  <2>4. Cardinality(Upto(i)) <= Cardinality(Upto(j)) /\ Cardinality(Upto(i)) # Cardinality(Upto(j))
    BY <2>1, <2>2, <2>3, FS_Subset
  <2> QED BY <2>3, <2>4, FS_CardinalityType
<1>4. ASSUME NEW i \in S, NEW j \in S, i # j PROVE Above(i, j) \/ Above(j, i)
  BY <1>4
<1> HIDE DEF place
<1>5. place \in Injection(S, 1..n)
  <2>1. place \in [S -> 1..n]
    BY <1>2 DEF place
  <2>2. \A i, j \in S : place[i] = place[j] => i = j
    BY <1>1, <1>2, <1>3, <1>4
  <2> QED BY <2>1, <2>2 DEF Injection, IsInjective
<1>6. place \in Surjection(S, 1..n)
  BY <1>1, <1>5, FS_Injection
<1>7. o = [k \in 1..n |-> CHOOSE i \in S : place[i] = k]
  BY DEF Order, place
<1>8. ASSUME NEW k \in 1..n PROVE o[k] \in S /\ place[o[k]] = k
  BY <1>6, <1>7 DEF Surjection
<1>9. Lists(o, S)
  <2>1. o \in [1..n -> S]
    BY <1>7, <1>8
  <2>2. \A i \in S : \E k \in 1..n : o[k] = i
    <3>1. ASSUME NEW i \in S PROVE o[place[i]] = i
      <4>1. place[i] \in 1..n
        BY <1>2
      <4> QED BY <4>1, <1>8, <1>5 DEF Injection, IsInjective
    <3> QED BY <3>1, <1>2
  <2>3. \A k, l \in 1..n : o[k] = o[l] => k = l
    BY <1>8
  <2> QED BY <2>1, <2>2, <2>3 DEF Lists
<1>10. ASSUME NEW k \in 1..n, NEW l \in 1..n, k < l PROVE Above(o[k], o[l])
  <2>1. o[k] \in S /\ o[l] \in S /\ place[o[k]] = k /\ place[o[l]] = l
    BY <1>8
  <2> HIDE DEF o, Above
  <2>2. o[k] # o[l]
    BY <2>1, <1>10, <1>1
  <2>3. ASSUME Above(o[l], o[k]) PROVE FALSE
    <3>1. place[o[l]] < place[o[k]]
      BY <2>1, <2>3, <1>3
    <3> QED BY <3>1, <2>1, <1>10, <1>1
  <2> QED BY <2>1, <2>2, <2>3, <1>4
<1> QED BY <1>1, <1>9, <1>10

\* A list arranged by an order of its positions is a list of its elements.
LEMMA ArrangedSeq ==
  ASSUME NEW T, NEW seq \in Seq(T), NEW n \in Nat, NEW order \in [1..n -> DOMAIN seq]
  PROVE  /\ Arranged(seq, order) \in Seq(T)
         /\ Len(Arranged(seq, order)) = n
         /\ \A k \in 1..n : Arranged(seq, order)[k] = seq[order[k]]
<1>1. Arranged(seq, order) = [k \in 1..n |-> seq[order[k]]]
  BY DEF Arranged
<1>2. \A k \in 1..n : seq[order[k]] \in T
  OBVIOUS
<1>3. Arranged(seq, order) \in [1..n -> T]
  BY <1>1, <1>2
<1> QED BY <1>1, <1>3, SeqDef

\* r has the elements of seq in the order o, by falling weight.
RanksBy(r, seq, w, o) ==
  /\ Len(r) = Len(seq)
  /\ o \in [1..Len(seq) -> 1..Len(seq)]
  /\ \A k \in 1..Len(seq) : r[k] = seq[o[k]]
  /\ \A i \in 1..Len(seq) : \E k \in 1..Len(seq) : o[k] = i
  /\ \A k, l \in 1..Len(seq) : k < l =>
       /\ o[k] # o[l]
       /\ w[o[k]] >= w[o[l]]
       /\ w[o[k]] = w[o[l]] => o[k] < o[l]

\* Ranked is the whole list, arranged by falling weight.
LEMMA RankedSeq ==
  ASSUME NEW T, NEW seq \in Seq(T), NEW w, \A i \in 1..Len(seq) : w[i] \in Int
  PROVE  /\ Ranked(seq, w) \in Seq(T)
         /\ \E o : RanksBy(Ranked(seq, w), seq, w, o)
<1> DEFINE S == DOMAIN seq
           o == Order(S, w)
<1>1. S = 1..Len(seq) /\ Len(seq) \in Nat /\ S \in SUBSET Nat
  OBVIOUS
<1>2. IsFiniteSet(S) /\ Cardinality(S) = Len(seq)
  BY <1>1, UptoFinite
<1>3. /\ Lists(o, S)
      /\ \A k, l \in S : k < l => \/ w[o[k]] > w[o[l]]
                                  \/ w[o[k]] = w[o[l]] /\ o[k] < o[l]
  BY <1>1, <1>2, OrderLists
<1> HIDE DEF o
<1>4. 1..Cardinality(S) = S
  BY <1>1, <1>2
<1>5. /\ o \in [S -> S]
      /\ \A i \in S : \E k \in S : o[k] = i
      /\ \A k, l \in S : o[k] = o[l] => k = l
  BY <1>3, <1>4 DEF Lists
<1>6. \A k, l \in S : k < l => o[k] # o[l]
  BY <1>1, <1>5
<1>7. Ranked(seq, w) = Arranged(seq, o)
  BY DEF Ranked, o
<1>8. /\ Ranked(seq, w) \in Seq(T)
      /\ Len(Ranked(seq, w)) = Len(seq)
      /\ \A k \in S : Ranked(seq, w)[k] = seq[o[k]]
  <2>1. o \in [1..Len(seq) -> DOMAIN seq] /\ Len(seq) \in Nat
    BY <1>1, <1>5
  <2> HIDE DEF S
  <2>2. /\ Arranged(seq, o) \in Seq(T)
        /\ Len(Arranged(seq, o)) = Len(seq)
        /\ \A k \in 1..Len(seq) : Arranged(seq, o)[k] = seq[o[k]]
    BY <2>1, ArrangedSeq
  <2> QED BY <2>2, <1>1, <1>7
<1>9. ASSUME NEW k \in S, NEW l \in S, k < l
      PROVE  w[o[k]] >= w[o[l]] /\ (w[o[k]] = w[o[l]] => o[k] < o[l])
  <2>1. o[k] \in S /\ o[l] \in S
    BY <1>5
  <2>2. w[o[k]] \in Int /\ w[o[l]] \in Int
    BY <1>1, <2>1
  <2> HIDE DEF S
  <2> QED BY <2>2, <1>3, <1>9
<1>10. RanksBy(Ranked(seq, w), seq, w, o)
  <2>1. 1..Len(seq) = S
    BY <1>1
  <2> HIDE DEF S
  <2> QED BY <2>1, <1>5, <1>6, <1>8, <1>9 DEF RanksBy
<1> QED BY <1>8, <1>10

\* What stands later in a ranked list weighs no more.
LEMMA RanksFall ==
  ASSUME NEW T, NEW seq \in Seq(T), NEW w, \A i \in 1..Len(seq) : w[i] \in Int,
         NEW r, NEW o, RanksBy(r, seq, w, o),
         NEW k \in 1..Len(seq), NEW l \in 1..Len(seq), k <= l
  PROVE  /\ o[k] \in 1..Len(seq) /\ o[l] \in 1..Len(seq)
         /\ r[k] = seq[o[k]] /\ r[l] = seq[o[l]]
         /\ w[o[k]] >= w[o[l]]
<1>1. /\ o[k] \in 1..Len(seq) /\ o[l] \in 1..Len(seq)
      /\ r[k] = seq[o[k]] /\ r[l] = seq[o[l]]
  BY DEF RanksBy
<1>2. w[o[k]] \in Int
  BY <1>1
<1>3. CASE k = l
  BY <1>1, <1>2, <1>3
<1>4. CASE k # l
  <2>1. k < l
    BY <1>4
  <2>2. w[o[k]] >= w[o[l]]
    BY <2>1 DEF RanksBy
  <2> QED BY <1>1, <2>2
<1> QED BY <1>3, <1>4

\* InPlace lists S in the order of the numbers.
LEMMA InPlaceLists ==
  ASSUME NEW S \in SUBSET Nat, IsFiniteSet(S)
  PROVE  /\ Cardinality(S) \in Nat
         /\ InPlace(S) \in [1..Cardinality(S) -> S]
         /\ \A i \in S : \E k \in 1..Cardinality(S) : InPlace(S)[k] = i
         /\ \A k, l \in 1..Cardinality(S) : k < l => InPlace(S)[k] < InPlace(S)[l]
<1> DEFINE w == [i \in S |-> 0]
<1>1. \A i \in S : w[i] = 0 /\ w[i] \in Int
  OBVIOUS
<1> HIDE DEF w
<1>2. /\ Cardinality(S) \in Nat
      /\ Lists(Order(S, w), S)
      /\ \A k, l \in 1..Cardinality(S) : k < l =>
           LET o == Order(S, w) IN
           \/ w[o[k]] > w[o[l]]
           \/ w[o[k]] = w[o[l]] /\ o[k] < o[l]
  BY <1>1, OrderLists
<1>3. InPlace(S) = Order(S, w)
  BY DEF InPlace, w
<1> DEFINE n == Cardinality(S)
           o == InPlace(S)
<1> HIDE DEF n, o
<1>4. /\ o \in [1..n -> S]
      /\ \A i \in S : \E k \in 1..n : o[k] = i
  BY <1>2, <1>3 DEF Lists, n, o
<1>5. ASSUME NEW k \in 1..n, NEW l \in 1..n, k < l PROVE o[k] < o[l]
  <2>1. w[o[k]] = 0 /\ w[o[l]] = 0
    BY <1>1, <1>4
  <2> QED BY <1>2, <1>3, <1>5, <2>1 DEF n, o
<1> QED BY <1>2, <1>4, <1>5 DEF n, o

\* Picked lists the elements at the positions in S, in their order, as a comprehension
\* does.
LEMMA PickedSeq ==
  ASSUME NEW T, NEW seq \in Seq(T), NEW S \in SUBSET DOMAIN seq
  PROVE  /\ Cardinality(S) \in Nat /\ Cardinality(S) <= Len(seq)
         /\ \E o \in [1..Cardinality(S) -> S] :
              /\ Picked(seq, S) \in Seq(T)
              /\ Len(Picked(seq, S)) = Cardinality(S)
              /\ \A k \in 1..Cardinality(S) : Picked(seq, S)[k] = seq[o[k]]
              /\ \A i \in S : \E k \in 1..Cardinality(S) : o[k] = i
              /\ \A k, l \in 1..Cardinality(S) : k < l => o[k] < o[l]
<1>1. S \in SUBSET Nat /\ Len(seq) \in Nat
  OBVIOUS
<1>2. IsFiniteSet(S) /\ Cardinality(S) <= Len(seq)
  <2>1. S \in SUBSET (1..Len(seq))
    OBVIOUS
  <2>2. IsFiniteSet(1..Len(seq)) /\ Cardinality(1..Len(seq)) = Len(seq)
    BY <1>1, UptoFinite
  <2> QED BY <2>1, <2>2, FS_Subset
<1> DEFINE n == Cardinality(S)
           o == InPlace(S)
<1>3. /\ n \in Nat
      /\ o \in [1..n -> S]
      /\ \A i \in S : \E k \in 1..n : o[k] = i
      /\ \A k, l \in 1..n : k < l => o[k] < o[l]
  BY <1>1, <1>2, InPlaceLists
<1>4. Picked(seq, S) = Arranged(seq, o)
  BY DEF Picked
<1> HIDE DEF n, o
<1>5. o \in [1..n -> DOMAIN seq]
  BY <1>3
<1>6. /\ Picked(seq, S) \in Seq(T)
      /\ Len(Picked(seq, S)) = n
      /\ \A k \in 1..n : Picked(seq, S)[k] = seq[o[k]]
  BY <1>3, <1>4, <1>5, ArrangedSeq
<1> QED BY <1>2, <1>3, <1>6 DEF n

\* f lists the elements of seq at the positions in S, in the order o of their places.
PicksBy(f, seq, S, o) ==
  /\ o \in [1..Len(f) -> S]
  /\ \A k \in 1..Len(f) : f[k] = seq[o[k]]
  /\ \A i \in S : \E k \in 1..Len(f) : o[k] = i
  /\ \A k, l \in 1..Len(f) : k < l => o[k] < o[l]

\* PickedSeq, naming the order.
LEMMA PickedBy ==
  ASSUME NEW T, NEW seq \in Seq(T), NEW S \in SUBSET DOMAIN seq
  PROVE  /\ Picked(seq, S) \in Seq(T) /\ Len(Picked(seq, S)) <= Len(seq)
         /\ \E o : PicksBy(Picked(seq, S), seq, S, o)
<1> DEFINE f == Picked(seq, S)
<1>1. /\ Cardinality(S) \in Nat /\ Cardinality(S) <= Len(seq)
      /\ \E o \in [1..Cardinality(S) -> S] :
           /\ f \in Seq(T)
           /\ Len(f) = Cardinality(S)
           /\ \A k \in 1..Cardinality(S) : f[k] = seq[o[k]]
           /\ \A i \in S : \E k \in 1..Cardinality(S) : o[k] = i
           /\ \A k, l \in 1..Cardinality(S) : k < l => o[k] < o[l]
  BY PickedSeq, SMTT(30)
<1> HIDE DEF f
<1>2. PICK o \in [1..Cardinality(S) -> S] :
        /\ f \in Seq(T)
        /\ Len(f) = Cardinality(S)
        /\ \A k \in 1..Cardinality(S) : f[k] = seq[o[k]]
        /\ \A i \in S : \E k \in 1..Cardinality(S) : o[k] = i
        /\ \A k, l \in 1..Cardinality(S) : k < l => o[k] < o[l]
  BY <1>1
<1>3. PicksBy(f, seq, S, o)
  BY <1>2 DEF PicksBy
<1> QED BY <1>1, <1>2, <1>3 DEF f

\* AtMost is the beginning of the list, as a slice from 0 is.
LEMMA AtMostSeq ==
  ASSUME NEW T, NEW seq \in Seq(T), NEW n \in Nat
  PROVE  /\ AtMost(n, seq) \in Seq(T)
         /\ Len(AtMost(n, seq)) = NoMoreThan(n, Len(seq))
         /\ \A k \in 1..NoMoreThan(n, Len(seq)) : AtMost(n, seq)[k] = seq[k]
<1>1. NoMoreThan(n, Len(seq)) \in Nat /\ 1..NoMoreThan(n, Len(seq)) \subseteq DOMAIN seq
  BY DEF NoMoreThan
<1>2. AtMost(n, seq) \in [1..NoMoreThan(n, Len(seq)) -> T]
  BY <1>1 DEF AtMost
<1> QED BY <1>1, <1>2, SeqDef DEF AtMost

\* A set of natural numbers that has an element has a least one.
LEMMA Least ==
  ASSUME NEW T \in SUBSET Nat, T # {}
  PROVE  \E m \in T : \A k \in T : m <= k
<1> DEFINE U == {0..k : k \in T}
<1>1. U \subseteq FiniteSubsetsOf(Nat)
  <2>1. ASSUME NEW k \in T PROVE 0..k \in SUBSET Nat /\ IsFiniteSet(0..k)
    BY FS_Interval
  <2> QED BY <2>1 DEF FiniteSubsetsOf
<1>2. IsWellFoundedOn(StrictSubsetOrdering(Nat), FiniteSubsetsOf(Nat))
  BY FS_StrictSubsetOrderingWellFounded
<1>3. PICK x \in U : \A y \in U : <<y, x>> \notin StrictSubsetOrdering(Nat)
  <2>1. U # {}
    OBVIOUS
  <2> HIDE DEF U
  <2> QED BY <1>1, <1>2, <2>1, WFMin
<1>4. PICK m \in T : x = 0..m
  OBVIOUS
<1>5. ASSUME NEW k \in T, k < m PROVE FALSE
  <2>1. 0..k \in U /\ <<0..k, x>> \notin StrictSubsetOrdering(Nat)
    BY <1>3
  <2>2. 0..k \subseteq 0..m /\ m \in 0..m /\ m \notin 0..k
    BY <1>5
  <2> QED BY <2>1, <2>2, <1>4 DEF StrictSubsetOrdering
<1> QED BY <1>5

\* Induction, said of a set.
LEMMA Induct ==
  ASSUME NEW T \in SUBSET Nat, 0 \in T, \A n \in T : n+1 \in T
  PROVE  T = Nat
<1>1. SUFFICES ASSUME Nat \ T # {} PROVE FALSE
  OBVIOUS
<1>2. PICK m \in Nat \ T : \A k \in Nat \ T : m <= k
  BY <1>1, Least
<1>3. m # 0 /\ m - 1 \in Nat /\ m-1 \notin Nat \ T
  BY <1>2
<1> QED BY <1>2, <1>3

\* f tells what a loop of n steps has come to after each: base, changed by step i with
\* F[i].
Computes(f, n, S, base, F) ==
  f \in [0..n -> S] /\ f[0] = base /\ \A i \in 1..n : f[i] = F[i][f[i-1]]
\* A loop has a result after each step.
LEMMA LoopExists ==
  ASSUME NEW n \in Nat, NEW S, NEW base \in S, NEW F \in [1..n -> [S -> S]]
  PROVE  \E f : Computes(f, n, S, base, F)
<1> DEFINE T == {k \in Nat : k <= n => \E f : Computes(f, k, S, base, F)}
<1>1. 0 \in T
  <2>1. Computes([i \in 0..0 |-> base], 0, S, base, F)
    BY DEF Computes
  <2> QED BY <2>1
<1>2. ASSUME NEW k \in T PROVE k+1 \in T
  <2>1. ASSUME k + 1 <= n PROVE \E f : Computes(f, k+1, S, base, F)
    <3>1. PICK g : Computes(g, k, S, base, F)
      BY <2>1
    <3> DEFINE f == [i \in 0..k+1 |-> IF i <= k THEN g[i] ELSE F[k+1][g[k]]]
    <3>3. f \in [0..k+1 -> S] /\ f[0] = base 
      BY <2>1, <3>1 DEF Computes
    <3>5. ASSUME NEW i \in 1..k+1 PROVE f[i] = F[i][f[i-1]]
      <4>1. CASE i <= k
        BY <3>1, <4>1 DEF Computes
      <4>2. CASE i = k + 1
        BY <4>2
      <4> QED BY <4>1, <4>2
    <3> QED BY <3>3, <3>5 DEF Computes
  <2> QED BY <2>1
<1>3. T \in SUBSET Nat
  OBVIOUS
<1>4. n \in T => \E f : Computes(f, n, S, base, F)
  OBVIOUS
<1> HIDE DEF T
<1>5. T = Nat
  BY <1>1, <1>2, <1>3, Induct
<1> QED BY <1>4, <1>5

\* Every position has the key of a first one, which is no later.
LEMMA FirstOfKeyStands ==
  ASSUME NEW n \in Nat, NEW keys, DOMAIN keys = 1..n, NEW i \in 1..n
  PROVE  \E j \in FirstOfKey(keys) : j \in 1..n /\ j <= i /\ keys[j] = keys[i]
<1> DEFINE Same == {j \in 1..n : keys[j] = keys[i]}
<1>1. i \in Same /\ Same \in SUBSET Nat
  OBVIOUS
<1>2. PICK j \in Same : \A k \in Same : j <= k
  BY <1>1, Least
<1>3. \A k \in 1..(j - 1) : keys[k] # keys[j]
  BY <1>2
<1> QED BY <1>1, <1>2, <1>3 DEF FirstOfKey

\* d takes from seq, at the positions pos, no text twice and at most limit; an
\* element it leaves has its text before it or comes after all of the limit.
TakesDistinct(d, seq, limit, pos) ==
  /\ Len(d) <= limit
  /\ \A k, l \in DOMAIN d : k # l => d[k].key = Blank \/ d[k].key # d[l].key
  /\ pos \in [DOMAIN d -> DOMAIN seq]
  /\ \A k \in DOMAIN d : d[k] = seq[pos[k]]
  /\ \A i \in DOMAIN seq :
       \/ \E k \in DOMAIN d :
            /\ pos[k] <= i
            /\ pos[k] = i \/ (d[k].key = seq[i].key /\ d[k].key # Blank)
       \/ Len(d) = limit /\ \A k \in DOMAIN d : pos[k] < i

\* FirstDistinct is the beginning of the list without repeated texts; what is not in it
\* is there already as an equal text, or the limit is reached.
LEMMA FirstDistinctSeq ==
  ASSUME NEW T, NEW seq \in Seq(T), NEW limit \in Nat
  PROVE  /\ FirstDistinct(seq, limit) \in Seq(T)
         /\ \E pos : TakesDistinct(FirstDistinct(seq, limit), seq, limit, pos)
<1> DEFINE keys == [i \in DOMAIN seq |-> seq[i].key]
           S == FirstOfKey(keys) \cup {i \in DOMAIN seq : keys[i] = Blank}
           n == Cardinality(S)
           p == Picked(seq, S)
           d == FirstDistinct(seq, limit)
<1>1. Len(seq) \in Nat /\ DOMAIN seq = 1..Len(seq) /\ DOMAIN keys = 1..Len(seq)
  OBVIOUS
<1>2. S \in SUBSET DOMAIN seq /\ S \in SUBSET Nat
  BY <1>1 DEF FirstOfKey
<1>3. d = AtMost(limit, p)
  BY DEF FirstDistinct
<1>4. ASSUME NEW i \in DOMAIN seq
      PROVE  \E j \in S : j <= i /\ (j = i \/ (keys[j] = keys[i] /\ keys[j] # Blank))
  <2>1. CASE keys[i] = Blank
    BY <1>1, <2>1
  <2>2. CASE keys[i] # Blank
    <3>1. i \in 1..Len(seq)
      BY <1>1
    <3> HIDE DEF keys
    <3>2. \E j \in FirstOfKey(keys) : j \in 1..Len(seq) /\ j <= i /\ keys[j] = keys[i]
      BY <1>1, <3>1, FirstOfKeyStands
    <3> QED BY <3>2, <2>2
  <2> QED BY <2>1, <2>2
<1>5. ASSUME NEW i \in S, NEW j \in S, i # j PROVE keys[i] = Blank \/ keys[i] # keys[j]
  <2>1. i \in Nat /\ j \in Nat /\ i \in 1..Len(seq) /\ j \in 1..Len(seq)
    BY <1>1, <1>2
  <2> HIDE DEF keys
  <2>2. CASE i < j
    <3>1. i \in 1..(j - 1)
      BY <2>1, <2>2
    <3> QED BY <3>1 DEF FirstOfKey
  <2>3. CASE j < i
    <3>1. j \in 1..(i - 1)
      BY <2>1, <2>3
    <3> QED BY <3>1 DEF FirstOfKey
  <2> QED BY <1>5, <2>1, <2>2, <2>3
<1> HIDE DEF S, p
<1>6. n \in Nat
  BY <1>2, PickedSeq DEF n
<1>7. PICK o \in [1..n -> S] :
         /\ p \in Seq(T)
         /\ Len(p) = n
         /\ \A k \in 1..n : p[k] = seq[o[k]]
         /\ \A i \in S : \E k \in 1..n : o[k] = i
         /\ \A k, l \in 1..n : k < l => o[k] < o[l]
  BY <1>2, PickedSeq DEF p
<1> DEFINE m == NoMoreThan(limit, n)
<1> HIDE DEF n, d
<1>8. m \in Nat /\ m <= limit /\ m <= n /\ (m = limit \/ m = n)
  BY <1>6 DEF NoMoreThan
<1> HIDE DEF m
<1>9. d \in Seq(T) /\ Len(d) = m /\ \A k \in 1..m : d[k] = p[k]
  <2>1. p \in Seq(T) /\ Len(p) = n
    BY <1>7
  <2> QED BY <2>1, <1>3, AtMostSeq DEF m
<1>10. DOMAIN d = 1..m
  BY <1>9, <1>8
<1> DEFINE pos == [k \in 1..m |-> o[k]]
<1>11. ASSUME NEW k \in 1..m
       PROVE  k \in 1..n /\ pos[k] = o[k] /\ o[k] \in S /\ o[k] \in DOMAIN seq /\ d[k] = seq[o[k]]
                /\ d[k].key = keys[o[k]] /\ o[k] \in Nat
  BY <1>2, <1>6, <1>7, <1>8, <1>9
<1>12. pos \in [DOMAIN d -> DOMAIN seq]
  BY <1>10, <1>11
<1>13. ASSUME NEW k \in 1..m, NEW l \in 1..m, k # l
       PROVE  d[k].key = Blank \/ d[k].key # d[l].key
  <2>1. o[k] # o[l]
    <3>1. o[k] \in Nat /\ o[l] \in Nat /\ k \in 1..n /\ l \in 1..n
      BY <1>11
    <3>2. k < l \/ l < k
      BY <1>8, <1>13
    <3> QED BY <3>1, <3>2, <1>7
  <2>2. o[k] \in S /\ o[l] \in S /\ d[k].key = keys[o[k]] /\ d[l].key = keys[o[l]]
    BY <1>11
  <2> HIDE DEF keys
  <2> QED BY <2>1, <2>2, <1>5
<1>14. ASSUME NEW i \in DOMAIN seq
       PROVE  \/ \E k \in DOMAIN d :
                   /\ pos[k] <= i
                   /\ pos[k] = i \/ (d[k].key = seq[i].key /\ d[k].key # Blank)
              \/ Len(d) = limit /\ \A k \in DOMAIN d : pos[k] < i
  <2>1. PICK j \in S : j <= i /\ (j = i \/ (keys[j] = keys[i] /\ keys[j] # Blank))
    BY <1>4
  <2>2. PICK k \in 1..n : o[k] = j
    BY <1>7
  <2>3. CASE k <= m
    <3>1. k \in 1..m
      BY <2>3, <1>6, <1>8
    <3>2. keys[i] = seq[i].key
      OBVIOUS
    <3> HIDE DEF pos, keys
    <3> QED BY <3>1, <3>2, <2>1, <2>2, <1>10, <1>11
  <2>4. CASE m < k
    <3>1. m = limit
      BY <2>4, <1>6, <1>8
    <3>2. ASSUME NEW l \in 1..m PROVE pos[l] < i
      <4>1. o[l] < o[k]
        BY <2>4, <1>6, <1>7, <1>8, <1>11
      <4>2. i \in Nat /\ j \in Nat
        BY <1>1, <1>2
      <4>3. pos[l] = o[l] /\ o[l] \in Nat
        BY <1>11
      <4> QED BY <4>1, <4>2, <4>3, <2>1, <2>2
    <3> HIDE DEF pos
    <3> QED BY <3>1, <3>2, <1>9, <1>10
  <2>5. k <= m \/ m < k
    BY <1>6, <1>8
  <2> QED BY <2>3, <2>4, <2>5
<1>15. \A k \in DOMAIN d : d[k] = seq[pos[k]]
  BY <1>10, <1>11
<1>16. \A k, l \in DOMAIN d : k # l => d[k].key = Blank \/ d[k].key # d[l].key
  BY <1>10, <1>13
<1> HIDE DEF pos, keys
<1>17. TakesDistinct(d, seq, limit, pos)
  BY <1>8, <1>9, <1>12, <1>14, <1>15, <1>16 DEF TakesDistinct
<1> QED BY <1>9, <1>17 DEF d

\* Heaviest is an element than which none weighs more, as max with a key returns it.
LEMMA HeaviestIn ==
  ASSUME NEW T, NEW seq \in Seq(T), seq # <<>>, NEW w, \A i \in DOMAIN seq : w[i] \in Int
  PROVE  \E b \in DOMAIN seq :
           /\ Heaviest(seq, w) = seq[b]
           /\ \A i \in DOMAIN seq : w[b] >= w[i]
<1>1. Len(seq) \in Nat /\ DOMAIN seq = 1..Len(seq) /\ 1 \in 1..Len(seq)
  OBVIOUS
<1>2. PICK o : RanksBy(Ranked(seq, w), seq, w, o)
  BY <1>1, RankedSeq
<1>3. ASSUME NEW i \in 1..Len(seq) PROVE w[o[1]] >= w[i]
  <2>1. PICK k \in 1..Len(seq) : o[k] = i
    BY <1>2 DEF RanksBy
  <2>2. 1 <= k
    BY <1>1
  <2> QED BY <1>1, <1>2, <2>1, <2>2, RanksFall
<1> QED BY <1>1, <1>2, <1>3 DEF Heaviest, RanksBy

\* The sum of numbers to b is at most as many times b.
LEMMA TotalBounded ==
  ASSUME NEW numbers \in Seq(Nat), NEW b \in Nat, \A i \in DOMAIN numbers : numbers[i] <= b
  PROVE  Total(numbers) \in Nat /\ Total(numbers) <= Len(numbers) * b
<1> DEFINE n == Len(numbers)
           F == [k \in 1..n |-> [x \in Nat |-> x + numbers[k]]]
           IsSum(s) == s = [k \in 0..n |-> IF k = 0 THEN 0 ELSE s[k - 1] + numbers[k]]
           sum == CHOOSE s : IsSum(s)
<1>1. n \in Nat /\ \A k \in 1..n : numbers[k] \in Nat
  OBVIOUS
<1>2. Total(numbers) = sum[n]
  BY DEF Total
<1> HIDE DEF n
<1>3. F \in [1..n -> [Nat -> Nat]]
  BY <1>1
<1>4. PICK s : Computes(s, n, Nat, 0, F)
  <2> HIDE DEF F
  <2> QED BY <1>1, <1>3, LoopExists
<1>5. IsSum(s)
  <2>1. ASSUME NEW k \in 0..n, k # 0 PROVE s[k] = s[k - 1] + numbers[k]
    <3>1. k \in 1..n /\ k - 1 \in 0..n
      BY <1>1, <2>1
    <3>2. s[k - 1] \in Nat /\ s[k] = F[k][s[k - 1]]
      BY <1>4, <3>1 DEF Computes
    <3> QED BY <3>1, <3>2
  <2> QED BY <1>4, <2>1 DEF Computes
<1>6. IsSum(sum)
  <2> HIDE DEF IsSum
  <2> QED BY <1>5
<1> HIDE DEF sum
<1> DEFINE T == {k \in Nat : k <= n => sum[k] \in Nat /\ sum[k] <= k * b}
<1>7. 0 \in T
  <2>1. sum[0] = 0
    BY <1>1, <1>6
  <2> QED BY <2>1
<1>8. ASSUME NEW k \in T PROVE k + 1 \in T
  <2>1. SUFFICES ASSUME k + 1 <= n
                 PROVE  sum[k + 1] \in Nat /\ sum[k + 1] <= (k + 1) * b
    OBVIOUS
  <2>2. sum[k] \in Nat /\ sum[k] <= k * b
    BY <1>1, <2>1
  <2>3. k + 1 \in 1..n /\ k + 1 \in 0..n /\ k + 1 # 0 /\ (k + 1) - 1 = k
    BY <1>1, <2>1
  <2>4. sum[k + 1] = sum[k] + numbers[k + 1]
    BY <1>6, <2>3
  <2>5. numbers[k + 1] \in Nat /\ numbers[k + 1] <= b
    BY <1>1, <2>3 DEF n
  <2>6. (k + 1) * b = k * b + b /\ k * b \in Nat
    OBVIOUS
  <2> QED BY <2>2, <2>4, <2>5, <2>6
<1>9. T \in SUBSET Nat
  OBVIOUS
<1>10. n \in T => sum[n] \in Nat /\ sum[n] <= n * b
  BY <1>1
<1> HIDE DEF T
<1>11. T = Nat
  BY <1>7, <1>8, <1>9, Induct
<1> QED BY <1>1, <1>2, <1>10, <1>11 DEF n

\* p takes from seq, at the positions src, no text twice and at most limit; what it
\* leaves has its text among them, or there are limit of them, and weighs no more.
TakesBest(p, seq, w, limit, src) ==
  /\ Len(p) <= limit
  /\ \A k, l \in DOMAIN p : k # l => p[k].key = Blank \/ p[k].key # p[l].key
  /\ src \in [DOMAIN p -> 1..Len(seq)]
  /\ \A k \in DOMAIN p : p[k] = seq[src[k]]
  /\ \A j \in 1..Len(seq) :
       \/ \E k \in DOMAIN p : src[k] = j
       \/ \E k \in DOMAIN p : /\ p[k].key = seq[j].key /\ p[k].key # Blank
                              /\ w[src[k]] >= w[j]
       \/ Len(p) = limit /\ \A k \in DOMAIN p : w[src[k]] >= w[j]

\* FirstDistinct of a ranked list leaves out a text only for an equal or a better one.
LEMMA BestDistinctSeq ==
  ASSUME NEW T, NEW seq \in Seq(T), NEW w, \A i \in 1..Len(seq) : w[i] \in Int,
         NEW limit \in Nat
  PROVE  /\ FirstDistinct(Ranked(seq, w), limit) \in Seq(T)
         /\ \E src : TakesBest(FirstDistinct(Ranked(seq, w), limit), seq, w, limit, src)
<1> DEFINE n == Len(seq)
           r == Ranked(seq, w)
           p == FirstDistinct(r, limit)
<1>1. PICK o : r \in Seq(T) /\ RanksBy(r, seq, w, o)
  BY RankedSeq
<1>2. n \in Nat /\ DOMAIN seq = 1..n /\ DOMAIN r = 1..n
  BY <1>1 DEF RanksBy
<1> HIDE DEF r
<1>3. p \in Seq(T) /\ \E pos : TakesDistinct(p, r, limit, pos)
  BY <1>1, FirstDistinctSeq
<1>4. PICK pos : TakesDistinct(p, r, limit, pos)
  BY <1>3
<1> HIDE DEF n, p
<1> DEFINE src == [k \in DOMAIN p |-> o[pos[k]]]
<1>5. ASSUME NEW k \in DOMAIN p
      PROVE  /\ pos[k] \in 1..n /\ src[k] = o[pos[k]] /\ src[k] \in 1..n
             /\ p[k] = r[pos[k]] /\ p[k] = seq[src[k]]
  <2>1. pos[k] \in 1..n /\ p[k] = r[pos[k]]
    BY <1>2, <1>4 DEF TakesDistinct
  <2>2. o[pos[k]] \in 1..n /\ r[pos[k]] = seq[o[pos[k]]]
    BY <2>1, <1>1 DEF RanksBy, n
  <2> QED BY <2>1, <2>2
<1>6. ASSUME NEW k \in DOMAIN p, NEW i \in 1..n, pos[k] <= i PROVE w[src[k]] >= w[o[i]]
  BY <1>1, <1>5, <1>6, RanksFall DEF n
<1>7. ASSUME NEW j \in 1..n
      PROVE  \/ \E k \in DOMAIN p : src[k] = j
             \/ \E k \in DOMAIN p : /\ p[k].key = seq[j].key /\ p[k].key # Blank
                                    /\ w[src[k]] >= w[j]
             \/ Len(p) = limit /\ \A k \in DOMAIN p : w[src[k]] >= w[j]
  <2>1. PICK i \in 1..n : o[i] = j /\ r[i] = seq[j]
    BY <1>1 DEF RanksBy, n
  <2>2. CASE \E k \in DOMAIN p :
               /\ pos[k] <= i
               /\ pos[k] = i \/ (p[k].key = r[i].key /\ p[k].key # Blank)
    <3>1. PICK k \in DOMAIN p :
               /\ pos[k] <= i
               /\ pos[k] = i \/ (p[k].key = r[i].key /\ p[k].key # Blank)
      BY <2>2
    <3> QED BY <3>1, <2>1, <1>5, <1>6
  <2>3. CASE Len(p) = limit /\ \A k \in DOMAIN p : pos[k] < i
    <3>1. ASSUME NEW k \in DOMAIN p PROVE w[src[k]] >= w[j]
      <4>1. pos[k] <= i
        BY <1>2, <1>5, <2>3
      <4> QED BY <4>1, <2>1, <1>6
    <3> QED BY <3>1, <2>3
  <2> QED BY <2>2, <2>3, <1>2, <1>4 DEF TakesDistinct
<1>8. src \in [DOMAIN p -> 1..n]
  BY <1>5
<1>9. TakesBest(p, seq, w, limit, src)
  <2>1. /\ Len(p) <= limit
        /\ \A k, l \in DOMAIN p : k # l => p[k].key = Blank \/ p[k].key # p[l].key
    BY <1>4 DEF TakesDistinct
  <2>2. \A k \in DOMAIN p : p[k] = seq[src[k]]
    BY <1>5
  <2> HIDE DEF src
  <2> QED BY <2>1, <2>2, <1>7, <1>8 DEF TakesBest, n
<1> QED BY <1>3, <1>9 DEF p, r
=============================================================================
