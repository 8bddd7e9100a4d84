------------------------ MODULE RuleRetrievalProofs ------------------------
(***************************************************************************)
(* What a rule search returns, for every collection, all settings and      *)
(* every failure of a search. First each list operator is given its        *)
(* meaning: merging (Merges), boosting and dropping duplicates (Presents), *)
(* cutting and validating (Passes), the two searches (IsNearest). Then the *)
(* invariant relates the lists to the points, the results to the lists     *)
(* and, while no search has failed, the wider filters to the empty outcome *)
(* of the narrowest.                                                       *)
(***************************************************************************)
EXTENDS RuleRetrieval, RankingProofs

\* Hits on points of T.
HitsOn(T) == [point : T, score : Scores]

\* No text is in the list twice.
DistinctKeys(hits) ==
  \A i, j \in 1..Len(hits) : i # j => hits[i].point.key # hits[j].point.key
\* No point is in the list twice.
DistinctIds(hits) ==
  \A i, j \in 1..Len(hits) : i # j => hits[i].point.id # hits[j].point.id
\* The list is best first.
Falling(hits) == \A i, j \in 1..Len(hits) : i < j => hits[i].score >= hits[j].score

\* The hits of a search for which the model works or is not used.
Result(vectorHits, wordHits) ==
  Validate(AtMost(conf.top, Prioritize(Merge(vectorHits, wordHits))))
\* What the search by words finds with the filter n, if it is asked.
WordsOf(n) == IF conf.hybrid THEN BestByWords(n) ELSE <<>>
\* What both searches come to with the filter n when they work.
Outcome(n) == Result(Nearest(n), WordsOf(n))

\* The results are few, distinct and best first.
FoundInv ==
  /\ found \in Seq(HitsOn(ToSet(points)))
  /\ Len(found) <= conf.top /\ DistinctKeys(found) /\ Falling(found)

\* The lists hold points of the collection, each once; a near one with its cosine.
HitsInv ==
  /\ byVector \in Seq(HitsOn(ToSet(points))) /\ DistinctIds(byVector)
  /\ \A i \in 1..Len(byVector) : byVector[i].score = 100 * byVector[i].point.vector
  /\ byWords \in Seq(HitsOn(ToSet(points))) /\ DistinctIds(byWords)

\* The last results are those of the lists, and were only left empty at the widest
\* filter.
SearchInv ==
  /\ step = "done" /\ ~reranked => found = Result(byVector, byWords)
  /\ step = "done" => found # <<>> \/ level = Widest
  /\ reranked => conf.reranking

\* While no search has failed, the lists are those of the level, and it is used
\* because the narrower ones left nothing.
Untroubled == swallowed = {} /\ ~conf.reranking /\ step # "raised"

LevelInv ==
  /\ step = "words" => conf.hybrid
  /\ Untroubled /\ step \in {"words", "rank", "done"} => byVector = Nearest(level)
  /\ Untroubled /\ step \in {"rank", "done"} => byWords = WordsOf(level)
  /\ Untroubled => \A n \in 1..2 : level > n => Outcome(n) = <<>>

\* The inductive invariant.
IInv ==
  /\ points \in Collections /\ conf \in Settings
  /\ step \in {"vector", "words", "rank", "done", "raised"} /\ level \in 1..3
  /\ swallowed \subseteq {"vector", "words"} /\ reranked \in BOOLEAN
  /\ FoundInv /\ HitsInv /\ SearchInv /\ LevelInv

-----------------------------------------------------------------------------
\* r is hits in the order o.
Permutes(r, hits, o) ==
  /\ Len(r) = Len(hits) /\ o \in [1..Len(hits) -> 1..Len(hits)]
  /\ \A k \in 1..Len(hits) : r[k] = hits[o[k]]
  /\ \A i \in 1..Len(hits) : \E k \in 1..Len(hits) : o[k] = i
  /\ \A k, l \in 1..Len(hits) : k # l => o[k] # o[l]

\* A hit is on a point and has a score in its range.
LEMMA HitSound ==
  ASSUME NEW T, NEW h \in HitsOn(T)
  PROVE  h.point \in T /\ h.score \in Nat /\ h.score <= 10000 /\ h.score \in Int
<1>1. h.point \in T /\ h.score \in Scores
  BY DEF HitsOn
<1>2. PICK x \in Scores : h.score = x
  BY <1>1
<1>3. x \in Int /\ x \in Nat /\ x <= 10000
  BY DEF Scores
<1> QED BY <1>1, <1>2, <1>3

\* The parts of a hit.
LEMMA HitIs ==
  ASSUME NEW p, NEW n
  PROVE  Hit(p, n).point = p /\ Hit(p, n).score = n
BY DEF Hit

\* A point with a score in range is a hit.
LEMMA HitMade ==
  ASSUME NEW T, NEW p \in T, NEW n \in Nat, n <= 10000
  PROVE  Hit(p, n) \in HitsOn(T)
<1>1. n \in Scores
  BY SMTT(30) DEF Scores
<1> QED BY <1>1 DEF Hit, HitsOn

\* Sorting hits by score loses none of them.
LEMMA ScoredSound ==
  ASSUME NEW T, NEW hits \in Seq(HitsOn(T))
  PROVE  /\ Scored(hits) \in Seq(HitsOn(T)) /\ Falling(Scored(hits))
         /\ \E o : Permutes(Scored(hits), hits, o)
<1> DEFINE w == [i \in DOMAIN hits |-> hits[i].score]
           n == Len(hits)
           r == Scored(hits)
<1>1. n \in Nat /\ DOMAIN hits = 1..n
  OBVIOUS
<1>2. \A i \in 1..n : w[i] = hits[i].score /\ w[i] \in Int
  <2>1. \A i \in 1..n : hits[i] \in HitsOn(T)
    OBVIOUS
  <2>2. \A i \in 1..n : hits[i].score \in Int
    BY <2>1, HitSound
  <2> QED BY <1>1, <2>2
<1>3. r = Ranked(hits, w)
  BY DEF Scored
<1> HIDE DEF w, r
<1>4. r \in Seq(HitsOn(T)) /\ \E o : RanksBy(r, hits, w, o)
  BY <1>2, <1>3, RankedSeq
<1>5. PICK o : RanksBy(r, hits, w, o)
  BY <1>4
<1>6. Falling(r)
  <2>1. \A k \in 1..n : r[k].score = w[o[k]]
    BY <1>2, <1>5 DEF RanksBy
  <2> QED BY <2>1, <1>5 DEF RanksBy, Falling
<1>7. Permutes(r, hits, o)
  <2>1. ASSUME NEW k \in 1..n, NEW l \in 1..n, k # l PROVE o[k] # o[l]
    <3>1. k < l \/ l < k
      BY <1>1, <2>1
    <3> QED BY <3>1, <1>5 DEF RanksBy
  <2> QED BY <1>5, <2>1 DEF RanksBy, Permutes
<1> QED BY <1>4, <1>6, <1>7 DEF r

\* Sorting makes no duplicates.
LEMMA PermutedKeys ==
  ASSUME NEW r, NEW hits, NEW o, Permutes(r, hits, o), DistinctKeys(hits)
  PROVE  DistinctKeys(r)
<1> SUFFICES ASSUME NEW k \in 1..Len(hits), NEW l \in 1..Len(hits), k # l
             PROVE  r[k].point.key # r[l].point.key
  BY DEF Permutes, DistinctKeys
<1>1. o[k] \in 1..Len(hits) /\ o[l] \in 1..Len(hits) /\ o[k] # o[l]
  BY DEF Permutes
<1>2. r[k] = hits[o[k]] /\ r[l] = hits[o[l]]
  BY DEF Permutes
<1>3. hits[o[k]].point.key # hits[o[l]].point.key
  BY <1>1 DEF DistinctKeys
<1> QED BY <1>2, <1>3

\* d holds each text of hits once, with the best of its scores.
BestOfEach(d, hits) ==
  /\ DistinctKeys(d)
  /\ \A k \in 1..Len(d) : \E i \in 1..Len(hits) : d[k] = hits[i]
  /\ \A i \in 1..Len(hits) : \E k \in 1..Len(d) :
       d[k].point.key = hits[i].point.key /\ d[k].score >= hits[i].score

\* DropDuplicates keeps of each text the best hit, once.
LEMMA DropDuplicatesSound ==
  ASSUME NEW T, NEW hits \in Seq(HitsOn(T))
  PROVE  DropDuplicates(hits) \in Seq(HitsOn(T)) /\ BestOfEach(DropDuplicates(hits), hits)
<1> DEFINE n == Len(hits)
           keys == [i \in DOMAIN hits |-> hits[i].point.key]
           Same(i) == {j \in DOMAIN hits : hits[j].point.key = hits[i].point.key}
           w(i) == [j \in Same(i) |-> hits[j].score]
           top(i) == Order(Same(i), w(i))[1]
           best == [i \in DOMAIN hits |-> hits[top(i)]]
           first == FirstOfKey(keys)
           d == DropDuplicates(hits)
<1>1. n \in Nat /\ DOMAIN hits = 1..n /\ DOMAIN keys = 1..n
  OBVIOUS
<1>2. ASSUME NEW i \in 1..n PROVE hits[i].score \in Int
  <2>1. hits[i] \in HitsOn(T)
    OBVIOUS
  <2> QED BY <2>1, HitSound
<1>3. ASSUME NEW i \in 1..n
      PROVE  top(i) \in Same(i) /\ \A j \in Same(i) : hits[top(i)].score >= hits[j].score
  <2> DEFINE S == Same(i)
             v == w(i)
             o == Order(S, v)
  <2>1. S \in SUBSET (1..n) /\ S \in SUBSET Nat /\ i \in S
    BY <1>1
  <2>2. \A j \in S : v[j] = hits[j].score /\ v[j] \in Int
    BY <1>1, <1>2
  <2>3. top(i) = o[1]
    OBVIOUS
  <2> HIDE DEF S, v, o, top
  <2>4. IsFiniteSet(S)
    BY <1>1, <2>1, UptoFinite, FS_Subset
  <2>5. /\ Cardinality(S) \in Nat /\ Lists(o, S)
        /\ \A k, l \in 1..Cardinality(S) : k < l =>
             \/ v[o[k]] > v[o[l]]
             \/ v[o[k]] = v[o[l]] /\ o[k] < o[l]
    BY <2>1, <2>2, <2>4, OrderLists DEF o
  <2>6. ASSUME NEW j \in S PROVE o[1] \in S /\ v[o[1]] >= v[j]
    <3>1. PICK k \in 1..Cardinality(S) : o[k] = j
      BY <2>5 DEF Lists
    <3>2. 1 \in 1..Cardinality(S) /\ 1 <= k
      BY <2>5
    <3>3. o[1] \in S
      BY <2>5, <3>2 DEF Lists
    <3>4. CASE k = 1
      BY <2>2, <3>1, <3>3, <3>4
    <3>5. CASE 1 < k
      BY <2>2, <2>5, <3>1, <3>2, <3>3, <3>5
    <3> QED BY <3>2, <3>3, <3>4, <3>5
  <2>7. o[1] \in S /\ \A j \in S : v[o[1]] >= v[j]
    BY <2>1, <2>6
  <2>8. \A j \in S : hits[o[1]].score >= hits[j].score
    BY <2>2, <2>7
  <2> QED BY <2>3, <2>7, <2>8 DEF S
<1>4. /\ \A i \in 1..n : top(i) \in 1..n /\ hits[top(i)].point.key = hits[i].point.key
      /\ \A i, j \in 1..n : hits[j].point.key = hits[i].point.key =>
           hits[top(i)].score >= hits[j].score
  BY <1>1, <1>3
<1>5. d = Picked(best, first)
  BY DEF DropDuplicates, Texts
<1>6. /\ DOMAIN best = 1..n /\ \A i \in 1..n : best[i] = hits[top(i)]
      /\ \A i \in 1..n : keys[i] = hits[i].point.key
  BY <1>1
<1> HIDE DEF top, best, keys, d
<1>7. best \in Seq(HitsOn(T)) /\ Len(best) = n
  <2>1. \A i \in 1..n : best[i] \in HitsOn(T)
    BY <1>4, <1>6
  <2>2. best \in [1..n -> HitsOn(T)]
    <3>1. best = [i \in 1..n |-> best[i]]
      BY <1>1 DEF best
    <3> QED BY <2>1, <3>1
  <2> QED BY <1>1, <2>2, SeqDef
<1>8. first \in SUBSET DOMAIN best
  BY <1>1, <1>6 DEF FirstOfKey
<1>9. d \in Seq(HitsOn(T)) /\ \E o : PicksBy(d, best, first, o)
  BY <1>5, <1>7, <1>8, PickedBy
<1> DEFINE m == Len(d)
<1>a. PICK o : PicksBy(d, best, first, o)
  BY <1>9
<1>b. d \in Seq(HitsOn(T)) /\ m \in Nat
  BY <1>9
<1>c. /\ o \in [1..m -> first]
      /\ \A k \in 1..m : d[k] = best[o[k]]
      /\ \A i \in first : \E k \in 1..m : o[k] = i
      /\ \A k, l \in 1..m : k < l => o[k] < o[l]
  BY <1>a DEF PicksBy
<1>10. /\ o \in [1..m -> first]
       /\ d \in Seq(HitsOn(T)) /\ m \in Nat
       /\ \A k \in 1..m : d[k] = best[o[k]]
       /\ \A i \in first : \E k \in 1..m : o[k] = i
       /\ \A k, l \in 1..m : k < l => o[k] < o[l]
  BY <1>b, <1>c
<1> HIDE DEF m
<1>11. ASSUME NEW k \in 1..m
       PROVE  /\ o[k] \in first /\ o[k] \in 1..n /\ top(o[k]) \in 1..n
              /\ d[k] = hits[top(o[k])] /\ d[k].point.key = keys[o[k]]
  BY <1>4, <1>6, <1>8, <1>10
<1>12. ASSUME NEW k \in 1..m, NEW l \in 1..m, k < l PROVE d[k].point.key # d[l].point.key
  <2>1. o[k] < o[l] /\ o[k] \in 1..n /\ o[l] \in 1..n /\ o[l] \in first
    BY <1>10, <1>11, <1>12
  <2>2. o[k] \in 1..(o[l] - 1)
    BY <1>1, <2>1
  <2>3. keys[o[k]] # keys[o[l]]
    BY <2>1, <2>2 DEF FirstOfKey
  <2> QED BY <1>11, <2>3
<1>13. DistinctKeys(d)
  <2>1. ASSUME NEW k \in 1..m, NEW l \in 1..m, k # l PROVE d[k].point.key # d[l].point.key
    <3>1. k < l \/ l < k
      BY <1>10, <2>1
    <3> QED BY <1>12, <3>1
  <2> QED BY <2>1 DEF DistinctKeys, m
<1>14. ASSUME NEW i \in 1..n
       PROVE  \E k \in 1..m : d[k].point.key = hits[i].point.key /\ d[k].score >= hits[i].score
  <2>1. PICK j \in first : j \in 1..n /\ keys[j] = keys[i]
    <3>1. \E j \in FirstOfKey(keys) : j \in 1..n /\ j <= i /\ keys[j] = keys[i]
      <4> HIDE DEF n
      <4> QED BY <1>1, FirstOfKeyStands
    <3> QED BY <3>1
  <2>2. PICK k \in 1..m : o[k] = j
    BY <1>10
  <2>3. d[k] = hits[top(j)] /\ d[k].point.key = hits[i].point.key
    BY <1>6, <1>11, <2>1, <2>2
  <2>4. hits[top(j)].score >= hits[i].score
    BY <1>4, <1>6, <2>1
  <2> QED BY <2>3, <2>4
<1> QED BY <1>10, <1>11, <1>13, <1>14 DEF BestOfEach, m, d

\* Clamp cuts a natural number at one.
LEMMA ClampIs ==
  ASSUME NEW t \in Nat
  PROVE  Clamp(t) \in Nat /\ Clamp(t) <= 10000 /\ Clamp(t) = NoMoreThan(10000, t)
BY DEF Clamp, AtLeast, NoMoreThan

\* A score with two rises.
Lifted(x, a, b) == Clamp(Clamp(x + a) + b)

\* Two rises with a cut after each are one rise with a cut.
LEMMA LiftedOnce ==
  ASSUME NEW x \in Nat, x <= 10000, NEW a \in Nat, NEW b \in Nat
  PROVE  /\ Lifted(x, a, b) \in Nat /\ Lifted(x, a, b) <= 10000 /\ Lifted(x, a, b) >= x
         /\ Lifted(x, a, b) = NoMoreThan(10000, x + a + b)
<1>1. PICK y : y = Clamp(x + a)
  OBVIOUS
<1>2. y \in Nat /\ y <= 10000 /\ y = NoMoreThan(10000, x + a)
  BY <1>1, ClampIs
<1>3. PICK z : z = Clamp(y + b)
  OBVIOUS
<1>4. z \in Nat /\ z <= 10000 /\ z = NoMoreThan(10000, y + b)
  BY <1>2, <1>3, ClampIs
<1>5. z = NoMoreThan(10000, x + a + b)
  BY <1>2, <1>4 DEF NoMoreThan
<1>6. z = Lifted(x, a, b)
  BY <1>1, <1>3 DEF Lifted
<1>7. z >= x
  BY <1>2, <1>4 DEF NoMoreThan
<1> QED BY <1>4, <1>5, <1>6, <1>7

\* A boosted hit is on its point and scores no less.
LEMMA BoostedSound ==
  ASSUME NEW T, NEW h \in HitsOn(T)
  PROVE  /\ Boosted(h) \in HitsOn(T) /\ Boosted(h).point = h.point
         /\ Boosted(h).score >= h.score
         /\ Boosted(h).score
              = NoMoreThan(10000, h.score + (IF h.point.own /\ conf.domain THEN 800 ELSE 0)
                                          + (IF h.point.rule THEN 200 ELSE 0))
<1>1. h.point \in T /\ h.score \in Nat /\ h.score <= 10000
  BY HitSound
<1> DEFINE x == h.score
           a == IF h.point.own /\ conf.domain THEN 800 ELSE 0
           b == IF h.point.rule THEN 200 ELSE 0
           z == Lifted(x, a, b)
<1>2. a \in Nat /\ b \in Nat
  OBVIOUS
<1>4. Boosted(h) = Hit(h.point, z)
  BY DEF Boosted, Hit, Lifted
<1>3. x \in Nat /\ x <= 10000
  BY <1>1
<1> HIDE DEF x, a, b
<1>5. /\ z \in Nat /\ z <= 10000 /\ z >= x /\ z = NoMoreThan(10000, x + a + b)
  BY <1>2, <1>3, LiftedOnce
<1> HIDE DEF z
<1>6. Boosted(h) \in HitsOn(T)
  BY <1>1, <1>4, <1>5, HitMade
<1>7. Boosted(h).point = h.point /\ Boosted(h).score = z
  BY <1>4 DEF Hit
<1> QED BY <1>5, <1>6, <1>7 DEF x, a, b

\* s is what _prioritize_results makes of the merged hits m.
Presents(s, m) ==
  /\ DistinctKeys(s) /\ Falling(s)
  /\ \A k \in 1..Len(s) : \E i \in 1..Len(m) : s[k] = Boosted(m[i])
  /\ \A i \in 1..Len(m) : \E k \in 1..Len(s) :
       s[k].point.key = m[i].point.key /\ s[k].score >= Boosted(m[i]).score

\* _prioritize_results loses no text and no score.
LEMMA PrioritizeSound ==
  ASSUME NEW T, NEW m \in Seq(HitsOn(T))
  PROVE  Prioritize(m) \in Seq(HitsOn(T)) /\ Presents(Prioritize(m), m)
<1> DEFINE n == Len(m)
           b == [i \in DOMAIN m |-> Boosted(m[i])]
           d == DropDuplicates(b)
           s == Scored(d)
<1>1. n \in Nat /\ DOMAIN m = 1..n /\ \A i \in 1..n : m[i] \in HitsOn(T)
  OBVIOUS
<1>2. \A i \in 1..n : Boosted(m[i]) \in HitsOn(T) /\ Boosted(m[i]).point = m[i].point
  BY <1>1, BoostedSound
<1>3. /\ b \in Seq(HitsOn(T)) /\ Len(b) = n
      /\ \A i \in 1..n : b[i] = Boosted(m[i]) /\ b[i].point = m[i].point
  <2>1. b \in [1..n -> HitsOn(T)]
    BY <1>1, <1>2
  <2> QED BY <1>1, <1>2, <2>1, SeqDef
<1> HIDE DEF b
<1>4. d \in Seq(HitsOn(T)) /\ BestOfEach(d, b)
  BY <1>3, DropDuplicatesSound
<1> HIDE DEF d
<1>5. s \in Seq(HitsOn(T)) /\ Falling(s) /\ \E o : Permutes(s, d, o)
  BY <1>4, ScoredSound
<1>6. PICK o : Permutes(s, d, o)
  BY <1>5
<1>7. Prioritize(m) = s
  BY DEF Prioritize, b, d
<1> HIDE DEF s, n
<1>8. DistinctKeys(s)
  BY <1>4, <1>6, PermutedKeys DEF BestOfEach
<1>9. ASSUME NEW k \in 1..Len(s) PROVE \E i \in 1..n : s[k] = Boosted(m[i])
  <2>1. o[k] \in 1..Len(d) /\ s[k] = d[o[k]]
    BY <1>6 DEF Permutes
  <2> QED BY <1>3, <1>4, <2>1 DEF BestOfEach
<1>10. ASSUME NEW i \in 1..n
       PROVE  \E k \in 1..Len(s) :
                s[k].point.key = m[i].point.key /\ s[k].score >= Boosted(m[i]).score
  <2>1. PICK l \in 1..Len(d) : d[l].point.key = b[i].point.key /\ d[l].score >= b[i].score
    BY <1>3, <1>4 DEF BestOfEach
  <2>2. PICK k \in 1..Len(s) : s[k] = d[l]
    BY <1>6 DEF Permutes
  <2> QED BY <1>3, <2>1, <2>2
<1> QED BY <1>5, <1>7, <1>8, <1>9, <1>10 DEF Presents, n

\* Reranked hits are the same hits, best first.
LEMMA RerankSound ==
  ASSUME NEW T, \A p \in T : p.rank \in 0..100, NEW s \in Seq(HitsOn(T)), DistinctKeys(s)
  PROVE  Rerank(s) \in Seq(HitsOn(T)) /\ DistinctKeys(Rerank(s)) /\ Falling(Rerank(s))
<1> DEFINE n == Len(s)
           a == [i \in DOMAIN s |-> Hit(s[i].point, 100 * s[i].point.rank)]
           r == Scored(a)
<1>1. n \in Nat /\ DOMAIN s = 1..n /\ \A i \in 1..n : s[i] \in HitsOn(T)
  OBVIOUS
<1>2. ASSUME NEW i \in 1..n PROVE Hit(s[i].point, 100 * s[i].point.rank) \in HitsOn(T)
  <2>1. s[i].point \in T
    BY <1>1, HitSound
  <2>2. PICK x \in 0..100 : s[i].point.rank = x
    BY <2>1
  <2>3. 100 * x \in Nat /\ 100 * x <= 10000
    OBVIOUS
  <2> QED BY <2>1, <2>2, <2>3, HitMade
<1>3. /\ a \in Seq(HitsOn(T)) /\ Len(a) = n
      /\ \A i \in 1..n : a[i].point = s[i].point
  <2>1. a \in [1..n -> HitsOn(T)]
    BY <1>1, <1>2
  <2> QED BY <1>1, <2>1, SeqDef DEF Hit
<1>4. DistinctKeys(a)
  <2> HIDE DEF a, n
  <2> SUFFICES ASSUME NEW i \in 1..n, NEW j \in 1..n, i # j
               PROVE  a[i].point.key # a[j].point.key
    BY <1>3 DEF DistinctKeys
  <2>1. s[i].point.key # s[j].point.key
    BY DEF DistinctKeys, n
  <2> QED BY <1>3, <2>1
<1>5. Rerank(s) = r
  BY DEF Rerank
<1> HIDE DEF a
<1>6. r \in Seq(HitsOn(T)) /\ Falling(r) /\ \E o : Permutes(r, a, o)
  BY <1>3, ScoredSound
<1> QED BY <1>4, <1>5, <1>6, PermutedKeys

\* f is what is left of s after the cut and the validation.
Passes(f, s) ==
  /\ Len(f) <= conf.top /\ DistinctKeys(f) /\ Falling(f)
  /\ \A i \in 1..Len(f) : \E k \in 1..Len(s) : f[i] = s[k]
  /\ \A k \in 1..Len(s) :
       k <= conf.top /\ (conf.validation => s[k].point.long /\ s[k].score >= Threshold)
         => \E i \in 1..Len(f) : f[i] = s[k]

\* The cut and the validation keep the first hits that are long and good enough.
LEMMA ValidateSound ==
  ASSUME NEW T, NEW s \in Seq(HitsOn(T)), DistinctKeys(s), Falling(s), conf.top \in Nat
  PROVE  /\ Validate(AtMost(conf.top, s)) \in Seq(HitsOn(T))
         /\ Passes(Validate(AtMost(conf.top, s)), s)
<1> DEFINE c == AtMost(conf.top, s)
           n == NoMoreThan(conf.top, Len(s))
           S == {i \in DOMAIN c : c[i].point.long /\ c[i].score >= Threshold}
<1>1. c \in Seq(HitsOn(T)) /\ Len(c) = n /\ \A k \in 1..n : c[k] = s[k]
  BY AtMostSeq
<1>2. /\ n \in Nat /\ n <= conf.top /\ n <= Len(s) /\ Len(s) \in Nat
      /\ \A k \in 1..Len(s) : k <= conf.top => k \in 1..n
      /\ \A k \in 1..n : k \in 1..Len(s)
  BY DEF NoMoreThan
<1> HIDE DEF c, n
<1>3. DistinctKeys(c)
  BY <1>1, <1>2 DEF DistinctKeys
<1>4. Falling(c)
  BY <1>1, <1>2 DEF Falling
<1>5. CASE ~conf.validation
  <2>1. Validate(c) = c
    BY <1>5 DEF Validate
  <2> QED BY <1>1, <1>2, <1>3, <1>4, <1>5, <2>1 DEF Passes, c
<1>6. CASE conf.validation
  <2> DEFINE f == Picked(c, S)
             m == Len(f)
  <2>1. Validate(c) = f
    BY <1>6 DEF Validate
  <2>2. S \in SUBSET DOMAIN c /\ \A k \in S : k \in 1..n
    BY <1>1
  <2>3. \A k \in 1..n : s[k].point.long /\ s[k].score >= Threshold => k \in S
    BY <1>1
  <2> HIDE DEF S
  <2>4. f \in Seq(HitsOn(T)) /\ m <= Len(c) /\ \E o : PicksBy(f, c, S, o)
    BY <1>1, <2>2, PickedBy
  <2>11. m \in Nat /\ m <= n
    BY <1>1, <2>4
  <2>12. PICK o : PicksBy(f, c, S, o)
    BY <2>4
  <2>5. /\ o \in [1..m -> S] /\ f \in Seq(HitsOn(T)) /\ m \in Nat /\ m <= n
        /\ \A k \in 1..m : f[k] = c[o[k]]
        /\ \A i \in S : \E k \in 1..m : o[k] = i
        /\ \A k, l \in 1..m : k < l => o[k] < o[l]
    BY <2>4, <2>11, <2>12 DEF PicksBy
  <2> HIDE DEF f, m
  <2>6. \A k \in 1..m : o[k] \in 1..n /\ o[k] \in 1..Len(s) /\ f[k] = c[o[k]] /\ f[k] = s[o[k]]
    BY <1>1, <1>2, <2>2, <2>5
  <2>7. Falling(f)
    BY <1>1, <1>4, <2>5, <2>6 DEF Falling, m
  <2>8. DistinctKeys(f)
    <3>1. ASSUME NEW k \in 1..m, NEW l \in 1..m, k # l PROVE f[k].point.key # f[l].point.key
      <4>1. k < l \/ l < k
        BY <2>5, <3>1
      <4>2. o[k] # o[l]
        BY <1>2, <2>5, <2>6, <4>1
      <4> QED BY <1>1, <1>3, <2>6, <4>2 DEF DistinctKeys
    <3> QED BY <3>1 DEF DistinctKeys, m
  <2>9. ASSUME NEW k \in 1..Len(s), k <= conf.top, s[k].point.long, s[k].score >= Threshold
        PROVE  \E i \in 1..m : f[i] = s[k]
    <3>1. k \in S /\ k \in 1..n
      BY <1>2, <2>3, <2>9
    <3>2. PICK i \in 1..m : o[i] = k
      BY <2>5, <3>1
    <3> QED BY <2>6, <3>2
  <2>10. m <= conf.top
    <3>1. conf.top \in Int /\ n \in Int /\ m \in Int
      BY <1>2, <2>5
    <3> QED BY <1>2, <2>5, <3>1
  <2> QED BY <1>6, <2>1, <2>5, <2>6, <2>7, <2>8, <2>9, <2>10 DEF Passes, m, c
<1> QED BY <1>5, <1>6

\* The score of a point both searches found.
Mixed(c, w) == (65 * c + 35 * w) \div 100
\* The score of a point that only the words found.
Third(w) == (35 * w) \div 100

\* Mixed scores are in range.
LEMMA MixedScore ==
  ASSUME NEW c \in Nat, c <= 10000, NEW w \in Nat, w <= 10000
  PROVE  Mixed(c, w) \in Nat /\ Mixed(c, w) <= 10000
BY DEF Mixed

\* Scores of words alone are in range.
LEMMA ThirdScore ==
  ASSUME NEW w \in Nat, w <= 10000
  PROVE  Third(w) \in Nat /\ Third(w) <= 10000
BY DEF Third

\* A merged hit that the vector search found, and one that only the words found.
FromVector(h, vh, wh) ==
  \E i \in 1..Len(vh) :
    /\ h.point = vh[i].point
    /\ \/ /\ \A j \in 1..Len(wh) : wh[j].point.id # h.point.id
          /\ h.score = Clamp(vh[i].score)
       \/ \E j \in 1..Len(wh) : /\ wh[j].point.id = h.point.id
                                /\ h.score = Mixed(Clamp(vh[i].score), wh[j].score)

\* A merged hit that only the words found.
FromWords(h, vh, wh) ==
  \E j \in 1..Len(wh) :
    /\ h.point = wh[j].point
    /\ \A i \in 1..Len(vh) : vh[i].point.id # h.point.id
    /\ h.score = Third(wh[j].score)

\* m holds every point of either list, with its merged score.
Merges(m, vh, wh) ==
  /\ \A k \in 1..Len(m) : FromVector(m[k], vh, wh) \/ FromWords(m[k], vh, wh)
  /\ \A i \in 1..Len(vh) : \E k \in 1..Len(m) : m[k].point = vh[i].point
  /\ \A j \in 1..Len(wh) : \/ \E i \in 1..Len(vh) : vh[i].point.id = wh[j].point.id
                           \/ \E k \in 1..Len(m) : m[k].point = wh[j].point

\* c is a and then b.
IsJoined(c, a, b) ==
  /\ \A k \in 1..Len(c) : \/ \E i \in 1..Len(a) : c[k] = a[i]
                          \/ \E i \in 1..Len(b) : c[k] = b[i]
  /\ \A i \in 1..Len(a) : \E k \in 1..Len(c) : c[k] = a[i]
  /\ \A i \in 1..Len(b) : \E k \in 1..Len(c) : c[k] = b[i]

\* A list joined of two holds the elements of both.
LEMMA Joined ==
  ASSUME NEW T, NEW a \in Seq(T), NEW b \in Seq(T)
  PROVE  a \o b \in Seq(T) /\ IsJoined(a \o b, a, b)
<1> DEFINE c == a \o b
<1>1. c \in Seq(T) /\ Len(c) = Len(a) + Len(b) /\ Len(a) \in Nat /\ Len(b) \in Nat
  OBVIOUS
<1>2. \A k \in 1..Len(c) : c[k] = IF k <= Len(a) THEN a[k] ELSE b[k - Len(a)]
  OBVIOUS
<1> HIDE DEF c
<1>3. ASSUME NEW i \in 1..Len(b) PROVE \E k \in 1..Len(c) : c[k] = b[i]
  <2>1. Len(a) + i \in 1..Len(c) /\ ~(Len(a) + i <= Len(a)) /\ Len(a) + i - Len(a) = i
    BY <1>1
  <2>2. c[Len(a) + i] = b[i]
    BY <1>2, <2>1
  <2> QED BY <2>1, <2>2
<1>4. ASSUME NEW i \in 1..Len(a) PROVE \E k \in 1..Len(c) : c[k] = a[i]
  <2>1. i \in 1..Len(c) /\ c[i] = a[i]
    BY <1>1, <1>2
  <2> QED BY <2>1
<1>5. ASSUME NEW k \in 1..Len(c)
      PROVE  \/ \E i \in 1..Len(a) : c[k] = a[i]
             \/ \E i \in 1..Len(b) : c[k] = b[i]
  <2>1. k \in 1..Len(a) \/ (k - Len(a) \in 1..Len(b) /\ ~(k <= Len(a)))
    BY <1>1
  <2>2. CASE k \in 1..Len(a)
    BY <1>1, <1>2, <2>2
  <2>3. CASE k - Len(a) \in 1..Len(b) /\ ~(k <= Len(a))
    <3>1. c[k] = b[k - Len(a)]
      BY <1>2, <2>3
    <3> QED BY <2>3, <3>1
  <2> QED BY <2>1, <2>2, <2>3
<1> QED BY <1>1, <1>3, <1>4, <1>5 DEF IsJoined, c

\* The hits a merge makes have scores in range.
LEMMA MergedHit ==
  ASSUME NEW T, NEW h \in HitsOn(T), NEW g \in HitsOn(T)
  PROVE  /\ Hit(h.point, Clamp(h.score)) \in HitsOn(T)
         /\ Hit(h.point, Mixed(Clamp(h.score), g.score)) \in HitsOn(T)
         /\ Hit(h.point, Third(h.score)) \in HitsOn(T)
<1> DEFINE t == h.score
           u == g.score
           c == Clamp(t)
           x == Mixed(c, u)
           y == Third(t)
<1>1. h.point \in T /\ t \in Nat /\ t <= 10000 /\ u \in Nat /\ u <= 10000
  BY HitSound
<1> HIDE DEF t, u
<1>2. c \in Nat /\ c <= 10000
  BY <1>1, ClampIs
<1>3. y \in Nat /\ y <= 10000
  BY <1>1, ThirdScore
<1> HIDE DEF c, y
<1>4. x \in Nat /\ x <= 10000
  BY <1>1, <1>2, MixedScore
<1> HIDE DEF x
<1>5. {Hit(h.point, c), Hit(h.point, x), Hit(h.point, y)} \subseteq HitsOn(T)
  BY <1>1, <1>2, <1>3, <1>4, HitMade
<1> QED BY <1>5 DEF c, x, y, t, u

\* f has the elements of s at the positions in S.
Picks(f, s, S) ==
  /\ \A k \in 1..Len(f) : \E j \in S : f[k] = s[j]
  /\ \A j \in S : \E k \in 1..Len(f) : f[k] = s[j]

\* Picked holds what it picks.
LEMMA PickedAll ==
  ASSUME NEW T, NEW s \in Seq(T), NEW S \in SUBSET DOMAIN s
  PROVE  Picked(s, S) \in Seq(T) /\ Picks(Picked(s, S), s, S)
<1> DEFINE f == Picked(s, S)
<1>1. f \in Seq(T) /\ \E o : PicksBy(f, s, S, o)
  BY PickedBy
<1> HIDE DEF f
<1>2. PICK o : PicksBy(f, s, S, o)
  BY <1>1
<1>3. /\ o \in [1..Len(f) -> S]
      /\ \A k \in 1..Len(f) : f[k] = s[o[k]]
      /\ \A i \in S : \E k \in 1..Len(f) : o[k] = i
  BY <1>2 DEF PicksBy
<1>4. ASSUME NEW k \in 1..Len(f) PROVE \E j \in S : f[k] = s[j]
  BY <1>3
<1>5. ASSUME NEW j \in S PROVE \E k \in 1..Len(f) : f[k] = s[j]
  <2>1. PICK k \in 1..Len(f) : o[k] = j
    BY <1>3
  <2> QED BY <1>3, <2>1
<1> QED BY <1>1, <1>4, <1>5 DEF Picks, f

\* An order takes every element somewhere.
LEMMA PermutedAll ==
  ASSUME NEW r, NEW hits, NEW o, Permutes(r, hits, o)
  PROVE  /\ \A k \in 1..Len(r) : \E l \in 1..Len(hits) : r[k] = hits[l]
         /\ \A l \in 1..Len(hits) : \E k \in 1..Len(r) : r[k] = hits[l]
<1>1. /\ Len(r) = Len(hits) /\ o \in [1..Len(hits) -> 1..Len(hits)]
      /\ \A k \in 1..Len(hits) : r[k] = hits[o[k]]
      /\ \A i \in 1..Len(hits) : \E k \in 1..Len(hits) : o[k] = i
  BY DEF Permutes
<1>2. ASSUME NEW k \in 1..Len(r) PROVE \E l \in 1..Len(hits) : r[k] = hits[l]
  BY <1>1
<1>3. ASSUME NEW l \in 1..Len(hits) PROVE \E k \in 1..Len(r) : r[k] = hits[l]
  <2>1. PICK k \in 1..Len(hits) : o[k] = l
    BY <1>1
  <2> QED BY <1>1, <2>1
<1> QED BY <1>2, <1>3

\* _merge_results holds every point of either list with its merged score.
LEMMA MergeSound ==
  ASSUME NEW T, NEW vh \in Seq(HitsOn(T)), NEW wh \in Seq(HitsOn(T))
  PROVE  Merge(vh, wh) \in Seq(HitsOn(T)) /\ Merges(Merge(vh, wh), vh, wh)
<1> DEFINE Same(hits, p) == {i \in DOMAIN hits : hits[i].point.id = p.id}
           pick(h) == CHOOSE i \in Same(wh, h.point) : TRUE
           score(h) == IF Same(wh, h.point) = {} THEN Clamp(h.score)
                       ELSE Mixed(Clamp(h.score), wh[pick(h)].score)
           S == {i \in DOMAIN wh : Same(vh, wh[i].point) = {}}
           alone == Picked(wh, S)
           a == [i \in DOMAIN vh |-> Hit(vh[i].point, score(vh[i]))]
           b == [i \in DOMAIN alone |-> Hit(alone[i].point, Third(alone[i].score))]
           m == Scored(a \o b)
<1>1. Merge(vh, wh) = m
  BY DEF Merge, Mixed, Third
<1>2. /\ Len(vh) \in Nat /\ DOMAIN vh = 1..Len(vh) /\ \A i \in 1..Len(vh) : vh[i] \in HitsOn(T)
      /\ Len(wh) \in Nat /\ DOMAIN wh = 1..Len(wh) /\ \A j \in 1..Len(wh) : wh[j] \in HitsOn(T)
  OBVIOUS
<1>3. ASSUME NEW i \in 1..Len(vh)
      PROVE  /\ Hit(vh[i].point, score(vh[i])) \in HitsOn(T)
             /\ FromVector(Hit(vh[i].point, score(vh[i])), vh, wh)
  <2> DEFINE h == vh[i]
             x == Hit(h.point, score(h))
  <2>1. x.point = h.point /\ x.score = score(h) /\ h \in HitsOn(T)
    BY <1>2 DEF Hit
  <2>2. CASE Same(wh, h.point) = {}
    <3>1. score(h) = Clamp(h.score)
      BY <2>2
    <3>2. \A j \in 1..Len(wh) : wh[j].point.id # h.point.id
      BY <1>2, <2>2
    <3> HIDE DEF score, Same
    <3>3. x \in HitsOn(T)
      BY <2>1, <3>1, MergedHit
    <3> QED BY <2>1, <3>1, <3>2, <3>3 DEF FromVector
  <2>3. CASE Same(wh, h.point) # {}
    <3>1. score(h) = Mixed(Clamp(h.score), wh[pick(h)].score)
      BY <2>3
    <3>2. pick(h) \in 1..Len(wh) /\ wh[pick(h)].point.id = h.point.id
      BY <1>2, <2>3
    <3> HIDE DEF score, Same, pick
    <3>3. wh[pick(h)] \in HitsOn(T)
      BY <1>2, <3>2
    <3>4. x \in HitsOn(T)
      BY <2>1, <3>1, <3>3, MergedHit
    <3> QED BY <2>1, <3>1, <3>2, <3>4 DEF FromVector
  <2> QED BY <2>2, <2>3
<1>4. /\ a \in Seq(HitsOn(T)) /\ Len(a) = Len(vh)
      /\ \A i \in 1..Len(vh) : a[i] = Hit(vh[i].point, score(vh[i]))
  <2>1. a \in [1..Len(vh) -> HitsOn(T)]
    BY <1>2, <1>3
  <2> QED BY <1>2, <2>1, SeqDef
<1>5. \A j \in S : j \in 1..Len(wh) /\ \A i \in 1..Len(vh) : vh[i].point.id # wh[j].point.id
  BY <1>2
<1>6. \A j \in 1..Len(wh) : j \in S \/ \E i \in 1..Len(vh) : vh[i].point.id = wh[j].point.id
  BY <1>2
<1>7. S \in SUBSET DOMAIN wh
  OBVIOUS
<1> HIDE DEF S, a, score
<1>8. alone \in Seq(HitsOn(T)) /\ Picks(alone, wh, S)
  BY <1>7, PickedAll
<1> HIDE DEF alone
<1>9. /\ \A k \in 1..Len(alone) : \E j \in S : alone[k] = wh[j]
      /\ \A j \in S : \E k \in 1..Len(alone) : alone[k] = wh[j]
  BY <1>8 DEF Picks
<1>10. ASSUME NEW k \in 1..Len(alone)
       PROVE  /\ Hit(alone[k].point, Third(alone[k].score)) \in HitsOn(T)
              /\ FromWords(Hit(alone[k].point, Third(alone[k].score)), vh, wh)
  <2> DEFINE x == Hit(alone[k].point, Third(alone[k].score))
  <2>1. PICK j \in S : alone[k] = wh[j]
    BY <1>9
  <2>2. alone[k] \in HitsOn(T)
    BY <1>8
  <2>3. x \in HitsOn(T)
    BY <2>2, MergedHit
  <2>4. x.point = wh[j].point /\ x.score = Third(wh[j].score)
    BY <2>1 DEF Hit
  <2> QED BY <1>5, <2>3, <2>4 DEF FromWords
<1>11. /\ b \in Seq(HitsOn(T)) /\ Len(b) = Len(alone)
       /\ \A k \in 1..Len(alone) : b[k] = Hit(alone[k].point, Third(alone[k].score))
  <2>1. Len(alone) \in Nat /\ DOMAIN alone = 1..Len(alone)
    BY <1>8
  <2>2. b \in [1..Len(alone) -> HitsOn(T)]
    BY <1>10, <2>1
  <2> QED BY <2>1, <2>2, SeqDef
<1> HIDE DEF b
<1> DEFINE c == a \o b
<1>12. c \in Seq(HitsOn(T)) /\ IsJoined(c, a, b)
  BY <1>4, <1>11, Joined
<1> HIDE DEF c
<1>13. ASSUME NEW k \in 1..Len(c) PROVE FromVector(c[k], vh, wh) \/ FromWords(c[k], vh, wh)
  <2>1. CASE \E i \in 1..Len(a) : c[k] = a[i]
    BY <1>3, <1>4, <2>1
  <2>2. CASE \E i \in 1..Len(b) : c[k] = b[i]
    BY <1>10, <1>11, <2>2
  <2> QED BY <1>12, <2>1, <2>2 DEF IsJoined
<1>14. ASSUME NEW i \in 1..Len(vh) PROVE \E k \in 1..Len(c) : c[k].point = vh[i].point
  <2>1. PICK k \in 1..Len(c) : c[k] = a[i]
    BY <1>4, <1>12 DEF IsJoined
  <2>2. c[k] = Hit(vh[i].point, score(vh[i]))
    BY <1>4, <2>1
  <2>3. c[k].point = vh[i].point
    BY <2>2, HitIs
  <2> QED BY <2>3
<1>15. ASSUME NEW j \in S PROVE \E k \in 1..Len(c) : c[k].point = wh[j].point
  <2>1. PICK l \in 1..Len(alone) : alone[l] = wh[j]
    BY <1>9
  <2>2. PICK k \in 1..Len(c) : c[k] = b[l]
    BY <1>11, <1>12 DEF IsJoined
  <2>3. c[k] = Hit(wh[j].point, Third(wh[j].score))
    BY <1>11, <2>1, <2>2
  <2>4. c[k].point = wh[j].point
    BY <2>3, HitIs
  <2> QED BY <2>4
<1>16. m = Scored(c)
  BY DEF c
<1> HIDE DEF m
<1>17. m \in Seq(HitsOn(T)) /\ \E o : Permutes(m, c, o)
  BY <1>12, <1>16, ScoredSound
<1>18. PICK o : Permutes(m, c, o)
  BY <1>17
<1>19. /\ \A k \in 1..Len(m) : \E l \in 1..Len(c) : m[k] = c[l]
       /\ \A l \in 1..Len(c) : \E k \in 1..Len(m) : m[k] = c[l]
  BY <1>18, PermutedAll
<1>20. Merges(m, vh, wh)
  <2>1. \A k \in 1..Len(m) : FromVector(m[k], vh, wh) \/ FromWords(m[k], vh, wh)
    BY <1>13, <1>19
  <2>2. ASSUME NEW i \in 1..Len(vh) PROVE \E k \in 1..Len(m) : m[k].point = vh[i].point
    <3>1. PICK l \in 1..Len(c) : c[l].point = vh[i].point
      BY <1>14
    <3>2. PICK k \in 1..Len(m) : m[k] = c[l]
      BY <1>19
    <3>3. m[k].point = vh[i].point
      BY <3>1, <3>2
    <3> QED BY <3>3
  <2>3. ASSUME NEW j \in 1..Len(wh)
        PROVE  \/ \E i \in 1..Len(vh) : vh[i].point.id = wh[j].point.id
               \/ \E k \in 1..Len(m) : m[k].point = wh[j].point
    <3>1. CASE j \in S
      <4>1. PICK l \in 1..Len(c) : c[l].point = wh[j].point
        BY <1>15, <3>1
      <4>2. PICK k \in 1..Len(m) : m[k] = c[l]
        BY <1>19
      <4>3. m[k].point = wh[j].point
        BY <4>1, <4>2
      <4> QED BY <4>3
    <3> QED BY <1>6, <3>1
  <2> QED BY <2>1, <2>2, <2>3 DEF Merges
<1> QED BY <1>1, <1>17, <1>20

-----------------------------------------------------------------------------
\* A set with n different elements has at least n.
LEMMA Enumerated ==
  ASSUME NEW S, IsFiniteSet(S), NEW n \in Nat, NEW g, \A k \in 1..n : g[k] \in S,
         \A k, l \in 1..n : k < l => g[k] # g[l]
  PROVE  Cardinality(S) >= n
<1> DEFINE h == [k \in 1..n |-> g[k]]
<1>1. h \in Injection(1..n, S)
  <2>1. h \in [1..n -> S]
    OBVIOUS
  <2>2. ASSUME NEW k \in 1..n, NEW l \in 1..n, h[k] = h[l] PROVE k = l
    <3>1. g[k] = g[l]
      BY <2>2
    <3>2. ~(k < l) /\ ~(l < k)
      BY <3>1
    <3> QED BY <3>2
  <2> QED BY <2>1, <2>2 DEF Injection, IsInjective
<1>2. Cardinality(1..n) <= Cardinality(S)
  BY <1>1, FS_Injection
<1>3. Cardinality(1..n) = n /\ Cardinality(S) \in Nat
  BY UptoFinite, FS_CardinalityType
<1> QED BY <1>2, <1>3

\* n different elements are n.
LEMMA Counted ==
  ASSUME NEW n \in Nat, NEW g, \A k, l \in 1..n : k # l => g[k] # g[l]
  PROVE  IsFiniteSet({g[k] : k \in 1..n}) /\ Cardinality({g[k] : k \in 1..n}) = n
<1> DEFINE S == {g[k] : k \in 1..n}
           h == [k \in 1..n |-> g[k]]
<1>1. h \in Bijection(1..n, S)
  BY DEF Bijection, Injection, IsInjective, Surjection
<1>2. ExistsBijection(1..n, S)
  BY <1>1 DEF ExistsBijection
<1> HIDE DEF S
<1>3. IsFiniteSet(S) /\ Cardinality(S) = Cardinality(1..n)
  BY <1>2, UptoFinite, FS_Bijection
<1> QED BY <1>3, UptoFinite DEF S

\* The ids of a list of points are distinct.
Several(s) == \A i, j \in 1..Len(s) : i # j => s[i].id # s[j].id

\* The points of the collection.
LEMMA PointsSound ==
  ASSUME points \in Collections
  PROVE  /\ points \in Seq(ToSet(points)) /\ Several(points)
         /\ ToSet(points) = {points[i] : i \in 1..Len(points)}
         /\ IsFiniteSet(ToSet(points))
         /\ \A p \in ToSet(points) :
              /\ p.vector \in Int /\ p.vector <= 100 /\ p.words \in Int
              /\ p.rank \in 0..100
         /\ \A p, q \in ToSet(points) : p.id = q.id => p = q
         /\ \A p, q \in ToSet(points) : p.key = q.key => p.long = q.long
<1>1. /\ points \in Seq(ToSet(points))
      /\ \A p \in ToSet(points) : p.vector \in -100..100 /\ p.words \in Int /\ p.rank \in 0..100
      /\ \A i, j \in DOMAIN points : points[i].id = points[j].id => i = j
      /\ \A p, q \in ToSet(points) : p.key = q.key => p.long = q.long
  BY CollectionsAssumption
<1>2. DOMAIN points = 1..Len(points) /\ Len(points) \in Nat
  BY <1>1
<1>3. ToSet(points) = {points[i] : i \in 1..Len(points)}
  BY <1>2 DEF ToSet
<1>4. Several(points)
  BY <1>1, <1>2 DEF Several
<1>5. \A p, q \in ToSet(points) : p.id = q.id => p = q
  BY <1>1, <1>2, <1>3
<1>6. ASSUME NEW p \in ToSet(points) PROVE p.vector \in Int /\ p.vector <= 100
  <2>1. PICK x \in -100..100 : p.vector = x
    BY <1>1
  <2>2. x \in Int /\ x <= 100
    OBVIOUS
  <2> QED BY <2>1, <2>2
<1>7. IsFiniteSet(ToSet(points))
  <2> DEFINE g == [i \in 1..Len(points) |-> points[i]]
  <2>1. g \in Surjection(1..Len(points), ToSet(points))
    BY <1>3 DEF Surjection
  <2> QED BY <1>2, <2>1, UptoFinite, FS_Surjection
<1> QED BY <1>1, <1>3, <1>4, <1>5, <1>6, <1>7

\* The points a search with the filter n can return.
Pool(n) == {p \in ToSet(points) : Matches(p, n)}

\* Matching lists the points of the pool, each once.
LEMMA MatchingSound ==
  ASSUME points \in Collections, NEW n
  PROVE  /\ Matching(n) \in Seq(Pool(n)) /\ Several(Matching(n))
         /\ \A p \in Pool(n) : \E k \in 1..Len(Matching(n)) : Matching(n)[k] = p
<1> DEFINE T == ToSet(points)
           S == {i \in DOMAIN points : Matches(points[i], n)}
           f == Matching(n)
<1>1. /\ points \in Seq(T) /\ Several(points) /\ T = {points[i] : i \in 1..Len(points)}
      /\ DOMAIN points = 1..Len(points) /\ Len(points) \in Nat
  BY PointsSound
<1>2. S \in SUBSET DOMAIN points /\ \A i \in S : points[i] \in Pool(n) /\ i \in 1..Len(points)
  BY <1>1 DEF Pool
<1>3. \A p \in Pool(n) : \E i \in S : points[i] = p
  BY <1>1 DEF Pool
<1>4. f = Picked(points, S)
  BY DEF Matching
<1>11. points \in Seq(T)
  BY <1>1
<1>12. S \in SUBSET DOMAIN points
  BY <1>2
<1> HIDE DEF S, f, T
<1>5. f \in Seq(T) /\ \E o : PicksBy(f, points, S, o)
  BY <1>4, <1>11, <1>12, PickedBy
<1> DEFINE m == Len(f)
<1>6. PICK o : /\ o \in [1..m -> S] /\ f \in Seq(T) /\ m \in Nat
               /\ \A k \in 1..m : f[k] = points[o[k]]
               /\ \A i \in S : \E k \in 1..m : o[k] = i
               /\ \A k, l \in 1..m : k < l => o[k] < o[l]
  BY <1>5 DEF PicksBy
<1> HIDE DEF m
<1>7. \A k \in 1..m : o[k] \in S /\ o[k] \in 1..Len(points) /\ f[k] = points[o[k]]
  BY <1>2, <1>6
<1>8. f \in Seq(Pool(n))
  <2>1. f = [k \in 1..m |-> f[k]]
    BY <1>6 DEF m
  <2>2. \A k \in 1..m : f[k] \in Pool(n)
    BY <1>2, <1>7
  <2>3. f \in [1..m -> Pool(n)]
    BY <2>1, <2>2
  <2> QED BY <1>6, <2>3, SeqDef
<1>9. Several(f)
  <2>1. ASSUME NEW k \in 1..m, NEW l \in 1..m, k # l PROVE f[k].id # f[l].id
    <3>1. k < l \/ l < k
      BY <1>6, <2>1
    <3>2. o[k] \in Int /\ o[l] \in Int
      BY <1>7, <2>1
    <3>3. o[k] < o[l] \/ o[l] < o[k]
      BY <1>6, <2>1, <3>1
    <3>4. o[k] # o[l]
      BY <3>2, <3>3
    <3> QED BY <1>1, <1>7, <3>4 DEF Several
  <2> QED BY <2>1 DEF Several, m
<1>10. \A p \in Pool(n) : \E k \in 1..m : f[k] = p
  BY <1>3, <1>6
<1> QED BY <1>8, <1>9, <1>10 DEF f, m

\* near is the first of all by falling weight, limit at most, as o orders them.
IsBest(near, all, w, limit, o) ==
  /\ Several(near) /\ Len(near) = NoMoreThan(limit, Len(all))
  /\ o \in [1..Len(all) -> 1..Len(all)]
  /\ \A k \in 1..Len(near) : near[k] = all[o[k]]
  /\ \A i \in 1..Len(all) : \E k \in 1..Len(all) : o[k] = i
  /\ \A k, l \in 1..Len(all) : k < l => o[k] # o[l] /\ w[o[k]] >= w[o[l]]

\* The first of a ranked list of points.
LEMMA BestSound ==
  ASSUME NEW T, NEW all \in Seq(T), Several(all), NEW n \in Nat,
         NEW w, \A i \in 1..Len(all) : w[i] \in Int
  PROVE  /\ AtMost(n, Ranked(all, w)) \in Seq(T)
         /\ \E o : IsBest(AtMost(n, Ranked(all, w)), all, w, n, o)
<1> DEFINE r == Ranked(all, w)
           m == NoMoreThan(n, Len(all))
           f == AtMost(n, r)
<1>1. r \in Seq(T) /\ \E o : RanksBy(r, all, w, o)
  BY RankedSeq
<1>2. PICK o : RanksBy(r, all, w, o)
  BY <1>1
<1>3. Len(r) = Len(all)
  BY <1>2 DEF RanksBy
<1>4. f \in Seq(T) /\ Len(f) = m /\ \A k \in 1..m : f[k] = r[k]
  BY <1>1, <1>3, AtMostSeq
<1>5. m \in Nat /\ m <= Len(all) /\ \A k \in 1..m : k \in 1..Len(all)
  BY DEF NoMoreThan
<1> HIDE DEF r, m, f
<1>6. \A k \in 1..m : f[k] = all[o[k]] /\ o[k] \in 1..Len(all)
  BY <1>2, <1>4, <1>5 DEF RanksBy
<1>7. ASSUME NEW k \in 1..m, NEW l \in 1..m, k # l PROVE f[k].id # f[l].id
  <2>1. k < l \/ l < k
    BY <1>5, <1>7
  <2>2. o[k] # o[l]
    BY <1>2, <1>5, <2>1 DEF RanksBy
  <2> QED BY <1>6, <2>2 DEF Several
<1>8. Several(f)
  BY <1>4, <1>7 DEF Several
<1>9. IsBest(f, all, w, n, o)
  BY <1>2, <1>4, <1>6, <1>8 DEF RanksBy, IsBest, m
<1> QED BY <1>4, <1>9 DEF r, f

\* The points of a pool.
LEMMA PoolSound ==
  ASSUME points \in Collections, NEW n
  PROVE  /\ Pool(n) \subseteq ToSet(points) /\ IsFiniteSet(Pool(n))
         /\ \A p \in Pool(n) : p.vector \in Int /\ p.vector <= 100 /\ p.words \in Int
         /\ \A p, q \in Pool(n) : p.id = q.id => p = q
         /\ \A p, q \in Pool(n) : p.key = q.key => p.long = q.long
<1>1. Pool(n) \in SUBSET ToSet(points)
  BY DEF Pool
<1> QED BY <1>1, PointsSound, FS_Subset

\* The limits.
LEMMA LimitsSound ==
  ASSUME conf \in Settings
  PROVE  conf.top \in Nat /\ conf.topVector \in Nat /\ conf.topWords \in Nat
BY SettingsAssumption

\* A point that is near enough is a hit.
LEMMA CloseHit ==
  ASSUME NEW T, NEW p \in T, p.vector \in Int, p.vector <= 100, 100 * p.vector >= Threshold
  PROVE  Hit(p, 100 * p.vector) \in HitsOn(T)
<1> DEFINE x == p.vector
<1> HIDE DEF x
<1>1. x \in Int /\ x <= 100 /\ 100 * x >= 2000
  BY DEF x, Threshold
<1>2. 100 * x \in Nat /\ 100 * x <= 10000
  BY <1>1
<1>3. Hit(p, 100 * x) \in HitsOn(T)
  BY <1>2, HitMade
<1> QED BY <1>3 DEF x

\* v holds the nearest of the pool, each near enough for a hit unless enough others are nearer.
IsNearest(v, pool) ==
  /\ DistinctIds(v)
  /\ \A i \in 1..Len(v) : v[i].score = 100 * v[i].point.vector
  /\ \A p \in pool : 100 * p.vector >= Threshold =>
       \/ \E i \in 1..Len(v) : v[i].point = p
       \/ Cardinality({q \in pool \ {p} : q.vector >= p.vector}) >= conf.topVector

\* VectorRetriever.search finds what is near unless top_k_vector others are as near.
LEMMA NearestSound ==
  ASSUME points \in Collections, conf \in Settings, NEW n
  PROVE  Nearest(n) \in Seq(HitsOn(Pool(n))) /\ IsNearest(Nearest(n), Pool(n))
<1> DEFINE P == Pool(n)
           all == Matching(n)
           w == [i \in DOMAIN all |-> all[i].vector]
           near == AtMost(conf.topVector, Ranked(all, w))
           m == NoMoreThan(conf.topVector, Len(all))
           S == {i \in DOMAIN near : 100 * near[i].vector >= Threshold}
           close == Picked(near, S)
           v == [i \in DOMAIN close |-> Hit(close[i], 100 * close[i].vector)]
<1>1. Nearest(n) = v
  BY DEF Nearest
<1>2. /\ all \in Seq(P) /\ Several(all) /\ \A p \in P : \E k \in 1..Len(all) : all[k] = p
  BY MatchingSound
<1>3. /\ IsFiniteSet(P) /\ conf.topVector \in Nat
      /\ \A p \in P : p.vector \in Int /\ p.vector <= 100
  BY PoolSound, LimitsSound
<1> HIDE DEF P, all
<1>4. DOMAIN all = 1..Len(all) /\ Len(all) \in Nat /\ \A i \in 1..Len(all) : all[i] \in P
  BY <1>2
<1>5. \A i \in 1..Len(all) : w[i] = all[i].vector /\ w[i] \in Int
  BY <1>3, <1>4
<1> HIDE DEF w
<1>20. near \in Seq(P) /\ \E o : IsBest(near, all, w, conf.topVector, o)
  BY <1>2, <1>3, <1>5, BestSound
<1>7. PICK o : IsBest(near, all, w, conf.topVector, o)
  BY <1>20
<1>6. /\ near \in Seq(P) /\ Several(near) /\ Len(near) = m
      /\ \A k \in 1..m : near[k] = all[o[k]]
  BY <1>7, <1>20 DEF IsBest
<1>8. m \in Nat /\ m <= Len(all) /\ m <= conf.topVector /\ (m = conf.topVector \/ m = Len(all))
  BY <1>3, <1>4 DEF NoMoreThan
<1>9. S \in SUBSET DOMAIN near /\ \A k \in S : k \in 1..m /\ 100 * near[k].vector >= Threshold
  BY <1>6
<1>10. \A k \in 1..m : 100 * near[k].vector >= Threshold => k \in S
  BY <1>6
<1> HIDE DEF near, m, S
<1>11. close \in Seq(P) /\ \E q : PicksBy(close, near, S, q)
  BY <1>6, <1>9, PickedBy
<1> DEFINE c == Len(close)
<1>12. PICK q : /\ q \in [1..c -> S] /\ close \in Seq(P) /\ c \in Nat
                /\ \A k \in 1..c : close[k] = near[q[k]]
                /\ \A i \in S : \E k \in 1..c : q[k] = i
                /\ \A k, l \in 1..c : k < l => q[k] < q[l]
  BY <1>11 DEF PicksBy
<1>13. DOMAIN close = 1..c
  BY <1>12
<1> HIDE DEF close, c
<1>14. ASSUME NEW k \in 1..c
       PROVE  /\ q[k] \in S /\ q[k] \in 1..m /\ close[k] \in P
              /\ close[k] = near[q[k]] /\ Hit(close[k], 100 * close[k].vector) \in HitsOn(P)
  <2>1. q[k] \in S /\ close[k] = near[q[k]] /\ close[k] \in P
    BY <1>12, <1>13
  <2>2. 100 * close[k].vector >= Threshold
    BY <1>9, <2>1
  <2>3. Hit(close[k], 100 * close[k].vector) \in HitsOn(P)
    BY <1>3, <2>1, <2>2, CloseHit
  <2> QED BY <1>9, <2>1, <2>3
<1>15. /\ v \in Seq(HitsOn(P)) /\ Len(v) = c
       /\ \A k \in 1..c : v[k] = Hit(close[k], 100 * close[k].vector)
  <2>1. v \in [1..c -> HitsOn(P)]
    BY <1>13, <1>14
  <2> QED BY <1>12, <1>13, <2>1, SeqDef
<1> HIDE DEF v
<1>16. \A k \in 1..c : v[k].point = close[k] /\ v[k].score = 100 * v[k].point.vector
  BY <1>15, HitIs
<1>17. DistinctIds(v)
  <2>1. ASSUME NEW k \in 1..c, NEW l \in 1..c, k # l PROVE v[k].point.id # v[l].point.id
    <3>1. k < l \/ l < k
      BY <1>12, <2>1
    <3>2. q[k] # q[l] /\ q[k] \in 1..Len(near) /\ q[l] \in 1..Len(near)
      BY <1>6, <1>8, <1>12, <1>14, <3>1
    <3>3. near[q[k]].id # near[q[l]].id
      BY <1>6, <3>2 DEF Several
    <3> QED BY <1>14, <1>16, <3>3
  <2> QED BY <1>15, <2>1 DEF DistinctIds
<1>18. ASSUME NEW p \in P, 100 * p.vector >= Threshold
       PROVE  \/ \E k \in 1..c : v[k].point = p
              \/ Cardinality({x \in P \ {p} : x.vector >= p.vector}) >= conf.topVector
  <2>1. PICK i \in 1..Len(all) : all[i] = p
    BY <1>2
  <2>2. PICK k \in 1..Len(all) : o[k] = i
    BY <1>7 DEF IsBest
  <2>3. k \in Nat /\ k <= Len(all)
    BY <1>4
  <2>4. CASE k <= m
    <3>1. k \in 1..m /\ near[k] = p
      BY <1>6, <1>8, <2>1, <2>2, <2>3, <2>4
    <3>2. k \in S
      BY <1>10, <1>18, <3>1
    <3>3. PICK l \in 1..c : q[l] = k
      BY <1>12, <3>2
    <3>4. v[l].point = p
      BY <1>14, <1>16, <3>1, <3>3
    <3> QED BY <3>4
  <2>5. CASE m < k
    <3> DEFINE R == {x \in P \ {p} : x.vector >= p.vector}
    <3>1. m = conf.topVector
      BY <1>8, <2>3, <2>5
    <3>2. ASSUME NEW l \in 1..m PROVE near[l] \in R
      <4>1. l \in 1..Len(all) /\ l < k /\ l <= k
        BY <1>8, <2>3, <2>5
      <4>2. /\ o[l] \in 1..Len(all) /\ o[l] # o[k] /\ w[o[l]] >= w[o[k]]
        BY <1>7, <4>1 DEF IsBest
      <4>3. near[l] = all[o[l]] /\ all[o[l]] \in P
        BY <1>4, <1>6, <4>2
      <4>4. all[o[l]].id # p.id
        BY <1>2, <2>1, <2>2, <4>2 DEF Several
      <4>5. all[o[l]].vector >= p.vector
        BY <1>5, <2>1, <2>2, <4>2
      <4> QED BY <4>3, <4>4, <4>5
    <3>3. \A l, j \in 1..m : l < j => near[l] # near[j]
      BY <1>6 DEF Several
    <3>4. IsFiniteSet(R)
      <4>1. R \in SUBSET P
        OBVIOUS
      <4> QED BY <1>3, <4>1, FS_Subset
    <3> HIDE DEF R
    <3>5. Cardinality(R) >= m
      BY <1>8, <3>2, <3>3, <3>4, Enumerated
    <3> QED BY <3>1, <3>5 DEF R
  <2> QED BY <1>8, <2>3, <2>4, <2>5
<1>19. IsNearest(v, P)
  BY <1>15, <1>16, <1>17, <1>18 DEF IsNearest
<1> QED BY <1>1, <1>15, <1>19 DEF P

\* The words of a hit relative to those of the best one.
Share(h, b) == (10000 * h) \div b

\* Relative scores are in range.
LEMMA ShareScore ==
  ASSUME NEW h \in Nat, NEW b \in Nat, 0 < h, h <= b
  PROVE  Share(h, b) \in Nat /\ Share(h, b) <= 10000
BY DEF Share

\* A point whose words count is a hit.
LEMMA SharedHit ==
  ASSUME NEW T, NEW p \in T, NEW q \in T, p.words \in Int, q.words \in Int,
         p.words > 0, q.words >= p.words
  PROVE  Hit(p, Share(p.words, q.words)) \in HitsOn(T)
<1> DEFINE h == p.words
           b == q.words
<1>1. h \in Nat /\ b \in Nat /\ 0 < h /\ h <= b
  OBVIOUS
<1> HIDE DEF h, b
<1>2. Share(h, b) \in Nat /\ Share(h, b) <= 10000
  BY <1>1, ShareScore
<1>3. Hit(p, Share(h, b)) \in HitsOn(T)
  BY <1>2, HitMade
<1> QED BY <1>3 DEF h, b

\* BM25Retriever.search finds points of its pool, each once, with scores in range.
LEMMA BestByWordsSound ==
  ASSUME points \in Collections, conf \in Settings, NEW n
  PROVE  BestByWords(n) \in Seq(HitsOn(Pool(n))) /\ DistinctIds(BestByWords(n))
<1> DEFINE P == Pool(n)
           all == Matching(n)
           w == [i \in DOMAIN all |-> all[i].words]
           best == AtMost(conf.topWords, Ranked(all, w))
           S == {i \in DOMAIN best : best[i].words > 0}
           hits == Picked(best, S)
           v == [i \in DOMAIN hits |-> Hit(hits[i], Share(hits[i].words, best[1].words))]
           m == Len(best)
           c == Len(hits)
<1>1. BestByWords(n) = v
  BY DEF BestByWords, Share
<1>2. all \in Seq(P) /\ Several(all)
  BY MatchingSound
<1>3. conf.topWords \in Nat /\ \A p \in P : p.words \in Int
  BY PoolSound, LimitsSound
<1> HIDE DEF P, all
<1>4. DOMAIN all = 1..Len(all) /\ Len(all) \in Nat /\ \A i \in 1..Len(all) : all[i] \in P
  BY <1>2
<1>5. \A i \in 1..Len(all) : w[i] = all[i].words /\ w[i] \in Int
  BY <1>3, <1>4
<1> HIDE DEF w
<1>6. best \in Seq(P) /\ \E o : IsBest(best, all, w, conf.topWords, o)
  BY <1>2, <1>3, <1>5, BestSound
<1>7. PICK o : IsBest(best, all, w, conf.topWords, o)
  BY <1>6
<1>8. m \in Nat /\ DOMAIN best = 1..m /\ \A k \in 1..m : best[k] \in P /\ best[k].words \in Int
  BY <1>3, <1>6
<1>9. m <= Len(all)
  BY <1>3, <1>4, <1>7 DEF IsBest, NoMoreThan
<1>10. S \in SUBSET DOMAIN best /\ \A k \in S : k \in 1..m /\ best[k].words > 0
  BY <1>8
<1> HIDE DEF best, S
<1>11. hits \in Seq(P) /\ \E q : PicksBy(hits, best, S, q)
  BY <1>6, <1>10, PickedBy
<1>12. PICK q : /\ q \in [1..c -> S]
                /\ \A k \in 1..c : hits[k] = best[q[k]]
                /\ \A k, l \in 1..c : k < l => q[k] < q[l]
  BY <1>11 DEF PicksBy
<1>13. c \in Nat /\ DOMAIN hits = 1..c
  BY <1>11
<1> HIDE DEF m, hits, c
<1>14. ASSUME NEW k \in 1..m PROVE 1 \in 1..m /\ best[1].words >= best[k].words
  <2>1. 1 \in 1..m /\ 1 <= k
    BY <1>8
  <2>2. CASE k = 1
    BY <1>8, <2>1, <2>2
  <2>3. CASE 1 < k
    <3>1. k \in 1..Len(all) /\ 1 \in 1..Len(all)
      BY <1>4, <1>8, <1>9
    <3>2. w[o[1]] >= w[o[k]] /\ o[1] \in 1..Len(all) /\ o[k] \in 1..Len(all)
      BY <1>7, <2>3, <3>1 DEF IsBest
    <3>3. best[1] = all[o[1]] /\ best[k] = all[o[k]]
      BY <1>7, <2>1 DEF IsBest, m
    <3> QED BY <1>5, <2>1, <3>2, <3>3
  <2> QED BY <1>8, <2>1, <2>2, <2>3
<1>15. ASSUME NEW k \in 1..c
       PROVE  /\ q[k] \in S /\ q[k] \in 1..m /\ hits[k] = best[q[k]]
              /\ Hit(hits[k], Share(hits[k].words, best[1].words)) \in HitsOn(P)
  <2>1. q[k] \in S /\ q[k] \in 1..m /\ hits[k] = best[q[k]] /\ hits[k].words > 0
    BY <1>10, <1>12
  <2>2. 1 \in 1..m /\ best[1].words >= hits[k].words
    BY <1>14, <2>1
  <2>3. best[1] \in P /\ hits[k] \in P /\ best[1].words \in Int /\ hits[k].words \in Int
    BY <1>8, <2>1, <2>2
  <2>4. Hit(hits[k], Share(hits[k].words, best[1].words)) \in HitsOn(P)
    BY <2>1, <2>2, <2>3, SharedHit
  <2> QED BY <2>1, <2>4
<1>16. /\ v \in Seq(HitsOn(P)) /\ Len(v) = c
       /\ \A k \in 1..c : v[k] = Hit(hits[k], Share(hits[k].words, best[1].words))
  <2>1. v \in [1..c -> HitsOn(P)]
    BY <1>13, <1>15
  <2> QED BY <1>13, <2>1, SeqDef
<1> HIDE DEF v
<1>17. \A k \in 1..c : v[k].point = hits[k]
  BY <1>16, HitIs
<1>18. DistinctIds(v)
  <2>1. ASSUME NEW k \in 1..c, NEW l \in 1..c, k # l PROVE v[k].point.id # v[l].point.id
    <3>1. k < l \/ l < k
      BY <1>13, <2>1
    <3>2. q[k] # q[l] /\ q[k] \in 1..m /\ q[l] \in 1..m
      BY <1>8, <1>12, <1>15, <3>1
    <3>3. best[q[k]].id # best[q[l]].id
      BY <1>7, <3>2 DEF IsBest, Several, m
    <3> QED BY <1>15, <1>17, <3>3
  <2> QED BY <1>16, <2>1 DEF DistinctIds
<1> QED BY <1>1, <1>16, <1>18 DEF P

\* Hits on some points are hits on more.
LEMMA HitsWiden ==
  ASSUME NEW T, NEW P \in SUBSET T, NEW h \in Seq(HitsOn(P))
  PROVE  h \in Seq(HitsOn(T))
<1>1. HitsOn(P) \subseteq HitsOn(T)
  BY DEF HitsOn
<1> QED BY <1>1

\* The same with and without the search by words.
LEMMA WordsOfSound ==
  ASSUME points \in Collections, conf \in Settings, NEW n
  PROVE  WordsOf(n) \in Seq(HitsOn(Pool(n))) /\ DistinctIds(WordsOf(n))
<1>1. CASE conf.hybrid
  BY <1>1, BestByWordsSound DEF WordsOf
<1>2. CASE ~conf.hybrid
  BY <1>2 DEF WordsOf, DistinctIds
<1> QED BY <1>1, <1>2

\* The cosine of a usable point carries its score over the threshold by itself.
LEMMA NearEnough ==
  ASSUME NEW x \in Int, x <= 100, 65 * x >= Threshold
  PROVE  /\ 100 * x \in Nat /\ 100 * x >= Threshold /\ Clamp(100 * x) >= Threshold
         /\ \A w \in Nat : Mixed(Clamp(100 * x), w) >= Threshold
<1>1. Clamp(100 * x) = 100 * x /\ x >= 0
  BY DEF Clamp, AtLeast, NoMoreThan, Threshold
<1>2. \A w \in Nat : (65 * (100 * x) + 35 * w) \div 100 >= 65 * x
  BY <1>1
<1> QED BY <1>1, <1>2 DEF Mixed, Threshold

\* So it does when the words found the point too.
LEMMA MergedEnough ==
  ASSUME NEW T, NEW vh \in Seq(HitsOn(T)), NEW wh \in Seq(HitsOn(T)),
         \A i \in 1..Len(vh) : vh[i].score = 100 * vh[i].point.vector,
         NEW h, FromVector(h, vh, wh),
         h.point.vector \in Int, h.point.vector <= 100, 65 * h.point.vector >= Threshold
  PROVE  h.score >= Threshold
<1> DEFINE x == h.point.vector
<1>1. PICK i \in 1..Len(vh) :
        /\ h.point = vh[i].point
        /\ \/ h.score = Clamp(vh[i].score)
           \/ \E j \in 1..Len(wh) : h.score = Mixed(Clamp(vh[i].score), wh[j].score)
  BY DEF FromVector
<1>2. vh[i].score = 100 * x
  BY <1>1
<1>3. x \in Int /\ x <= 100 /\ 65 * x >= Threshold
  OBVIOUS
<1> HIDE DEF x
<1>4. Clamp(100 * x) >= Threshold /\ \A w \in Nat : Mixed(Clamp(100 * x), w) >= Threshold
  BY <1>3, NearEnough
<1>5. \A j \in 1..Len(wh) : wh[j].score \in Nat
  <2>1. \A j \in 1..Len(wh) : wh[j] \in HitsOn(T)
    OBVIOUS
  <2> QED BY <2>1, HitSound
<1> QED BY <1>1, <1>2, <1>4, <1>5

\* A search that leaves nothing had every usable point of its pool crowded out.
LEMMA EmptyMeansCrowded ==
  ASSUME points \in Collections, conf \in Settings, NEW n, conf.validation,
         Outcome(n) = <<>>, NEW p \in Pool(n), p.long, 65 * p.vector >= Threshold
  PROVE  Crowded(p, Pool(n))
<1> DEFINE P == Pool(n)
           vh == Nearest(n)
           wh == WordsOf(n)
           m == Merge(vh, wh)
           s == Prioritize(m)
           R == Rivals(p, P)
<1>1. /\ IsFiniteSet(P) /\ conf.top \in Nat /\ conf.topVector \in Nat
      /\ \A q \in P : q.vector \in Int /\ q.vector <= 100
      /\ \A q, r \in P : q.key = r.key => q.long = r.long
  BY PoolSound, LimitsSound
<1>2. vh \in Seq(HitsOn(P)) /\ IsNearest(vh, P) /\ wh \in Seq(HitsOn(P))
  BY NearestSound, WordsOfSound
<1>3. Validate(AtMost(conf.top, s)) = <<>>
  BY DEF Outcome, Result
<1> HIDE DEF P, vh, wh
<1>4. m \in Seq(HitsOn(P)) /\ Merges(m, vh, wh)
  BY <1>2, MergeSound
<1> HIDE DEF m
<1>5. s \in Seq(HitsOn(P)) /\ Presents(s, m)
  BY <1>4, PrioritizeSound
<1> HIDE DEF s
<1>6. Passes(<<>>, s)
  BY <1>1, <1>3, <1>5, ValidateSound DEF Presents
<1>7. \A k \in 1..Len(s) : k <= conf.top => ~(s[k].point.long /\ s[k].score >= Threshold)
  BY <1>6 DEF Passes
<1>8. p \in P /\ p.vector \in Int /\ p.vector <= 100
  BY <1>1 DEF P
<1>9. IsFiniteSet(R) /\ Cardinality(R) \in Nat
  <2>1. R \in SUBSET P
    BY DEF Rivals
  <2>2. IsFiniteSet(R)
    BY <1>1, <2>1, FS_Subset
  <2> QED BY <2>2, FS_CardinalityType
<1>10. CASE \A i \in 1..Len(vh) : vh[i].point # p
  <2> DEFINE Q == {q \in P \ {p} : q.vector >= p.vector}
  <2>1. 100 * p.vector >= Threshold
    BY <1>8, NearEnough
  <2>2. Cardinality(Q) >= conf.topVector
    BY <1>2, <1>8, <1>10, <2>1 DEF IsNearest
  <2>3. Q \in SUBSET R
    BY DEF Rivals
  <2> HIDE DEF Q, R
  <2>4. Cardinality(Q) <= Cardinality(R)
    BY <1>9, <2>3, FS_Subset
  <2>5. IsFiniteSet(Q)
    BY <1>9, <2>3, FS_Subset
  <2>6. Cardinality(Q) \in Nat
    BY <2>5, FS_CardinalityType
  <2> QED BY <1>1, <1>9, <2>2, <2>4, <2>6 DEF Crowded, NoMoreThan, P, R
<1>11. CASE \E i \in 1..Len(vh) : vh[i].point = p
  <2>1. PICK i \in 1..Len(vh) : vh[i].point = p
    BY <1>11
  <2>2. PICK j \in 1..Len(m) : m[j].point = p
    BY <1>4, <2>1 DEF Merges
  <2>3. m[j] \in HitsOn(P)
    BY <1>4
  <2>4. ~FromWords(m[j], vh, wh)
    BY <2>1, <2>2 DEF FromWords
  <2>5. FromVector(m[j], vh, wh)
    BY <1>4, <2>4 DEF Merges
  <2>6. m[j].score >= Threshold
    <3>1. \A k \in 1..Len(vh) : vh[k].score = 100 * vh[k].point.vector
      BY <1>2 DEF IsNearest
    <3> QED BY <1>2, <1>8, <2>2, <2>5, <3>1, MergedEnough
  <2>7. Boosted(m[j]).score >= Threshold /\ Boosted(m[j]).score \in Int
    <3>1. Boosted(m[j]) \in HitsOn(P) /\ Boosted(m[j]).score >= m[j].score
      BY <2>3, BoostedSound
    <3>2. Boosted(m[j]).score \in Int /\ m[j].score \in Int
      BY <2>3, <3>1, HitSound
    <3> QED BY <2>6, <3>1, <3>2 DEF Threshold
  <2>8. PICK k \in 1..Len(s) : s[k].point.key = p.key /\ s[k].score >= Boosted(m[j]).score
    BY <1>5, <2>2 DEF Presents
  <2>9. \A l \in 1..Len(s) : s[l] \in HitsOn(P) /\ s[l].point \in P /\ s[l].score \in Int
    <3>1. \A l \in 1..Len(s) : s[l] \in HitsOn(P)
      BY <1>5
    <3> QED BY <3>1, HitSound
  <2>10. s[k].point.long /\ s[k].score >= Threshold
    <3>1. s[k].point \in P /\ s[k].score \in Int
      BY <2>9
    <3>2. s[k].point.long = p.long
      BY <1>1, <1>8, <2>8, <3>1
    <3>3. Threshold \in Int
      BY DEF Threshold
    <3>4. s[k].score >= Threshold
      BY <2>7, <2>8, <3>1, <3>3
    <3> QED BY <3>2, <3>4
  <2>11. k \in Nat /\ conf.top < k /\ k <= Len(s) /\ Len(s) \in Nat
    BY <1>1, <1>5, <1>7, <2>10
  <2>12. ASSUME NEW l \in 1..conf.top
         PROVE  s[l].point \in R
    <3>1. l \in 1..Len(s) /\ l < k /\ l <= conf.top
      BY <1>1, <2>11
    <3>2. s[l].score >= s[k].score /\ s[l].point.key # s[k].point.key
      BY <1>5, <3>1 DEF Presents, Falling, DistinctKeys
    <3>3. s[l].score >= Threshold
      BY <2>9, <2>10, <3>1, <3>2 DEF Threshold
    <3>4. ~s[l].point.long
      BY <1>7, <3>1, <3>3
    <3> QED BY <2>8, <2>9, <3>1, <3>2, <3>4 DEF Rivals
  <2>13. ASSUME NEW l \in 1..conf.top, NEW i2 \in 1..conf.top, l < i2
         PROVE  s[l].point # s[i2].point
    <3>1. l \in 1..Len(s) /\ i2 \in 1..Len(s) /\ l # i2
      BY <1>1, <2>11, <2>13
    <3>2. s[l].point.key # s[i2].point.key
      BY <1>5, <3>1 DEF Presents, DistinctKeys
    <3> QED BY <3>2
  <2> DEFINE g == [l \in 1..conf.top |-> s[l].point]
  <2>14. /\ \A l \in 1..conf.top : g[l] \in R
         /\ \A l, i2 \in 1..conf.top : l < i2 => g[l] # g[i2]
    BY <2>12, <2>13
  <2> HIDE DEF g, R
  <2>15. Cardinality(R) >= conf.top
    BY <1>1, <1>9, <2>14, Enumerated
  <2> QED BY <1>1, <1>9, <2>15 DEF Crowded, NoMoreThan, P, R
<1> QED BY <1>10, <1>11

-----------------------------------------------------------------------------
\* The share of a point is that of its one hit.
LEMMA SharesIs ==
  ASSUME NEW j \in 1..Len(byWords), byWords \in Seq(HitsOn(ToSet(points))),
         DistinctIds(byWords), NEW p, byWords[j].point.id = p.id
  PROVE  InWords(p) /\ WordShare(p) = byWords[j].score
<1> DEFINE i == CHOOSE i \in DOMAIN byWords : byWords[i].point.id = p.id
<1>1. DOMAIN byWords = 1..Len(byWords)
  OBVIOUS
<1>2. i \in 1..Len(byWords) /\ byWords[i].point.id = p.id
  BY <1>1
<1>3. i = j
  BY <1>2 DEF DistinctIds
<1>4. WordShare(p) = byWords[i].score
  BY DEF WordShare
<1> QED BY <1>1, <1>3, <1>4 DEF InWords

\* What a point is worth to the merge of the two lists.
LEMMA MergedIsHybrid ==
  ASSUME HitsInv, NEW h, h.point \in ToSet(points),
         FromVector(h, byVector, byWords) \/ FromWords(h, byVector, byWords)
  PROVE  h.point \in HitPoints /\ h.score = HybridScore(h.point)
<1> DEFINE p == h.point
<1>1. /\ DOMAIN byVector = 1..Len(byVector) /\ DOMAIN byWords = 1..Len(byWords)
      /\ \A i \in 1..Len(byVector) : byVector[i].score = 100 * byVector[i].point.vector
  BY DEF HitsInv
<1>2. CASE FromWords(h, byVector, byWords)
  <2>1. PICK j \in 1..Len(byWords) :
          /\ h.point = byWords[j].point
          /\ \A i \in 1..Len(byVector) : byVector[i].point.id # h.point.id
          /\ h.score = Third(byWords[j].score)
    BY <1>2 DEF FromWords
  <2>2. InWords(p) /\ WordShare(p) = byWords[j].score
    BY <2>1, SharesIs DEF HitsInv
  <2>3. ~InNearest(p)
    BY <1>1, <2>1 DEF InNearest
  <2>4. HybridScore(p) = Third(WordShare(p))
    BY <2>3 DEF HybridScore, Third
  <2> QED BY <2>1, <2>2, <2>4 DEF HitPoints
<1>3. CASE FromVector(h, byVector, byWords)
  <2>1. PICK i \in 1..Len(byVector) :
          /\ h.point = byVector[i].point
          /\ \/ /\ \A j \in 1..Len(byWords) : byWords[j].point.id # h.point.id
                /\ h.score = Clamp(byVector[i].score)
             \/ \E j \in 1..Len(byWords) :
                  /\ byWords[j].point.id = h.point.id
                  /\ h.score = Mixed(Clamp(byVector[i].score), byWords[j].score)
    BY <1>3 DEF FromVector
  <2>2. InNearest(p) /\ byVector[i].score = 100 * p.vector
    BY <1>1, <2>1 DEF InNearest
  <2>3. CASE \A j \in 1..Len(byWords) : byWords[j].point.id # h.point.id
    <3>1. ~InWords(p)
      BY <1>1, <2>3 DEF InWords
    <3>2. HybridScore(p) = Clamp(100 * p.vector)
      BY <2>2, <3>1 DEF HybridScore
    <3> QED BY <2>1, <2>2, <2>3, <3>2 DEF HitPoints
  <2>4. CASE \E j \in 1..Len(byWords) : byWords[j].point.id = h.point.id
    <3>1. PICK j \in 1..Len(byWords) :
            /\ byWords[j].point.id = h.point.id
            /\ h.score = Mixed(Clamp(byVector[i].score), byWords[j].score)
      BY <2>1, <2>4
    <3>2. InWords(p) /\ WordShare(p) = byWords[j].score
      BY <3>1, SharesIs DEF HitsInv
    <3>3. HybridScore(p) = Mixed(Clamp(100 * p.vector), WordShare(p))
      BY <2>2, <3>2 DEF HybridScore, Mixed
    <3> QED BY <2>2, <3>1, <3>2, <3>3 DEF HitPoints
  <2> QED BY <2>3, <2>4
<1> QED BY <1>2, <1>3

\* A boosted hit scores what its point is worth.
LEMMA BoostedIsWorth ==
  ASSUME NEW h, h \in HitsOn(ToSet(points)), h.score = HybridScore(h.point)
  PROVE  Boosted(h).score = Worth(h.point) /\ Boosted(h).point = h.point
BY BoostedSound DEF Worth

\* LeftOutForBetter follows from the invariant: the hit of the text is kept, is dropped
\* as short or low, or stands behind top others.
LEMMA LeftOut ==
  ASSUME IInv
  PROVE  LeftOutForBetter
<1> SUFFICES ASSUME step = "done", ~reranked, NEW p \in HitPoints
             PROVE  \/ \E i \in DOMAIN found :
                         found[i].point.key = p.key /\ found[i].score >= Worth(p)
                    \/ conf.validation /\ (~p.long \/ Worth(p) < Threshold)
                    \/ Cardinality(KeysOf({q \in HitPoints : Worth(q) >= Worth(p)}) \ {p.key})
                         >= conf.top
  BY DEF LeftOutForBetter
<1> DEFINE T == ToSet(points)
           m == Merge(byVector, byWords)
           s == Prioritize(m)
           R == KeysOf({q \in HitPoints : Worth(q) >= Worth(p)}) \ {p.key}
<1>1. /\ byVector \in Seq(HitsOn(T)) /\ byWords \in Seq(HitsOn(T))
      /\ HitsInv /\ points \in Collections /\ conf \in Settings
      /\ found = Validate(AtMost(conf.top, s))
  BY DEF IInv, HitsInv, SearchInv, Result
<1>2. /\ IsFiniteSet(T) /\ conf.top \in Nat
      /\ \A q, r \in T : q.key = r.key => q.long = r.long
      /\ \A q, r \in T : q.id = r.id => q = r
  BY <1>1, PointsSound, LimitsSound
<1>3. p \in T /\ (InNearest(p) \/ InWords(p))
  BY DEF HitPoints
<1> HIDE DEF T
<1>4. m \in Seq(HitsOn(T)) /\ Merges(m, byVector, byWords)
  BY <1>1, MergeSound
<1> HIDE DEF m
<1>5. s \in Seq(HitsOn(T)) /\ Presents(s, m)
  BY <1>4, PrioritizeSound
<1> HIDE DEF s
<1>6. found \in Seq(HitsOn(T)) /\ Passes(found, s)
  BY <1>1, <1>2, <1>5, ValidateSound DEF Presents
<1>7. ASSUME NEW k \in 1..Len(m)
      PROVE  /\ m[k] \in HitsOn(T) /\ m[k].point \in HitPoints /\ m[k].point \in T
             /\ Boosted(m[k]).score = Worth(m[k].point) /\ Boosted(m[k]).point = m[k].point
             /\ Worth(m[k].point) \in Int
  <2>1. m[k] \in HitsOn(T) /\ m[k].point \in T
    <3>1. m[k] \in HitsOn(T)
      BY <1>4
    <3> QED BY <3>1, HitSound
  <2>2. FromVector(m[k], byVector, byWords) \/ FromWords(m[k], byVector, byWords)
    BY <1>4 DEF Merges
  <2>3. m[k].point \in HitPoints /\ m[k].score = HybridScore(m[k].point)
    BY <1>1, <2>1, <2>2, MergedIsHybrid DEF T
  <2>4. Boosted(m[k]).score = Worth(m[k].point) /\ Boosted(m[k]).point = m[k].point
    BY <2>1, <2>3, BoostedIsWorth DEF T
  <2>5. Boosted(m[k]) \in HitsOn(T)
    BY <2>1, BoostedSound
  <2>6. Boosted(m[k]).score \in Int
    BY <2>5, HitSound
  <2> QED BY <2>1, <2>3, <2>4, <2>6
<1>8. \E k \in 1..Len(m) : m[k].point = p
  <2>1. /\ DOMAIN byVector = 1..Len(byVector) /\ DOMAIN byWords = 1..Len(byWords)
        /\ \A i \in 1..Len(byVector) : byVector[i] \in HitsOn(T)
        /\ \A i \in 1..Len(byWords) : byWords[i] \in HitsOn(T)
    BY <1>1
  <2>2. /\ \A i \in 1..Len(byVector) : byVector[i].point \in T
        /\ \A i \in 1..Len(byWords) : byWords[i].point \in T
    BY <2>1, HitSound
  <2>3. ASSUME NEW i \in 1..Len(byVector), byVector[i].point.id = p.id
        PROVE  \E k \in 1..Len(m) : m[k].point = p
    <3>1. byVector[i].point = p
      BY <1>2, <1>3, <2>2, <2>3
    <3>2. PICK k \in 1..Len(m) : m[k].point = byVector[i].point
      BY <1>4 DEF Merges
    <3> QED BY <3>1, <3>2
  <2>4. ASSUME NEW j \in 1..Len(byWords), byWords[j].point.id = p.id
        PROVE  \E k \in 1..Len(m) : m[k].point = p
    <3>1. byWords[j].point = p
      BY <1>2, <1>3, <2>2, <2>4
    <3>2. CASE \E k \in 1..Len(m) : m[k].point = byWords[j].point
      BY <3>1, <3>2
    <3>3. CASE \E i \in 1..Len(byVector) : byVector[i].point.id = byWords[j].point.id
      BY <2>3, <2>4, <3>3
    <3> QED BY <1>4, <3>2, <3>3 DEF Merges
  <2> QED BY <1>3, <2>1, <2>3, <2>4 DEF InNearest, InWords
<1>9. PICK k \in 1..Len(m) : m[k].point = p
  BY <1>8
<1>10. /\ Boosted(m[k]).score = Worth(p) /\ Worth(p) \in Int
  BY <1>7, <1>9
<1>11. PICK l \in 1..Len(s) : s[l].point.key = p.key /\ s[l].score >= Worth(p)
  BY <1>5, <1>9, <1>10 DEF Presents
<1>12. \A i \in 1..Len(s) : s[i] \in HitsOn(T) /\ s[i].point \in T /\ s[i].score \in Int
  <2>1. \A i \in 1..Len(s) : s[i] \in HitsOn(T)
    BY <1>5
  <2> QED BY <2>1, HitSound
<1>13. s[l].point.long = p.long
  BY <1>2, <1>3, <1>11, <1>12
<1>16. l \in Int /\ conf.top \in Int
  BY <1>2, <1>5
<1>14. CASE l <= conf.top
  <2>1. CASE \E i \in 1..Len(found) : found[i] = s[l]
    <3>1. PICK i \in 1..Len(found) : found[i] = s[l]
      BY <2>1
    <3>2. i \in DOMAIN found /\ found[i].point.key = p.key /\ found[i].score >= Worth(p)
      BY <1>6, <1>11, <3>1
    <3> QED BY <3>2
  <2>2. CASE ~ \E i \in 1..Len(found) : found[i] = s[l]
    <3>1. conf.validation /\ (~s[l].point.long \/ ~(s[l].score >= Threshold))
      BY <1>6, <1>14, <2>2 DEF Passes
    <3>2. ~(s[l].score >= Threshold) => Worth(p) < Threshold
      BY <1>10, <1>11, <1>12 DEF Threshold
    <3> QED BY <1>13, <3>1, <3>2
  <2> QED BY <2>1, <2>2
<1>15. CASE conf.top < l
  <2>1. l \in Nat /\ l <= Len(s) /\ Len(s) \in Nat
    BY <1>5
  <2>2. ASSUME NEW i \in 1..conf.top PROVE i \in 1..Len(s) /\ i < l
    BY <1>2, <1>15, <2>1
  <2>3. ASSUME NEW i \in 1..conf.top PROVE s[i].point.key \in R
    <3>6. i \in 1..Len(s) /\ i < l /\ i # l
      BY <1>16, <2>2
    <3>7. s[i].point.key # s[l].point.key
      BY <1>5, <3>6 DEF Presents, DistinctKeys
    <3>8. s[i].score >= s[l].score
      BY <1>5, <3>6 DEF Presents, Falling
    <3>1. s[i].score >= s[l].score /\ s[i].point.key # s[l].point.key
      BY <3>7, <3>8
    <3>2. PICK j \in 1..Len(m) : s[i] = Boosted(m[j])
      BY <1>5, <2>2 DEF Presents
    <3>3. s[i].point = m[j].point /\ s[i].score = Worth(s[i].point) /\ s[i].point \in HitPoints
      BY <1>7, <3>2
    <3>4. Worth(s[i].point) >= Worth(p)
      BY <1>10, <1>11, <1>12, <2>2, <3>1, <3>3
    <3>5. s[i].point.key # p.key
      BY <1>11, <3>1
    <3> QED BY <3>3, <3>4, <3>5 DEF KeysOf
  <2>4. ASSUME NEW i \in 1..conf.top, NEW j \in 1..conf.top, i < j
        PROVE  s[i].point.key # s[j].point.key
    <3>1. i \in 1..Len(s) /\ j \in 1..Len(s) /\ i # j
      BY <1>2, <2>2, <2>4
    <3> QED BY <1>5, <3>1 DEF Presents, DistinctKeys
  <2>5. IsFiniteSet(R) /\ Cardinality(R) \in Nat
    <3> DEFINE H == {q \in HitPoints : Worth(q) >= Worth(p)}
               keyOf == [q \in H |-> q.key]
    <3>1. H \in SUBSET T
      BY DEF HitPoints, T
    <3>2. IsFiniteSet(H)
      BY <1>2, <3>1, FS_Subset
    <3>3. keyOf \in Surjection(H, KeysOf(H))
      BY DEF Surjection, KeysOf
    <3>4. IsFiniteSet(KeysOf(H))
      <4> HIDE DEF keyOf, H
      <4> QED BY <3>2, <3>3, FS_Surjection
    <3>5. R \in SUBSET KeysOf(H)
      OBVIOUS
    <3>6. IsFiniteSet(R)
      BY <3>4, <3>5, FS_Subset
    <3> QED BY <3>6, FS_CardinalityType
  <2> DEFINE g == [i \in 1..conf.top |-> s[i].point.key]
  <2>6. /\ \A i \in 1..conf.top : g[i] \in R
        /\ \A i, j \in 1..conf.top : i < j => g[i] # g[j]
    BY <2>3, <2>4
  <2> HIDE DEF g, R
  <2>7. Cardinality(R) >= conf.top
    BY <1>2, <2>5, <2>6, Enumerated
  <2> QED BY <2>7 DEF R
<1> QED BY <1>14, <1>15, <1>16

-----------------------------------------------------------------------------
\* DistinctBestFirst follows from the invariant.
LEMMA Distinct ==
  ASSUME IInv
  PROVE  DistinctBestFirst
<1> DEFINE T == ToSet(points)
           n == Len(found)
<1>1. /\ found \in Seq(HitsOn(T)) /\ byVector \in Seq(HitsOn(T)) /\ byWords \in Seq(HitsOn(T))
      /\ n <= conf.top /\ DistinctKeys(found) /\ Falling(found)
  BY DEF IInv, FoundInv, HitsInv
<1> HIDE DEF T
<1>2. TypeOK
  <2>1. ASSUME NEW hits \in Seq(HitsOn(T)), NEW i \in DOMAIN hits
        PROVE  hits[i].score \in Scores
    <3>1. hits[i] \in HitsOn(T)
      OBVIOUS
    <3> QED BY <3>1 DEF HitsOn
  <2>2. \A hits \in {byVector, byWords, found} :
          \A i \in DOMAIN hits : hits[i].score \in Scores
    BY <1>1, <2>1
  <2>4. /\ points \in Collections /\ conf \in Settings
        /\ step \in {"vector", "words", "rank", "done", "raised"} /\ level \in 1..3
        /\ swallowed \subseteq {"vector", "words"} /\ reranked \in BOOLEAN
    BY DEF IInv
  <2> QED BY <2>2, <2>4 DEF TypeOK
<1>3. n \in Nat /\ DOMAIN found = 1..n
  BY <1>1
<1>4. {h.point.key : h \in ToSet(found)} = {found[k].point.key : k \in 1..n}
  BY <1>3 DEF ToSet
<1> DEFINE g == [k \in 1..n |-> found[k].point.key]
<1>5. \A k, l \in 1..n : k # l => g[k] # g[l]
  BY <1>1 DEF DistinctKeys
<1>6. {found[k].point.key : k \in 1..n} = {g[k] : k \in 1..n}
  OBVIOUS
<1> HIDE DEF g, n
<1>7. Cardinality({g[k] : k \in 1..n}) = n
  BY <1>3, <1>5, Counted
<1>8. Cardinality({h.point.key : h \in ToSet(found)}) = n
  BY <1>4, <1>6, <1>7
<1>9. \A i, j \in DOMAIN found : i < j => found[i].score >= found[j].score
  BY <1>1, <1>3 DEF Falling, n
<1> QED BY <1>1, <1>2, <1>8, <1>9 DEF DistinctBestFirst, n

\* With the filter n, or a narrower one, only what n lets through is found.
LEMMA FoundInPool ==
  ASSUME points \in Collections, conf \in Settings, NEW n \in 1..2, NEW l \in 1..n,
         NEW i \in DOMAIN Outcome(l)
  PROVE  Outcome(l)[i].point \in Pool(n)
<1> DEFINE P == Pool(n)
           m == Merge(Nearest(l), WordsOf(l))
           s == Prioritize(m)
<1>1. Pool(l) \subseteq P
  BY DEF Pool, Matches
<1>2. Nearest(l) \in Seq(HitsOn(Pool(l))) /\ WordsOf(l) \in Seq(HitsOn(Pool(l)))
  BY NearestSound, WordsOfSound
<1>3. Outcome(l) = Validate(AtMost(conf.top, s))
  BY DEF Outcome, Result
<1> HIDE DEF P
<1>4. m \in Seq(HitsOn(Pool(l)))
  BY <1>2, MergeSound
<1> HIDE DEF m
<1>5. s \in Seq(HitsOn(Pool(l))) /\ Presents(s, m)
  BY <1>4, PrioritizeSound
<1> HIDE DEF s
<1>6. Outcome(l) \in Seq(HitsOn(Pool(l)))
  BY <1>3, <1>5, ValidateSound, LimitsSound DEF Presents
<1>7. Outcome(l)[i] \in HitsOn(Pool(l))
  BY <1>6
<1>8. Outcome(l)[i].point \in Pool(l)
  BY <1>7, HitSound
<1> QED BY <1>1, <1>8 DEF P

\* WidensOnlyForWant follows from the invariant: what a filter does not let through
\* comes from a wider one, so the filter left nothing.
LEMMA Widens ==
  ASSUME IInv
  PROVE  WidensOnlyForWant
<1> SUFFICES ASSUME Trusted
             PROVE  OthersForWant(Rules) /\ (conf.domain => OthersForWant(OwnRules))
  BY DEF WidensOnlyForWant
<1>1. /\ points \in Collections /\ conf \in Settings /\ conf.validation /\ level \in 1..3
      /\ byVector = Nearest(level) /\ byWords = WordsOf(level)
      /\ found = Result(byVector, byWords)
      /\ \A n \in 1..2 : level > n => Outcome(n) = <<>>
  BY DEF Trusted, IInv, SearchInv, LevelInv, Untroubled
<1>2. found = Outcome(level)
  BY <1>1 DEF Outcome
<1>3. ASSUME NEW n \in 1..2 PROVE OthersForWant(Pool(n))
  <2> SUFFICES ASSUME NEW i \in DOMAIN found, found[i].point \notin Pool(n),
                      NEW p \in Pool(n) \cap Usable
               PROVE  Crowded(p, Pool(n))
    BY DEF OthersForWant
  <2>1. ~(level \in 1..n)
    BY <1>1, <1>2, FoundInPool
  <2>2. Outcome(n) = <<>>
    BY <1>1, <2>1
  <2> QED BY <1>1, <2>2, EmptyMeansCrowded DEF Usable
<1>4. Rules = Pool(2) /\ (conf.domain => OwnRules = Pool(1))
  BY DEF Rules, OwnRules, Pool, Matches
<1> QED BY <1>3, <1>4

-----------------------------------------------------------------------------
\* What a search comes to depends on the points and the settings only.
LEMMA Kept ==
  ASSUME UNCHANGED <<points, conf>>, NEW n, NEW a, NEW b
  PROVE  /\ Nearest(n)' = Nearest(n) /\ WordsOf(n)' = WordsOf(n)
         /\ Result(a, b)' = Result(a, b) /\ Outcome(n)' = Outcome(n)
<1>1. Nearest(n)' = Nearest(n)
  BY DEF Nearest, Matching, Matches
<1>2. WordsOf(n)' = WordsOf(n)
  BY DEF WordsOf, BestByWords, Matching, Matches
<1>3. \A h : Boosted(h)' = Boosted(h)
  BY DEF Boosted
<1>4. \A h : Prioritize(h)' = Prioritize(h)
  BY <1>3 DEF Prioritize
<1>5. \A h : Validate(h)' = Validate(h)
  BY DEF Validate
<1>6. \A c, d : Result(c, d)' = Result(c, d)
  BY <1>4, <1>5 DEF Result
<1>7. Outcome(n)' = Outcome(n)
  BY <1>1, <1>2, <1>6 DEF Outcome
<1> QED BY <1>1, <1>2, <1>6, <1>7

\* Without a domain the first two filters are the same.
LEMMA SameFilter ==
  ASSUME ~conf.domain
  PROVE  Outcome(2) = Outcome(1)
<1>1. \A p : Matches(p, 2) <=> Matches(p, 1)
  BY DEF Matches
<1>2. Matching(2) = Matching(1)
  BY <1>1 DEF Matching
<1>3. Nearest(2) = Nearest(1)
  BY <1>2, Zenon DEF Nearest
<1> DEFINE best(all) == AtMost(conf.topWords, Ranked(all, [i \in DOMAIN all |-> all[i].words]))
           hits(some) == Picked(some, {i \in DOMAIN some : some[i].words > 0})
           scored(some, first) ==
             [i \in DOMAIN some |-> Hit(some[i], (10000 * some[i].words) \div first.words)]
<1>4. \A n \in 1..2 :
        BestByWords(n) = scored(hits(best(Matching(n))), best(Matching(n))[1])
  BY DEF BestByWords
<1> HIDE DEF best, hits, scored
<1>5. BestByWords(2) = BestByWords(1)
  BY <1>2, <1>4
<1> QED BY <1>3, <1>5 DEF Outcome, WordsOf

\* Nothing has been searched.
LEMMA InitInv == Init => IInv
<1> SUFFICES ASSUME Init PROVE IInv
  OBVIOUS
<1>1. /\ points \in Collections /\ conf \in Settings /\ step = "vector" /\ level = 1
      /\ byVector = <<>> /\ byWords = <<>> /\ found = <<>> /\ swallowed = {} /\ reranked = FALSE
  BY DEF Init
<1>2. FoundInv
  <2>1. conf.top \in Nat
    BY <1>1, LimitsSound
  <2> QED BY <1>1, <2>1 DEF FoundInv, DistinctKeys, Falling
<1>3. HitsInv
  BY <1>1 DEF HitsInv, DistinctIds
<1>4. SearchInv /\ LevelInv
  BY <1>1 DEF SearchInv, LevelInv
<1>5. /\ step \in {"vector", "words", "rank", "done", "raised"} /\ level \in 1..3
      /\ swallowed \subseteq {"vector", "words"} /\ reranked \in BOOLEAN
  <2>1. step \in {"vector", "words", "rank", "done", "raised"}
    BY <1>1
  <2>2. level \in 1..3
    BY <1>1
  <2>3. swallowed \subseteq {"vector", "words"}
    BY <1>1
  <2>4. reranked \in BOOLEAN
    BY <1>1
  <2> QED BY <2>1, <2>2, <2>3, <2>4
<1> QED BY <1>1, <1>2, <1>3, <1>4, <1>5, Zenon DEF IInv

\* Every step keeps the invariant.
LEMMA StepInv == IInv /\ [Next]_vars => IInv'
<1> SUFFICES ASSUME IInv, [Next]_vars PROVE IInv'
  OBVIOUS
<1>1. /\ points \in Collections /\ conf \in Settings
      /\ step \in {"vector", "words", "rank", "done", "raised"} /\ level \in 1..3
      /\ swallowed \subseteq {"vector", "words"} /\ reranked \in BOOLEAN
      /\ FoundInv /\ HitsInv /\ SearchInv /\ LevelInv
  BY DEF IInv
<1>2. ASSUME SearchVector PROVE IInv'
  <2>1. /\ step = "vector" /\ byWords' = <<>>
        /\ UNCHANGED <<points, conf, level, found, reranked>>
        /\ \/ /\ byVector' = Nearest(level) /\ UNCHANGED swallowed
              /\ step' = IF conf.hybrid THEN "words" ELSE "rank"
           \/ /\ conf.hybrid /\ byVector' = <<>> /\ step' = "words"
              /\ swallowed' = swallowed \cup {"vector"}
           \/ step' = "raised" /\ UNCHANGED <<byVector, swallowed>>
    BY <1>2 DEF SearchVector
  <2>2. FoundInv'
    BY <1>1, <2>1 DEF FoundInv, DistinctKeys, Falling
  <2>3. HitsInv'
    <3>1. Nearest(level) \in Seq(HitsOn(ToSet(points)))
      BY <1>1, NearestSound, PoolSound, HitsWiden
    <3>2. /\ DistinctIds(Nearest(level))
          /\ \A i \in 1..Len(Nearest(level)) :
               Nearest(level)[i].score = 100 * Nearest(level)[i].point.vector
      BY <1>1, NearestSound DEF IsNearest
    <3>3. CASE byVector' = Nearest(level)
      <4>1. /\ byVector' \in Seq(HitsOn(ToSet(points))) /\ DistinctIds(byVector')
            /\ \A i \in 1..Len(byVector') : byVector'[i].score = 100 * byVector'[i].point.vector
        BY <3>1, <3>2, <3>3
      <4>2. byWords' \in Seq(HitsOn(ToSet(points))) /\ DistinctIds(byWords')
        BY <2>1 DEF DistinctIds
      <4> QED BY <2>1, <4>1, <4>2 DEF HitsInv, DistinctIds
    <3>4. CASE byVector' = byVector
      BY <1>1, <2>1, <3>4 DEF HitsInv, DistinctIds
    <3>5. CASE byVector' = <<>>
      BY <2>1, <3>5 DEF HitsInv, DistinctIds
    <3> QED BY <2>1, <3>3, <3>4, <3>5
  <2>4. SearchInv'
    BY <1>1, <2>1 DEF SearchInv
  <2>5. LevelInv'
    <3>1. Nearest(level)' = Nearest(level) /\ \A n : Outcome(n)' = Outcome(n)
      BY <2>1, Kept
    <3>2. WordsOf(level)' = WordsOf(level)
      BY <2>1, Kept
    <3>3. step' = "rank" => WordsOf(level) = <<>>
      BY <2>1 DEF WordsOf
    <3> QED BY <1>1, <2>1, <3>1, <3>2, <3>3 DEF LevelInv, Untroubled
  <2>6. /\ step' \in {"vector", "words", "rank", "done", "raised"}
        /\ swallowed' \subseteq {"vector", "words"}
    BY <1>1, <2>1
  <2> QED BY <1>1, <2>1, <2>2, <2>3, <2>4, <2>5, <2>6 DEF IInv
<1>3. ASSUME SearchWords PROVE IInv'
  <2>1. /\ step = "words" /\ step' = "rank"
        /\ UNCHANGED <<points, conf, level, byVector, found, reranked>>
        /\ \/ byWords' = BestByWords(level) /\ UNCHANGED swallowed
           \/ byWords' = <<>> /\ swallowed' = swallowed \cup {"words"}
    BY <1>3 DEF SearchWords
  <2>2. FoundInv'
    BY <1>1, <2>1 DEF FoundInv, DistinctKeys, Falling
  <2>3. HitsInv'
    <3>1. BestByWords(level) \in Seq(HitsOn(ToSet(points)))
      BY <1>1, BestByWordsSound, PoolSound, HitsWiden
    <3>2. DistinctIds(BestByWords(level))
      BY <1>1, BestByWordsSound
    <3>3. byWords' \in Seq(HitsOn(ToSet(points))) /\ DistinctIds(byWords')
      <4>1. CASE byWords' = BestByWords(level)
        BY <3>1, <3>2, <4>1
      <4>2. CASE byWords' = <<>>
        BY <4>2 DEF DistinctIds
      <4> QED BY <2>1, <4>1, <4>2
    <3> QED BY <1>1, <2>1, <3>3 DEF HitsInv, DistinctIds
  <2>4. SearchInv'
    BY <1>1, <2>1 DEF SearchInv
  <2>5. LevelInv'
    <3>1. Nearest(level)' = Nearest(level) /\ \A n : Outcome(n)' = Outcome(n)
      BY <2>1, Kept
    <3>2. WordsOf(level)' = WordsOf(level)
      BY <2>1, Kept
    <3>3. conf.hybrid /\ WordsOf(level) = BestByWords(level)
      BY <1>1, <2>1 DEF LevelInv, WordsOf
    <3> QED BY <1>1, <2>1, <3>1, <3>2, <3>3 DEF LevelInv, Untroubled
  <2>6. swallowed' \subseteq {"vector", "words"}
    BY <1>1, <2>1
  <2> QED BY <1>1, <2>1, <2>2, <2>3, <2>4, <2>5, <2>6 DEF IInv
<1>4. ASSUME RankAndValidate PROVE IInv'
  <2> DEFINE T == ToSet(points)
             m == Prioritize(Merge(byVector, byWords))
  <2>1. PICK works \in IF conf.reranking THEN BOOLEAN ELSE {FALSE} :
          /\ reranked' = works
          /\ found' = Validate(AtMost(conf.top, IF works THEN Rerank(m) ELSE m))
    BY <1>4 DEF RankAndValidate
  <2>2. /\ step = "rank" /\ UNCHANGED <<points, conf, byVector, byWords, swallowed>>
        /\ \/ found' = <<>> /\ level < Widest /\ level' = Wider /\ step' = "vector"
           \/ ~(found' = <<>> /\ level < Widest) /\ step' = "done" /\ level' = level
    BY <1>4 DEF RankAndValidate
  <2>3. works \in BOOLEAN /\ (works => conf.reranking)
    BY <2>1
  <2>4. m \in Seq(HitsOn(T)) /\ DistinctKeys(m) /\ Falling(m)
    <3>1. byVector \in Seq(HitsOn(T)) /\ byWords \in Seq(HitsOn(T))
      BY <1>1 DEF HitsInv
    <3> HIDE DEF T
    <3>2. Merge(byVector, byWords) \in Seq(HitsOn(T))
      BY <3>1, MergeSound
    <3> QED BY <3>2, PrioritizeSound DEF Presents
  <2>5. Rerank(m) \in Seq(HitsOn(T)) /\ DistinctKeys(Rerank(m)) /\ Falling(Rerank(m))
    <3>1. \A p \in T : p.rank \in 0..100
      BY <1>1, CollectionsAssumption
    <3> HIDE DEF T, m
    <3> QED BY <2>4, <3>1, RerankSound
  <2> DEFINE r == IF works THEN Rerank(m) ELSE m
  <2>6. r \in Seq(HitsOn(T)) /\ DistinctKeys(r) /\ Falling(r)
    BY <2>4, <2>5
  <2> HIDE DEF r, T
  <2>7. found' \in Seq(HitsOn(T)) /\ Passes(found', r)
    BY <1>1, <2>1, <2>6, ValidateSound, LimitsSound DEF r
  <2>8. FoundInv'
    BY <2>2, <2>7 DEF FoundInv, Passes, DistinctKeys, Falling, T
  <2>9. HitsInv'
    BY <1>1, <2>2 DEF HitsInv, DistinctIds
  <2>10. ~works => found' = Result(byVector, byWords)
    BY <2>1 DEF Result
  <2>11. SearchInv'
    <3>1. Result(byVector, byWords)' = Result(byVector, byWords)
      BY <2>2, Kept
    <3>2. step' = "done" => found' # <<>> \/ level' = Widest
      BY <1>1, <2>2 DEF Widest
    <3> QED BY <2>1, <2>2, <2>3, <2>10, <3>1, <3>2 DEF SearchInv
  <2>12. level' \in 1..3 /\ (step' = "vector" => level' > 1)
    BY <1>1, <2>2 DEF Wider, Widest
  <2>13. LevelInv'
    <3>1. \A n : Outcome(n)' = Outcome(n)
      BY <2>2, Kept
    <3>2. CASE step' = "done"
      <4>1. level' = level
        BY <2>2, <3>2
      <4>2. Nearest(level)' = Nearest(level) /\ WordsOf(level)' = WordsOf(level)
        BY <2>2, <4>1, Kept
      <4> QED BY <1>1, <2>2, <3>1, <3>2, <4>1, <4>2 DEF LevelInv, Untroubled
    <3>3. CASE step' = "vector"
      <4>1. found' = <<>>
        BY <2>2, <3>3
      <4>2. Untroubled => Outcome(level) = <<>>
        <5> SUFFICES ASSUME Untroubled PROVE Outcome(level) = <<>>
          OBVIOUS
        <5>1. byVector = Nearest(level) /\ byWords = WordsOf(level)
          BY <1>1, <2>2 DEF LevelInv
        <5>2. ~works
          BY <2>3 DEF Untroubled
        <5> QED BY <2>10, <4>1, <5>1, <5>2 DEF Outcome
      <4>3. ASSUME Untroubled, NEW n \in 1..2, level' > n PROVE Outcome(n) = <<>>
        <5>1. n < level \/ n = level \/ (level = 1 /\ n = 2 /\ ~conf.domain)
          BY <1>1, <2>2, <3>3, <4>3 DEF Wider, Widest
        <5>2. CASE n < level
          BY <1>1, <4>3, <5>2 DEF LevelInv
        <5>3. CASE n = level
          BY <4>2, <4>3, <5>3
        <5>4. CASE level = 1 /\ n = 2 /\ ~conf.domain
          BY <4>2, <4>3, <5>4, SameFilter
        <5> QED BY <5>1, <5>2, <5>3, <5>4
      <4> QED BY <2>2, <3>1, <3>3, <4>3 DEF LevelInv, Untroubled
    <3> QED BY <2>2, <3>2, <3>3
  <2> QED BY <1>1, <2>1, <2>2, <2>3, <2>8, <2>9, <2>11, <2>12, <2>13 DEF IInv
<1>5. ASSUME UNCHANGED vars PROVE IInv'
  <2>1. UNCHANGED <<points, conf, step, level, byVector, byWords, found, swallowed, reranked>>
    BY <1>5 DEF vars
  <2>2. /\ Nearest(level)' = Nearest(level) /\ \A n : Outcome(n)' = Outcome(n)
        /\ WordsOf(level)' = WordsOf(level)
        /\ Result(byVector, byWords)' = Result(byVector, byWords)
    BY <2>1, Kept
  <2>3. LevelInv'
    BY <1>1, <2>1, <2>2 DEF LevelInv, Untroubled
  <2>4. SearchInv'
    BY <1>1, <2>1, <2>2 DEF SearchInv
  <2>5. FoundInv'
    BY <1>1, <2>1 DEF FoundInv, DistinctKeys, Falling
  <2>6. HitsInv'
    BY <1>1, <2>1 DEF HitsInv, DistinctIds
  <2> QED BY <1>1, <2>1, <2>3, <2>4, <2>5, <2>6 DEF IInv
<1> QED BY <1>2, <1>3, <1>4, <1>5 DEF Next

\* The inductive invariant holds in every state.
LEMMA Invariant == Spec => []IInv
<1> QED BY InitInv, StepInv, PTL DEF Spec

(***************************************************************************)
(* retrieve_rules returns at most final_top_k rules, best first, no text   *)
(* twice, for any collection and whichever search or model failed.         *)
(***************************************************************************)
THEOREM RulesDistinctBestFirst == Spec => []DistinctBestFirst
<1>1. IInv => DistinctBestFirst
  BY Distinct
<1> QED BY Invariant, <1>1, PTL

(***************************************************************************)
(* Without the reranker, HybridRetriever.search leaves out a point that    *)
(* either search found only for its own text with a score as good, for     *)
(* being short or worth too little, or for final_top_k other texts worth   *)
(* as much, in any collection: nothing is lost between merging, boosting,  *)
(* dropping duplicates, sorting and cutting.                               *)
(***************************************************************************)
THEOREM PointsLeftOutForBetter == Spec => []LeftOutForBetter
<1>1. IInv => LeftOutForBetter
  BY LeftOut
<1> QED BY Invariant, <1>1, PTL

(***************************************************************************)
(* Unless a search failed, retrieve_rules uses a point from outside the    *)
(* audit's domain only when no usable rule of the domain was left standing *)
(* by those that took its places, and one that is no rule only when no     *)
(* usable rule at all was, for any number of points and any limits.        *)
(***************************************************************************)
THEOREM SearchWidensForWant == Spec => []WidensOnlyForWant
<1>1. IInv => WidensOnlyForWant
  BY Widens
<1> QED BY Invariant, <1>1, PTL
=============================================================================
