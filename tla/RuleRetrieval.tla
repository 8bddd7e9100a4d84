---------------------------- MODULE RuleRetrieval ----------------------------
(***************************************************************************)
(* Finding the rules an audit is judged by: RetrievalAgent.retrieve_rules  *)
(* over HybridRetriever.search.  A search asks Qdrant by vector and ranks  *)
(* all matching payloads by their words; the hits are merged, duplicates   *)
(* dropped, the best reranked, cut and validated.  When nothing is left    *)
(* the search is repeated with a wider filter, twice at most.              *)
(*                                                                         *)
(* A point of the rule collection is its id, the key under which equal     *)
(* texts are recognised (its id, if it has no word), whether it is of the  *)
(* audit's domain (own) and a compliance rule (rule), whether its text has *)
(* the 20 words validation asks for (long), and what the models make of it *)
(* for this query: its cosine (vector, in hundredths), its BM25 score with *)
(* the overlap (words) and the cross-encoder's score (rank).  Merged       *)
(* scores are in ten-thousandths.                                          *)
(***************************************************************************)
EXTENDS Ranking

CONSTANTS
  Collections,  \* what the rule collection may hold, in the order it is read
  Settings      \* the settings of the process and whether the audit has a domain

\* Ids are unique, and equal texts are equally long.  A negative limit, which a
\* slice would count from the end of the list, is left out.
ASSUME CollectionsAssumption ==
  \A c \in Collections :
    /\ c \in Seq(ToSet(c))
    /\ \A p \in ToSet(c) : p.vector \in -100..100 /\ p.words \in Int /\ p.rank \in 0..100
    /\ \A i, j \in DOMAIN c : c[i].id = c[j].id => i = j
    /\ \A p, q \in ToSet(c) : p.key = q.key => p.long = q.long
ASSUME SettingsAssumption ==
  \A s \in Settings : {s.top, s.topVector, s.topWords} \subseteq Nat

VARIABLES
  points,       \* the points of the collection
  conf,         \* the settings
  step,         \* where the search under way is
  level,        \* the filter it uses: 1 the narrowest, 3 none
  byVector,     \* vector_results
  byWords,      \* bm25_results
  found,        \* the results returned
  swallowed,    \* searches that failed and counted as no hits, at any level
  reranked      \* whether the cross-encoder scored the last search

vars == <<points, conf, step, level, byVector, byWords, found, swallowed, reranked>>

\* What a score is cut to.
Scores == 0..10000

TypeOK ==
  /\ points \in Collections
  /\ conf \in Settings
  /\ step \in {"vector", "words", "rank", "done", "raised"}
  /\ level \in 1..3
  /\ \A hits \in {byVector, byWords, found} :
       \A i \in DOMAIN hits : hits[i].score \in Scores
  /\ swallowed \subseteq {"vector", "words"}
  /\ reranked \in BOOLEAN

Init ==
  /\ points \in Collections
  /\ conf \in Settings
  /\ step = "vector"
  /\ level = 1
  /\ byVector = <<>> /\ byWords = <<>> /\ found = <<>>
  /\ swallowed = {}
  /\ reranked = FALSE

-----------------------------------------------------------------------------
Threshold == 2000                   \* semantic_similarity_threshold

\* A hit is a point with the score it has so far.
Hit(point, score) == [point |-> point, score |-> score]
Scored(hits) == Ranked(hits, [i \in DOMAIN hits |-> hits[i].score])

\* The positions of the first hit of each text.
Texts(hits) == FirstOfKey([i \in DOMAIN hits |-> hits[i].point.key])

(* Mutants: plausible bugs in the definitions below. *)

\* Matches, asking for the audit's domain only together with none.
MatchesAnyDomain(point, n) == n < 3 => point.rule

\* Wider, giving up both filters at once.
WidenAtOnce == 3

\* DropDuplicates, by id; and keeping the first of equal texts.
DropSamePoint(hits) ==
  Picked(hits, FirstOfKey([i \in DOMAIN hits |-> hits[i].point.id]))
DropLater(hits) == Picked(hits, Texts(hits))

-----------------------------------------------------------------------------
\* The filters: the audit's domain, if it has one, and source_type; then
\* source_type; then none.
Matches(point, n) ==
  /\ n < 3 => point.rule
  /\ n = 1 /\ conf.domain => point.own

Matching(n) == Picked(points, {i \in DOMAIN points : Matches(points[i], n)})

\* VectorRetriever.search: Qdrant's nearest, of which the far ones are dropped.
Nearest(n) ==
  LET all == Matching(n)
      near == AtMost(conf.topVector, Ranked(all, [i \in DOMAIN all |-> all[i].vector]))
      close == Picked(near, {i \in DOMAIN near : 100 * near[i].vector >= Threshold})
  IN [i \in DOMAIN close |-> Hit(close[i], 100 * close[i].vector)]

\* BM25Retriever.search: the best by words, relative to the best of them; a
\* score of nothing or less is no hit.
BestByWords(n) ==
  LET all == Matching(n)
      best == AtMost(conf.topWords, Ranked(all, [i \in DOMAIN all |-> all[i].words]))
      hits == Picked(best, {i \in DOMAIN best : best[i].words > 0})
  IN [i \in DOMAIN hits |-> Hit(hits[i], (10000 * hits[i].words) \div best[1].words)]

(***************************************************************************)
(* _merge_results: a vector hit keeps its cosine unless the words found it *)
(* too; the words alone count for 35 percent.                              *)
(***************************************************************************)
Clamp(score) == AtLeast(0, NoMoreThan(10000, score))

Merge(vectorHits, wordHits) ==
  LET SameId(hits, p) == {i \in DOMAIN hits : hits[i].point.id = p.id}
      Vector(h) == LET clamped == Clamp(h.score) IN
        Hit(h.point, IF SameId(wordHits, h.point) = {} THEN clamped
                     ELSE LET i == CHOOSE i \in SameId(wordHits, h.point) : TRUE
                          IN (65 * clamped + 35 * wordHits[i].score) \div 100)
      alone == Picked(wordHits, {i \in DOMAIN wordHits :
                                   SameId(vectorHits, wordHits[i].point) = {}})
  IN Scored([i \in DOMAIN vectorHits |-> Vector(vectorHits[i])]
            \o [i \in DOMAIN alone |-> Hit(alone[i].point, (35 * alone[i].score) \div 100)])

\* _prioritize_results: 8 percent for the domain, 2 for a compliance rule.
Boosted(hit) ==
  LET own == Clamp(hit.score + (IF conf.domain /\ hit.point.own THEN 800 ELSE 0))
  IN Hit(hit.point, Clamp(own + (IF hit.point.rule THEN 200 ELSE 0)))

\* Of equal texts the higher score stays, in the place of the first.
DropDuplicates(hits) ==
  LET Same(i) == {j \in DOMAIN hits : hits[j].point.key = hits[i].point.key}
      best == [i \in DOMAIN hits |->
                 hits[Order(Same(i), [j \in Same(i) |-> hits[j].score])[1]]]
  IN Picked(best, Texts(hits))

Prioritize(hits) == Scored(DropDuplicates([i \in DOMAIN hits |-> Boosted(hits[i])]))

\* Reranker.rerank replaces every score, when the model works.
Rerank(hits) == Scored([i \in DOMAIN hits |-> Hit(hits[i].point, 100 * hits[i].point.rank)])

\* ContextValidator.validate, after the cut.
Validate(hits) ==
  IF conf.validation
  THEN Picked(hits, {i \in DOMAIN hits : hits[i].point.long /\ hits[i].score >= Threshold})
  ELSE hits

-----------------------------------------------------------------------------
\* A failed search is logged and counts as no hits; without hybrid retrieval it
\* is the audit's failure.
SearchVector ==
  /\ step = "vector"
  /\ \/ /\ byVector' = Nearest(level)
        /\ step' = IF conf.hybrid THEN "words" ELSE "rank"
        /\ UNCHANGED swallowed
     \/ /\ conf.hybrid
        /\ byVector' = <<>>
        /\ step' = "words"
        /\ swallowed' = swallowed \cup {"vector"}
     \/ /\ ~conf.hybrid
        /\ step' = "raised"
        /\ UNCHANGED <<byVector, swallowed>>
  /\ byWords' = <<>>
  /\ UNCHANGED <<points, conf, level, found, reranked>>

SearchWords ==
  /\ step = "words"
  /\ step' = "rank"
  /\ \/ byWords' = BestByWords(level) /\ UNCHANGED swallowed
     \/ byWords' = <<>> /\ swallowed' = swallowed \cup {"words"}
  /\ UNCHANGED <<points, conf, level, byVector, found, reranked>>

Widest == 3

\* The filter tried next: an audit without a domain has no second.
Wider == IF conf.domain THEN level + 1 ELSE Widest

RankAndValidate ==
  /\ step = "rank"
  /\ \E works \in IF conf.reranking THEN BOOLEAN ELSE {FALSE} :
       LET merged == Prioritize(Merge(byVector, byWords))
       IN /\ reranked' = works
          /\ found' = Validate(AtMost(conf.top, IF works THEN Rerank(merged) ELSE merged))
  /\ IF found' = <<>> /\ level < Widest
     THEN level' = Wider /\ step' = "vector"
     ELSE step' = "done" /\ UNCHANGED level
  /\ UNCHANGED <<points, conf, byVector, byWords, swallowed>>

Next == SearchVector \/ SearchWords \/ RankAndValidate

Spec == Init /\ [][Next]_vars
-----------------------------------------------------------------------------
(* Properties *)

KeysOf(some) == {p.key : p \in some}

(***************************************************************************)
(* The rules an audit is judged by are at most final_top_k, best first,    *)
(* and no text among them twice, whatever the two searches returned.       *)
(***************************************************************************)
DistinctBestFirst ==
  /\ TypeOK
  /\ Len(found) <= conf.top
  /\ Cardinality({h.point.key : h \in ToSet(found)}) = Len(found)
  /\ \A i, j \in DOMAIN found : i < j => found[i].score >= found[j].score

(***************************************************************************)
(* What a text is worth, said of the points and not of the lists: the best *)
(* score of a point that holds it, as each search would score it on its    *)
(* own.  Reference for the search that leaves its last result.             *)
(***************************************************************************)
InNearest(p) == \E i \in DOMAIN byVector : byVector[i].point.id = p.id
WordShare(p) == LET i == CHOOSE i \in DOMAIN byWords : byWords[i].point.id = p.id
                IN byWords[i].score
InWords(p) == \E i \in DOMAIN byWords : byWords[i].point.id = p.id

HybridScore(p) ==
  CASE InNearest(p) /\ InWords(p) -> (65 * Clamp(100 * p.vector) + 35 * WordShare(p)) \div 100
    [] InNearest(p) /\ ~InWords(p) -> Clamp(100 * p.vector)
    [] OTHER -> (35 * WordShare(p)) \div 100

Worth(p) ==
  NoMoreThan(10000, HybridScore(p) + (IF p.own /\ conf.domain THEN 800 ELSE 0)
                                   + (IF p.rule THEN 200 ELSE 0))

HitPoints == {p \in ToSet(points) : InNearest(p) \/ InWords(p)}

(***************************************************************************)
(* Without the reranker, a point either search found is left out only when *)
(* its text is there with a score as good, or is short or worth too        *)
(* little, or final_top_k other texts are worth as much.                   *)
(***************************************************************************)
LeftOutForBetter ==
  step = "done" /\ ~reranked =>
    \A p \in HitPoints :
      \/ \E i \in DOMAIN found : found[i].point.key = p.key /\ found[i].score >= Worth(p)
      \/ conf.validation /\ (~p.long \/ Worth(p) < Threshold)
      \/ Cardinality(KeysOf({q \in HitPoints : Worth(q) >= Worth(p)}) \ {p.key}) >= conf.top

\* Points near enough to be used though their words count for nothing, and those
\* that may take their places: nearer ones, and short ones, which are cut last.
Usable == {p \in ToSet(points) : p.long /\ 65 * p.vector >= Threshold}
Rivals(p, pool) == {q \in pool \ {p} : ~q.long \/ q.vector >= p.vector}
Crowded(p, pool) == Cardinality(Rivals(p, pool)) >= NoMoreThan(conf.top, conf.topVector)

Trusted == step = "done" /\ swallowed = {} /\ ~conf.reranking /\ conf.validation

(***************************************************************************)
(* The search widens only when the narrower filter left nothing: a point   *)
(* that is no rule is used only when no rule could be, and one from        *)
(* outside the audit's domain only when no rule of the domain could be:    *)
(* none near enough is left standing by nearer and by short ones, which    *)
(* are dropped only after they took a place.  Searches that fail are left  *)
(* out of this: they count as no hits, and widen too.                      *)
(***************************************************************************)
Rules == {p \in ToSet(points) : p.rule}
OwnRules == {p \in Rules : p.own}

OthersForWant(preferred) ==
  (\E i \in DOMAIN found : found[i].point \notin preferred) =>
     \A p \in preferred \cap Usable : Crowded(p, preferred)

WidensOnlyForWant ==
  Trusted => OthersForWant(Rules) /\ (conf.domain => OthersForWant(OwnRules))
=============================================================================
