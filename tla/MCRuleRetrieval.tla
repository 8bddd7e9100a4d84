--------------------------- MODULE MCRuleRetrieval ---------------------------
(* Instances of RuleRetrieval for TLC. *)
EXTENDS RuleRetrieval

P(id, key, own, rule, long, vector, words, rank) ==
  [id |-> id, key |-> key, own |-> own, rule |-> rule, long |-> long,
   vector |-> vector, words |-> words, rank |-> rank]

\* Rules of the audit's domain: near; near but short; far; found by words only;
\* short and not so near.  A neighbour's rule of the same text as the first, and
\* another; a text of the domain that is no rule, and one of neither.
Pool == {P(1, "A", TRUE,  TRUE,  TRUE,  76,  5, 90), P(2, "B", TRUE,  TRUE,  FALSE, 90, 9, 95),
         P(3, "C", TRUE,  TRUE,  TRUE,  31,  0, 10), P(4, "D", TRUE,  TRUE,  TRUE,  15, 7,  5),
         P(5, "E", TRUE,  TRUE,  FALSE, 40,  1, 30), P(6, "A", FALSE, TRUE,  TRUE,  80, 4, 90),
         P(7, "F", FALSE, TRUE,  TRUE,  25,  2, 40), P(8, "G", TRUE,  FALSE, TRUE,  99, 3, 60),
         P(9, "H", FALSE, FALSE, TRUE, -10, -1,  0)}

UpToThree ==
  {s \in UNION {[1..n -> Pool] : n \in 0..3} : \A i, j \in DOMAIN s : i # j => s[i] # s[j]}

SomeSettings ==
  {[domain |-> domain, hybrid |-> hybrid, reranking |-> mode = "reranked",
    validation |-> mode # "unvalidated", top |-> top, topVector |-> 2, topWords |-> 2] :
     domain, hybrid \in BOOLEAN, mode \in {"plain", "reranked", "unvalidated"}, top \in {1, 2}}
=============================================================================
