----------------------- MODULE MCComplianceAnalysis -----------------------
(* Instances of ComplianceAnalysis for TLC. *)
EXTENDS ComplianceAnalysis

Rule(id, key, score, sameDomain, isRule, terms) ==
  [id |-> id, key |-> key, score |-> score, sameDomain |-> sameDomain,
   isRule |-> isRule, terms |-> terms, size |-> 700 * id]

\* Two rules with one text, two without a word, and domains and types that
\* reorder them.
RulePool ==
  << Rule(1, "x", 60, FALSE, FALSE, {1}), Rule(2, "y", 55, TRUE, TRUE, {2}),
     Rule(3, "x", 50, TRUE, TRUE, {1}), Rule(4, Blank, 46, FALSE, TRUE, {3}),
     Rule(5, Blank, 40, TRUE, FALSE, {2, 3}) >>

EveryRuleList == {SelectSeq(RulePool, LAMBDA r : r.id \in S) : S \in SUBSET (1..5)}

Chunk(id, key, terms) == [id |-> id, key |-> key, terms |-> terms, size |-> 300 * id]

ChunkPool ==
  << Chunk(1, "a", {}), Chunk(2, "b", {1}), Chunk(3, "a", {}), Chunk(4, "c", {1, 2}),
     Chunk(5, "c", {1, 2}), Chunk(6, "d", {2, 3}), Chunk(7, "e", {3}) >>

LongAndShort == {<<>>, SubSeq(ChunkPool, 4, 5), ChunkPool}

Item(named, cites, terms, severity) ==
  [object |-> TRUE, named |-> named, cites |-> cites, terms |-> terms,
   severity |-> severity]

Good == [form |-> "object", keys |-> RequiredKeys, bad |-> {}, status |-> "",
         metaStatus |-> "", error |-> FALSE, count |-> "number", items |-> <<>>]

\* Of a rule that may not be shown, of a rule that there is none of, and uncited.
Items == { <<>>, <<Item(TRUE, 3, {1, 3}, "HIGH")>>,
           <<Item(FALSE, 1, {}, "LOW"), [Item(TRUE, 1, {}, "LOW") EXCEPT !.object = FALSE]>>,
           <<Item(TRUE, 9, {}, "critical"), Item(TRUE, Uncited, {2, 3}, "LOW")>> }

\* Readable replies of every status and counting, and unreadable ones.
EveryReply ==
  { [Good EXCEPT !.items = i, !.status = s, !.metaStatus = m] :
      i \in Items, s \in {"", "failed", "ok"}, m \in {"", "llm_failed"} }
  \cup { [Good EXCEPT !.items = i, !.error = TRUE] : i \in Items }
  \cup { [Good EXCEPT !.count = "text"] }
  \cup { [Good EXCEPT !.keys = @ \ {k}] : k \in RequiredKeys }
  \cup { [Good EXCEPT !.bad = {k}] : k \in RequiredKeys }

Defaults == [gemini |-> TRUE, configured |-> TRUE, lite |-> TRUE, fallback |-> TRUE,
             diskMayFail |-> FALSE, attempts |-> 3, maxRules |-> 3, maxChunks |-> 5,
             tokens |-> 900, context |-> 7000, frame |-> 2000]

\* The defaults; another provider and a full disk; no key; limits of none; one
\* model only, a small context under a large frame; more than is ever asked for.
SomeSettings ==
  { Defaults,
    [Defaults EXCEPT !.gemini = FALSE, !.diskMayFail = TRUE, !.maxRules = 2],
    [Defaults EXCEPT !.configured = FALSE],
    [Defaults EXCEPT !.fallback = FALSE, !.attempts = 0, !.maxRules = 0, !.maxChunks = 0,
                     !.tokens = 0],
    [Defaults EXCEPT !.lite = FALSE, !.attempts = 7, !.context = 3000, !.frame = 4500,
                     !.maxRules = 5],
    [Defaults EXCEPT !.attempts = 2, !.tokens = 5000, !.context = 20000, !.maxRules = 9] }
=============================================================================
