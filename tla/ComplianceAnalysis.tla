------------------------- MODULE ComplianceAnalysis -------------------------
(***************************************************************************)
(* ComplianceAgent.evaluate_analysis: up to three attempts to have the     *)
(* model judge a document against the retrieved rules, each with a smaller *)
(* profile than the last, over the client of LLMClient; then the reply     *)
(* that came back becomes findings, or the failure an exception.           *)
(*                                                                         *)
(* A rule or a chunk is its position in what retrieval or the chunker      *)
(* returned, the key under which equal texts are recognised, its terms and *)
(* its length; scores are in hundredths.  One evaluation is one behaviour: *)
(* evaluations share nothing but the settings.                             *)
(***************************************************************************)
EXTENDS LLMClient, Ranking

CONSTANTS
  RuleLists,    \* what retrieval may return, in its order
  Documents     \* the chunk sequences of the documents

\* Limits may be any integers; a list of nothing and a document without chunks
\* are lists too.
ASSUME SettingsAssumption ==
  \A s \in Settings : {s.attempts, s.maxRules, s.maxChunks, s.tokens, s.context} \subseteq Int
ASSUME RuleListsAssumption ==
  \A list \in RuleLists : /\ list \in Seq(ToSet(list))
                          /\ \A r \in ToSet(list) : r.score \in Int /\ r.size \in Nat
ASSUME DocumentsAssumption ==
  \A doc \in Documents : /\ doc \in Seq(ToSet(doc))
                         /\ \A c \in ToSet(doc) : IsFiniteSet(c.terms) /\ c.size \in Nat
ASSUME RepliesAssumption ==
  \A reply \in Replies : /\ reply.form = "object"
                         /\ reply.items \in Seq(ToSet(reply.items))
                         /\ \A item \in ToSet(reply.items) : IsFiniteSet(item.terms)

VARIABLES
  given,        \* rule_results
  chunks,       \* document_chunks
  step,         \* where evaluate_analysis is
  attempt,      \* the attempt under way
  prompt,       \* what the last prompt put before the model
  result        \* the ComplianceAnalysis returned

agentVars == <<given, chunks, step, attempt, prompt, result>>
vars == <<clientVars, agentVars>>

Risks == {"LOW", "MEDIUM", "HIGH"}
Failures == {"fallback_generated", "llm_failed", "failed"}

\* The citation of an item that states none.
Uncited == 0

NoPrompt == [rules |-> <<>>, chunks |-> <<>>, tokens |-> 0, text |-> 0, budget |-> 0]
NoResult == [findings |-> <<>>, status |-> "", llm |-> "none", error |-> FALSE,
             attempts |-> 0]
Skipped == [NoResult EXCEPT !.llm = "skipped"]

TypeOK ==
  /\ ClientTypeOK
  /\ given \in RuleLists
  /\ chunks \in Documents
  /\ step \in {"prompt", "call", "done", "raised"}
  /\ attempt \in 1..3
  /\ prompt.tokens \in 0..900 /\ prompt.text \in Nat /\ prompt.budget \in Nat
  /\ \A f \in ToSet(result.findings) : f.risk \in Risks
  /\ result.attempts \in 0..3

Init ==
  /\ ClientInit
  /\ given \in RuleLists
  /\ chunks \in Documents
  /\ step = "prompt"
  /\ attempt = 1
  /\ prompt = NoPrompt
  /\ result = NoResult

-----------------------------------------------------------------------------
RuleLimit == AtLeast(1, conf.maxRules)

\* How well a rule matches an item, in units of 1/2000: 1 for its citation, 1 for
\* all of its terms, and a twentieth of the rule's score.
MatchScore(item, rule) ==
  (IF item.cites # Uncited /\ rule.id = item.cites THEN 2000 ELSE 0)
  + (2000 * Cardinality(item.terms \cap rule.terms))
      \div AtLeast(1, Cardinality(item.terms))
  + rule.score

(* Mutants: plausible bugs in the definitions below. *)

\* SelectRules, letting equal texts in again.
SelectRulesRepeating(rules, candidates) ==
  LET considered == AtMost(AtLeast(candidates, conf.maxRules), rules)
  IN AtMost(RuleLimit, Ranked(considered, [i \in DOMAIN considered |-> considered[i].score]))

\* Share, forgetting to divide.
ShareOfOne(total, n) == AtLeast(350, total)

\* MatchRule, among everything retrieval returned.
MatchAnyRule(item, rules) ==
  Heaviest(given, [i \in DOMAIN given |-> MatchScore(item, given[i])])

\* Citation, of the first rule that was retrieved.
CitationOfFirst(item, rule) == IF item.cites # Uncited THEN item.cites ELSE given[1].id

\* LlmStatus, trusting that a reply is a success.
LlmStatusGenerated(reply) == "generated"

\* RetryOrRaise, settling for an empty analysis.
RetryOrSettle ==
  /\ step = "call"
  /\ call.state = "raised"
  /\ step' = "done"
  /\ result' = [NoResult EXCEPT !.llm = "generated"]
  /\ UNCHANGED <<clientVars, given, chunks, attempt, prompt>>
-----------------------------------------------------------------------------
(***************************************************************************)
(* The profiles: how much of everything an attempt may put in its prompt   *)
(* and ask for.  LLM_RETRY_ATTEMPTS keeps one to three of them.            *)
(***************************************************************************)
Profiles ==
  LET tokens == AtLeast(1, NoMoreThan(conf.tokens, 2000))
      context == AtLeast(1500, conf.context)
      all == << [candidates |-> 5, chunks |-> NoMoreThan(conf.maxChunks, 5),
                 tokens |-> tokens, context |-> context, text |-> 1500],
                [candidates |-> 3, chunks |-> NoMoreThan(conf.maxChunks, 4),
                 tokens |-> NoMoreThan(tokens, 1200),
                 context |-> NoMoreThan(context, 8000), text |-> 1100],
                [candidates |-> 2, chunks |-> NoMoreThan(conf.maxChunks, 3),
                 tokens |-> NoMoreThan(tokens, 800),
                 context |-> NoMoreThan(context, 5000), text |-> 800] >>
  IN AtMost(AtLeast(1, NoMoreThan(conf.attempts, 3)), all)

\* A rule of the audit's own domain, and one that is a compliance rule, rank
\* above their scores.
Priority(rule) ==
  rule.score + (IF rule.sameDomain THEN 8 ELSE 0) + (IF rule.isRule THEN 2 ELSE 0)

SelectRules(rules, candidates) ==
  LET considered == AtMost(AtLeast(candidates, conf.maxRules), rules)
      priorities == [i \in DOMAIN considered |-> Priority(considered[i])]
  IN FirstDistinct(Ranked(considered, priorities), RuleLimit)

\* The excerpt of a document that has no chunks.
Excerpt == [id |-> 0, key |-> "excerpt", terms |-> {}, size |-> 5000]

Overlap(chunk, rules) ==
  Cardinality(chunk.terms \cap UNION {rule.terms : rule \in ToSet(rules)})

SelectChunks(doc, rules, limit) ==
  IF doc = <<>> THEN <<Excerpt>>
  ELSE FirstDistinct(Ranked(doc, [i \in DOMAIN doc |-> Overlap(doc[i], rules)]),
                     AtLeast(1, limit))

(***************************************************************************)
(* The prompt: each text cut to the profile's length and then to its share *)
(* of a budget, and the budget cut up to three times while the prompt is   *)
(* more than 2500 characters longer.  conf.frame is what a prompt holds    *)
(* besides the texts.                                                      *)
(***************************************************************************)
Share(total, n) == AtLeast(350, total \div n)

CutText(items, limit, total) ==
  Total([i \in DOMAIN items |->
           NoMoreThan(NoMoreThan(items[i].size, limit), Share(total, Len(items)))])

TextLength(profile, rules, excerpts, budget) ==
  LET forDocument == (budget * 58) \div 100
  IN CutText(excerpts, profile.text, forDocument)
     + CutText(rules, profile.text, budget - forDocument)

Budget(profile, rules, excerpts) ==
  LET Cut(b) == IF conf.frame + TextLength(profile, rules, excerpts, b) <= b + 2500
                THEN b ELSE AtLeast(1500, (b * 72) \div 100)
  IN Cut(Cut(Cut(AtLeast(1500, profile.context))))

Prompt(profile) ==
  LET rules == SelectRules(given, profile.candidates)
      excerpts == SelectChunks(chunks, rules, profile.chunks)
      budget == Budget(profile, rules, excerpts)
  IN [rules |-> rules, chunks |-> excerpts, budget |-> budget,
      tokens |-> AtLeast(1, NoMoreThan(profile.tokens, 900)),
      text |-> TextLength(profile, rules, excerpts, budget)]
-----------------------------------------------------------------------------
(***************************************************************************)
(* The findings of a reply: an item that is no object, or names no rule,   *)
(* is dropped; the others are linked to the rule of this attempt that      *)
(* matches best, by the citation and the terms of the item.  The evidence  *)
(* is the linked rule's; the citation shown is the item's own, as the      *)
(* model gave it, and the linked rule's only where it gave none.           *)
(***************************************************************************)
NormalizeSeverity(severity) == IF severity \in Risks THEN severity ELSE "MEDIUM"

MatchRule(item, rules) == Heaviest(rules, [i \in DOMAIN rules |-> MatchScore(item, rules[i])])

Citation(item, rule) == IF item.cites # Uncited THEN item.cites ELSE rule.id

Usable(item) == item.object /\ item.named

UsableItems(reply) ==
  Picked(reply.items, {i \in DOMAIN reply.items : Usable(reply.items[i])})

Findings(reply, rules) ==
  LET items == UsableItems(reply)
  IN [i \in DOMAIN items |->
        [rule |-> MatchRule(items[i], rules).id,
         citation |-> Citation(items[i], MatchRule(items[i], rules)),
         risk |-> NormalizeSeverity(items[i].severity)]]

\* What the reply says of itself: its status, else its metadata's.
LlmStatus(reply) ==
  IF reply.status # "" THEN reply.status
  ELSE IF reply.metaStatus # "" THEN reply.metaStatus ELSE "generated"

\* What evaluate_analysis returns for a reply to the attempt under way.
Analysis(reply) ==
  [findings |-> Findings(reply, prompt.rules), status |-> reply.status,
   llm |-> LlmStatus(reply), error |-> reply.error, attempts |-> attempt]

\* int() of a count the reply states in its metadata.
CountsReadable(reply) == reply.count # "text"

\* _assert_analysis_finalizable, of the workflow that gets the result.
Finalizable(analysis) ==
  analysis.findings # <<>> \/ ~(analysis.llm \in Failures \/ analysis.error)
-----------------------------------------------------------------------------
\* Without rules no model is asked.
SkipAnalysis ==
  /\ step = "prompt"
  /\ given = <<>>
  /\ step' = "done"
  /\ result' = Skipped
  /\ UNCHANGED <<clientVars, given, chunks, attempt, prompt>>

BeginAttempt ==
  /\ step = "prompt"
  /\ given # <<>>
  /\ step' = "call"
  /\ prompt' = Prompt(Profiles[attempt])
  /\ Generate(attempt)
  /\ UNCHANGED <<conf, requests, waited, given, chunks, attempt, result>>

\* Any exception of the client, retryable or not, is worth another attempt.
RetryOrRaise ==
  /\ step = "call"
  /\ call.state = "raised"
  /\ IF attempt < Len(Profiles)
     THEN /\ attempt' = attempt + 1
          /\ step' = "prompt"
          /\ waited' = Count(waited, NoMoreThan(15, 4 * attempt), WaitCap)
     ELSE step' = "raised" /\ UNCHANGED <<attempt, waited>>
  /\ UNCHANGED <<conf, call, requests, debris, given, chunks, prompt, result>>

\* Past the attempts nothing is retried: metadata that cannot be read fails
\* the evaluation although the model has answered.
Conclude ==
  LET reply == call.answer IN
  /\ step = "call"
  /\ call.state = "returned"
  /\ \/ /\ CountsReadable(reply)
        /\ step' = "done"
        /\ result' = Analysis(reply)
     \/ /\ ~CountsReadable(reply)
        /\ step' = "raised"
        /\ UNCHANGED result
  /\ UNCHANGED <<clientVars, given, chunks, attempt, prompt>>

Ask == ClientStep /\ UNCHANGED agentVars

Next == SkipAnalysis \/ BeginAttempt \/ Ask \/ RetryOrRaise \/ Conclude

Spec == Init /\ [][Next]_vars
-----------------------------------------------------------------------------
(***************************************************************************)
(* What the model is shown is the best there is.  Of the rules, as many as *)
(* the limit allows and the candidates have texts for, no text twice, and  *)
(* none left out that ranks above one put in, unless its text is there     *)
(* already.  Of the chunks, those closest to the rules shown with them:    *)
(* none with more of their terms is left out for one with fewer.           *)
(***************************************************************************)
Candidates == AtMost(AtLeast(Profiles[attempt].candidates, conf.maxRules), given)

BestRulesShown ==
  LET shown == ToSet(prompt.rules)
  IN /\ shown # {} /\ Len(prompt.rules) <= RuleLimit
     /\ \A i, j \in DOMAIN prompt.rules :
          i # j => prompt.rules[i].key = Blank \/ prompt.rules[i].key # prompt.rules[j].key
     /\ step = "call" =>
          \A r \in ToSet(Candidates) \ shown :
            \/ \E s \in shown : s.key = r.key /\ s.key # Blank /\ Priority(s) >= Priority(r)
            \/ /\ Len(prompt.rules) = RuleLimit
               /\ \A s \in shown : Priority(s) >= Priority(r)

ClosestChunksShown ==
  \A c \in ToSet(chunks) \ ToSet(prompt.chunks) :
    \A s \in ToSet(prompt.chunks) :
      \/ Overlap(s, prompt.rules) >= Overlap(c, prompt.rules)
      \/ \E t \in ToSet(prompt.chunks) : t.key = c.key /\ t.key # Blank

BestContextShown ==
  prompt # NoPrompt => BestRulesShown /\ (chunks # <<>> => ClosestChunksShown)

(***************************************************************************)
(* A finding has a known severity and is linked to a rule that stood in    *)
(* the prompt the answered attempt sent, whichever attempt that was and    *)
(* whatever the model cites: the evidence filed with it is that rule's.    *)
(* The citation shown is that rule's too, or one that the model stated,    *)
(* which nothing checks (compliance_agent.py:498).                         *)
(***************************************************************************)
FindingsLinkShownRules ==
  /\ TypeOK
  /\ step = "done" =>
       \A f \in ToSet(result.findings) :
         /\ f.rule \in {r.id : r \in ToSet(prompt.rules)}
         /\ \/ f.citation = f.rule
            \/ \E item \in ToSet(UsableItems(call.answer)) :
                 item.cites = f.citation /\ item.cites # Uncited

(***************************************************************************)
(* An analysis is returned for a readable reply of the attempt it names,   *)
(* or because there were no rules; never because the attempts ran out.     *)
(***************************************************************************)
AnalysisHasReply ==
  step = "done" =>
    \/ given = <<>> /\ result = Skipped /\ requests = 0
    \/ /\ call.state = "returned"
       /\ result.attempts = call.attempt

(***************************************************************************)
(* A reply that reports its own failure, in its status or, without one, in *)
(* its metadata, and has no usable finding is never finalised: it would    *)
(* pass for a clean document (audit_workflow.py:616).                      *)
(***************************************************************************)
ReportedFailureBlocks ==
  step = "done" /\ given # <<>> =>
    LET reply == call.answer
        failed == \/ reply.status \in Failures
                  \/ reply.status = "" /\ reply.metaStatus \in Failures
                  \/ reply.error
    IN failed /\ UsableItems(reply) = <<>> => ~Finalizable(result)

(***************************************************************************)
(* One evaluation is bounded: two requests an attempt and six in all, and  *)
(* no more than 31.2 seconds of waiting, with any settings.  The fallback  *)
(* model is asked by the third attempt, after the primary has failed two.  *)
(***************************************************************************)
EffortBounded ==
  /\ requests <= 2 * attempt
  /\ waited <= 312
  /\ call.model = "fallback" => attempt = 3 /\ conf.gemini /\ conf.lite

(***************************************************************************)
(* The texts of a prompt keep to the context budget, 58 percent of it for  *)
(* the document and the rest for the rules, but for the 350 characters     *)
(* that every chunk and every rule is left.                                *)
(***************************************************************************)
TextWithinBudget ==
  LET forDocument == (prompt.budget * 58) \div 100
  IN prompt.text <= AtLeast(forDocument, 350 * Len(prompt.chunks))
                    + AtLeast(prompt.budget - forDocument, 350 * Len(prompt.rules))
=============================================================================
