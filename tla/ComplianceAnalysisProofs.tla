---------------------- MODULE ComplianceAnalysisProofs ----------------------
(***************************************************************************)
(* What an evaluation of the compliance agent promises, for all settings,  *)
(* rules, documents and replies: what the prompt holds (from what          *)
(* RankingProofs says of selection and sums), what effort it takes, and    *)
(* what is made of the reply.                                              *)
(***************************************************************************)
EXTENDS ComplianceAnalysis, RankingProofs

\* There are one to three attempts, with natural budgets, whatever the settings.
LEMMA ProfilesSound ==
  ASSUME conf \in Settings
  PROVE  /\ Len(Profiles) \in Nat /\ 1 <= Len(Profiles) /\ Len(Profiles) <= 3
         /\ \A a \in 1..Len(Profiles) :
              /\ Profiles[a].candidates \in 2..5
              /\ Profiles[a].chunks \in Int
              /\ Profiles[a].tokens \in Nat
              /\ Profiles[a].text \in Nat
              /\ Profiles[a].context \in Int
<1> DEFINE tokens == AtLeast(1, NoMoreThan(conf.tokens, 2000))
           context == AtLeast(1500, conf.context)
           all == << [candidates |-> 5, chunks |-> NoMoreThan(conf.maxChunks, 5),
                      tokens |-> tokens, context |-> context, text |-> 1500],
                     [candidates |-> 3, chunks |-> NoMoreThan(conf.maxChunks, 4),
                      tokens |-> NoMoreThan(tokens, 1200),
                      context |-> NoMoreThan(context, 8000), text |-> 1100],
                     [candidates |-> 2, chunks |-> NoMoreThan(conf.maxChunks, 3),
                      tokens |-> NoMoreThan(tokens, 800),
                      context |-> NoMoreThan(context, 5000), text |-> 800] >>
           T == [candidates : 2..5, chunks : Int, tokens : Nat, context : Int, text : Nat]
           n == AtLeast(1, NoMoreThan(conf.attempts, 3))
<1>1. n \in 1..3 /\ n \in Nat
  BY SettingsAssumption DEF AtLeast, NoMoreThan
<1>2. all \in Seq(T) /\ Len(all) = 3
  BY SettingsAssumption DEF AtLeast, NoMoreThan
<1>3. Profiles = AtMost(n, all)
  BY DEF Profiles
<1> HIDE DEF all, n, T
<1>4. /\ Profiles \in Seq(T)
      /\ Len(Profiles) = NoMoreThan(n, Len(all))
  BY <1>1, <1>2, <1>3, AtMostSeq
<1>5. Len(Profiles) \in Nat /\ 1 <= Len(Profiles) /\ Len(Profiles) <= 3
  BY <1>1, <1>2, <1>4 DEF NoMoreThan
<1>6. \A a \in 1..Len(Profiles) : Profiles[a] \in T
  BY <1>4
<1> QED BY <1>5, <1>6 DEF T


\* What the selection of rules promises: BestRulesShown, of a list picked from all.
BestOf(picked, all, limit) ==
  /\ picked # <<>> /\ Len(picked) <= limit
  /\ \A k, l \in DOMAIN picked : k # l => picked[k].key = Blank \/ picked[k].key # picked[l].key
  /\ \A r \in ToSet(all) \ ToSet(picked) :
       \/ \E s \in ToSet(picked) :
            s.key = r.key /\ s.key # Blank /\ Priority(s) >= Priority(r)
       \/ /\ Len(picked) = limit
          /\ \A s \in ToSet(picked) : Priority(s) >= Priority(r)

\* The rules put into a prompt are the best of those considered.
LEMMA SelectRulesBest ==
  ASSUME conf \in Settings, given \in RuleLists, given # <<>>, NEW n \in Nat, n >= 1
  PROVE  /\ SelectRules(given, n) \in Seq(ToSet(given))
         /\ BestOf(SelectRules(given, n), AtMost(AtLeast(n, conf.maxRules), given), RuleLimit)
<1> DEFINE T == ToSet(given)
           m == AtLeast(n, conf.maxRules)
           all == AtMost(m, given)
           w == [i \in DOMAIN all |-> Priority(all[i])]
           picked == SelectRules(given, n)
<1>1. /\ given \in Seq(T)
      /\ \A r \in T : Priority(r) \in Int
      /\ m \in Nat /\ m >= 1
      /\ RuleLimit \in Nat /\ RuleLimit >= 1
  BY RuleListsAssumption, SettingsAssumption DEF AtLeast, RuleLimit, Priority
<1>2. picked = FirstDistinct(Ranked(all, w), RuleLimit)
  BY DEF SelectRules
<1> HIDE DEF T, m, picked
<1>3. all \in Seq(T) /\ Len(all) >= 1
  BY <1>1, AtMostSeq DEF NoMoreThan
<1> HIDE DEF all
<1>4. \A i \in 1..Len(all) : all[i] \in T /\ w[i] = Priority(all[i]) /\ w[i] \in Int
  BY <1>1, <1>3
<1> HIDE DEF w
<1>5. picked \in Seq(T) /\ \E src : TakesBest(picked, all, w, RuleLimit, src)
  BY <1>1, <1>2, <1>3, <1>4, BestDistinctSeq
<1>6. PICK src : TakesBest(picked, all, w, RuleLimit, src)
  BY <1>5
<1>7. picked # <<>>
  <2>1. 1 \in 1..Len(all)
    BY <1>3
  <2>2. Len(picked) # 0
    BY <2>1, <1>1, <1>5, <1>6 DEF TakesBest
  <2> QED BY <2>2
<1>8. ASSUME NEW k \in DOMAIN picked
      PROVE  /\ picked[k] = all[src[k]] /\ picked[k] \in ToSet(picked)
             /\ w[src[k]] = Priority(picked[k])
  BY <1>4, <1>6 DEF TakesBest, ToSet
<1>9. ASSUME NEW r \in ToSet(all) \ ToSet(picked)
      PROVE  \/ \E s \in ToSet(picked) :
                  s.key = r.key /\ s.key # Blank /\ Priority(s) >= Priority(r)
             \/ /\ Len(picked) = RuleLimit
                /\ \A s \in ToSet(picked) : Priority(s) >= Priority(r)
  <2>1. PICK j \in 1..Len(all) : r = all[j]
    BY <1>3 DEF ToSet
  <2>2. w[j] = Priority(r)
    BY <2>1, <1>4
  <2>3. ~ \E k \in DOMAIN picked : src[k] = j
    BY <2>1, <1>8
  <2>4. CASE \E k \in DOMAIN picked :
               picked[k].key = all[j].key /\ picked[k].key # Blank /\ w[src[k]] >= w[j]
    BY <2>1, <2>2, <2>4, <1>8
  <2>5. CASE Len(picked) = RuleLimit /\ \A k \in DOMAIN picked : w[src[k]] >= w[j]
    BY <2>2, <2>5, <1>8 DEF ToSet
  <2> QED BY <2>3, <2>4, <2>5, <1>6 DEF TakesBest
<1> QED BY <1>5, <1>6, <1>7, <1>9 DEF picked, all, m, T, TakesBest, BestOf

\* What the selection of chunks promises: ClosestChunksShown, of a list picked from doc.
ClosestOf(picked, doc, rules) ==
  \A c \in ToSet(doc) \ ToSet(picked) :
    \A s \in ToSet(picked) :
      \/ Overlap(s, rules) >= Overlap(c, rules)
      \/ \E t \in ToSet(picked) : t.key = c.key /\ t.key # Blank

\* The chunks put into a prompt are the closest to its rules.
LEMMA SelectChunksClosest ==
  ASSUME chunks \in Documents, NEW rules, NEW n \in Int
  PROVE  /\ \E T : /\ SelectChunks(chunks, rules, n) \in Seq(T)
                   /\ \A c \in T : c.size \in Nat
         /\ chunks # <<>> => ClosestOf(SelectChunks(chunks, rules, n), chunks, rules)
<1> DEFINE T == ToSet(chunks)
           w == [i \in DOMAIN chunks |-> Overlap(chunks[i], rules)]
           limit == AtLeast(1, n)
           picked == SelectChunks(chunks, rules, n)
<1>1. CASE chunks = <<>>
  <2>1. picked \in Seq({Excerpt}) /\ Excerpt.size \in Nat
    BY <1>1 DEF SelectChunks, Excerpt
  <2> QED BY <2>1, <1>1
<1>2. CASE chunks # <<>>
  <2>1. /\ chunks \in Seq(T)
        /\ \A c \in T : c.size \in Nat /\ IsFiniteSet(c.terms)
        /\ limit \in Nat
    BY DocumentsAssumption DEF AtLeast
  <2>2. picked = FirstDistinct(Ranked(chunks, w), limit)
    BY <1>2 DEF SelectChunks
  <2> HIDE DEF T, limit, picked
  <2>3. ASSUME NEW c \in T PROVE Overlap(c, rules) \in Int
    <3> DEFINE shared == c.terms \cap UNION {rule.terms : rule \in ToSet(rules)}
    <3>1. shared \in SUBSET c.terms /\ IsFiniteSet(c.terms)
      BY <2>1
    <3> HIDE DEF shared
    <3>2. Cardinality(shared) \in Nat
      BY <3>1, FS_Subset, FS_CardinalityType
    <3> QED BY <3>2 DEF Overlap, shared
  <2>4. \A i \in 1..Len(chunks) :
          chunks[i] \in T /\ w[i] = Overlap(chunks[i], rules) /\ w[i] \in Int
    BY <2>1, <2>3
  <2> HIDE DEF w
  <2>5. picked \in Seq(T) /\ \E src : TakesBest(picked, chunks, w, limit, src)
    BY <2>1, <2>2, <2>4, BestDistinctSeq
  <2>6. PICK src : TakesBest(picked, chunks, w, limit, src)
    BY <2>5
  <2>7. ASSUME NEW k \in DOMAIN picked
        PROVE  /\ picked[k] = chunks[src[k]] /\ picked[k] \in ToSet(picked)
               /\ w[src[k]] = Overlap(picked[k], rules)
    BY <2>4, <2>6 DEF TakesBest, ToSet
  <2>8. ClosestOf(picked, chunks, rules)
    <3>1. SUFFICES ASSUME NEW c \in ToSet(chunks) \ ToSet(picked), NEW s \in ToSet(picked)
                   PROVE  \/ Overlap(s, rules) >= Overlap(c, rules)
                          \/ \E t \in ToSet(picked) : t.key = c.key /\ t.key # Blank
      BY DEF ClosestOf
    <3>2. PICK j \in 1..Len(chunks) : c = chunks[j]
      BY <2>1 DEF ToSet
    <3>3. PICK k \in DOMAIN picked : s = picked[k]
      BY DEF ToSet
    <3>4. w[j] = Overlap(c, rules) /\ ~ \E l \in DOMAIN picked : src[l] = j
      BY <3>2, <2>4, <2>7
    <3> QED BY <3>2, <3>3, <3>4, <2>6, <2>7 DEF TakesBest
  <2> QED BY <2>1, <2>5, <2>8 DEF picked
<1> QED BY <1>1, <1>2

\* As many shares as there are items fit the total, or are 350 each.
LEMMA SharesFit ==
  ASSUME NEW n \in Nat, n >= 1, NEW total \in Int
  PROVE  n * Share(total, n) <= AtLeast(total, 350 * n) /\ Share(total, n) \in Nat
<1>1. total \div n \in Int /\ n * (total \div n) <= total
  OBVIOUS
<1> QED BY <1>1 DEF Share, AtLeast

\* What is left of the texts fits their part of the budget.
LEMMA CutTextFits ==
  ASSUME NEW T, \A x \in T : x.size \in Nat, NEW items \in Seq(T), NEW limit \in Nat,
         NEW total \in Nat
  PROVE  CutText(items, limit, total) \in Nat
         /\ CutText(items, limit, total) <= AtLeast(total, 350 * Len(items))
<1> DEFINE n == Len(items)
           share == Share(total, n)
           cut == [i \in DOMAIN items |-> NoMoreThan(NoMoreThan(items[i].size, limit), share)]
<1>1. CASE n = 0
  <2>1. cut \in Seq(Nat) /\ Len(cut) = 0 /\ \A i \in DOMAIN cut : cut[i] <= 0
    <3>1. DOMAIN items = {} /\ DOMAIN cut = 1..0
      BY <1>1
    <3> QED BY <3>1, SeqDef
  <2> HIDE DEF cut
  <2>2. Total(cut) \in Nat /\ Total(cut) <= Len(cut) * 0
    <3>1. 0 \in Nat
      OBVIOUS
    <3> QED BY <2>1, <3>1, TotalBounded
  <2> QED BY <1>1, <2>1, <2>2 DEF CutText, AtLeast, cut, share
<1>2. CASE n # 0
  <2>1. n \in Nat /\ n >= 1 /\ DOMAIN items = 1..n /\ total \in Int
    BY <1>2
  <2>2. share \in Nat /\ n * share <= AtLeast(total, 350 * n)
    BY <2>1, SharesFit
  <2> HIDE DEF share
  <2>3. \A i \in 1..n : cut[i] \in Nat /\ cut[i] <= share
    BY <2>1, <2>2 DEF NoMoreThan
  <2>4. cut \in Seq(Nat) /\ Len(cut) = n
    BY <2>1, <2>3, SeqDef
  <2> HIDE DEF cut
  <2>5. Total(cut) \in Nat /\ Total(cut) <= n * share
    <3>1. \A i \in DOMAIN cut : cut[i] <= share
      BY <2>3, <2>4
    <3>2. Total(cut) \in Nat /\ Total(cut) <= Len(cut) * share
      BY <2>2, <2>4, <3>1, TotalBounded
    <3> QED BY <2>4, <3>2
  <2>6. CutText(items, limit, total) = Total(cut)
    BY DEF CutText, cut, share
  <2>7. n * share \in Int /\ AtLeast(total, 350 * n) \in Int
    BY <2>1, <2>2 DEF AtLeast
  <2> QED BY <2>2, <2>5, <2>6, <2>7
<1> QED BY <1>1, <1>2

\* A budget is never negative, cut as often as it is.
LEMMA BudgetNatural ==
  ASSUME NEW profile, profile.context \in Int, NEW rules, NEW excerpts
  PROVE  Budget(profile, rules, excerpts) \in Nat
<1> DEFINE Cut(b) == IF conf.frame + TextLength(profile, rules, excerpts, b) <= b + 2500
                     THEN b ELSE AtLeast(1500, (b * 72) \div 100)
<1>1. ASSUME NEW b \in Nat PROVE Cut(b) \in Nat
  BY DEF AtLeast
<1>2. AtLeast(1500, profile.context) \in Nat
  BY DEF AtLeast
<1> HIDE DEF Cut
<1>3. Cut(Cut(Cut(AtLeast(1500, profile.context)))) \in Nat
  BY <1>1, <1>2
<1> QED BY <1>3 DEF Budget, Cut

\* A counter that stops at its bound.
LEMMA Counted ==
  ASSUME NEW cap \in Nat, NEW n \in 0..cap, NEW more \in Nat
  PROVE  Count(n, more, cap) \in 0..cap /\ Count(n, more, cap) <= n + more
BY DEF Count

\* The attempts follow from the settings, which stay.
LEMMA SettingsStay ==
  ASSUME conf' = conf
  PROVE  Profiles' = Profiles /\ RuleLimit' = RuleLimit
BY DEF Profiles, RuleLimit

-----------------------------------------------------------------------------
\* The attempts whose prompt was made.
Asked == IF step = "prompt" \/ given = <<>> THEN attempt - 1 ELSE attempt

\* What a prompt made for an attempt holds.
PromptSound(profile) ==
  /\ prompt.rules \in Seq(ToSet(given))
  /\ BestOf(prompt.rules, AtMost(AtLeast(profile.candidates, conf.maxRules), given), RuleLimit)
  /\ chunks # <<>> => ClosestOf(prompt.chunks, chunks, prompt.rules)
  /\ prompt.tokens \in 0..900 /\ prompt.text \in Nat /\ prompt.budget \in Nat
  /\ TextWithinBudget

\* The prompt is that of the last attempt that was asked.
PromptInv ==
  IF Asked = 0 THEN prompt = NoPrompt ELSE prompt # NoPrompt /\ PromptSound(Profiles[Asked])

\* The call under way is that of the attempt, and what it can have come to.
CallInv ==
  /\ call.attempt = Asked
  /\ call.state \in {"request", "parse"} => step = "call"
  /\ call.state = "idle" => Asked = 0
  /\ Asked = 0 => call = Idle /\ requests = 0
  /\ Asked # 0 /\ step = "prompt" => call.state = "raised"
  /\ Asked # 0 /\ step = "done" => call.state = "returned"
  /\ call.state = "request" => call.answer = NoAnswer
  /\ call.model = "fallback" => call.attempt = 3 /\ conf.gemini /\ conf.lite

\* Requests and waiting, counted against the attempts and the retry of the call under
\* way.
EffortInv ==
  /\ requests <= 2 * Asked
  /\ call.state = "request" =>
       requests <= IF call.retried THEN 2 * Asked - 1 ELSE 2 * Asked - 2
  /\ waited <= 27 * (attempt - 1) * attempt
               + (IF Asked = attempt /\ call.retried THEN 50 * attempt ELSE 0)

\* What a finding of a reply says: its risk, the rule it is linked to, its citation.
Linked(f, reply, rules) ==
  /\ f.risk \in Risks
  /\ f.rule \in {r.id : r \in ToSet(rules)}
  /\ \/ f.citation = f.rule
     \/ \E item \in ToSet(UsableItems(reply)) :
          item.cites = f.citation /\ item.cites # Uncited

\* What the result says of the reply it was made from.
ResultInv ==
  IF step # "done" THEN result = NoResult
  ELSE IF given = <<>> THEN result = Skipped
  ELSE /\ \A f \in ToSet(result.findings) : Linked(f, call.answer, prompt.rules)
       /\ UsableItems(call.answer) = <<>> => result.findings = <<>>
       /\ result.llm = LlmStatus(call.answer) /\ result.error = call.answer.error
       /\ result.attempts = attempt

\* The inductive invariant.
IInv ==
  /\ TypeOK
  /\ attempt \in 1..Len(Profiles)
  /\ given = <<>> => step \in {"prompt", "done"} /\ attempt = 1
  /\ PromptInv /\ CallInv /\ EffortInv /\ ResultInv
  /\ AnswersJudged

\* The prompt of an attempt is sound.
LEMMA PromptIsSound ==
  ASSUME conf \in Settings, given \in RuleLists, given # <<>>, chunks \in Documents,
         NEW a \in 1..Len(Profiles), prompt' = Prompt(Profiles[a]),
         UNCHANGED <<conf, given, chunks>>
  PROVE  prompt' # NoPrompt /\ PromptSound(Profiles[a])'
<1> DEFINE profile == Profiles[a]
           rules == SelectRules(given, profile.candidates)
           excerpts == SelectChunks(chunks, rules, profile.chunks)
           budget == Budget(profile, rules, excerpts)
           forDocument == (budget * 58) \div 100
           p == prompt'
<1>1. /\ profile.candidates \in Nat /\ profile.candidates >= 1
      /\ profile.chunks \in Int /\ profile.tokens \in Nat
      /\ profile.text \in Nat /\ profile.context \in Int
  BY ProfilesSound, SMTT(30)
<1>2. profile = Profiles[a] /\ Profiles' = Profiles /\ RuleLimit' = RuleLimit
  BY SettingsStay
<1>3. /\ p.rules = rules /\ p.chunks = excerpts /\ p.budget = budget
      /\ p.tokens = AtLeast(1, NoMoreThan(profile.tokens, 900))
      /\ p.text = TextLength(profile, rules, excerpts, budget)
  BY DEF Prompt
<1> HIDE DEF profile
<1>4. /\ rules \in Seq(ToSet(given))
      /\ BestOf(rules, AtMost(AtLeast(profile.candidates, conf.maxRules), given), RuleLimit)
  BY <1>1, SelectRulesBest
<1>5. /\ \E T : excerpts \in Seq(T) /\ \A c \in T : c.size \in Nat
      /\ chunks # <<>> => ClosestOf(excerpts, chunks, rules)
  BY <1>1, SelectChunksClosest
<1>6. budget \in Nat
  BY <1>1, BudgetNatural
<1> HIDE DEF rules, excerpts, budget
<1>7. forDocument \in Nat /\ budget - forDocument \in Nat
  BY <1>6
<1> HIDE DEF forDocument, p
<1>8. /\ CutText(excerpts, profile.text, forDocument) \in Nat
      /\ CutText(excerpts, profile.text, forDocument)
           <= AtLeast(forDocument, 350 * Len(excerpts))
  BY <1>1, <1>5, <1>7, CutTextFits, ZenonT(30)
<1>9. /\ CutText(rules, profile.text, budget - forDocument) \in Nat
      /\ CutText(rules, profile.text, budget - forDocument)
           <= AtLeast(budget - forDocument, 350 * Len(rules))
  <2>1. \A r \in ToSet(given) : r.size \in Nat
    BY RuleListsAssumption
  <2> QED BY <1>1, <1>4, <1>7, <2>1, CutTextFits, ZenonT(30)
<1>10. p.text = CutText(excerpts, profile.text, forDocument)
                + CutText(rules, profile.text, budget - forDocument)
  BY <1>3 DEF TextLength, forDocument
<1>11. AtLeast(forDocument, 350 * Len(excerpts)) \in Nat
       /\ AtLeast(budget - forDocument, 350 * Len(rules)) \in Nat
  BY <1>4, <1>5, <1>7 DEF AtLeast
<1>12. p.text \in Nat /\ p.text <= AtLeast(forDocument, 350 * Len(excerpts))
                                    + AtLeast(budget - forDocument, 350 * Len(rules))
  BY <1>8, <1>9, <1>10, <1>11
<1>13. TextWithinBudget'
  BY <1>3, <1>12 DEF TextWithinBudget, p, forDocument
<1>14. p.tokens \in 0..900
  <2>1. PICK t \in Nat : profile.tokens = t
    BY <1>1
  <2>2. p.tokens = AtLeast(1, NoMoreThan(t, 900))
    BY <1>3, <2>1
  <2> QED BY <2>2 DEF AtLeast, NoMoreThan
<1>15. p # NoPrompt
  BY <1>3, <1>4 DEF NoPrompt, BestOf
<1>16. /\ p.rules \in Seq(ToSet(given)) /\ p.budget \in Nat
       /\ BestOf(p.rules, AtMost(AtLeast(profile.candidates, conf.maxRules), given), RuleLimit)
       /\ chunks # <<>> => ClosestOf(p.chunks, chunks, p.rules)
  BY <1>3, <1>4, <1>5, <1>6
<1> QED BY <1>2, <1>12, <1>13, <1>14, <1>15, <1>16 DEF PromptSound, p

\* Nothing was asked.
LEMMA InitIInv == Init => IInv
<1> SUFFICES ASSUME Init PROVE IInv
  OBVIOUS
<1> USE DEF Init, ClientInit
<1>1. conf \in Settings /\ Asked = 0 /\ attempt \in 1..Len(Profiles)
  <2>1. conf \in Settings /\ Len(Profiles) \in Nat /\ 1 <= Len(Profiles)
    BY ProfilesSound
  <2>2. 1 \in 1..Len(Profiles)
    BY <2>1
  <2> QED BY <2>1, <2>2 DEF Asked
<1>2. TypeOK
  <2>1. ClientTypeOK
    BY DEF ClientTypeOK, Idle, RequestCap, WaitCap
  <2>2. result.findings = <<>> /\ result.attempts = 0
    BY DEF NoResult
  <2>4. ToSet(result.findings) = {}
    BY <2>2 DEF ToSet
  <2>3. prompt.tokens = 0 /\ prompt.text = 0 /\ prompt.budget = 0
    BY DEF NoPrompt
  <2> QED BY <2>1, <2>2, <2>3, <2>4 DEF TypeOK
<1>3. PromptInv /\ CallInv /\ EffortInv /\ ResultInv /\ AnswersJudged
  BY <1>1 DEF PromptInv, CallInv, EffortInv, ResultInv, AnswersJudged, Idle
<1> QED BY <1>1, <1>2, <1>3 DEF IInv

\* Without rules nothing is asked.
LEMMA SkipIInv == IInv /\ SkipAnalysis => IInv'
<1> SUFFICES ASSUME IInv, SkipAnalysis PROVE IInv'
  OBVIOUS
<1> USE DEF IInv, SkipAnalysis, clientVars
<1>1. conf' = conf /\ Profiles' = Profiles /\ Asked = 0 /\ Asked' = 0
  BY SettingsStay DEF Asked
<1>2. TypeOK'
  <2>1. result'.findings = <<>> /\ result'.attempts = 0
    BY DEF Skipped, NoResult
  <2>2. ToSet(result'.findings) = {}
    BY <2>1 DEF ToSet
  <2> QED BY <2>1, <2>2 DEF TypeOK, ClientTypeOK
<1>3. PromptInv' /\ CallInv' /\ EffortInv' /\ ResultInv' /\ AnswersJudged'
  BY <1>1 DEF PromptInv, CallInv, EffortInv, ResultInv, AnswersJudged, Idle
<1> QED BY <1>1, <1>2, <1>3

\* An attempt makes its prompt and calls the client.
LEMMA BeginIInv == IInv /\ BeginAttempt => IInv'
<1> SUFFICES ASSUME IInv, BeginAttempt PROVE IInv'
  OBVIOUS
<1> USE DEF IInv, BeginAttempt, Generate
<1>0. conf \in Settings /\ given \in RuleLists /\ chunks \in Documents
  BY DEF TypeOK, ClientTypeOK
<1>1. /\ conf' = conf /\ Profiles' = Profiles
      /\ Asked = attempt - 1 /\ Asked' = attempt
      /\ attempt \in 1..Len(Profiles) /\ attempt \in 1..3
  <2>1. attempt \in 1..3
    BY DEF TypeOK
  <2> QED BY <2>1, <1>0, SettingsStay DEF Asked
<1>2. prompt' # NoPrompt /\ PromptSound(Profiles[attempt])'
  BY <1>0, <1>1, PromptIsSound
<1>3. PromptInv'
  <2>1. Asked' # 0 /\ attempt' = attempt
    BY <1>1
  <2> QED BY <1>1, <1>2, <2>1, ZenonT(30) DEF PromptInv, PromptSound
<1>4. /\ call'.attempt = attempt /\ call'.retried = FALSE /\ call'.answer = NoAnswer
      /\ call'.state \in {"request", "raised"}
      /\ call'.model = "fallback" => attempt = 3 /\ conf.gemini /\ conf.lite
      /\ call'.model \in {"primary", "fallback"}
  BY <1>1 DEF ModelForAttempt
<1>5. TypeOK'
  <2>1. ClientTypeOK'
    BY <1>1, <1>4 DEF TypeOK, ClientTypeOK
  <2>2. prompt'.tokens \in 0..900 /\ prompt'.text \in Nat /\ prompt'.budget \in Nat
    BY <1>2 DEF PromptSound
  <2> QED BY <2>1, <2>2 DEF TypeOK
<1>6. CallInv'
  BY <1>1, <1>4 DEF CallInv
<1>7. EffortInv'
  <2>1. 2 * (attempt - 1) \in Int /\ requests <= 2 * (attempt - 1)
    BY <1>1 DEF EffortInv
  <2>2. Asked # attempt /\ requests \in Int /\ waited \in Int
    BY <1>1 DEF TypeOK, ClientTypeOK
  <2>3. waited' = waited /\ requests' = requests /\ attempt' = attempt
    OBVIOUS
  <2>4. waited <= 27 * (attempt - 1) * attempt
    BY <2>2 DEF EffortInv
  <2> QED BY <1>1, <1>4, <2>1, <2>2, <2>3, <2>4 DEF EffortInv
<1>8. ResultInv' /\ AnswersJudged'
  BY <1>4 DEF ResultInv, AnswersJudged
<1> QED BY <1>1, <1>3, <1>5, <1>6, <1>7, <1>8

\* Steps that leave the evaluation where it is leave its prompt sound.
LEMMA PromptStays ==
  ASSUME IInv, UNCHANGED <<conf, given, chunks, prompt>>, Asked' = Asked
  PROVE  PromptInv'
<1>1. Profiles' = Profiles /\ RuleLimit' = RuleLimit
  BY SettingsStay
<1> QED BY <1>1 DEF IInv, PromptInv, PromptSound, BestOf, ClosestOf, TextWithinBudget

\* A step of the client: a request, a retry, an answer parsed or given up.
LEMMA AskIInv == IInv /\ Ask => IInv'
<1> SUFFICES ASSUME IInv, Ask PROVE IInv'
  OBVIOUS
<1> USE DEF IInv, Ask, agentVars, ClientStep
<1>0. /\ conf' = conf /\ conf \in Settings
      /\ UNCHANGED <<given, chunks, step, attempt, prompt, result>>
  BY DEF TypeOK, ClientTypeOK, Send, Parse
<1>1. /\ step = "call" /\ given # <<>> /\ Asked = attempt /\ Asked' = attempt
      /\ attempt \in 1..3 /\ Profiles' = Profiles
  <2>1. step = "call"
    BY DEF CallInv, Send, Parse
  <2>2. given # <<>>
    BY <2>1
  <2>3. Profiles' = Profiles /\ attempt \in 1..3
    BY <1>0, SettingsStay DEF TypeOK
  <2> QED BY <1>0, <2>1, <2>2, <2>3 DEF Asked
<1>2. PromptInv'
  BY <1>0, <1>1, PromptStays
<1>3. CASE Send
  <2>0. /\ call.state = "request" /\ call'.attempt = call.attempt /\ call'.model = call.model
        /\ \/ /\ call'.state \in {"parse", "raised"} /\ call'.retried = call.retried
              /\ waited' = waited
           \/ /\ call'.state = "request" /\ call'.answer = NoAnswer
              /\ ~call.retried /\ call'.retried
              /\ waited' = Count(waited, 50 * call.attempt, WaitCap)
        /\ requests' = Count(requests, 1, RequestCap)
    BY <1>3 DEF Send, Overloaded, CallInv, TypeOK, ClientTypeOK
  <2>1. TypeOK'
    <3>1. ClientTypeOK'
      <4>1. requests' \in 0..RequestCap
        BY <2>0 DEF TypeOK, ClientTypeOK, Count, RequestCap
      <4>2. waited \in 0..WaitCap /\ 50 * call.attempt \in Nat
        BY <1>1 DEF TypeOK, ClientTypeOK, CallInv
      <4>3. waited' \in 0..WaitCap
        <5>1. WaitCap \in Nat
          BY DEF WaitCap
        <5>2. Count(waited, 50 * call.attempt, WaitCap) \in 0..WaitCap
          BY <4>2, <5>1, Counted
        <5> QED BY <2>0, <4>2, <5>2
      <4>4. call' \in [state : {"idle", "request", "parse", "returned", "raised"},
                       attempt : 0..3, retried : BOOLEAN, model : {"primary", "fallback"},
                       answer : Replies \cup Rejected \cup {NoAnswer}]
        <5>1. call \in [state : {"idle", "request", "parse", "returned", "raised"},
                        attempt : 0..3, retried : BOOLEAN, model : {"primary", "fallback"},
                        answer : Replies \cup Rejected \cup {NoAnswer}]
          BY DEF TypeOK, ClientTypeOK
        <5>2. CASE \E answer \in Replies \cup Rejected :
                     call' = [call EXCEPT !.state = "parse", !.answer = answer]
          BY <5>1, <5>2
        <5>3. CASE call' = [call EXCEPT !.retried = TRUE]
          BY <5>1, <5>3
        <5>4. CASE call' = [call EXCEPT !.state = "raised"]
          BY <5>1, <5>4
        <5> QED BY <1>3, <5>2, <5>3, <5>4 DEF Send
      <4> QED BY <1>0, <1>3, <4>1, <4>3, <4>4, ZenonT(30) DEF TypeOK, ClientTypeOK, Send
    <3> QED BY <1>0, <3>1 DEF TypeOK
  <2>2. CallInv'
    BY <1>0, <1>1, <2>0 DEF CallInv
  <2>3. EffortInv'
    <3>1. requests \in Nat /\ waited \in Nat /\ call.attempt = attempt /\ attempt' = attempt
      BY <1>0, <1>1 DEF TypeOK, ClientTypeOK, CallInv
    <3>2. requests' <= requests + 1 /\ requests' \in Int
      BY <3>1, <2>0 DEF Count, RequestCap
    <3>3. waited' <= waited + (IF call'.retried /\ ~call.retried THEN 50 * attempt ELSE 0)
          /\ waited' \in Int
      BY <3>1, <2>0, <1>1 DEF Count, WaitCap
    <3>4. /\ requests <= IF call.retried THEN 2 * attempt - 1 ELSE 2 * attempt - 2
          /\ waited <= 27 * (attempt - 1) * attempt
                       + (IF call.retried THEN 50 * attempt ELSE 0)
      BY <1>1, <2>0 DEF EffortInv
    <3>5. /\ requests' <= 2 * attempt
          /\ call'.state = "request" =>
               requests' <= IF call'.retried THEN 2 * attempt - 1 ELSE 2 * attempt - 2
      <4>1. attempt \in Int /\ requests \in Int /\ requests' \in Int
        BY <1>1, <3>1, <3>2
      <4>2. CASE call'.state = "request"
        <5>1. ~call.retried /\ call'.retried
          BY <2>0, <4>2
        <5> QED BY <3>2, <3>4, <4>1, <5>1
      <4>3. CASE call'.state # "request"
        <5>1. requests <= 2 * attempt - 1
          BY <3>4, <4>1
        <5> QED BY <3>2, <4>1, <4>3, <5>1
      <4> QED BY <4>2, <4>3
    <3>6. waited' <= 27 * (attempt - 1) * attempt
                     + (IF call'.retried THEN 50 * attempt ELSE 0)
      BY <1>1, <2>0, <3>1, <3>3, <3>4
    <3> QED BY <1>1, <3>1, <3>5, <3>6 DEF EffortInv
  <2>4. ResultInv' /\ AnswersJudged'
    BY <1>0, <1>1, <1>3, ZenonT(30)
       DEF ResultInv, AnswersJudged, CallInv, Send, TypeOK, ClientTypeOK
  <2> QED BY <1>0, <1>1, <1>2, <2>1, <2>2, <2>3, <2>4
<1>4. CASE Parse
  <2>1. TypeOK'
    BY <1>0, <1>4, SMTT(30) DEF TypeOK, ClientTypeOK, Parse, Kept
  <2>2. CallInv'
    BY <1>0, <1>1, <1>4 DEF CallInv, Parse, TypeOK, ClientTypeOK
  <2>3. EffortInv'
    BY <1>0, <1>1, <1>4 DEF EffortInv, CallInv, Parse, TypeOK, ClientTypeOK
  <2>4. ResultInv' /\ AnswersJudged'
    <3>1. ResultInv'
      BY <1>0, <1>1 DEF ResultInv
    <3>2. /\ call.answer' = call.answer /\ call'.state \in {"returned", "raised"}
          /\ call'.state = "returned" => call.answer.form = "object" /\ Valid(call.answer)
          /\ debris' \in {0, 1}
      BY <1>4 DEF Parse, Kept, TypeOK, ClientTypeOK
    <3>3. call'.state = "raised" /\ ~conf.diskMayFail => debris' = 1
      BY <1>4 DEF Parse, Kept, TypeOK, ClientTypeOK
    <3> QED BY <1>0, <3>1, <3>2, <3>3 DEF AnswersJudged, Valid, RequiredKeys
  <2> QED BY <1>0, <1>1, <1>2, <2>1, <2>2, <2>3, <2>4
<1> QED BY <1>3, <1>4

\* A call that raised is followed by the next attempt, after a wait, or by the end.
LEMMA RetryIInv == IInv /\ RetryOrRaise => IInv'
<1> SUFFICES ASSUME IInv, RetryOrRaise PROVE IInv'
  OBVIOUS
<1> USE DEF IInv, RetryOrRaise
<1>0. conf' = conf /\ conf \in Settings
  BY DEF TypeOK, ClientTypeOK
<1>1. /\ given # <<>> /\ Asked = attempt /\ Asked' = attempt
      /\ attempt \in 1..3 /\ Profiles' = Profiles
  <2>1. Profiles' = Profiles /\ attempt \in 1..3
    BY <1>0, SettingsStay DEF TypeOK
  <2>2. given # <<>> /\ given' = given
    OBVIOUS
  <2>3. Asked = attempt /\ Asked' = attempt
    BY <2>1, <2>2 DEF Asked
  <2> QED BY <2>1, <2>2, <2>3
<1>2. PromptInv'
  BY <1>0, <1>1, PromptStays
<1>3. TypeOK' /\ attempt' \in 1..Len(Profiles)
  <2>1. attempt' \in 1..Len(Profiles) /\ attempt' \in 1..3
    <3>1. Len(Profiles) \in Nat /\ Len(Profiles) <= 3
      BY <1>0, ProfilesSound
    <3>2. PICK n \in Nat : n = Len(Profiles)
      BY <3>1
    <3>3. /\ n <= 3 /\ attempt \in 1..n
          /\ attempt' = attempt \/ (attempt < n /\ attempt' = attempt + 1)
      BY <3>1, <3>2
    <3> QED BY <3>2, <3>3, <1>1
  <2>2. waited' \in 0..WaitCap
    <3>1. WaitCap \in Nat /\ waited \in 0..WaitCap /\ NoMoreThan(15, 4 * attempt) \in Nat
      BY <1>1 DEF TypeOK, ClientTypeOK, WaitCap, NoMoreThan
    <3>2. Count(waited, NoMoreThan(15, 4 * attempt), WaitCap) \in 0..WaitCap
      BY <3>1, Counted
    <3> QED BY <3>1, <3>2
  <2> QED BY <1>0, <2>1, <2>2 DEF TypeOK, ClientTypeOK
<1>4. CallInv'
  BY <1>0, <1>1 DEF CallInv
<1>5. EffortInv'
  <2> DEFINE retry == IF call.retried THEN 50 * attempt ELSE 0
  <2>1. /\ requests \in Nat /\ requests <= 2 * attempt /\ requests' = requests
        /\ waited \in Nat /\ waited <= 27 * (attempt - 1) * attempt + retry
        /\ call' = call /\ call.state # "request"
    BY <1>1 DEF EffortInv, TypeOK, ClientTypeOK
  <2>2. retry \in Nat /\ retry <= 50 * attempt
    BY <1>1
  <2> HIDE DEF retry
  <2>3. CASE attempt' = attempt /\ waited' = waited
    BY <1>1, <2>1, <2>3 DEF EffortInv, retry
  <2>4. CASE /\ attempt' = attempt + 1
             /\ waited' = Count(waited, NoMoreThan(15, 4 * attempt), WaitCap)
    <3>1. waited' <= waited + 4 * attempt
      BY <1>1, <2>1, <2>4 DEF Count, NoMoreThan, WaitCap
    <3>2. waited' <= 27 * attempt * (attempt + 1)
      <4>1. CASE attempt = 1
        BY <2>1, <2>2, <3>1, <4>1 DEF Count, NoMoreThan, WaitCap
      <4>2. CASE attempt = 2
        BY <2>1, <2>2, <3>1, <4>2 DEF Count, NoMoreThan, WaitCap
      <4>3. CASE attempt = 3
        BY <2>1, <2>2, <3>1, <4>3 DEF Count, NoMoreThan, WaitCap
      <4> QED BY <1>1, <4>1, <4>2, <4>3
    <3>3. (attempt' - 1) = attempt /\ Asked' # attempt'
      BY <1>1, <2>4
    <3> QED BY <1>1, <2>1, <2>4, <3>2, <3>3 DEF EffortInv
  <2> QED BY <2>3, <2>4
<1>6. ResultInv' /\ AnswersJudged'
  BY <1>0, <1>1 DEF ResultInv, AnswersJudged
<1> QED BY <1>1, <1>2, <1>3, <1>4, <1>5, <1>6

\* How well a rule matches an item is a number.
LEMMA MatchScoreInteger ==
  ASSUME NEW item, IsFiniteSet(item.terms), NEW rule, rule.score \in Int
  PROVE  MatchScore(item, rule) \in Int
<1> DEFINE shared == item.terms \cap rule.terms
           n == AtLeast(1, Cardinality(item.terms))
           hit == IF item.cites # Uncited /\ rule.id = item.cites THEN 2000 ELSE 0
<1>1. shared \in SUBSET item.terms
  OBVIOUS
<1> HIDE DEF shared
<1>2. Cardinality(shared) \in Nat /\ Cardinality(item.terms) \in Nat
  BY <1>1, FS_Subset, FS_CardinalityType
<1>3. n \in Nat /\ n >= 1
  BY <1>2 DEF AtLeast
<1>4. hit \in Int
  OBVIOUS
<1> HIDE DEF n, hit
<1>5. (2000 * Cardinality(shared)) \div n \in Int
  BY <1>2, <1>3
<1>6. hit + (2000 * Cardinality(shared)) \div n + rule.score \in Int
  BY <1>4, <1>5
<1> QED BY <1>6 DEF MatchScore, shared, n, hit

\* Findings are of usable items, linked to a rule among those given.
LEMMA FindingsSound ==
  ASSUME NEW reply, reply.items \in Seq(ToSet(reply.items)),
         \A item \in ToSet(reply.items) : IsFiniteSet(item.terms),
         NEW T, NEW rules \in Seq(T), rules # <<>>, \A r \in T : r.score \in Int
  PROVE  /\ \A f \in ToSet(Findings(reply, rules)) : Linked(f, reply, rules)
         /\ UsableItems(reply) = <<>> => Findings(reply, rules) = <<>>
<1> DEFINE items == UsableItems(reply)
           found == Findings(reply, rules)
<1>1. items \in Seq(ToSet(reply.items))
  <2> DEFINE S == {i \in DOMAIN reply.items : Usable(reply.items[i])}
  <2>1. S \in SUBSET DOMAIN reply.items
    OBVIOUS
  <2> HIDE DEF S
  <2>2. Picked(reply.items, S) \in Seq(ToSet(reply.items))
    BY <2>1, PickedSeq
  <2> QED BY <2>2 DEF UsableItems, S
<1> HIDE DEF items
<1>2. found = [i \in DOMAIN items |->
                 [rule |-> MatchRule(items[i], rules).id,
                  citation |-> Citation(items[i], MatchRule(items[i], rules)),
                  risk |-> NormalizeSeverity(items[i].severity)]]
  BY DEF Findings, items
<1>3. ASSUME NEW i \in DOMAIN items PROVE Linked(found[i], reply, rules)
  <2> DEFINE item == items[i]
             rule == MatchRule(item, rules)
             w == [k \in DOMAIN rules |-> MatchScore(item, rules[k])]
  <2>0. item \in ToSet(reply.items) /\ item \in ToSet(items)
    BY <1>1, <1>3 DEF ToSet
  <2> HIDE DEF item
  <2>1. \A k \in DOMAIN rules : w[k] \in Int
    BY <2>0, MatchScoreInteger
  <2>2. rule = Heaviest(rules, w)
    BY DEF MatchRule
  <2> HIDE DEF w
  <2>3. PICK b \in DOMAIN rules : Heaviest(rules, w) = rules[b]
    BY <2>1, HeaviestIn
  <2>4. rule \in ToSet(rules)
    BY <2>2, <2>3 DEF ToSet
  <2>5. NormalizeSeverity(item.severity) \in Risks
    BY DEF NormalizeSeverity, Risks
  <2>6. /\ found[i].rule = rule.id
        /\ found[i].citation = Citation(item, rule)
        /\ found[i].risk = NormalizeSeverity(item.severity)
    BY <1>2, <1>3 DEF item
  <2> HIDE DEF rule, found
  <2>7. \/ found[i].citation = rule.id
        \/ item.cites = found[i].citation /\ item.cites # Uncited
    BY <2>6 DEF Citation
  <2> QED BY <2>0, <2>4, <2>5, <2>6, <2>7 DEF Linked, items
<1>4. DOMAIN found = DOMAIN items
  BY <1>2
<1>5. \A f \in ToSet(found) : Linked(f, reply, rules)
  BY <1>3, <1>4 DEF ToSet
<1>6. ASSUME items = <<>> PROVE found = <<>>
  <2>1. found = [i \in 1..0 |-> found[i]]
    BY <1>2, <1>6
  <2>2. \A i \in 1..0 : found[i] \in {}
    OBVIOUS
  <2> HIDE DEF found
  <2>3. found \in [1..0 -> {}]
    BY <2>1, <2>2
  <2>4. found \in Seq({}) /\ Len(found) = 0
    BY <2>3, SeqDef
  <2> QED BY <2>4
<1> QED BY <1>5, <1>6 DEF items

\* A call that returned ends the evaluation.
LEMMA ConcludeIInv == IInv /\ Conclude => IInv'
<1> SUFFICES ASSUME IInv, Conclude PROVE IInv'
  OBVIOUS
<1> USE DEF IInv
<1>0. /\ conf' = conf /\ conf \in Settings
      /\ UNCHANGED <<clientVars, given, chunks, attempt, prompt>>
      /\ step = "call" /\ call.state = "returned"
  BY DEF TypeOK, ClientTypeOK, Conclude, clientVars
<1>1. /\ given # <<>> /\ Asked = attempt /\ Asked' = attempt
      /\ attempt \in 1..3 /\ Profiles' = Profiles
  <2>1. Profiles' = Profiles /\ attempt \in 1..3
    BY <1>0, SettingsStay DEF TypeOK
  <2>2. given # <<>> /\ given' = given
    BY <1>0
  <2>3. step' # "prompt"
    BY DEF Conclude
  <2> QED BY <1>0, <2>1, <2>2, <2>3 DEF Asked
<1>2. PromptInv'
  BY <1>0, <1>1, PromptStays
<1>3. prompt.rules \in Seq(ToSet(given)) /\ prompt.rules # <<>>
  BY <1>1 DEF PromptInv, PromptSound, BestOf
<1>4. /\ call.answer.items \in Seq(ToSet(call.answer.items))
      /\ \A item \in ToSet(call.answer.items) : IsFiniteSet(item.terms)
  <2>1. call.answer \in Replies
    <3>1. call.answer.form = "object"
      BY <1>0 DEF AnswersJudged
    <3>2. call.answer \in Replies \cup Rejected \cup {NoAnswer}
      BY DEF TypeOK, ClientTypeOK
    <3> QED BY <3>1, <3>2 DEF Rejected, NoAnswer
  <2> QED BY <2>1, RepliesAssumption
<1>5. /\ \A f \in ToSet(Findings(call.answer, prompt.rules)) :
           Linked(f, call.answer, prompt.rules)
      /\ UsableItems(call.answer) = <<>> => Findings(call.answer, prompt.rules) = <<>>
  <2>1. \A r \in ToSet(given) : r.score \in Int
    BY RuleListsAssumption DEF TypeOK
  <2> QED BY <1>3, <1>4, <2>1, FindingsSound
<1>6. \/ step' = "done" /\ result' = Analysis(call.answer)
      \/ step' = "raised" /\ result' = result
  BY DEF Conclude
<1>7. TypeOK'
  <2>1. /\ \A f \in ToSet(result'.findings) : f.risk \in Risks
        /\ result'.attempts \in 0..3
    BY <1>1, <1>5, <1>6 DEF Analysis, TypeOK, Linked
  <2>2. ClientTypeOK'
    BY <1>0 DEF TypeOK, ClientTypeOK, clientVars
  <2> QED BY <1>0, <1>6, <2>1, <2>2 DEF TypeOK
<1>8. CallInv' /\ EffortInv' /\ AnswersJudged'
  <2>1. CallInv'
    BY <1>0, <1>1, <1>6 DEF CallInv, clientVars
  <2>2. EffortInv'
    BY <1>0, <1>1 DEF EffortInv, clientVars
  <2>3. AnswersJudged'
    BY <1>0 DEF AnswersJudged, clientVars
  <2> QED BY <2>1, <2>2, <2>3
<1>9. ResultInv'
  <2>1. CASE step' = "done"
    <3>1. /\ result'.findings = Findings(call.answer, prompt.rules)
          /\ result'.llm = LlmStatus(call.answer) /\ result'.error = call.answer.error
          /\ result'.attempts = attempt
      BY <1>6, <2>1 DEF Analysis
    <3>2. call' = call /\ prompt' = prompt /\ attempt' = attempt /\ given' = given
      BY <1>0 DEF clientVars
    <3> QED BY <1>1, <1>5, <2>1, <3>1, <3>2 DEF ResultInv
  <2>2. CASE step' = "raised"
    BY <1>0, <1>6, <2>2 DEF ResultInv
  <2> QED BY <1>6, <2>1, <2>2
<1> QED BY <1>0, <1>1, <1>2, <1>7, <1>8, <1>9

\* A step of nothing.
LEMMA StutterIInv == IInv /\ UNCHANGED vars => IInv'
<1> SUFFICES ASSUME IInv, UNCHANGED vars PROVE IInv'
  OBVIOUS
<1> USE DEF IInv, vars, clientVars, agentVars
<1>1. Profiles' = Profiles /\ Asked' = Asked
  BY SettingsStay DEF Asked
<1>2. PromptInv'
  BY <1>1, PromptStays
<1>3. TypeOK' /\ AnswersJudged' /\ attempt' \in 1..Len(Profiles)
  BY DEF TypeOK, ClientTypeOK, AnswersJudged
<1>4. CallInv' /\ EffortInv' /\ ResultInv'
  BY <1>1 DEF CallInv, EffortInv, ResultInv
<1> QED BY <1>1, <1>2, <1>3, <1>4

\* The inductive invariant holds in every state.
LEMMA Invariant == Spec => []IInv
<1>1. IInv /\ [Next]_vars => IInv'
  BY SkipIInv, BeginIInv, AskIInv, RetryIInv, ConcludeIInv, StutterIInv DEF Next
<1> QED BY InitIInv, <1>1, PTL DEF Spec

(***************************************************************************)
(* generate_json returns only an object with the keys that are required,   *)
(* and usable values, and leaves one debug file of an answer it could not  *)
(* use, or none if the disk refused it: for every reply and settings.      *)
(***************************************************************************)
THEOREM CallsJudged == Spec => []AnswersJudged
<1>1. IInv => AnswersJudged
  BY DEF IInv
<1> QED BY Invariant, <1>1, PTL

(***************************************************************************)
(* evaluate_analysis returns for a readable reply of the attempt it names, *)
(* or because there were no rules, and never because the attempts ran out. *)
(***************************************************************************)
THEOREM AnalysesHaveReplies == Spec => []AnalysisHasReply
<1>1. ASSUME IInv PROVE AnalysisHasReply
  <2> USE <1>1 DEF IInv
  <2>1. CASE step = "done" /\ given = <<>>
    BY <2>1 DEF AnalysisHasReply, ResultInv, CallInv, Asked
  <2>2. CASE step = "done" /\ given # <<>>
    <3>1. Asked = attempt /\ attempt # 0
      BY <2>2 DEF Asked, TypeOK
    <3> QED BY <2>2, <3>1 DEF AnalysisHasReply, ResultInv, CallInv
  <2> QED BY <2>1, <2>2 DEF AnalysisHasReply
<1> QED BY Invariant, <1>1, PTL

(***************************************************************************)
(* A finding has a known severity and is linked to a rule of the prompt    *)
(* that the reply answered, whatever the model cites: MatchRule takes its  *)
(* rule from those shown.  Its citation is that rule's, or is the item's   *)
(* own, unchecked.                                                         *)
(***************************************************************************)
THEOREM FindingsLink == Spec => []FindingsLinkShownRules
<1>1. ASSUME IInv PROVE FindingsLinkShownRules
  <2> USE <1>1 DEF IInv
  <2>1. CASE step = "done" /\ given = <<>>
    <3>1. result.findings = <<>>
      BY <2>1 DEF ResultInv, Skipped, NoResult
    <3>2. ToSet(result.findings) = {}
      BY <3>1 DEF ToSet
    <3> QED BY <3>2 DEF FindingsLinkShownRules
  <2>2. CASE step = "done" /\ given # <<>>
    BY <2>2 DEF FindingsLinkShownRules, ResultInv, Linked
  <2> QED BY <2>1, <2>2 DEF FindingsLinkShownRules
<1> QED BY Invariant, <1>1, PTL

(***************************************************************************)
(* A reply that reports its own failure and has no usable finding is not   *)
(* finalised as a clean document by the workflow, wherever the failure is  *)
(* reported.                                                               *)
(***************************************************************************)
THEOREM ReportedFailuresBlock == Spec => []ReportedFailureBlocks
<1>1. ASSUME IInv PROVE ReportedFailureBlocks
  <2> SUFFICES ASSUME step = "done", given # <<>>, UsableItems(call.answer) = <<>>,
                      \/ call.answer.status \in Failures
                      \/ call.answer.status = "" /\ call.answer.metaStatus \in Failures
                      \/ call.answer.error
               PROVE  ~Finalizable(result)
    BY DEF ReportedFailureBlocks
  <2>1. /\ result.findings = <<>> /\ result.error = call.answer.error
        /\ result.llm = LlmStatus(call.answer)
    BY <1>1 DEF IInv, ResultInv
  <2>2. result.llm \in Failures \/ result.error
    BY <2>1 DEF LlmStatus, Failures
  <2> QED BY <2>1, <2>2 DEF Finalizable
<1> QED BY Invariant, <1>1, PTL

(***************************************************************************)
(* An evaluation makes at most two requests an attempt and waits no more   *)
(* than 31.2 seconds, whatever its settings are, and the fallback model is *)
(* asked by the third attempt only.                                        *)
(***************************************************************************)
THEOREM Bounded == Spec => []EffortBounded
<1>1. ASSUME IInv PROVE EffortBounded
  <2>1. attempt \in 1..3 /\ requests \in Nat /\ waited \in Nat /\ Asked \in {attempt - 1, attempt}
    BY <1>1 DEF IInv, TypeOK, ClientTypeOK, Asked
  <2>2. requests <= 2 * attempt
    BY <1>1, <2>1 DEF IInv, EffortInv
  <2>3. waited <= 312
    BY <1>1, <2>1 DEF IInv, EffortInv
  <2>4. call.model = "fallback" => attempt = 3 /\ conf.gemini /\ conf.lite
    BY <1>1, <2>1 DEF IInv, CallInv
  <2> QED BY <2>2, <2>3, <2>4 DEF EffortBounded
<1> QED BY Invariant, <1>1, PTL

(***************************************************************************)
(* The prompt holds the best rules and the chunks closest to them, for any *)
(* number of rules and chunks: what _select_rule_results and               *)
(* _select_document_chunks leave out ranks no higher than what they take.  *)
(***************************************************************************)
THEOREM BestContext == Spec => []BestContextShown
<1>1. ASSUME IInv PROVE BestContextShown
  <2> USE <1>1 DEF IInv
  <2> SUFFICES ASSUME prompt # NoPrompt
               PROVE  BestRulesShown /\ (chunks # <<>> => ClosestChunksShown)
    BY DEF BestContextShown
  <2>1. PromptSound(Profiles[Asked])
    BY DEF PromptInv
  <2>2. step = "call" => Asked = attempt
    BY DEF Asked
  <2>3. ToSet(prompt.rules) # {}
    <3>1. 1 \in DOMAIN prompt.rules
      BY <2>1 DEF PromptSound, BestOf
    <3> QED BY <3>1 DEF ToSet
  <2>4. BestRulesShown
    BY <2>1, <2>2, <2>3 DEF PromptSound, BestOf, BestRulesShown, Candidates
  <2>5. chunks # <<>> => ClosestChunksShown
    BY <2>1 DEF PromptSound, ClosestOf, ClosestChunksShown
  <2> QED BY <2>4, <2>5
<1> QED BY Invariant, <1>1, PTL

(***************************************************************************)
(* The texts of the prompt keep to the context budget but for the 350      *)
(* characters left to each chunk and rule, however long they are and       *)
(* however often the budget is cut.                                        *)
(***************************************************************************)
THEOREM TextBounded == Spec => []TextWithinBudget
<1>1. ASSUME IInv PROVE TextWithinBudget
  <2>1. CASE Asked = 0
    BY <1>1, <2>1 DEF IInv, PromptInv, NoPrompt, TextWithinBudget, AtLeast
  <2>2. CASE Asked # 0
    BY <1>1, <2>2 DEF IInv, PromptInv, PromptSound
  <2> QED BY <2>1, <2>2
<1> QED BY Invariant, <1>1, PTL
=============================================================================
