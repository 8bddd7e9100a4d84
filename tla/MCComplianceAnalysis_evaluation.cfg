SPECIFICATION Spec
CONSTANTS
  Settings <- SomeSettings
  Replies <- EveryReply
  RuleLists <- EveryRuleList
  Documents <- LongAndShort
INVARIANTS
  AnswersJudged
  AnalysisHasReply
  FindingsLinkShownRules
  ReportedFailureBlocks
  EffortBounded
  BestContextShown
  TextWithinBudget
CHECK_DEADLOCK FALSE
