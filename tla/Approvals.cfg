SPECIFICATION FairSpec
CONSTANTS
  t1 = t1
  t2 = t2
  shell = shell
  mail = mail
  Callers = {t1, t2}
  Recipients = {shell, mail}
  CardKinds <- MCCardKinds
  Policies <- MCPolicies
  NoPolicy = NoPolicy
  NoCaller = NoCaller
  NoRecipient = NoRecipient
  Plans <- MCPlans
  Fenced = TRUE
  MaxNodes = 6
  MaxEdits = 1
INVARIANTS ApprovedByPolicy ApprovedOnce AnswersFollow
PROPERTY EveryCallEnds
CHECK_DEADLOCK FALSE
