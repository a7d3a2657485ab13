SPECIFICATION FairSpec
CONSTANTS
  t1 = t1
  t2 = t2
  p1 = p1
  k1 = k1
  c1 = c1
  r1 = r1
  info = info
  custom = custom
  None = None
  Trap = {t1, t2, p1}
  Replay = {p1}
  Original <- MCOriginal
  Key = {k1}
  KeyOf <- MCKeyOf
  Channel = {c1}
  Rule = {r1}
  Severity = {info, custom}
  Builtin = {info}
  Mapped = {t1, p1}
  TrapSeverity <- MCTrapSeverity
  RuleOf <- MCRuleOf
  RuleSeverity <- MCRuleSeverity
  Bypass = {r1}
  QueueCap = 1
  MaxRestarts = 1
CHECK_DEADLOCK FALSE
INVARIANT TypeOK
INVARIANT NotifiedIsStored
INVARIANT RowsMatchOutcome
INVARIANT HistoryIntact
PROPERTY EventuallyProcessed
