SPECIFICATION Spec
CONSTANTS
  t1 = t1
  t2 = t2
  p1 = p1
  k1 = k1
  c1 = c1
  r1 = r1
  info = info
  custom = custom
  None = None
  Trap = {t1, t2}
  Replay = {}
  Original <- NoOriginal
  Key = {k1}
  KeyOf <- MCKeyOf
  Channel = {c1}
  Rule = {r1}
  Severity = {info, custom}
  Builtin = {info}
  Mapped = {t1}
  TrapSeverity <- MCTrapSeverity
  RuleOf <- MCRuleOf
  RuleSeverity <- MCRuleSeverity
  Bypass = {}
  QueueCap = 1
  MaxRestarts = 0
CHECK_DEADLOCK FALSE
INVARIANT EveryTrapStored
