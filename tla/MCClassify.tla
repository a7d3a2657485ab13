----------------------------- MODULE MCClassify -----------------------------
(***************************************************************************)
(* Two rules, the second moved to the front.  With an offset of 10, an ord  *)
(* of -10 or 11 is one the offset takes to a place a reorder gives, or away *)
(* from another rule.                                                      *)
(***************************************************************************)
EXTENDS Classify

CONSTANTS mapped, strange, known, foreign

Row0(ord, dev, sev, cont, byp) ==
  [ord |-> ord, device |-> dev, pattern |-> {mapped, strange}, severity |-> sev,
   enabled |-> TRUE, continue |-> cont, bypass |-> byp]

MCForm ==
  {[device |-> None, pattern |-> {mapped, strange}, severity |-> None,
    enabled |-> TRUE, continue |-> TRUE, bypass |-> FALSE],
   [device |-> 1, pattern |-> {strange}, severity |-> 2,
    enabled |-> FALSE, continue |-> FALSE, bypass |-> TRUE]}

MCOrd == {-10, 1, 11}
MCMinOrd == -20

MCSetup ==
  {[severities |-> <<[rank |-> 1, builtin |-> TRUE], [rank |-> 2, builtin |-> FALSE]>>,
    oids |-> <<[oid |-> mapped, severity |-> 1]>>,
    devices |-> <<known>>,
    channels |-> <<TRUE, TRUE>>,
    rules |-> <<Row0(1, None, None, TRUE, FALSE), Row0(0, 1, 2, TRUE, FALSE)>>,
    ruleChannels |-> {<<1, 1>>},
    routes |-> {<<1, 2>>, <<2, 2>>},
    unknown |-> 2,
    lastId |-> [t \in Table |-> IF t \in {"oids", "devices"} THEN 1 ELSE 2]]}
=============================================================================
