----------------------------- MODULE MCPipeline -----------------------------
(* Small instances of the pipeline for TLC. *)
EXTENDS Pipeline, TLC

CONSTANTS t1, t2, p1, k1, c1, r1, info, custom

\* p1 replays t1, whose OID is mapped and which no rule matches: its channels
\* are the default routes of its severity.  t2, of the same key, matches rule
\* r1 and has an unmapped OID, whose severity is the custom level chosen in the
\* settings.
MCOriginal == (p1 :> t1)
NoOriginal == <<>>
MCKeyOf == [t \in Trap |-> k1]
MCTrapSeverity == [t \in Trap |-> IF t = t2 THEN custom ELSE info]
MCRuleOf == [t \in Trap |-> IF t = t2 THEN r1 ELSE None]
MCRuleSeverity == (r1 :> None)
=============================================================================
