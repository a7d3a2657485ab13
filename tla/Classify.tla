------------------------------ MODULE Classify ------------------------------
(***************************************************************************)
(* One event at a time is classified against the configuration while the   *)
(* console edits it (internal/decode/decode.go, internal/rules/rules.go).  *)
(* Decode, Classify and InsertTrap read the tables query by query, outside *)
(* any transaction; a trap is then persisted, the dry run of the rule      *)
(* editor (cmd/holonet/main.go) only answered.  A glob and a regular       *)
(* expression are the set of trap OIDs they match.                         *)
(***************************************************************************)
EXTENDS Config

CONSTANTS
  Setup,        \* the tables a run starts from
  MaxEvents     \* bound: events

\* What has been configured before: tables without a dangling reference, each
\* UNIQUE column with different values.
ASSUME SetupAssumption ==
  \A s \in Setup :
    /\ IsTable(s.severities, [rank : Nat, builtin : BOOLEAN])
    /\ IsTable(s.oids, [oid : Oid, severity : Id \cup {None}])
    /\ IsTable(s.devices, Address) /\ IsTable(s.channels, BOOLEAN)
    /\ IsTable(s.rules, Row)
    /\ s.ruleChannels \subseteq (DOMAIN s.rules) \X (DOMAIN s.channels)
    /\ s.routes \subseteq (DOMAIN s.severities) \X (DOMAIN s.channels)
    /\ s.unknown \in Id \cup {None}
    /\ s.lastId \in [Table -> 0..MaxId]
    /\ DOMAIN s.severities \subseteq 1..s.lastId["severities"]
    /\ DOMAIN s.oids \subseteq 1..s.lastId["oids"]
    /\ DOMAIN s.devices \subseteq 1..s.lastId["devices"]
    /\ DOMAIN s.channels \subseteq 1..s.lastId["channels"]
    /\ DOMAIN s.rules \subseteq 1..s.lastId["rules"]
    /\ \A r \in DOMAIN s.rules : /\ Exists(s.devices, s.rules[r].device)
                                /\ Exists(s.severities, s.rules[r].severity)
    /\ \A r, x \in DOMAIN s.rules : s.rules[r].ord = s.rules[x].ord => r = x
    /\ \A o \in DOMAIN s.oids : Exists(s.severities, s.oids[o].severity)
    /\ \A o, x \in DOMAIN s.oids : s.oids[o].oid = s.oids[x].oid => o = x
ASSUME EventBound == MaxEvents \in Nat

VARIABLES
  pc,
  event,       \* trap OID and source address
  unmapped,    \* the OID map has no entry for it
  severity,    \* its severity, as Decode left it
  listed,      \* the rules ListRules read
  explicit,    \* the channel sets it has read so far
  device,      \* the id of the source's device
  rest,        \* listed rules still to be evaluated
  decision,
  events,
  overlapped   \* history variable: a table was edited since the event arrived

call == <<event, unmapped, severity, listed, explicit, device, rest, decision>>
vars == <<configVars, pc, call, events, overlapped>>

Phase == {"idle", "lookup", "unknown", "rules", "channels", "device", "match",
          "classified", "stored", "lost"}
NoEvent == [oid |-> None, ip |-> None]
NoDecision == [rule |-> None, severity |-> None, channels |-> {}, bypass |-> FALSE]
Empty == [i \in {} |-> None]

TypeOK ==
  /\ ConfigTypeOK
  /\ pc \in Phase
  /\ event \in [oid : Oid \cup {None}, ip : Address \cup {None}]
  /\ unmapped \in BOOLEAN /\ severity \in Id \cup {None}
  /\ IsTable(listed, Row)
  /\ IsTable(explicit, SUBSET Id)
  /\ device \in Id \cup {None}
  /\ rest \subseteq DOMAIN listed
  /\ decision \in [rule : Id \cup {None}, severity : Id \cup {None},
                   channels : SUBSET Id, bypass : BOOLEAN]
  /\ events \in 0..MaxEvents /\ overlapped \in BOOLEAN

Init ==
  /\ \E s \in Setup :
       /\ severities = s.severities /\ oids = s.oids /\ devices = s.devices
       /\ channels = s.channels /\ rules = s.rules
       /\ ruleChannels = s.ruleChannels /\ routes = s.routes
       /\ unknown = s.unknown /\ lastId = s.lastId
       /\ asked = [rules |-> [r \in Id |-> Of(s.ruleChannels, r)],
                   routes |-> [v \in Id |-> Of(s.routes, v)]]
  /\ history = [rules |-> {}, severities |-> {}, channels |-> {}]
  /\ edits = 0
  /\ pc = "idle" /\ events = 0 /\ overlapped = FALSE
  /\ event = NoEvent /\ unmapped = FALSE /\ severity = None
  /\ listed = Empty /\ explicit = Empty /\ device = None /\ rest = {}
  /\ decision = NoDecision

-----------------------------------------------------------------------------
(***************************************************************************)
(* The decoder.                                                            *)
(***************************************************************************)

Busy == pc \notin {"idle", "lost"}

Receive(oid, ip) ==
  /\ ~Busy /\ events < MaxEvents
  /\ events' = events + 1
  /\ pc' = "lookup"
  /\ event' = [oid |-> oid, ip |-> ip]
  /\ decision' = NoDecision /\ overlapped' = FALSE
  /\ unmapped' = FALSE
  /\ UNCHANGED <<configVars, severity, listed, explicit, device, rest>>

LookupOID ==
  /\ pc = "lookup"
  /\ \/ \E o \in DOMAIN oids :
          /\ oids[o].oid = event.oid
          /\ severity' = oids[o].severity /\ pc' = "rules"
          /\ UNCHANGED unmapped
     \/ /\ \A o \in DOMAIN oids : oids[o].oid # event.oid
        /\ unmapped' = TRUE /\ pc' = "unknown"
        /\ UNCHANGED severity
  /\ UNCHANGED <<configVars, event, listed, explicit, device, rest, decision,
                 events, overlapped>>

UnknownDefaultSeverity ==
  /\ pc = "unknown"
  /\ severity' = unknown /\ pc' = "rules"
  /\ UNCHANGED <<configVars, event, unmapped, listed, explicit, device, rest,
                 decision, events, overlapped>>

-----------------------------------------------------------------------------
(***************************************************************************)
(* The rule engine.                                                        *)
(***************************************************************************)

First(R) == CHOOSE r \in R : \A x \in R : listed[r].ord <= listed[x].ord

\* The first query of Store.ListRules.
ReadRules ==
  /\ pc = "rules"
  /\ listed' = rules /\ explicit' = Empty
  /\ pc' = "channels"
  /\ UNCHANGED <<configVars, event, unmapped, severity, device, rest, decision,
                 events, overlapped>>

\* Its second, once for each rule in their order.
ReadRuleChannels ==
  LET unread == DOMAIN listed \ DOMAIN explicit IN
  /\ pc = "channels"
  /\ IF unread = {}
     THEN pc' = "device" /\ UNCHANGED explicit
     ELSE /\ explicit' = Insert(explicit, First(unread), Of(ruleChannels, First(unread)))
          /\ UNCHANGED pc
  /\ UNCHANGED <<configVars, event, unmapped, severity, listed, device, rest,
                 decision, events, overlapped>>

DeviceAt(ip) ==
  IF \E d \in DOMAIN devices : devices[d] = ip
  THEN CHOOSE d \in DOMAIN devices : devices[d] = ip ELSE None

\* Mutant: the rules are those of the table by now, not the ones read.
DeviceByIPLive ==
  /\ pc = "device"
  /\ device' = DeviceAt(event.ip)
  /\ rest' = DOMAIN rules
  /\ decision' = [NoDecision EXCEPT !.severity = severity]
  /\ pc' = "match"
  /\ UNCHANGED <<configVars, event, unmapped, severity, listed, explicit,
                 events, overlapped>>

DeviceByIP ==
  /\ pc = "device"
  /\ device' = DeviceAt(event.ip)
  /\ rest' = DOMAIN listed
  /\ decision' = [NoDecision EXCEPT !.severity = severity]
  /\ pc' = "match"
  /\ UNCHANGED <<configVars, event, unmapped, severity, listed, explicit,
                 events, overlapped>>

RuleMatches(row, oid, dev) ==
  /\ row.enabled
  /\ row.device = None \/ row.device = dev
  /\ oid \in row.pattern

DefaultRoutes(s) == IF s = None THEN {} ELSE Of(routes, s)

\* Mutant: the severity of each matching rule is taken.
SeverityLast(r) ==
  IF listed[r].severity = None THEN decision.severity ELSE listed[r].severity

\* Only the first matching rule sets the severity.
SeverityAfter(r) ==
  IF decision.rule # None \/ listed[r].severity = None
  THEN decision.severity ELSE listed[r].severity

Hits == {r \in rest : RuleMatches(listed[r], event.oid, device)}

\* The next matching rule, with the query for the default routes when it has
\* no channels of its own.
Match ==
  LET r == First(Hits)
      s == SeverityAfter(r)
      more == IF explicit[r] # {} THEN explicit[r] ELSE DefaultRoutes(s) IN
  /\ pc = "match" /\ Hits # {}
  /\ decision' = [rule |-> IF decision.rule = None THEN r ELSE decision.rule,
                  severity |-> s,
                  channels |-> decision.channels \cup more,
                  bypass |-> decision.bypass \/ listed[r].bypass]
  /\ rest' = IF listed[r].continue
             THEN {x \in rest : listed[x].ord > listed[r].ord} ELSE {}
  /\ UNCHANGED <<configVars, pc, event, unmapped, severity, listed, explicit,
                 device, events, overlapped>>

\* The rules are exhausted; without a match the severity's default routes apply.
Conclude ==
  /\ pc = "match" /\ Hits = {}
  /\ decision' = IF decision.rule # None THEN decision
                 ELSE [decision EXCEPT !.channels = DefaultRoutes(severity)]
  /\ pc' = "classified"
  /\ UNCHANGED <<configVars, event, unmapped, severity, listed, explicit, device,
                 rest, events, overlapped>>

Classification ==
  LookupOID \/ UnknownDefaultSeverity \/ ReadRules \/ ReadRuleChannels
  \/ DeviceByIP \/ Match \/ Conclude

-----------------------------------------------------------------------------

\* What was read for one event is not kept for the next.
Forget ==
  /\ event' = NoEvent /\ severity' = None
  /\ listed' = Empty /\ explicit' = Empty /\ device' = None /\ rest' = {}

\* InsertTrap; the schema refuses a trap whose rule or severity is gone.
Persist ==
  /\ pc = "classified"
  /\ \/ /\ decision.rule = None \/ decision.rule \in DOMAIN rules
        /\ Exists(severities, decision.severity)
        /\ pc' = "stored"
        /\ history' = [history EXCEPT !.rules = @ \cup ({decision.rule} \ {None}),
                                      !.severities = @ \cup ({decision.severity} \ {None})]
     \/ /\ ~Exists(rules, decision.rule) \/ ~Exists(severities, decision.severity)
        /\ pc' = "lost"
        /\ UNCHANGED history
  /\ Forget
  /\ UNCHANGED <<severities, oids, devices, channels, rules, ruleChannels, routes,
                 unknown, lastId, asked, edits, unmapped, decision,
                 events, overlapped>>

\* ChannelsByIDs skips what is disabled or gone; each other channel gets a
\* notification row.  What happens in between is module Pipeline's.
Notify ==
  /\ pc = "stored"
  /\ history' = [history EXCEPT !.channels =
                   @ \cup {c \in decision.channels \cap DOMAIN channels : channels[c]}]
  /\ pc' = "idle" /\ decision' = NoDecision /\ unmapped' = FALSE /\ overlapped' = FALSE
  /\ UNCHANGED <<severities, oids, devices, channels, rules, ruleChannels, routes,
                 unknown, lastId, asked, edits, event, severity,
                 listed, explicit, device, rest, events>>

\* The rule editor's dry run ends with the answer.
AnswerTest ==
  /\ pc = "classified"
  /\ pc' = "idle" /\ unmapped' = FALSE /\ decision' = NoDecision
  /\ overlapped' = FALSE
  /\ Forget
  /\ UNCHANGED <<configVars, events>>

\* An edit, possibly between two queries of a classification.
Administer ==
  /\ ConfigNext
  /\ overlapped' = (overlapped \/ (Busy /\ tables' # tables))
  /\ UNCHANGED <<pc, call, events>>

Next ==
  \/ \E oid \in Oid, ip \in Address : Receive(oid, ip)
  \/ Classification \/ Persist \/ Notify \/ AnswerTest
  \/ Administer

Spec == Init /\ [][Next]_vars

-----------------------------------------------------------------------------
(***************************************************************************)
(* Reference: the same decision, from the tables as a whole.               *)
(***************************************************************************)

Matching(e) ==
  {r \in DOMAIN rules : RuleMatches(rules[r], e.oid, DeviceAt(e.ip))}

\* A rule takes part when every matching rule in front of it lets it continue.
Taking(e) ==
  {r \in Matching(e) :
     \A x \in Matching(e) : rules[x].ord < rules[r].ord => rules[x].continue}

DecodedSeverity(e) ==
  IF \E o \in DOMAIN oids : oids[o].oid = e.oid
  THEN (CHOOSE row \in {oids[o] : o \in DOMAIN oids} : row.oid = e.oid).severity
  ELSE unknown

\* d is the decision the tables call for.
Right(e, d) ==
  LET own(r) == Of(ruleChannels, r)
      default == {r \in Taking(e) : own(r) = {}}
      s == DecodedSeverity(e) IN
  /\ d.rule = None <=> Matching(e) = {}
  /\ d.rule # None =>
       /\ d.rule \in Matching(e)
       /\ \A r \in Matching(e) : rules[d.rule].ord <= rules[r].ord
       /\ d.severity = IF rules[d.rule].severity = None THEN s
                       ELSE rules[d.rule].severity
  /\ d.rule = None => d.severity = s
  /\ d.channels = (UNION {own(r) : r \in Taking(e)}) \cup
                  IF d.rule = None \/ default # {} THEN DefaultRoutes(d.severity) ELSE {}
  /\ d.bypass <=> \E r \in Taking(e) : rules[r].bypass

-----------------------------------------------------------------------------

\* internal/rules/rules.go Engine.Classify reads the rules, their channels, the
\* device and the routes one after the other: when no edit came in between, the
\* decision is the one the tables call for, over rules that continue, the first
\* severity, explicit channels and default routes.
DecisionMatchesRules ==
  pc = "classified" /\ ~overlapped => Right(event, decision)

\* A trap is refused by the schema only when its rule or severity was deleted
\* while it was processed, or when its OID is unmapped and the setting for
\* unknown events names no severity.
StoredUnlessEdited ==
  [][pc # "lost" /\ pc' = "lost" =>
       overlapped \/ (unmapped /\ decision.severity \notin DOMAIN severities)]_vars

\* Which rule comes before which, as ORDER BY ord gives them.
RuleOrder ==
  {p \in (DOMAIN rules) \X (DOMAIN rules) : rules[p[1]].ord < rules[p[2]].ord}

\* A rule at a negative ord is ahead of every place a reorder gives.
List == INSTANCE RuleList WITH Rule <- Id, members <- DOMAIN rules,
                               before <- RuleOrder,
                               ahead <- {r \in DOMAIN rules : rules[r].ord < 0}

\* internal/store/rules.go keeps one ordered list: rules that an edit does not
\* name never change places with each other.
ImplementsRuleList == List!Spec
=============================================================================
