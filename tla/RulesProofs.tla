---------------------------- MODULE RulesProofs ----------------------------
(***************************************************************************)
(* Proofs, for tables of any size, that the engine's walk over the rules,  *)
(* query by query, comes to the decision the tables call for as a whole,   *)
(* and that the rules are one ordered list whatever ord a request asks for.*)
(***************************************************************************)
EXTENDS ClassifyProofs

USE DEF vars, configVars, tables, call

-----------------------------------------------------------------------------
(***************************************************************************)
(* The UNIQUE columns.                                                     *)
(***************************************************************************)

\* UNIQUE(oid) and UNIQUE(ord).
OidsUnique == \A o, x \in DOMAIN oids : oids[o].oid = oids[x].oid => o = x
OrdsUnique == \A r, x \in DOMAIN rules : rules[r].ord = rules[x].ord => r = x
Unique == OidsUnique /\ OrdsUnique

\* An OID is entered under its own row, or where no other row has it.
LEMMA OidsUniqueEdit ==
  ASSUME ConfigTypeOK, OidsUnique, ConfigNext PROVE OidsUnique'
<1>1. \A o \in DOMAIN oids : oids[o] \in [oid : Oid, severity : Id \cup {None}]
  BY DEF ConfigTypeOK, IsTable
<1>2. CASE UNCHANGED oids
  BY <1>2 DEF OidsUnique
<1>3. ASSUME NEW s \in Id \cup {None}, NEW oid \in Oid, CreateOID(oid, s) PROVE OidsUnique'
  <2>1. ASSUME NEW o \in DOMAIN oids, oids' = [oids EXCEPT ![o].severity = s]
        PROVE  OidsUnique'
    <3>1. DOMAIN oids' = DOMAIN oids /\ \A x \in DOMAIN oids : oids'[x].oid = oids[x].oid
      BY <1>1, <2>1
    <3> QED
      BY <3>1 DEF OidsUnique
  <2>2. ASSUME NEW n, \A o \in DOMAIN oids : oids[o].oid # oid,
               oids' = Insert(oids, n, [oid |-> oid, severity |-> s])
        PROVE  OidsUnique'
    <3>1. /\ DOMAIN oids' = DOMAIN oids \cup {n} /\ oids'[n].oid = oid
          /\ \A x \in DOMAIN oids : x # n => oids'[x] = oids[x]
      BY <2>2 DEF Insert
    <3> QED
      BY <2>2, <3>1 DEF OidsUnique
  <2> QED
    BY <1>3, <2>1, <2>2 DEF CreateOID
<1>4. ASSUME NEW s \in Id \cup {None}, NEW oid \in Oid, NEW o \in DOMAIN oids,
             UpdateOID(o, oid, s)
      PROVE  OidsUnique'
  <2>1. /\ DOMAIN oids' = DOMAIN oids /\ oids'[o].oid = oid
        /\ \A x \in DOMAIN oids : x # o => oids'[x] = oids[x] /\ oids[x].oid # oid
    BY <1>4 DEF UpdateOID
  <2> QED
    BY <2>1 DEF OidsUnique
<1>5. ASSUME NEW o \in DOMAIN oids, DeleteOID(o) PROVE OidsUnique'
  BY <1>5 DEF DeleteOID, Delete, OidsUnique
<1>6. CASE SeverityRequest
  BY <1>2, <1>6 DEF SeverityRequest, CreateSeverity, DeleteSeverity, UpdateSeverity
<1>7. CASE OidRequest
  BY <1>3, <1>4, <1>5, <1>7 DEF OidRequest
<1>8. CASE DeviceRequest
  BY <1>2, <1>8 DEF DeviceRequest, CreateDevice, UpdateDevice, DeleteDevice
<1>9. CASE ChannelRequest
  BY <1>2, <1>9 DEF ChannelRequest, CreateChannel, UpdateChannel, DeleteChannel
<1>10. CASE RouteRequest
  BY <1>2, <1>10 DEF RouteRequest, SetDefaultRoutes
<1>11. CASE RuleRequest
  <2>1. UNCHANGED oids
    BY <1>11 DEF RuleRequest, CreateRule, UpdateRule, ReorderRules, DeleteRule
  <2> QED
    BY <1>2, <2>1
<1>12. ASSUME NEW s \in Id \cup {None}, SetUnknown(s) PROVE OidsUnique'
  BY <1>2, <1>12 DEF SetUnknown
<1> QED
  BY <1>6, <1>7, <1>8, <1>9, <1>10, <1>11, <1>12 DEF ConfigNext

\* A reorder gives the listed rules different places, free of the others, whose
\* distances it does not change.
LEMMA OrdsUniqueReordered ==
  ASSUME ConfigTypeOK, OrdsUnique, NEW place \in Places, ReorderRules(place)
  PROVE  OrdsUnique'
<1>1. \A r \in DOMAIN rules : rules[r] \in Row /\ rules[r].ord \in Int
  BY DEF ConfigTypeOK, IsTable, Row, Place
<1>2. \A r, x \in DOMAIN place : place[r] = place[x] => r = x
  BY PlacesGiven
<1>3. \A r \in DOMAIN place, x \in DOMAIN rules \ DOMAIN place :
        rules[x].ord + Offset # place[r]
  BY DEF ReorderRules, PlaceClashes
<1>4. /\ DOMAIN rules' = DOMAIN rules
      /\ \A r \in DOMAIN rules :
           rules'[r].ord = IF r \in DOMAIN place THEN place[r] ELSE rules[r].ord + Offset
  <2>1. rules' = Reordered(place)
    BY DEF ReorderRules
  <2> QED
    BY <1>1, <2>1 DEF Reordered, Row
<1>5. \A r \in DOMAIN rules \ DOMAIN place : rules'[r].ord = rules[r].ord + Offset
  BY <1>4
<1>6. SUFFICES ASSUME NEW r \in DOMAIN rules, NEW x \in DOMAIN rules,
                      rules'[r].ord = rules'[x].ord
               PROVE  r = x
  BY <1>4 DEF OrdsUnique
<1>7. CASE r \in DOMAIN place /\ x \in DOMAIN place
  BY <1>2, <1>4, <1>6, <1>7
<1>8. CASE r \notin DOMAIN place /\ x \notin DOMAIN place
  <2>1. rules[r].ord + Offset = rules[x].ord + Offset
    BY <1>5, <1>6, <1>8
  <2>2. rules[r].ord = rules[x].ord
    BY <1>1, <2>1, OffsetAssumption
  <2> QED
    BY <2>2 DEF OrdsUnique
<1>9. CASE (r \in DOMAIN place) # (x \in DOMAIN place)
  BY <1>3, <1>4, <1>5, <1>6, <1>9, PlacesGiven
<1> QED
  BY <1>7, <1>8, <1>9

\* A rule is saved at a place no other rule has.
LEMMA OrdsUniqueEdit ==
  ASSUME ConfigTypeOK, OrdsUnique, ConfigNext PROVE OrdsUnique'
<1>1. DOMAIN rules \subseteq Id /\ None \notin Id
  BY NoneAssumption DEF ConfigTypeOK, IsTable, Id
<1>2. CASE UNCHANGED rules
  BY <1>2 DEF OrdsUnique
<1>3. ASSUME NEW ord \in Ord, NEW f \in Form, NEW S \in SUBSET DOMAIN channels,
             CreateRule(ord, f, S)
      PROVE  OrdsUnique'
  <2> DEFINE n == NewId("rules")
  <2>1. rules' = Insert(rules, n, RowOf(ord, f)) /\ OrdFree(ord, None)
    BY <1>3 DEF CreateRule
  <2> HIDE DEF n
  <2>2. \A x \in DOMAIN rules : rules[x].ord # ord
    BY <1>1, <2>1 DEF OrdFree
  <2>3. /\ DOMAIN rules' = DOMAIN rules \cup {n} /\ rules'[n].ord = ord
        /\ \A x \in DOMAIN rules : x # n => rules'[x] = rules[x]
    BY <2>1 DEF Insert, RowOf
  <2> QED
    BY <2>2, <2>3 DEF OrdsUnique
<1>4. ASSUME NEW ord \in Ord, NEW r \in DOMAIN rules, NEW f \in Form,
             NEW S \in SUBSET DOMAIN channels, UpdateRule(r, ord, f, S)
      PROVE  OrdsUnique'
  <2>1. rules' = [rules EXCEPT ![r] = RowOf(ord, f)] /\ OrdFree(ord, r)
    BY <1>4 DEF UpdateRule
  <2>2. /\ DOMAIN rules' = DOMAIN rules /\ rules'[r].ord = ord
        /\ \A x \in DOMAIN rules : x # r => rules'[x] = rules[x]
    BY <2>1 DEF RowOf
  <2>3. \A x \in DOMAIN rules : x # r => rules[x].ord # ord
    BY <2>1 DEF OrdFree
  <2> QED
    BY <2>2, <2>3 DEF OrdsUnique
<1>5. ASSUME NEW place \in Places, ReorderRules(place) PROVE OrdsUnique'
  BY <1>5, OrdsUniqueReordered
<1>6. ASSUME NEW r \in DOMAIN rules, DeleteRule(r) PROVE OrdsUnique'
  BY <1>6 DEF DeleteRule, Delete, OrdsUnique
<1>7. CASE SeverityRequest
  BY <1>2, <1>7 DEF SeverityRequest, CreateSeverity, DeleteSeverity, UpdateSeverity
<1>8. CASE OidRequest
  BY <1>2, <1>8 DEF OidRequest, CreateOID, UpdateOID, DeleteOID
<1>9. CASE DeviceRequest
  BY <1>2, <1>9 DEF DeviceRequest, CreateDevice, UpdateDevice, DeleteDevice
<1>10. CASE ChannelRequest
  BY <1>2, <1>10 DEF ChannelRequest, CreateChannel, UpdateChannel, DeleteChannel
<1>11. CASE RouteRequest
  BY <1>2, <1>11 DEF RouteRequest, SetDefaultRoutes
<1>12. CASE RuleRequest
  BY <1>3, <1>4, <1>5, <1>6, <1>12 DEF RuleRequest
<1>13. ASSUME NEW s \in Id \cup {None}, SetUnknown(s) PROVE OrdsUnique'
  BY <1>2, <1>13 DEF SetUnknown
<1> QED
  BY <1>7, <1>8, <1>9, <1>10, <1>11, <1>12, <1>13 DEF ConfigNext

\* They are unique in every state.
LEMMA UniqueAlways == Spec => []Unique
<1>1. Init => Unique
  <2> SUFFICES ASSUME Init PROVE Unique
    OBVIOUS
  <2>1. PICK s \in Setup : oids = s.oids /\ rules = s.rules
    BY DEF Init
  <2> QED
    BY <2>1, SetupAssumption DEF Unique, OidsUnique, OrdsUnique
<1>2. TypeInv /\ Unique /\ [Next]_vars => Unique'
  <2> SUFFICES ASSUME ConfigTypeOK, OidsUnique, OrdsUnique, [Next]_vars PROVE Unique'
    BY DEF TypeInv, TypeOK, Unique
  <2>1. CASE Administer
    BY <2>1, OidsUniqueEdit, OrdsUniqueEdit DEF Administer, Unique
  <2>2. CASE ~Administer
    BY <2>2, OtherSteps DEF Unique, OidsUnique, OrdsUnique
  <2> QED
    BY <2>1, <2>2
<1> QED
  BY <1>1, <1>2, TypeInvAlways, PTL DEF Spec

-----------------------------------------------------------------------------
(***************************************************************************)
(* The walk over the rules.                                                *)
(***************************************************************************)

\* The channels of a rule, and the rules that took part so far.
Own(r) == Of(ruleChannels, r)
Passed == Taking(event) \ rest

\* The channels the rules of R call for, at severity s.
Called(R, s) ==
  (UNION {Own(r) : r \in R}) \cup
  IF \E r \in R : Own(r) = {} THEN DefaultRoutes(s) ELSE {}

\* Unless a rule stopped the walk, every matching rule behind it continues and
\* is in front of those ahead.
InOrder ==
  rest = {} \/
  \A x \in Matching(event) \ rest :
    rules[x].continue /\ \A y \in Matching(event) \cap rest : rules[x].ord < rules[y].ord

\* The decision is that of the rules that took part so far.
SoFar ==
  /\ decision.rule = None =>
       Matching(event) \subseteq rest /\ decision.severity = severity
  /\ decision.rule # None =>
       /\ decision.rule \in Passed
       /\ \A x \in Matching(event) : rules[decision.rule].ord <= rules[x].ord
       /\ decision.severity = IF rules[decision.rule].severity = None THEN severity
                              ELSE rules[decision.rule].severity
  /\ decision.channels = Called(Passed, decision.severity)
  /\ decision.bypass <=> \E r \in Passed : rules[r].bypass

\* While no edit has come in between, each query has read what the tables hold.
DecisionInv ==
  ~overlapped =>
    /\ pc = "unknown" => \A o \in DOMAIN oids : oids[o].oid # event.oid
    /\ pc \in {"rules", "channels", "device", "match"} =>
         severity = DecodedSeverity(event)
    /\ pc \in {"channels", "device", "match"} =>
         listed = rules /\ \A r \in DOMAIN explicit : explicit[r] = Own(r)
    /\ pc = "match" => device = DeviceAt(event.ip) /\ InOrder /\ SoFar
    /\ pc = "classified" => Right(event, decision)

\* What the tables say of the event changes only with them.
LEMMA SameTables ==
  ASSUME UNCHANGED <<tables, event>>
  PROVE  /\ Matching(event)' = Matching(event) /\ Taking(event)' = Taking(event)
         /\ DecodedSeverity(event)' = DecodedSeverity(event)
         /\ DeviceAt(event.ip)' = DeviceAt(event.ip)
<1>1. DeviceAt(event.ip)' = DeviceAt(event.ip)
  BY DEF DeviceAt
<1>2. Matching(event)' = Matching(event)
  BY <1>1 DEF Matching, RuleMatches
<1>3. Taking(event)' = Taking(event)
  BY <1>2 DEF Taking
<1>4. DecodedSeverity(event)' = DecodedSeverity(event)
  BY DEF DecodedSeverity
<1> QED
  BY <1>1, <1>2, <1>3, <1>4

\* A rule that joins adds its own channels, or else the default routes.
LEMMA CalledGrows ==
  ASSUME NEW R, NEW r, NEW s
  PROVE  Called(R \cup {r}, s) =
           Called(R, s) \cup IF Own(r) # {} THEN Own(r) ELSE DefaultRoutes(s)
<1> DEFINE Of1 == UNION {Own(x) : x \in R}
           Of2 == UNION {Own(x) : x \in R \cup {r}}
           some1 == \E x \in R : Own(x) = {}
           some2 == \E x \in R \cup {r} : Own(x) = {}
<1>1. Of2 = Of1 \cup Own(r)
  <2>1. ASSUME NEW c PROVE c \in Of2 <=> c \in Of1 \/ c \in Own(r)
    OBVIOUS
  <2> HIDE DEF Of1, Of2
  <2> QED
    BY <2>1
<1>2. some2 <=> some1 \/ Own(r) = {}
  OBVIOUS
<1>3. /\ Called(R, s) = Of1 \cup IF some1 THEN DefaultRoutes(s) ELSE {}
      /\ Called(R \cup {r}, s) = Of2 \cup IF some2 THEN DefaultRoutes(s) ELSE {}
  BY DEF Called
<1> HIDE DEF Of1, Of2, some1, some2
<1>4. CASE Own(r) = {}
  <2>1. Of2 = Of1 /\ some2
    BY <1>1, <1>2, <1>4
  <2>2. Called(R \cup {r}, s) = Of1 \cup DefaultRoutes(s)
    BY <1>3, <2>1
  <2>3. Called(R, s) \cup DefaultRoutes(s) = Of1 \cup DefaultRoutes(s)
    <3>1. CASE some1
      BY <1>3, <3>1
    <3>2. CASE ~some1
      BY <1>3, <3>2
    <3> QED
      BY <3>1, <3>2
  <2> QED
    BY <1>4, <2>2, <2>3
<1>5. CASE Own(r) # {}
  BY <1>1, <1>2, <1>3, <1>5
<1> QED
  BY <1>4, <1>5

\* The rules of a listing that is still the table: those ahead that match are the
\* matching rules ahead.
LEMMA HitsAhead ==
  ASSUME listed = rules, device = DeviceAt(event.ip), rest \subseteq DOMAIN listed
  PROVE  Hits = Matching(event) \cap rest
BY DEF Hits, Matching

\* The next matching rule takes part, and after it only the rules ahead are left.
LEMMA MatchPasses ==
  ASSUME TypeInv, Unique, InOrder, Match, listed = rules, device = DeviceAt(event.ip),
         NEW r, r = First(Hits)
  PROVE  /\ r \in Hits /\ r \in Taking(event)
         /\ \A x \in Hits : x = r \/ rules[r].ord < rules[x].ord
         /\ Taking(event) \ rest' = Passed \cup {r}
         /\ rest' \subseteq rest \ {r}
         /\ InOrder'
<1> DEFINE M == Matching(event)
           T == Taking(event)
<1>1. /\ IsTable(listed, Row) /\ rest \subseteq DOMAIN listed
      /\ \A x \in DOMAIN rules : rules[x].ord \in Int
  BY DEF TypeInv, TypeOK, ConfigTypeOK, IsTable, Row, Place
<1>2. Hits = M \cap rest /\ M \subseteq DOMAIN rules
  BY <1>1, HitsAhead DEF Matching
<1>3. r \in Hits /\ \A x \in Hits : rules[r].ord <= rules[x].ord
  <2>1. Hits \in SUBSET DOMAIN listed /\ Hits # {}
    BY <1>1 DEF Match, Hits
  <2> QED
    BY <1>1, <2>1, FirstIsMember
<1>4. ASSUME NEW x \in Hits PROVE x = r \/ rules[r].ord < rules[x].ord
  <2>1. x \in DOMAIN rules /\ r \in DOMAIN rules
    BY <1>2, <1>3
  <2>2. rules[r].ord = rules[x].ord => r = x
    BY <2>1 DEF Unique, OrdsUnique
  <2> QED
    BY <1>1, <1>3, <2>1, <2>2
<1>5. \A x \in M \ rest : /\ rules[x].continue
                          /\ \A y \in M \cap rest : rules[x].ord < rules[y].ord
  BY <1>2, <1>3 DEF InOrder
<1>6. r \in T
  <2> SUFFICES ASSUME NEW x \in M, rules[x].ord < rules[r].ord PROVE rules[x].continue
    BY <1>2, <1>3 DEF Taking
  <2>1. x \in DOMAIN rules /\ r \in DOMAIN rules
    BY <1>2, <1>3
  <2>2. ~(rules[r].ord <= rules[x].ord)
    BY <1>1, <2>1
  <2>3. x \notin rest
    BY <1>2, <1>3, <2>2
  <2> QED
    BY <1>5, <2>3
<1>7. /\ rest' = IF rules[r].continue THEN {x \in rest : rules[x].ord > rules[r].ord} ELSE {}
      /\ UNCHANGED <<configVars, event>>
  BY DEF Match
<1>8. rest' \subseteq rest \ {r}
  <2>1. rules[r].ord \in Int
    BY <1>1, <1>2, <1>3
  <2>2. ~(rules[r].ord > rules[r].ord)
    BY <2>1
  <2> QED
    BY <1>7, <2>2
<1>9. T \subseteq M
  BY DEF Taking
<1>10. T \ rest' = Passed \cup {r}
  <2>1. ASSUME NEW t \in T, t \in rest, t \notin rest' PROVE t = r
    <3>1. t \in Hits /\ t \in DOMAIN rules /\ r \in M
      BY <1>2, <1>3, <1>9, <2>1
    <3>2. CASE rules[r].continue
      BY <1>4, <1>7, <2>1, <3>1, <3>2
    <3>3. CASE ~rules[r].continue
      <4>1. ~(rules[r].ord < rules[t].ord)
        BY <2>1, <3>1, <3>3 DEF Taking
      <4> QED
        BY <1>4, <3>1, <4>1
    <3> QED
      BY <3>2, <3>3
  <2> QED
    BY <1>6, <1>8, <2>1 DEF Passed
<1>11. InOrder'
  <2>1. Matching(event)' = M /\ rules' = rules
    BY <1>7, SameTables
  <2>2. CASE ~rules[r].continue
    BY <1>7, <2>2 DEF InOrder
  <2>3. CASE rules[r].continue
    <3> SUFFICES ASSUME NEW x \in M \ rest'
                 PROVE  rules[x].continue /\ \A y \in M \cap rest' : rules[x].ord < rules[y].ord
      BY <2>1 DEF InOrder
    <3>1. CASE x \notin rest
      BY <1>5, <1>8, <3>1
    <3>2. CASE x \in rest
      <4>1. x = r
        BY <1>2, <1>4, <1>7, <2>3, <3>2
      <4>2. \A y \in rest' : rules[r].ord < rules[y].ord
        <5> SUFFICES ASSUME NEW y \in rest' PROVE rules[r].ord < rules[y].ord
          OBVIOUS
        <5>1. y \in DOMAIN rules /\ r \in DOMAIN rules /\ rules[y].ord > rules[r].ord
          BY <1>1, <1>2, <1>3, <1>7, <2>3
        <5> QED
          BY <1>1, <5>1
      <4> QED
        BY <2>3, <4>1, <4>2
    <3> QED
      BY <3>1, <3>2
  <2> QED
    BY <2>2, <2>3
<1> QED
  BY <1>3, <1>4, <1>6, <1>8, <1>10, <1>11

\* It joins the decision: the first one with its severity, each with its
\* channels and its bypass.
LEMMA MatchDecides ==
  ASSUME TypeInv, Unique, InOrder, SoFar, Match, listed = rules,
         device = DeviceAt(event.ip), \A x \in DOMAIN explicit : explicit[x] = Own(x)
  PROVE  SoFar'
<1> DEFINE r == First(Hits)
           s == SeverityAfter(r)
           M == Matching(event)
<1>1. /\ r \in Hits /\ r \in Taking(event)
      /\ \A x \in Hits : x = r \/ rules[r].ord < rules[x].ord
      /\ Taking(event) \ rest' = Passed \cup {r}
      /\ rest' \subseteq rest \ {r}
  BY MatchPasses
<1>2. /\ rest \subseteq DOMAIN listed /\ DOMAIN explicit = DOMAIN listed
      /\ \A x \in DOMAIN rules : rules[x].ord \in Int
      /\ DOMAIN rules \subseteq Id
  BY DEF TypeInv, TypeOK, ConfigTypeOK, IsTable, Row, Place, Match
<1>3. Hits = M \cap rest
  BY <1>2, HitsAhead
<1>4. explicit[r] = Own(r) /\ r \in DOMAIN rules /\ r # None
  BY <1>1, <1>2, NoneAssumption DEF Hits, Id
<1>5. /\ decision' = [rule |-> IF decision.rule = None THEN r ELSE decision.rule,
                      severity |-> s,
                      channels |-> decision.channels \cup
                                   IF explicit[r] # {} THEN explicit[r] ELSE DefaultRoutes(s),
                      bypass |-> decision.bypass \/ rules[r].bypass]
      /\ UNCHANGED <<tables, event, severity>>
  BY DEF Match
<1>6. s = IF decision.rule # None \/ rules[r].severity = None
          THEN decision.severity ELSE rules[r].severity
  BY DEF SeverityAfter
<1> HIDE DEF r, s
<1>7. /\ Matching(event)' = M /\ Passed' = Passed \cup {r}
      /\ Called(Passed, decision.severity)' = Called(Passed \cup {r}, s)
  <2>1. Matching(event)' = M /\ Passed' = Passed \cup {r}
    BY <1>1, <1>5, SameTables DEF Passed
  <2>2. decision'.severity = s /\ ruleChannels' = ruleChannels /\ routes' = routes
    BY <1>5
  <2> HIDE DEF Passed
  <2> QED
    BY <2>1, <2>2 DEF Called, Own, Of, DefaultRoutes
<1>8. decision'.rule # None /\ rules' = rules
  BY <1>4, <1>5
<1>9. CASE decision.rule = None
  <2>1. M \subseteq rest /\ decision.severity = severity
    BY <1>9 DEF SoFar
  <2>2. Passed = {}
    BY <2>1 DEF Passed, Taking
  <2>3. decision.channels = {} /\ ~decision.bypass
    BY <2>2 DEF SoFar, Called
  <2>4. decision'.rule = r /\ \A x \in M : rules[r].ord <= rules[x].ord
    <3>1. ASSUME NEW x \in M PROVE rules[r].ord <= rules[x].ord
      <4>1. x \in Hits /\ x \in DOMAIN rules
        BY <1>3, <2>1 DEF Matching
      <4> QED
        BY <1>1, <1>2, <1>4, <4>1
    <3> QED
      BY <1>5, <1>9, <3>1
  <2>5. decision'.severity = IF rules[r].severity = None THEN severity ELSE rules[r].severity
    BY <1>5, <1>6, <1>9, <2>1
  <2>6. decision'.channels = Called(Passed \cup {r}, s)
    <3> DEFINE more == IF Own(r) # {} THEN Own(r) ELSE DefaultRoutes(s)
    <3>1. Called(Passed, s) = {}
      BY <2>2 DEF Called
    <3>2. decision'.channels = decision.channels \cup more
      BY <1>4, <1>5
    <3>3. Called(Passed \cup {r}, s) = Called(Passed, s) \cup more
      BY CalledGrows
    <3> HIDE DEF more
    <3> QED
      BY <2>3, <3>1, <3>2, <3>3
  <2>7. decision'.bypass <=> \E x \in Passed \cup {r} : rules[x].bypass
    BY <1>5, <2>2, <2>3
  <2> QED
    BY <1>5, <1>7, <1>8, <2>4, <2>5, <2>6, <2>7 DEF SoFar
<1>10. CASE decision.rule # None
  <2>1. /\ decision.rule \in Passed
        /\ \A x \in M : rules[decision.rule].ord <= rules[x].ord
        /\ decision.severity = IF rules[decision.rule].severity = None THEN severity
                               ELSE rules[decision.rule].severity
        /\ decision.channels = Called(Passed, decision.severity)
        /\ decision.bypass <=> \E x \in Passed : rules[x].bypass
    BY <1>10 DEF SoFar
  <2>2. decision'.rule = decision.rule /\ decision'.severity = decision.severity
        /\ s = decision.severity
    BY <1>5, <1>6, <1>10
  <2>3. decision'.channels = Called(Passed \cup {r}, s)
    BY <1>4, <1>5, <2>1, <2>2, CalledGrows
  <2>4. decision'.bypass <=> \E x \in Passed \cup {r} : rules[x].bypass
    BY <1>5, <2>1
  <2> QED
    BY <1>5, <1>7, <1>8, <2>1, <2>2, <2>3, <2>4 DEF SoFar
<1> QED
  BY <1>9, <1>10

\* When no rule ahead matches, those that took part are all that should.
LEMMA ConcludeIsRight ==
  ASSUME TypeInv, SoFar, Conclude, listed = rules, device = DeviceAt(event.ip),
         severity = DecodedSeverity(event)
  PROVE  Right(event, decision)'
<1> DEFINE M == Matching(event)
           T == Taking(event)
<1>1. /\ rest \subseteq DOMAIN listed /\ None \notin DOMAIN rules
      /\ decision \in [rule : Id \cup {None}, severity : Id \cup {None},
                       channels : SUBSET Id, bypass : BOOLEAN]
  BY NoneAssumption DEF TypeInv, TypeOK, ConfigTypeOK, IsTable, Id
<1>2. M \cap rest = {}
  BY <1>1, HitsAhead DEF Conclude
<1>3. Passed = T /\ T \subseteq M
  BY <1>2 DEF Passed, Taking
<1>4. /\ decision' = IF decision.rule # None THEN decision
                     ELSE [decision EXCEPT !.channels = DefaultRoutes(severity)]
      /\ UNCHANGED <<tables, event>>
  BY DEF Conclude
<1>5. SUFFICES Right(event, decision')
  <2>1. /\ Matching(event)' = M /\ Taking(event)' = T
        /\ DecodedSeverity(event)' = DecodedSeverity(event)
        /\ rules' = rules /\ ruleChannels' = ruleChannels /\ routes' = routes
    BY <1>4, SameTables
  <2> QED
    BY <2>1 DEF Right, Of, DefaultRoutes
<1>6. CASE decision.rule = None
  <2>1. M = {} /\ T = {} /\ decision.severity = severity /\ ~decision.bypass
    BY <1>2, <1>3, <1>6 DEF SoFar
  <2>2. /\ decision'.rule = None /\ decision'.severity = severity
        /\ decision'.channels = DefaultRoutes(severity) /\ ~decision'.bypass
    BY <1>1, <1>4, <1>6, <2>1
  <2> DEFINE own == UNION {Of(ruleChannels, r) : r \in Taking(event)}
             default == {r \in Taking(event) : Of(ruleChannels, r) = {}}
  <2>3. own = {}
    BY <2>1
  <2>4. decision'.channels = own \cup IF decision'.rule = None \/ default # {}
                                      THEN DefaultRoutes(decision'.severity) ELSE {}
    BY <2>2, <2>3
  <2>5. Matching(event) = {} /\ ~ \E r \in Taking(event) : rules[r].bypass
    BY <2>1
  <2> QED
    BY <2>2, <2>4, <2>5 DEF Right
<1>7. CASE decision.rule # None
  <2>1. /\ decision' = decision
        /\ decision.rule \in T
        /\ \A x \in M : rules[decision.rule].ord <= rules[x].ord
        /\ decision.severity = IF rules[decision.rule].severity = None THEN severity
                               ELSE rules[decision.rule].severity
        /\ decision.channels = Called(T, decision.severity)
        /\ decision.bypass <=> \E x \in T : rules[x].bypass
    BY <1>3, <1>4, <1>7 DEF SoFar
  <2>2. decision.rule \in M
    BY <1>3, <2>1
  <2>3. decision.channels =
          (UNION {Of(ruleChannels, r) : r \in T}) \cup
          IF {r \in T : Of(ruleChannels, r) = {}} # {} THEN DefaultRoutes(decision.severity) ELSE {}
    BY <2>1 DEF Called, Own
  <2> QED
    BY <1>7, <2>1, <2>2, <2>3 DEF Right
<1> QED
  BY <1>6, <1>7

\* While nothing it speaks of changes, the invariant stays.
LEMMA DecisionFrame ==
  ASSUME DecisionInv, UNCHANGED <<tables, pc, call, overlapped>>
  PROVE  DecisionInv'
<1>1. /\ Matching(event)' = Matching(event) /\ Taking(event)' = Taking(event)
      /\ DecodedSeverity(event)' = DecodedSeverity(event)
      /\ DeviceAt(event.ip)' = DeviceAt(event.ip)
  BY SameTables
<1>2. Passed' = Passed
  BY <1>1 DEF Passed
<1>3. /\ InOrder' <=> InOrder
      /\ Right(event, decision)' <=> Right(event, decision)
  BY <1>1 DEF InOrder, Right, Of, DefaultRoutes
<1>4. Called(Passed, decision.severity)' = Called(Passed, decision.severity)
  BY <1>2 DEF Called, Own, Of, DefaultRoutes
<1>5. SoFar' <=> SoFar
  BY <1>1, <1>2, <1>4 DEF SoFar
<1>6. (\A r \in DOMAIN explicit : explicit[r] = Own(r))'
        <=> \A r \in DOMAIN explicit : explicit[r] = Own(r)
  BY DEF Own, Of
<1> QED
  BY <1>1, <1>3, <1>5, <1>6 DEF DecisionInv

\* The queries of a classification and the edits in between preserve it.
LEMMA DecisionStep ==
  ASSUME TypeInv, Unique, DecisionInv, [Next]_vars PROVE DecisionInv'
<1>1. /\ overlapped \in BOOLEAN /\ None \notin Id /\ rest \subseteq DOMAIN listed
      /\ IsTable(listed, Row)
      /\ pc \in {"device", "match"} => DOMAIN explicit = DOMAIN listed
      /\ decision \in [rule : Id \cup {None}, severity : Id \cup {None},
                       channels : SUBSET Id, bypass : BOOLEAN]
  BY NoneAssumption DEF TypeInv, TypeOK, Id
<1>2. CASE \E oid \in Oid, ip \in Address : Receive(oid, ip)
  BY <1>2 DEF Receive, DecisionInv
<1>3. CASE LookupOID
  <2>1. UNCHANGED <<tables, event, overlapped>> /\ pc' \in {"rules", "unknown"}
    BY <1>3 DEF LookupOID
  <2>2. DecodedSeverity(event)' = DecodedSeverity(event)
    BY <2>1, SameTables
  <2>3. ASSUME NEW o \in DOMAIN oids, oids[o].oid = event.oid
        PROVE  DecodedSeverity(event) = oids[o].severity
    <3> DEFINE Hit(row) == row \in {oids[x] : x \in DOMAIN oids} /\ row.oid = event.oid
    <3>1. \A row : Hit(row) <=> row = oids[o]
      BY <2>3 DEF Unique, OidsUnique
    <3>2. (CHOOSE row \in {oids[x] : x \in DOMAIN oids} : row.oid = event.oid) = oids[o]
      BY <3>1
    <3> QED
      BY <2>3, <3>2 DEF DecodedSeverity
  <2>4. CASE pc' = "rules"
    <3>1. severity' = DecodedSeverity(event)
      BY <1>3, <2>3, <2>4 DEF LookupOID
    <3> QED
      BY <2>1, <2>2, <2>4, <3>1 DEF DecisionInv
  <2>5. CASE pc' = "unknown"
    <3>1. \A o \in DOMAIN oids : oids[o].oid # event.oid
      BY <1>3, <2>5 DEF LookupOID
    <3> QED
      BY <2>1, <2>5, <3>1 DEF DecisionInv
  <2> QED
    BY <2>1, <2>4, <2>5
<1>4. CASE UnknownDefaultSeverity
  <2>1. /\ UNCHANGED <<tables, event, overlapped>> /\ pc = "unknown" /\ pc' = "rules"
        /\ severity' = unknown
    BY <1>4 DEF UnknownDefaultSeverity
  <2>2. DecodedSeverity(event)' = DecodedSeverity(event)
    BY <2>1, SameTables
  <2> QED
    BY <2>1, <2>2 DEF DecisionInv, DecodedSeverity
<1>5. CASE ReadRules
  <2>1. /\ UNCHANGED <<tables, event, severity, overlapped>>
        /\ pc = "rules" /\ pc' = "channels" /\ listed' = rules /\ DOMAIN explicit' = {}
    BY <1>5 DEF ReadRules, Empty
  <2>2. DecodedSeverity(event)' = DecodedSeverity(event)
    BY <2>1, SameTables
  <2> QED
    BY <2>1, <2>2 DEF DecisionInv
<1>6. CASE ReadRuleChannels
  <2> DEFINE unread == DOMAIN listed \ DOMAIN explicit
  <2>1. /\ UNCHANGED <<tables, event, severity, listed, overlapped>>
        /\ pc = "channels" /\ pc' \in {"channels", "device"}
        /\ \/ UNCHANGED explicit
           \/ explicit' = Insert(explicit, First(unread), Of(ruleChannels, First(unread)))
    BY <1>6 DEF ReadRuleChannels
  <2>2. DecodedSeverity(event)' = DecodedSeverity(event)
    BY <2>1, SameTables
  <2>3. ASSUME ~overlapped PROVE \A r \in DOMAIN explicit' : explicit'[r] = Of(ruleChannels, r)
    <3>1. \A r \in DOMAIN explicit : explicit[r] = Of(ruleChannels, r)
      BY <2>1, <2>3 DEF DecisionInv, Own
    <3> QED
      BY <2>1, <3>1 DEF Insert
  <2>4. \A r : Own(r)' = Of(ruleChannels, r)
    BY <2>1 DEF Own, Of
  <2> QED
    BY <2>1, <2>2, <2>3, <2>4 DEF DecisionInv
<1>7. CASE DeviceByIP
  <2>1. /\ UNCHANGED <<tables, event, severity, listed, explicit, overlapped>>
        /\ pc = "device" /\ pc' = "match"
        /\ device' = DeviceAt(event.ip) /\ rest' = DOMAIN listed
        /\ decision' = [NoDecision EXCEPT !.severity = severity]
    BY <1>7 DEF DeviceByIP
  <2>2. /\ DecodedSeverity(event)' = DecodedSeverity(event)
        /\ Matching(event)' = Matching(event) /\ Taking(event)' = Taking(event)
        /\ DeviceAt(event.ip)' = DeviceAt(event.ip)
    BY <2>1, SameTables
  <2>3. SUFFICES ASSUME ~overlapped PROVE DecisionInv'
    BY <2>1 DEF DecisionInv
  <2>4. listed = rules /\ severity = DecodedSeverity(event)
    BY <2>1, <2>3 DEF DecisionInv
  <2>5. Matching(event) \subseteq rest' /\ Taking(event) \subseteq Matching(event)
    BY <2>1, <2>4 DEF Matching, Taking
  <2>6. InOrder'
    BY <2>2, <2>5 DEF InOrder
  <2>7. SoFar'
    <3>1. /\ decision'.rule = None /\ decision'.severity = severity
          /\ decision'.channels = {} /\ decision'.bypass = FALSE
      BY <2>1 DEF NoDecision
    <3>2. Passed' = {}
      BY <2>2, <2>5 DEF Passed
    <3>3. Called(Passed, decision.severity)' = {}
      BY <3>2 DEF Called
    <3> QED
      BY <2>1, <2>2, <2>5, <3>1, <3>2, <3>3 DEF SoFar
  <2>8. (\A r \in DOMAIN explicit : explicit[r] = Own(r))'
    BY <2>1, <2>3 DEF DecisionInv, Own, Of
  <2> QED
    BY <2>1, <2>2, <2>4, <2>6, <2>7, <2>8 DEF DecisionInv
<1>8. CASE Match
  <2>1. /\ UNCHANGED <<tables, event, severity, listed, explicit, device, pc, overlapped>>
        /\ pc = "match"
    BY <1>8 DEF Match
  <2>2. /\ DecodedSeverity(event)' = DecodedSeverity(event)
        /\ DeviceAt(event.ip)' = DeviceAt(event.ip)
    BY <2>1, SameTables
  <2>3. SUFFICES ASSUME ~overlapped PROVE DecisionInv'
    BY <2>1 DEF DecisionInv
  <2>4. /\ listed = rules /\ severity = DecodedSeverity(event)
        /\ device = DeviceAt(event.ip) /\ InOrder /\ SoFar
        /\ \A r \in DOMAIN explicit : explicit[r] = Own(r)
    BY <2>1, <2>3 DEF DecisionInv
  <2>5. InOrder' /\ SoFar'
    BY <1>8, <2>4, MatchPasses, MatchDecides
  <2>6. (\A r \in DOMAIN explicit : explicit[r] = Own(r))'
    BY <2>1, <2>4 DEF Own, Of
  <2> QED
    BY <2>1, <2>2, <2>4, <2>5, <2>6 DEF DecisionInv
<1>9. CASE Conclude
  <2>1. pc = "match" /\ pc' = "classified" /\ UNCHANGED overlapped
    BY <1>9 DEF Conclude
  <2>2. ASSUME ~overlapped PROVE Right(event, decision)'
    <3>1. /\ listed = rules /\ severity = DecodedSeverity(event)
          /\ device = DeviceAt(event.ip) /\ SoFar
      BY <2>1, <2>2 DEF DecisionInv
    <3> QED
      BY <1>9, <3>1, ConcludeIsRight
  <2> QED
    BY <2>1, <2>2 DEF DecisionInv
<1>10. CASE Persist
  BY <1>10 DEF Persist, DecisionInv
<1>11. CASE Notify
  BY <1>11 DEF Notify, DecisionInv
<1>12. CASE AnswerTest
  BY <1>12 DEF AnswerTest, DecisionInv
<1>13. CASE Administer
  <2>1. UNCHANGED <<pc, call>> /\ overlapped' = (overlapped \/ (Busy /\ tables' # tables))
    BY <1>13 DEF Administer
  <2>2. CASE UNCHANGED tables
    BY <1>1, <2>1, <2>2, DecisionFrame
  <2>3. CASE Busy /\ tables' # tables
    BY <2>1, <2>3 DEF DecisionInv
  <2>4. CASE pc \in {"idle", "lost"}
    BY <2>1, <2>4 DEF DecisionInv
  <2> QED
    BY <2>2, <2>3, <2>4 DEF Busy
<1>14. CASE UNCHANGED vars
  BY <1>14, DecisionFrame
<1> QED
  BY <1>2, <1>3, <1>4, <1>5, <1>6, <1>7, <1>8, <1>9, <1>10, <1>11, <1>12, <1>13, <1>14
  DEF Next, Classification

\* internal/rules/rules.go Engine.Classify, internal/decode/decode.go: for tables
\* of any size and any edits before and after, the walk over the rules, one query
\* after the other, ends with the rule, severity, channels and bypass the tables
\* call for, unless an edit came in between.
THEOREM ClassifyDecisionMatchesRules == Spec => []DecisionMatchesRules
<1>1. Init => DecisionInv
  BY DEF Init, DecisionInv
<1>2. TypeInv /\ Unique /\ DecisionInv /\ [Next]_vars => DecisionInv'
  BY DecisionStep
<1>3. DecisionInv => DecisionMatchesRules
  BY DEF DecisionInv, DecisionMatchesRules
<1> QED
  BY <1>1, <1>2, <1>3, TypeInvAlways, UniqueAlways, PTL DEF Spec

-----------------------------------------------------------------------------
(***************************************************************************)
(* The ordered list.                                                       *)
(***************************************************************************)

\* A step leaves a list of the rules, in which those of S keep their order, when
\* it keeps the order of their places.
LEMMA KeepsOrder ==
  ASSUME ConfigTypeOK', OrdsUnique',
         NEW S, S \subseteq DOMAIN rules, S \subseteq DOMAIN rules',
         \A r, x \in S : rules'[r].ord < rules'[x].ord <=> rules[r].ord < rules[x].ord
  PROVE  List!Keeping(S)
<1>1. \A r \in DOMAIN rules' : rules'[r].ord \in Int
  BY DEF ConfigTypeOK, IsTable, Row, Place
<1>2. /\ \A r, x : <<r, x>> \in RuleOrder' <=>
           r \in DOMAIN rules' /\ x \in DOMAIN rules' /\ rules'[r].ord < rules'[x].ord
      /\ RuleOrder' \subseteq (DOMAIN rules') \X (DOMAIN rules')
  BY DEF RuleOrder
<1>3. \A r, x : <<r, x>> \in RuleOrder <=>
        r \in DOMAIN rules /\ x \in DOMAIN rules /\ rules[r].ord < rules[x].ord
  BY DEF RuleOrder
<1>4. \A r, x \in S : <<r, x>> \in RuleOrder' <=> <<r, x>> \in RuleOrder
  BY <1>2, <1>3
<1>5. \A r \in DOMAIN rules' : <<r, r>> \notin RuleOrder'
  BY <1>1, <1>2
<1>6. \A r, x \in DOMAIN rules' : r # x => <<r, x>> \in RuleOrder' \/ <<x, r>> \in RuleOrder'
  BY <1>1, <1>2 DEF OrdsUnique
<1>7. \A r, x, y \in DOMAIN rules' :
        <<r, x>> \in RuleOrder' /\ <<x, y>> \in RuleOrder' => <<r, y>> \in RuleOrder'
  BY <1>1, <1>2
<1> HIDE DEF RuleOrder
<1>8. List!Orders(RuleOrder', DOMAIN rules')
  BY <1>2, <1>5, <1>6, <1>7 DEF List!Orders
<1> QED
  BY <1>4, <1>8 DEF List!Keeping

\* The configurations to start from hold a list.
LEMMA ListInit ==
  ASSUME ConfigTypeOK, OrdsUnique PROVE List!Init
<1>1. /\ \A r \in DOMAIN rules : rules[r].ord \in Int
      /\ DOMAIN rules \subseteq Id
  BY DEF ConfigTypeOK, IsTable, Row, Place
<1>2. /\ \A r, x : <<r, x>> \in RuleOrder <=>
           r \in DOMAIN rules /\ x \in DOMAIN rules /\ rules[r].ord < rules[x].ord
      /\ RuleOrder \subseteq (DOMAIN rules) \X (DOMAIN rules)
  BY DEF RuleOrder
<1>3. \A r \in DOMAIN rules : <<r, r>> \notin RuleOrder
  BY <1>1, <1>2
<1>4. \A r, x \in DOMAIN rules : r # x => <<r, x>> \in RuleOrder \/ <<x, r>> \in RuleOrder
  BY <1>1, <1>2 DEF OrdsUnique
<1>5. \A r, x, y \in DOMAIN rules :
        <<r, x>> \in RuleOrder /\ <<x, y>> \in RuleOrder => <<r, y>> \in RuleOrder
  BY <1>1, <1>2
<1>6. List!Orders(RuleOrder, DOMAIN rules)
  BY <1>2, <1>3, <1>4, <1>5 DEF List!Orders
<1> QED
  BY <1>1, <1>6 DEF List!Init

Ahead == {r \in DOMAIN rules : rules[r].ord < 0}
ListStep == List!Next \/ UNCHANGED <<DOMAIN rules, RuleOrder, Ahead>>

\* Each request is one operation of the list.
LEMMA RuleRequests ==
  ASSUME ConfigTypeOK, ConfigTypeOK', OrdsUnique, OrdsUnique', IdsGrow, ConfigNext
  PROVE  ListStep
<1> USE DEF ListStep
<1>1. /\ \A r \in DOMAIN rules : rules[r] \in Row /\ rules[r].ord \in Int
      /\ DOMAIN rules \subseteq Id
  BY DEF ConfigTypeOK, IsTable, Row, Place
<1>2. CASE UNCHANGED rules
  BY <1>2 DEF RuleOrder, Ahead
<1>3. ASSUME NEW ord \in Ord, NEW f \in Form, NEW S \in SUBSET DOMAIN channels,
             CreateRule(ord, f, S)
      PROVE  ListStep
  <2>1. PICK n \in Id : n \notin DOMAIN rules /\ \E row : rules' = Insert(rules, n, row)
    BY <1>3, FreshId DEF CreateRule, TakeId
  <2>2. /\ DOMAIN rules' = DOMAIN rules \cup {n}
        /\ \A r \in DOMAIN rules : rules'[r] = rules[r]
    BY <2>1 DEF Insert
  <2>3. List!Keeping(DOMAIN rules)
    BY <2>2, KeepsOrder
  <2>4. Ahead' \subseteq DOMAIN rules' /\ Ahead' \ {n} = Ahead \ {n}
    BY <2>1, <2>2 DEF Ahead
  <2>5. List!Add(n)
    BY <2>1, <2>2, <2>3, <2>4 DEF List!Add, List!Placing, Ahead
  <2> QED
    BY <2>5 DEF List!Next
<1>4. ASSUME NEW ord \in Ord, NEW r \in DOMAIN rules, NEW f \in Form,
             NEW S \in SUBSET DOMAIN channels, UpdateRule(r, ord, f, S)
      PROVE  ListStep
  <2>1. \E row : rules' = [rules EXCEPT ![r] = row]
    BY <1>4 DEF UpdateRule
  <2>2. /\ DOMAIN rules' = DOMAIN rules
        /\ \A x \in DOMAIN rules \ {r} : rules'[x] = rules[x]
    BY <2>1
  <2>3. List!Keeping(DOMAIN rules \ {r})
    BY <2>2, KeepsOrder
  <2>4. Ahead' \subseteq DOMAIN rules' /\ Ahead' \ {r} = Ahead \ {r}
    BY <2>2 DEF Ahead
  <2>5. List!Move(r)
    BY <2>2, <2>3, <2>4 DEF List!Move, List!Placing, Ahead
  <2> QED
    BY <1>1, <2>5 DEF List!Next
<1>5. ASSUME NEW place \in Places, ReorderRules(place) PROVE ListStep
  <2> DEFINE L == DOMAIN place
  <2>1. /\ L \subseteq DOMAIN rules
        /\ \A r \in L : place[r] \in Nat /\ place[r] < Offset
    BY PlacesGiven
  <2> HIDE DEF L
  <2>2. /\ DOMAIN rules' = DOMAIN rules
        /\ \A r \in L : rules'[r].ord = place[r]
        /\ \A r \in DOMAIN rules \ L : rules'[r].ord = rules[r].ord + Offset
    <3>1. rules' = Reordered(place)
      BY <1>5 DEF ReorderRules
    <3> QED
      BY <1>1, <2>1, <3>1 DEF Reordered, Row, L
  <2>3. \A r, x \in DOMAIN rules \ L :
          rules'[r].ord < rules'[x].ord <=> rules[r].ord < rules[x].ord
    BY <1>1, <2>2, OffsetAssumption
  <2>4. List!Keeping(DOMAIN rules \ L)
    BY <2>2, <2>3, KeepsOrder
  <2>5. ASSUME NEW r \in L, NEW x \in DOMAIN rules \ (L \cup Ahead)
        PROVE  <<r, x>> \in RuleOrder'
    <3>1. ~(rules[x].ord < 0)
      BY DEF Ahead
    <3>2. rules'[r].ord < rules'[x].ord
      BY <1>1, <2>1, <2>2, <3>1, OffsetAssumption
    <3> QED
      BY <2>1, <2>2, <3>2 DEF RuleOrder
  <2>6. Ahead' \subseteq Ahead \ L
    <3> SUFFICES ASSUME NEW x \in DOMAIN rules, rules'[x].ord < 0 PROVE x \in Ahead \ L
      BY <2>2 DEF Ahead
    <3>1. x \notin L
      BY <2>1, <2>2
    <3>2. rules[x].ord < 0
      BY <1>1, <2>2, <3>1, OffsetAssumption
    <3> QED
      BY <3>1, <3>2 DEF Ahead
  <2>7. List!Reorder(L)
    BY <2>2, <2>4, <2>5, <2>6 DEF List!Reorder, Ahead
  <2> QED
    BY <2>1, <2>7 DEF List!Next
<1>6. ASSUME NEW r \in DOMAIN rules, DeleteRule(r) PROVE ListStep
  <2>1. rules' = Delete(rules, r) /\ r \in Id
    BY <1>1, <1>6 DEF DeleteRule
  <2>2. /\ DOMAIN rules' = DOMAIN rules \ {r}
        /\ \A x \in DOMAIN rules' : rules'[x] = rules[x]
    BY <2>1 DEF Delete
  <2>3. List!Keeping(DOMAIN rules')
    BY <2>2, KeepsOrder
  <2>4. Ahead' = Ahead \ {r}
    BY <2>2 DEF Ahead
  <2>5. List!Withdraw(r)
    BY <2>2, <2>3, <2>4 DEF List!Withdraw, Ahead
  <2> QED
    BY <2>1, <2>5 DEF List!Next
<1>7. CASE RuleRequest
  BY <1>3, <1>4, <1>5, <1>6, <1>7 DEF RuleRequest
<1>8. CASE SeverityRequest
  BY <1>2, <1>8 DEF SeverityRequest, CreateSeverity, DeleteSeverity, UpdateSeverity
<1>9. CASE OidRequest
  BY <1>2, <1>9 DEF OidRequest, CreateOID, UpdateOID, DeleteOID
<1>10. CASE DeviceRequest
  BY <1>2, <1>10 DEF DeviceRequest, CreateDevice, UpdateDevice, DeleteDevice
<1>11. CASE ChannelRequest
  BY <1>2, <1>11 DEF ChannelRequest, CreateChannel, UpdateChannel, DeleteChannel
<1>12. CASE RouteRequest
  BY <1>2, <1>12 DEF RouteRequest, SetDefaultRoutes
<1>13. ASSUME NEW s \in Id \cup {None}, SetUnknown(s) PROVE ListStep
  BY <1>2, <1>13 DEF SetUnknown
<1> QED
  BY <1>7, <1>8, <1>9, <1>10, <1>11, <1>12, <1>13 DEF ConfigNext

\* internal/store/rules.go: for any number of rules and whatever ord or list a
\* request asks for, an edit moves no rule past another it does not name.
THEOREM ClassifyImplementsRuleList == Spec => ImplementsRuleList
<1>1. Init /\ TypeInv /\ Unique => List!Init
  BY ListInit DEF TypeInv, TypeOK, Unique
<1>2. TypeInv /\ TypeInv' /\ Unique /\ Unique' /\ SavedInv /\ [Next]_vars
        => [List!Next]_<<DOMAIN rules, RuleOrder, {r \in DOMAIN rules : rules[r].ord < 0}>>
  <2> SUFFICES ASSUME ConfigTypeOK, ConfigTypeOK', OrdsUnique, OrdsUnique', IdsGrow,
                      [Next]_vars
               PROVE  ListStep
    BY DEF ListStep, Ahead, TypeInv, TypeOK, Unique, SavedInv
  <2>1. CASE Administer
    BY <2>1, RuleRequests DEF Administer
  <2>2. CASE ~Administer
    <3>1. UNCHANGED rules
      BY <2>2, OtherSteps
    <3> QED
      BY <3>1 DEF ListStep, RuleOrder, Ahead
  <2> QED
    BY <2>1, <2>2
<1> QED
  BY <1>1, <1>2, TypeInvAlways, UniqueAlways, SavedAlways, PTL
  DEF Spec, ImplementsRuleList, List!Spec

=============================================================================
