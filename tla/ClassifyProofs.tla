--------------------------- MODULE ClassifyProofs ---------------------------
(***************************************************************************)
(* Proofs about Config and Classify for tables of any size and any number  *)
(* of edits and events.                                                    *)
(***************************************************************************)
EXTENDS Classify, FiniteSetTheorems, WellFoundedInduction, TLAPS

USE DEF vars, configVars, tables, call

-----------------------------------------------------------------------------
(***************************************************************************)
(* Tables.                                                                 *)
(***************************************************************************)

\* A table with another row is a table.
LEMMA InsertRow ==
  ASSUME NEW T, NEW R, IsTable(T, R), NEW i \in Id, NEW row \in R
  PROVE  IsTable(Insert(T, i, row), R)
BY DEF IsTable, Insert

\* So is one with a row replaced,
LEMMA UpdateRow ==
  ASSUME NEW T, NEW R, IsTable(T, R), NEW i \in DOMAIN T, NEW row \in R
  PROVE  IsTable([T EXCEPT ![i] = row], R)
BY DEF IsTable

\* and one without a row.
LEMMA DeleteRow ==
  ASSUME NEW T, NEW R, IsTable(T, R), NEW i
  PROVE  IsTable(Delete(T, i), R)
BY DEF IsTable, Delete

\* The first of some rules that were read is one of them.
LEMMA FirstIsMember ==
  ASSUME IsTable(listed, Row), NEW R \in SUBSET DOMAIN listed, R # {}
  PROVE  /\ First(R) \in R
         /\ \A x \in R : listed[First(R)].ord <= listed[x].ord
<1> DEFINE Height(r) == listed[r].ord - MinOrd
           Heights == {Height(r) : r \in R}
           Less == {p \in Nat \X Nat : p[1] < p[2]}
<1>1. \A r \in R : listed[r].ord \in Int /\ MinOrd \in Int /\ Height(r) \in Nat
  <2> SUFFICES ASSUME NEW r \in R
               PROVE  listed[r].ord \in Int /\ MinOrd \in Int /\ Height(r) \in Nat
    OBVIOUS
  <2>1. listed[r].ord \in Int /\ listed[r].ord >= MinOrd
    BY DEF IsTable, Row, Place
  <2> QED
    BY <2>1, OrdAssumption
<1>2. Heights \subseteq Nat /\ Heights # {}
  BY <1>1
<1>3. IsWellFoundedOn(Less, Nat)
  BY NatLessThanWellFounded DEF OpToRel
<1>4. \E m \in Heights : \A y \in Heights : ~ (<<y, m>> \in Less)
  <2> HIDE DEF Heights, Less
  <2> QED
    BY <1>2, <1>3, WFMin
<1>5. PICK r \in R : \A y \in Heights : ~ (<<y, Height(r)>> \in Less)
  BY <1>4
<1>6. ASSUME NEW x \in R PROVE listed[r].ord <= listed[x].ord
  <2>1. Height(r) \in Nat /\ Height(x) \in Nat /\ Height(x) \in Heights
    BY <1>1
  <2>2. ~(<<Height(x), Height(r)>> \in Less)
    BY <1>5, <2>1
  <2>3. ~(Height(x) < Height(r))
    <3> HIDE DEF Height
    <3> QED
      BY <2>1, <2>2
  <2> QED
    BY <1>1, <2>3
<1> QED
  BY <1>6 DEF First

-----------------------------------------------------------------------------
(***************************************************************************)
(* Types.                                                                  *)
(***************************************************************************)

\* The edits, one by one.
LEMMA Edits ==
  ASSUME ConfigNext
  PROVE  \/ \E s \in Id : \/ CreateSeverity(s) \/ DeleteSeverity(s)
                          \/ \E rank \in Id : UpdateSeverity(s, rank)
         \/ \E s \in Id \cup {None}, oid \in Oid :
              CreateOID(oid, s) \/ \E o \in DOMAIN oids : UpdateOID(o, oid, s)
         \/ \E o \in DOMAIN oids : DeleteOID(o)
         \/ \E ip \in Address :
              CreateDevice(ip) \/ \E d \in DOMAIN devices : UpdateDevice(d, ip)
         \/ \E d \in DOMAIN devices : DeleteDevice(d)
         \/ \E e \in BOOLEAN :
              CreateChannel(e) \/ \E c \in DOMAIN channels : UpdateChannel(c, e)
         \/ \E c \in DOMAIN channels : DeleteChannel(c)
         \/ \E s \in Id, S \in SUBSET DOMAIN channels : SetDefaultRoutes(s, S)
         \/ \E ord \in Ord, f \in Form, S \in SUBSET DOMAIN channels :
              CreateRule(ord, f, S) \/ \E r \in DOMAIN rules : UpdateRule(r, ord, f, S)
         \/ \E r \in DOMAIN rules : DeleteRule(r)
         \/ \E place \in Places : ReorderRules(place)
         \/ \E s \in Id \cup {None} : SetUnknown(s)
BY DEF ConfigNext, SeverityRequest, OidRequest, DeviceRequest, ChannelRequest,
       RouteRequest, RuleRequest

\* A list of ids gives its rules different places, below the offset.
LEMMA PlacesGiven ==
  ASSUME NEW place \in Places
  PROVE  /\ DOMAIN place \subseteq DOMAIN rules
         /\ \A r \in DOMAIN place : place[r] \in Nat /\ place[r] < Offset
         /\ \A r, x \in DOMAIN place : place[r] = place[x] => r = x
<1>1. PICK L \in SUBSET DOMAIN rules :
        /\ place \in [L -> 0 .. MaxId - 1]
        /\ \A r, x \in L : place[r] = place[x] => r = x
  BY DEF Places
<1>2. \A n \in 0 .. MaxId - 1 : n \in Nat /\ n < Offset
  BY ConfigBounds, OffsetAssumption
<1> QED
  BY <1>1, <1>2

\* A row is the form and its place.
LEMMA RowType == ASSUME NEW f \in Form, NEW ord \in Ord PROVE RowOf(ord, f) \in Row
BY FormAssumption, OrdAssumption DEF RowOf, Row

\* Every edit keeps the types of the tables.
LEMMA ConfigTypes == ASSUME ConfigTypeOK, ConfigNext PROVE ConfigTypeOK'
<1> USE ConfigBounds DEF Id
<1>1. /\ IsTable(severities, [rank : Nat, builtin : BOOLEAN])
      /\ IsTable(oids, [oid : Oid, severity : Id \cup {None}])
      /\ IsTable(devices, Address) /\ IsTable(channels, BOOLEAN) /\ IsTable(rules, Row)
      /\ lastId \in [Table -> 0..MaxId]
      /\ asked \in [rules : [Id -> SUBSET Id], routes : [Id -> SUBSET Id]]
  BY DEF ConfigTypeOK
<1>2. /\ DOMAIN severities \subseteq Id /\ DOMAIN oids \subseteq Id
      /\ DOMAIN devices \subseteq Id /\ DOMAIN channels \subseteq Id
      /\ DOMAIN rules \subseteq Id
  BY <1>1 DEF IsTable
<1>3. ASSUME Edit PROVE edits' \in 0..MaxEdits
  BY <1>3 DEF Edit, ConfigTypeOK
<1>4. ASSUME NEW t \in Table, TakeId(t) PROVE lastId' \in [Table -> 0..MaxId] /\ NewId(t) \in Id
  BY <1>1, <1>4 DEF TakeId, NewId
<1>5. ASSUME NEW r \in Id, NEW S \in SUBSET Id
      PROVE  /\ [asked EXCEPT !.rules[r] = S] \in [rules : [Id -> SUBSET Id], routes : [Id -> SUBSET Id]]
             /\ [asked EXCEPT !.routes[r] = S] \in [rules : [Id -> SUBSET Id], routes : [Id -> SUBSET Id]]
  BY <1>1
<1>6. \A pairs, id : Cascade(pairs, 1, id) \subseteq pairs /\ Cascade(pairs, 2, id) \subseteq pairs
  BY DEF Cascade
<1> HIDE DEF Id
<1>7. ASSUME NEW s \in Id, CreateSeverity(s) PROVE ConfigTypeOK'
  <2>1. [rank |-> s, builtin |-> FALSE] \in [rank : Nat, builtin : BOOLEAN]
    BY DEF Id
  <2>2. IsTable(severities', [rank : Nat, builtin : BOOLEAN])
    BY <1>1, <1>4, <1>7, <2>1, InsertRow DEF CreateSeverity, Table
  <2> QED
    BY <1>3, <1>4, <1>7, <2>2 DEF CreateSeverity, ConfigTypeOK, Table
<1>8. ASSUME NEW s \in Id, DeleteSeverity(s) PROVE ConfigTypeOK'
  <2>1. IsTable(severities', [rank : Nat, builtin : BOOLEAN])
    BY <1>1, <1>8, DeleteRow DEF DeleteSeverity
  <2> QED
    BY <1>3, <1>6, <1>8, <2>1 DEF DeleteSeverity, ConfigTypeOK
<1>9. ASSUME NEW s \in Id, NEW rank \in Id, UpdateSeverity(s, rank) PROVE ConfigTypeOK'
  <2>1. s \in DOMAIN severities
        /\ severities' = [severities EXCEPT ![s] = [severities[s] EXCEPT !.rank = rank]]
    BY <1>9 DEF UpdateSeverity
  <2>2. [severities[s] EXCEPT !.rank = rank] \in [rank : Nat, builtin : BOOLEAN]
    <3>1. severities[s] \in [rank : Nat, builtin : BOOLEAN]
      BY <1>1, <2>1 DEF IsTable
    <3>2. rank \in Nat
      BY DEF Id
    <3> QED
      BY <3>1, <3>2
  <2>3. IsTable(severities', [rank : Nat, builtin : BOOLEAN])
    BY <1>1, <2>1, <2>2, UpdateRow
  <2> QED
    BY <1>3, <1>9, <2>3 DEF UpdateSeverity, ConfigTypeOK
<1>10. ASSUME NEW s \in Id \cup {None}, NEW oid \in Oid, CreateOID(oid, s)
       PROVE  ConfigTypeOK'
  <2> DEFINE R == [oid : Oid, severity : Id \cup {None}]
  <2>1. CASE TakeId("oids") /\ oids' = Insert(oids, NewId("oids"), [oid |-> oid, severity |-> s])
    <3>1. NewId("oids") \in Id /\ lastId' \in [Table -> 0..MaxId]
      BY <1>4, <2>1 DEF Table
    <3>2. [oid |-> oid, severity |-> s] \in R
      OBVIOUS
    <3>3. IsTable(oids', R)
      BY <1>1, <2>1, <3>1, <3>2, InsertRow
    <3> QED
      BY <1>3, <1>10, <3>1, <3>3 DEF CreateOID, ConfigTypeOK
  <2>2. ASSUME NEW o \in DOMAIN oids, oids' = [oids EXCEPT ![o].severity = s], UNCHANGED lastId
        PROVE  ConfigTypeOK'
    <3>1. oids' = [oids EXCEPT ![o] = [oids[o] EXCEPT !.severity = s]]
      BY <2>2
    <3>2. [oids[o] EXCEPT !.severity = s] \in R
      BY <1>1 DEF IsTable
    <3>3. IsTable(oids', R)
      BY <1>1, <3>1, <3>2, UpdateRow
    <3> QED
      BY <1>1, <1>3, <1>10, <2>2, <3>3 DEF CreateOID, ConfigTypeOK
  <2> QED
    BY <1>10, <2>1, <2>2 DEF CreateOID
<1>11. ASSUME NEW s \in Id \cup {None}, NEW oid \in Oid, NEW o \in DOMAIN oids,
              UpdateOID(o, oid, s)
       PROVE  ConfigTypeOK'
  <2>1. [oid |-> oid, severity |-> s] \in [oid : Oid, severity : Id \cup {None}]
    OBVIOUS
  <2>2. oids' = [oids EXCEPT ![o] = [oid |-> oid, severity |-> s]]
    BY <1>11 DEF UpdateOID
  <2>3. IsTable(oids', [oid : Oid, severity : Id \cup {None}])
    BY <1>1, <2>1, <2>2, UpdateRow
  <2> QED
    BY <1>3, <1>11, <2>3 DEF UpdateOID, ConfigTypeOK
<1>12. ASSUME NEW o \in DOMAIN oids, DeleteOID(o) PROVE ConfigTypeOK'
  <2>1. IsTable(oids', [oid : Oid, severity : Id \cup {None}])
    BY <1>1, <1>12, DeleteRow DEF DeleteOID
  <2> QED
    BY <1>3, <1>12, <2>1 DEF DeleteOID, ConfigTypeOK
<1>13. ASSUME NEW ip \in Address, CreateDevice(ip) PROVE ConfigTypeOK'
  <2>1. IsTable(devices', Address)
    BY <1>1, <1>4, <1>13, InsertRow DEF CreateDevice, Table
  <2> QED
    BY <1>3, <1>4, <1>13, <2>1 DEF CreateDevice, ConfigTypeOK, Table
<1>14. ASSUME NEW ip \in Address, NEW d \in DOMAIN devices, UpdateDevice(d, ip)
       PROVE  ConfigTypeOK'
  <2>1. IsTable(devices', Address)
    BY <1>1, <1>14, UpdateRow DEF UpdateDevice
  <2> QED
    BY <1>3, <1>14, <2>1 DEF UpdateDevice, ConfigTypeOK
<1>15. ASSUME NEW d \in DOMAIN devices, DeleteDevice(d) PROVE ConfigTypeOK'
  <2>1. IsTable(devices', Address)
    BY <1>1, <1>15, DeleteRow DEF DeleteDevice
  <2> QED
    BY <1>3, <1>15, <2>1 DEF DeleteDevice, ConfigTypeOK
<1>16. ASSUME NEW e \in BOOLEAN, CreateChannel(e) PROVE ConfigTypeOK'
  <2>1. IsTable(channels', BOOLEAN)
    BY <1>1, <1>4, <1>16, InsertRow DEF CreateChannel, Table
  <2> QED
    BY <1>3, <1>4, <1>16, <2>1 DEF CreateChannel, ConfigTypeOK, Table
<1>17. ASSUME NEW e \in BOOLEAN, NEW c \in DOMAIN channels, UpdateChannel(c, e)
       PROVE  ConfigTypeOK'
  <2>1. IsTable(channels', BOOLEAN)
    BY <1>1, <1>17, UpdateRow DEF UpdateChannel
  <2> QED
    BY <1>3, <1>17, <2>1 DEF UpdateChannel, ConfigTypeOK
<1>18. ASSUME NEW c \in DOMAIN channels, DeleteChannel(c) PROVE ConfigTypeOK'
  <2>1. IsTable(channels', BOOLEAN)
    BY <1>1, <1>18, DeleteRow DEF DeleteChannel
  <2> QED
    BY <1>3, <1>6, <1>18, <2>1 DEF DeleteChannel, ConfigTypeOK
<1>19. ASSUME NEW s \in Id, NEW S \in SUBSET DOMAIN channels, SetDefaultRoutes(s, S)
       PROVE  ConfigTypeOK'
  <2>1. routes' \subseteq Id \X Id
    BY <1>2, <1>19 DEF SetDefaultRoutes, Replace, ConfigTypeOK
  <2>2. asked' \in [rules : [Id -> SUBSET Id], routes : [Id -> SUBSET Id]]
    BY <1>2, <1>5, <1>19 DEF SetDefaultRoutes
  <2> QED
    BY <1>3, <1>19, <2>1, <2>2 DEF SetDefaultRoutes, ConfigTypeOK
<1>20. ASSUME NEW ord \in Ord, NEW f \in Form, NEW S \in SUBSET DOMAIN channels,
              CreateRule(ord, f, S)
       PROVE  ConfigTypeOK'
  <2> DEFINE n == NewId("rules")
  <2>1. RowOf(ord, f) \in Row
    BY RowType
  <2>2. n \in Id /\ lastId' \in [Table -> 0..MaxId]
    BY <1>4, <1>20 DEF CreateRule, Table
  <2> HIDE DEF n
  <2>3. IsTable(rules', Row)
    BY <1>1, <1>20, <2>1, <2>2, InsertRow DEF CreateRule, n
  <2>4. ruleChannels' \subseteq Id \X Id
    BY <1>2, <1>20, <2>2 DEF CreateRule, ConfigTypeOK, n
  <2>5. asked' \in [rules : [Id -> SUBSET Id], routes : [Id -> SUBSET Id]]
    BY <1>2, <1>5, <1>20, <2>2 DEF CreateRule, n
  <2> QED
    BY <1>3, <1>20, <2>2, <2>3, <2>4, <2>5 DEF CreateRule, ConfigTypeOK
<1>21. ASSUME NEW ord \in Ord, NEW r \in DOMAIN rules, NEW f \in Form,
              NEW S \in SUBSET DOMAIN channels, UpdateRule(r, ord, f, S)
       PROVE  ConfigTypeOK'
  <2>1. r \in Id
    BY <1>2
  <2>2. RowOf(ord, f) \in Row
    BY RowType
  <2>3. IsTable(rules', Row)
    BY <1>1, <1>21, <2>2, UpdateRow DEF UpdateRule
  <2>4. ruleChannels' \subseteq Id \X Id
    BY <1>2, <1>21, <2>1 DEF UpdateRule, Replace, ConfigTypeOK
  <2>5. asked' \in [rules : [Id -> SUBSET Id], routes : [Id -> SUBSET Id]]
    BY <1>2, <1>5, <1>21, <2>1 DEF UpdateRule
  <2> QED
    BY <1>3, <1>21, <2>3, <2>4, <2>5 DEF UpdateRule, ConfigTypeOK
<1>22. ASSUME NEW place \in Places, ReorderRules(place) PROVE ConfigTypeOK'
  <2>1. \A n \in Nat : n \in Place
    BY OrdAssumption DEF Place
  <2>2. ASSUME NEW r \in DOMAIN rules
        PROVE  (IF r \in DOMAIN place THEN place[r] ELSE rules[r].ord + Offset) \in Place
    <3>1. rules[r].ord \in Place
      BY <1>1 DEF IsTable, Row
    <3>2. rules[r].ord + Offset \in Place
      BY <3>1, OrdAssumption, OffsetAssumption DEF Place
    <3> QED
      BY <2>1, <3>2, PlacesGiven
  <2>3. ASSUME NEW r \in DOMAIN rules, NEW o \in Place
        PROVE  [rules[r] EXCEPT !.ord = o] \in Row
    <3>1. rules[r] \in Row
      BY <1>1 DEF IsTable
    <3> QED
      BY <3>1 DEF Row
  <2>4. IsTable(Reordered(place), Row)
    BY <1>1, <2>2, <2>3 DEF IsTable, Reordered
  <2> QED
    BY <1>3, <1>22, <2>4 DEF ReorderRules, ConfigTypeOK
<1>23. ASSUME NEW r \in DOMAIN rules, DeleteRule(r) PROVE ConfigTypeOK'
  <2>1. IsTable(rules', Row)
    BY <1>1, <1>23, DeleteRow DEF DeleteRule
  <2> QED
    BY <1>3, <1>6, <1>23, <2>1 DEF DeleteRule, ConfigTypeOK
<1>24. ASSUME NEW s \in Id \cup {None}, SetUnknown(s) PROVE ConfigTypeOK'
  BY <1>3, <1>24 DEF SetUnknown, ConfigTypeOK
<1> QED
  BY Edits, <1>7, <1>8, <1>9, <1>10, <1>11, <1>12, <1>13, <1>14, <1>15, <1>16, <1>17,
     <1>18, <1>19, <1>20, <1>21, <1>22, <1>23, <1>24

\* With the types: the channels of all rules are read before one is matched, and
\* nothing is left to match before the rules are read.
TypeInv ==
  /\ TypeOK
  /\ DOMAIN explicit \subseteq DOMAIN listed
  /\ pc \in {"device", "match"} => DOMAIN explicit = DOMAIN listed
  /\ pc \notin {"match", "classified"} => rest = {}

\* A configuration the run starts from has the types.
LEMMA TypeInvInit == ASSUME Init PROVE TypeInv
<1> USE SetupAssumption, ConfigBounds, EventBound, NoneAssumption
<1>1. PICK s \in Setup :
        /\ severities = s.severities /\ oids = s.oids /\ devices = s.devices
        /\ channels = s.channels /\ rules = s.rules
        /\ ruleChannels = s.ruleChannels /\ routes = s.routes
        /\ unknown = s.unknown /\ lastId = s.lastId
        /\ asked = [rules |-> [r \in Id |-> Of(s.ruleChannels, r)],
                    routes |-> [v \in Id |-> Of(s.routes, v)]]
  BY DEF Init
<1>2. /\ DOMAIN s.rules \subseteq Id /\ DOMAIN s.channels \subseteq Id
      /\ DOMAIN s.severities \subseteq Id
  BY DEF IsTable
<1>3. \A pairs, i : Of(pairs, i) \subseteq Id
  BY DEF Of
<1>4. asked \in [rules : [Id -> SUBSET Id], routes : [Id -> SUBSET Id]]
  BY <1>1, <1>3
<1>5. ruleChannels \subseteq Id \X Id /\ routes \subseteq Id \X Id
  <2>1. /\ s.ruleChannels \subseteq (DOMAIN s.rules) \X (DOMAIN s.channels)
        /\ s.routes \subseteq (DOMAIN s.severities) \X (DOMAIN s.channels)
    BY SetupAssumption
  <2> QED
    BY ONLY <1>1, <1>2, <2>1
<1>6. history \in [rules : SUBSET Id, severities : SUBSET Id, channels : SUBSET Id]
  BY DEF Init
<1>7. ConfigTypeOK
  <2>1. edits = 0
    BY DEF Init
  <2>2. 0 \in 0..MaxEdits
    OBVIOUS
  <2>3. /\ IsTable(severities, [rank : Nat, builtin : BOOLEAN])
        /\ IsTable(oids, [oid : Oid, severity : Id \cup {None}])
        /\ IsTable(devices, Address) /\ IsTable(channels, BOOLEAN)
        /\ IsTable(rules, Row)
    BY <1>1
  <2>4. /\ unknown \in Id \cup {None} /\ lastId \in [Table -> 0..MaxId]
    BY <1>1
  <2> QED
    BY <1>4, <1>5, <1>6, <2>1, <2>2, <2>3, <2>4 DEF ConfigTypeOK
<1>8. IsTable(Empty, Row) /\ IsTable(Empty, SUBSET Id) /\ DOMAIN Empty = {}
  BY DEF IsTable, Empty
<1>9. /\ pc = "idle" /\ event = NoEvent /\ unmapped = FALSE /\ severity = None
      /\ listed = Empty /\ explicit = Empty /\ device = None /\ rest = {}
      /\ decision = NoDecision /\ events = 0 /\ overlapped = FALSE
  BY DEF Init
<1>10. TypeOK
  <2>1. /\ NoEvent \in [oid : Oid \cup {None}, ip : Address \cup {None}]
        /\ NoDecision \in [rule : Id \cup {None}, severity : Id \cup {None},
                           channels : SUBSET Id, bypass : BOOLEAN]
    BY DEF NoEvent, NoDecision
  <2>2. 0 \in 0..MaxEvents
    OBVIOUS
  <2> QED
    BY <1>7, <1>8, <1>9, <2>1, <2>2 DEF TypeOK, Phase
<1> QED
  BY <1>8, <1>9, <1>10 DEF TypeInv

\* The steps of a classification, and the edits in between, preserve the types.
LEMMA TypeInvStep == ASSUME TypeInv, [Next]_vars PROVE TypeInv'
<1> USE ConfigBounds, EventBound, NoneAssumption
<1>1. /\ ConfigTypeOK /\ IsTable(listed, Row) /\ IsTable(explicit, SUBSET Id)
      /\ rest \subseteq DOMAIN listed /\ DOMAIN listed \subseteq Id
      /\ severity \in Id \cup {None} /\ unknown \in Id \cup {None}
      /\ device \in Id \cup {None} /\ events \in 0..MaxEvents
      /\ unmapped \in BOOLEAN /\ overlapped \in BOOLEAN
      /\ event \in [oid : Oid \cup {None}, ip : Address \cup {None}]
      /\ decision \in [rule : Id \cup {None}, severity : Id \cup {None},
                       channels : SUBSET Id, bypass : BOOLEAN]
  BY DEF TypeInv, TypeOK, ConfigTypeOK, IsTable
<1>2. /\ DOMAIN explicit \subseteq DOMAIN listed
      /\ pc \in {"device", "match"} => DOMAIN explicit = DOMAIN listed
      /\ pc \notin {"match", "classified"} => rest = {}
  BY DEF TypeInv
<1>3. ASSUME UNCHANGED configVars PROVE ConfigTypeOK'
  BY <1>1, <1>3 DEF ConfigTypeOK
<1>4. IsTable(Empty, Row) /\ IsTable(Empty, SUBSET Id) /\ DOMAIN Empty = {}
  BY DEF IsTable, Empty
<1>5. /\ NoEvent \in [oid : Oid \cup {None}, ip : Address \cup {None}]
      /\ NoDecision \in [rule : Id \cup {None}, severity : Id \cup {None},
                         channels : SUBSET Id, bypass : BOOLEAN]
  BY DEF NoEvent, NoDecision
<1>6. \A pairs, i : Of(pairs, i) \subseteq Id
  BY DEF Of
<1>7. \A s : DefaultRoutes(s) \subseteq Id
  BY <1>6 DEF DefaultRoutes
<1>8. ASSUME NEW oid \in Oid, NEW ip \in Address, Receive(oid, ip) PROVE TypeInv'
  <2>1. pc \in {"idle", "lost"} \/ pc \notin Phase
    BY <1>8 DEF Receive, Busy
  <2>2. pc \in Phase
    BY DEF TypeInv, TypeOK
  <2>3. event' \in [oid : Oid \cup {None}, ip : Address \cup {None}]
    BY <1>8 DEF Receive
  <2>4. events' \in 0..MaxEvents
    BY <1>1, <1>8 DEF Receive
  <2>5. /\ pc' = "lookup" /\ decision' = NoDecision /\ overlapped' = FALSE
        /\ unmapped' = FALSE
        /\ UNCHANGED <<configVars, severity, listed, explicit, device, rest>>
    BY <1>8 DEF Receive
  <2>6. rest = {}
    BY <1>2, <2>1, <2>2
  <2> QED
    BY <1>1, <1>2, <1>3, <1>5, <2>3, <2>4, <2>5, <2>6 DEF TypeInv, TypeOK, Phase
<1>9. CASE LookupOID
  <2>1. severity' \in Id \cup {None}
    <3>1. \A o \in DOMAIN oids : oids[o].severity \in Id \cup {None}
      BY <1>1 DEF ConfigTypeOK, IsTable
    <3> QED
      BY <1>1, <1>9, <3>1 DEF LookupOID
  <2> QED
    BY <1>1, <1>2, <1>3, <1>9, <2>1 DEF LookupOID, TypeInv, TypeOK, Phase
<1>10. CASE UnknownDefaultSeverity
  BY <1>1, <1>2, <1>3, <1>10 DEF UnknownDefaultSeverity, TypeInv, TypeOK, Phase
<1>11. CASE ReadRules
  <2>1. IsTable(rules, Row)
    BY <1>1 DEF ConfigTypeOK
  <2>2. rest' = {}
    BY <1>2, <1>11 DEF ReadRules
  <2> QED
    BY <1>1, <1>3, <1>4, <1>11, <2>1, <2>2 DEF ReadRules, TypeInv, TypeOK, Phase
<1>12. CASE ReadRuleChannels
  <2> DEFINE unread == DOMAIN listed \ DOMAIN explicit
  <2>1. CASE unread = {}
    <3>1. /\ pc' = "device" /\ DOMAIN explicit = DOMAIN listed
          /\ UNCHANGED <<configVars, event, unmapped, severity, listed, explicit,
                         device, rest, decision, events, overlapped>>
          /\ rest = {}
      BY <1>2, <1>12, <2>1 DEF ReadRuleChannels
    <3>2. IsTable(explicit, SUBSET Id) /\ ConfigTypeOK'
      BY <1>1, <1>3, <3>1
    <3> QED
      BY ONLY <1>1, <1>2, <3>1, <3>2 DEF TypeInv, TypeOK, Phase
  <2>2. CASE unread # {}
    <3>1. First(unread) \in DOMAIN listed
      BY <1>1, <2>2, FirstIsMember
    <3>2. explicit' = Insert(explicit, First(unread), Of(ruleChannels, First(unread)))
      BY <1>12, <2>2 DEF ReadRuleChannels
    <3>3. IsTable(explicit', SUBSET Id)
      BY <1>1, <1>6, <3>1, <3>2, InsertRow
    <3>4. DOMAIN explicit' \subseteq DOMAIN listed
      BY <1>2, <3>1, <3>2 DEF Insert
    <3> QED
      BY <1>1, <1>3, <1>12, <2>2, <3>3, <3>4 DEF ReadRuleChannels, TypeInv, TypeOK, Phase
  <2> QED
    BY <2>1, <2>2
<1>13. CASE DeviceByIP
  <2>1. DeviceAt(event.ip) \in Id \cup {None}
    BY <1>1 DEF DeviceAt, ConfigTypeOK, IsTable
  <2>2. decision' \in [rule : Id \cup {None}, severity : Id \cup {None},
                       channels : SUBSET Id, bypass : BOOLEAN]
    BY <1>1, <1>5, <1>13 DEF DeviceByIP, NoDecision
  <2> QED
    BY <1>1, <1>2, <1>3, <1>13, <2>1, <2>2 DEF DeviceByIP, TypeInv, TypeOK, Phase
<1>14. CASE Match
  <2> DEFINE r == First(Hits)
             more == IF explicit[r] # {} THEN explicit[r] ELSE DefaultRoutes(SeverityAfter(r))
  <2>1. r \in Hits
    <3>1. Hits \in SUBSET DOMAIN listed /\ Hits # {}
      BY <1>1, <1>14 DEF Hits, Match
    <3> QED
      BY <1>1, <3>1, FirstIsMember
  <2>2. r \in rest /\ r \in DOMAIN listed /\ r \in Id
    BY <1>1, <2>1 DEF Hits
  <2>3. listed[r] \in Row /\ explicit[r] \subseteq Id
    BY <1>1, <1>2, <1>14, <2>2 DEF Match, IsTable
  <2>4. SeverityAfter(r) \in Id \cup {None} /\ listed[r].bypass \in BOOLEAN
    BY <1>1, <2>3 DEF SeverityAfter, Row
  <2>5. more \subseteq Id
    BY <1>7, <2>3
  <2>6. decision' = [rule |-> IF decision.rule = None THEN r ELSE decision.rule,
                     severity |-> SeverityAfter(r),
                     channels |-> decision.channels \cup more,
                     bypass |-> decision.bypass \/ listed[r].bypass]
    BY <1>14 DEF Match
  <2>7. decision' \in [rule : Id \cup {None}, severity : Id \cup {None},
                       channels : SUBSET Id, bypass : BOOLEAN]
    <3> HIDE DEF r, more
    <3> QED
      BY <1>1, <2>2, <2>4, <2>5, <2>6
  <2>8. rest' \subseteq DOMAIN listed
    BY <1>1, <1>14 DEF Match
  <2> QED
    BY <1>1, <1>2, <1>3, <1>14, <2>7, <2>8 DEF Match, TypeInv, TypeOK, Phase
<1>15. CASE Conclude
  <2>1. decision' \in [rule : Id \cup {None}, severity : Id \cup {None},
                       channels : SUBSET Id, bypass : BOOLEAN]
    BY <1>1, <1>7, <1>15 DEF Conclude
  <2> QED
    BY <1>1, <1>2, <1>3, <1>15, <2>1 DEF Conclude, TypeInv, TypeOK, Phase
<1>16. CASE Persist
  <2>1. DOMAIN rules \subseteq Id /\ DOMAIN severities \subseteq Id
    BY <1>1 DEF ConfigTypeOK, IsTable
  <2>2. history' \in [rules : SUBSET Id, severities : SUBSET Id, channels : SUBSET Id]
    <3>1. history \in [rules : SUBSET Id, severities : SUBSET Id, channels : SUBSET Id]
      BY <1>1 DEF ConfigTypeOK
    <3>2. {decision.rule} \ {None} \subseteq Id /\ {decision.severity} \ {None} \subseteq Id
      BY <1>1
    <3>3. history' = [history EXCEPT !.rules = @ \cup ({decision.rule} \ {None}),
                                     !.severities = @ \cup ({decision.severity} \ {None})]
          \/ history' = history
      BY <1>16 DEF Persist
    <3> QED
      BY <3>1, <3>2, <3>3
  <2>3. ConfigTypeOK'
    BY <1>1, <1>16, <2>2 DEF Persist, ConfigTypeOK
  <2> QED
    BY <1>1, <1>4, <1>5, <1>16, <2>3 DEF Persist, Forget, TypeInv, TypeOK, Phase
<1>17. CASE Notify
  <2>1. DOMAIN channels \subseteq Id
    BY <1>1 DEF ConfigTypeOK, IsTable
  <2>2. history' \in [rules : SUBSET Id, severities : SUBSET Id, channels : SUBSET Id]
    BY <1>1, <1>17, <2>1 DEF Notify, ConfigTypeOK
  <2>3. ConfigTypeOK'
    BY <1>1, <1>17, <2>2 DEF Notify, ConfigTypeOK
  <2> QED
    BY <1>1, <1>2, <1>5, <1>17, <2>3 DEF Notify, TypeInv, TypeOK, Phase
<1>18. CASE AnswerTest
  BY <1>1, <1>3, <1>4, <1>5, <1>18 DEF AnswerTest, Forget, TypeInv, TypeOK, Phase
<1>19. CASE Administer
  <2>1. ConfigTypeOK'
    BY <1>1, <1>19, ConfigTypes DEF Administer
  <2>2. overlapped' \in BOOLEAN
    BY <1>1, <1>19 DEF Administer
  <2> QED
    BY <1>19, <2>1, <2>2 DEF Administer, TypeInv, TypeOK
<1>20. CASE UNCHANGED vars
  BY <1>3, <1>1, <1>20 DEF TypeInv, TypeOK
<1> QED
  BY <1>8, <1>9, <1>10, <1>11, <1>12, <1>13, <1>14, <1>15, <1>16, <1>17, <1>18, <1>19,
     <1>20 DEF Next, Classification

\* The types hold in every state.
LEMMA TypeInvAlways == Spec => []TypeInv
BY TypeInvInit, TypeInvStep, PTL DEF Spec

\* Tables, lists and the event under way keep their types, for any configuration
\* to start from and any number of edits.
THEOREM ClassifyTypeOK == Spec => []TypeOK
<1>1. TypeInv => TypeOK
  BY DEF TypeInv
<1> QED
  BY <1>1, TypeInvAlways, PTL

-----------------------------------------------------------------------------
(***************************************************************************)
(* References.                                                             *)
(***************************************************************************)

\* Every edit preserves them: what is deleted is referred to by nobody, or its
\* references go with it.
LEMMA ReferencesEdit ==
  ASSUME ConfigTypeOK, ReferencesResolve, ConfigNext PROVE ReferencesResolve'
<1>1. /\ \A r \in DOMAIN rules : /\ Exists(devices, rules[r].device)
                                 /\ Exists(severities, rules[r].severity)
      /\ \A o \in DOMAIN oids : Exists(severities, oids[o].severity)
      /\ \A p \in ruleChannels : p[1] \in DOMAIN rules /\ p[2] \in DOMAIN channels
      /\ \A p \in routes : p[1] \in DOMAIN severities /\ p[2] \in DOMAIN channels
      /\ history.rules \subseteq DOMAIN rules
      /\ history.severities \subseteq DOMAIN severities
      /\ history.channels \subseteq DOMAIN channels
  BY DEF ReferencesResolve, RowValid
<1> USE DEF RowValid, Exists
<1>2. ASSUME NEW s \in Id, CreateSeverity(s) PROVE ReferencesResolve'
  <2>1. DOMAIN severities \subseteq DOMAIN severities'
    BY <1>2 DEF CreateSeverity, Insert
  <2>2. UNCHANGED <<oids, devices, channels, rules, ruleChannels, routes, history>>
    BY <1>2 DEF CreateSeverity
  <2> QED
    BY <1>1, <2>1, <2>2 DEF ReferencesResolve
<1>3. ASSUME NEW s \in Id, DeleteSeverity(s) PROVE ReferencesResolve'
  <2>1. /\ s \notin history.severities
        /\ \A o \in DOMAIN oids : oids[o].severity # s
        /\ \A r \in DOMAIN rules : rules[r].severity # s
    BY <1>3 DEF DeleteSeverity, SeverityUsed
  <2>2. DOMAIN severities' = DOMAIN severities \ {s}
    BY <1>3 DEF DeleteSeverity, Delete
  <2>3. \A p \in routes' : p \in routes /\ p[1] # s
    BY <1>3 DEF DeleteSeverity, Cascade
  <2>4. UNCHANGED <<oids, devices, channels, rules, ruleChannels, history>>
    BY <1>3 DEF DeleteSeverity
  <2> QED
    BY <1>1, <2>1, <2>2, <2>3, <2>4 DEF ReferencesResolve
<1>4. ASSUME NEW s \in Id, NEW rank \in Id, UpdateSeverity(s, rank)
      PROVE  ReferencesResolve'
  BY <1>1, <1>4 DEF UpdateSeverity, ReferencesResolve
<1>5. ASSUME NEW s \in Id \cup {None}, NEW oid \in Oid,
             CreateOID(oid, s) \/ \E o \in DOMAIN oids : UpdateOID(o, oid, s)
      PROVE  ReferencesResolve'
  <2> DEFINE Kept ==
        \A o \in DOMAIN oids' :
          oids'[o].severity = s \/ (o \in DOMAIN oids /\ oids'[o].severity = oids[o].severity)
  <2>1. Kept
    <3>1. \A o \in DOMAIN oids : oids[o] \in [oid : Oid, severity : Id \cup {None}]
      BY DEF ConfigTypeOK, IsTable
    <3>2. ASSUME NEW x \in DOMAIN oids, oids' = [oids EXCEPT ![x].severity = s] PROVE Kept
      <4>1. oids' = [oids EXCEPT ![x] = [oids[x] EXCEPT !.severity = s]]
        BY <3>2
      <4>2. [oids[x] EXCEPT !.severity = s].severity = s
        BY <3>1
      <4> QED
        BY <4>1, <4>2
    <3>3. ASSUME NEW x, oids' = Insert(oids, x, [oid |-> oid, severity |-> s])
          PROVE  Kept
      BY <3>3 DEF Insert
    <3>4. ASSUME NEW x \in DOMAIN oids, oids' = [oids EXCEPT ![x] = [oid |-> oid, severity |-> s]]
          PROVE  Kept
      BY <3>4
    <3> QED
      BY <1>5, <3>2, <3>3, <3>4 DEF CreateOID, UpdateOID
  <2>2. Exists(severities, s)
    BY <1>5 DEF CreateOID, UpdateOID
  <2>3. UNCHANGED <<severities, devices, channels, rules, ruleChannels, routes, history>>
    BY <1>5 DEF CreateOID, UpdateOID
  <2> QED
    BY <1>1, <2>1, <2>2, <2>3 DEF ReferencesResolve
<1>6. ASSUME NEW o \in DOMAIN oids, DeleteOID(o) PROVE ReferencesResolve'
  <2>1. \A x \in DOMAIN oids' : x \in DOMAIN oids /\ oids'[x] = oids[x]
    BY <1>6 DEF DeleteOID, Delete
  <2>2. UNCHANGED <<severities, devices, channels, rules, ruleChannels, routes, history>>
    BY <1>6 DEF DeleteOID
  <2> QED
    BY <1>1, <2>1, <2>2 DEF ReferencesResolve
<1>7. ASSUME NEW ip \in Address, CreateDevice(ip) PROVE ReferencesResolve'
  <2>1. DOMAIN devices \subseteq DOMAIN devices'
    BY <1>7 DEF CreateDevice, Insert
  <2>2. UNCHANGED <<severities, oids, channels, rules, ruleChannels, routes, history>>
    BY <1>7 DEF CreateDevice
  <2> QED
    BY <1>1, <2>1, <2>2 DEF ReferencesResolve
<1>8. ASSUME NEW ip \in Address, NEW d \in DOMAIN devices, UpdateDevice(d, ip)
       PROVE  ReferencesResolve'
  BY <1>1, <1>8 DEF UpdateDevice, ReferencesResolve
<1>9. ASSUME NEW d \in DOMAIN devices, DeleteDevice(d) PROVE ReferencesResolve'
  <2>1. DOMAIN devices' = DOMAIN devices \ {d} /\ \A r \in DOMAIN rules : rules[r].device # d
    BY <1>9 DEF DeleteDevice, Delete
  <2>2. UNCHANGED <<severities, oids, channels, rules, ruleChannels, routes, history>>
    BY <1>9 DEF DeleteDevice
  <2> QED
    BY <1>1, <2>1, <2>2 DEF ReferencesResolve
<1>10. ASSUME NEW e \in BOOLEAN, CreateChannel(e) PROVE ReferencesResolve'
  <2>1. DOMAIN channels \subseteq DOMAIN channels'
    BY <1>10 DEF CreateChannel, Insert
  <2>2. UNCHANGED <<severities, oids, devices, rules, ruleChannels, routes, history>>
    BY <1>10 DEF CreateChannel
  <2> QED
    BY <1>1, <2>1, <2>2 DEF ReferencesResolve
<1>11. ASSUME NEW e \in BOOLEAN, NEW c \in DOMAIN channels, UpdateChannel(c, e)
       PROVE  ReferencesResolve'
  BY <1>1, <1>11 DEF UpdateChannel, ReferencesResolve
<1>12. ASSUME NEW c \in DOMAIN channels, DeleteChannel(c) PROVE ReferencesResolve'
  <2>1. c \notin history.channels
    BY <1>12 DEF DeleteChannel
  <2>2. DOMAIN channels' = DOMAIN channels \ {c}
    BY <1>12 DEF DeleteChannel, Delete
  <2>3. /\ \A p \in routes' : p \in routes /\ p[2] # c
        /\ \A p \in ruleChannels' : p \in ruleChannels /\ p[2] # c
    BY <1>12 DEF DeleteChannel, Cascade
  <2>4. UNCHANGED <<severities, oids, devices, rules, history>>
    BY <1>12 DEF DeleteChannel
  <2> QED
    BY <1>1, <2>1, <2>2, <2>3, <2>4 DEF ReferencesResolve
<1>13. ASSUME NEW s \in Id, NEW S \in SUBSET DOMAIN channels, SetDefaultRoutes(s, S)
       PROVE  ReferencesResolve'
  <2>1. \A p \in routes' : p \in routes \/ (p[1] = s /\ p[2] \in S)
    BY <1>13 DEF SetDefaultRoutes, Replace
  <2>2. S # {} => s \in DOMAIN severities
    BY <1>13 DEF SetDefaultRoutes
  <2> QED
    BY <1>1, <1>13, <2>1, <2>2 DEF SetDefaultRoutes, ReferencesResolve
<1>14. ASSUME NEW ord \in Ord, NEW f \in Form, NEW S \in SUBSET DOMAIN channels,
              CreateRule(ord, f, S)
       PROVE  ReferencesResolve'
  <2> DEFINE n == NewId("rules")
             row == RowOf(ord, f)
  <2>1. /\ rules' = Insert(rules, n, row) /\ RowValid(row)
        /\ ruleChannels' = ruleChannels \cup ({n} \X S)
        /\ UNCHANGED <<severities, oids, devices, channels, routes, history>>
    BY <1>14 DEF CreateRule
  <2> HIDE DEF n, row
  <2>2. \A r \in DOMAIN rules' : rules'[r] = row \/ (r \in DOMAIN rules /\ rules'[r] = rules[r])
    BY <2>1 DEF Insert
  <2>3. \A p \in ruleChannels' : p \in ruleChannels \/ (p[1] = n /\ p[2] \in S)
    BY <2>1
  <2>4. DOMAIN rules' = DOMAIN rules \cup {n}
    BY <2>1 DEF Insert
  <2> QED
    BY <1>1, <2>1, <2>2, <2>3, <2>4 DEF ReferencesResolve
<1>15. ASSUME NEW ord \in Ord, NEW r \in DOMAIN rules, NEW f \in Form,
              NEW S \in SUBSET DOMAIN channels, UpdateRule(r, ord, f, S)
       PROVE  ReferencesResolve'
  <2> DEFINE row == RowOf(ord, f)
  <2>1. /\ rules' = [rules EXCEPT ![r] = row] /\ RowValid(row) /\ r \in DOMAIN rules
        /\ ruleChannels' = Replace(ruleChannels, r, S)
        /\ UNCHANGED <<severities, oids, devices, channels, routes, history>>
    BY <1>15 DEF UpdateRule
  <2> HIDE DEF row
  <2>2. \A x \in DOMAIN rules' : rules'[x] = row \/ (x \in DOMAIN rules /\ rules'[x] = rules[x])
    BY <2>1
  <2>3. \A p \in ruleChannels' : p \in ruleChannels \/ (p[1] = r /\ p[2] \in S)
    BY <2>1 DEF Replace
  <2> QED
    BY <1>1, <2>1, <2>2, <2>3 DEF ReferencesResolve
<1>16. ASSUME NEW place \in Places, ReorderRules(place) PROVE  ReferencesResolve'
  <2>1. \A r \in DOMAIN rules : rules[r] \in Row
    BY DEF ConfigTypeOK, IsTable
  <2>2. /\ DOMAIN rules' = DOMAIN rules
        /\ \A r \in DOMAIN rules : \E o : rules'[r] = [rules[r] EXCEPT !.ord = o]
    BY <1>16 DEF ReorderRules, Reordered
  <2>3. \A r \in DOMAIN rules : /\ rules'[r].device = rules[r].device
                                /\ rules'[r].severity = rules[r].severity
    BY <2>1, <2>2 DEF Row
  <2> QED
    BY <1>1, <1>16, <2>2, <2>3 DEF ReorderRules, ReferencesResolve
<1>17. ASSUME NEW r \in DOMAIN rules, DeleteRule(r) PROVE ReferencesResolve'
  <2>1. r \notin history.rules
    BY <1>17 DEF DeleteRule
  <2>2. /\ DOMAIN rules' = DOMAIN rules \ {r}
        /\ \A x \in DOMAIN rules' : rules'[x] = rules[x]
    BY <1>17 DEF DeleteRule, Delete
  <2>3. \A p \in ruleChannels' : p \in ruleChannels /\ p[1] # r
    BY <1>17 DEF DeleteRule, Cascade
  <2>4. UNCHANGED <<severities, oids, devices, channels, routes, history>>
    BY <1>17 DEF DeleteRule
  <2> QED
    BY <1>1, <2>1, <2>2, <2>3, <2>4 DEF ReferencesResolve
<1>18. ASSUME NEW s \in Id \cup {None}, SetUnknown(s) PROVE ReferencesResolve'
  BY <1>1, <1>18 DEF SetUnknown, ReferencesResolve
<1> QED
  BY Edits, <1>2, <1>3, <1>4, <1>5, <1>6, <1>7, <1>8, <1>9, <1>10, <1>11, <1>12,
     <1>13, <1>14, <1>15, <1>16, <1>17, <1>18

\* A step that is no edit leaves the configuration alone; history grows by rows
\* that are there.
LEMMA OtherSteps ==
  ASSUME ConfigTypeOK, [Next]_vars, ~Administer
  PROVE  /\ UNCHANGED <<severities, oids, devices, channels, rules, ruleChannels,
                        routes, unknown, lastId, asked, edits>>
         /\ history'.rules \subseteq history.rules \cup DOMAIN rules
         /\ history'.severities \subseteq history.severities \cup DOMAIN severities
         /\ history'.channels \subseteq history.channels \cup DOMAIN channels
<1>1. history \in [rules : SUBSET Id, severities : SUBSET Id, channels : SUBSET Id]
  BY DEF ConfigTypeOK
<1>2. CASE Persist
  <2>1. CASE UNCHANGED history
    BY <1>2, <2>1 DEF Persist
  <2>2. CASE /\ decision.rule = None \/ decision.rule \in DOMAIN rules
             /\ Exists(severities, decision.severity)
             /\ history' = [history EXCEPT !.rules = @ \cup ({decision.rule} \ {None}),
                                           !.severities = @ \cup ({decision.severity} \ {None})]
    BY <1>1, <1>2, <2>2 DEF Persist, Exists
  <2> QED
    BY <1>2, <2>1, <2>2 DEF Persist
<1>3. CASE Notify
  BY <1>1, <1>3 DEF Notify
<1>4. CASE UNCHANGED configVars
  BY <1>4
<1> QED
  BY <1>2, <1>3, <1>4
  DEF Next, Receive, Classification, LookupOID, UnknownDefaultSeverity, ReadRules,
      ReadRuleChannels, DeviceByIP, Match, Conclude, AnswerTest

\* They hold in every state.
LEMMA ReferencesAlways == Spec => []ReferencesResolve
<1>1. Init => ReferencesResolve
  <2> SUFFICES ASSUME Init PROVE ReferencesResolve
    OBVIOUS
  <2>1. PICK s \in Setup :
          /\ severities = s.severities /\ oids = s.oids /\ devices = s.devices
          /\ channels = s.channels /\ rules = s.rules
          /\ ruleChannels = s.ruleChannels /\ routes = s.routes
    BY DEF Init
  <2>2. history = [rules |-> {}, severities |-> {}, channels |-> {}]
    BY DEF Init
  <2>3. /\ ruleChannels \subseteq (DOMAIN rules) \X (DOMAIN channels)
        /\ routes \subseteq (DOMAIN severities) \X (DOMAIN channels)
        /\ \A r \in DOMAIN rules : /\ Exists(devices, rules[r].device)
                                  /\ Exists(severities, rules[r].severity)
        /\ \A o \in DOMAIN oids : Exists(severities, oids[o].severity)
    BY <2>1, SetupAssumption
  <2> QED
    BY <2>2, <2>3 DEF ReferencesResolve, RowValid
<1>2. TypeInv /\ ReferencesResolve /\ [Next]_vars => ReferencesResolve'
  <2> SUFFICES ASSUME ConfigTypeOK, ReferencesResolve, [Next]_vars PROVE ReferencesResolve'
    BY DEF TypeInv, TypeOK
  <2>1. CASE Administer
    BY <2>1, ReferencesEdit DEF Administer
  <2>2. CASE ~Administer
    BY <2>2, OtherSteps DEF ReferencesResolve, RowValid, Exists
  <2> QED
    BY <2>1, <2>2
<1> QED
  BY <1>1, <1>2, TypeInvAlways, PTL DEF Spec

\* internal/store/crud.go, rules.go with the constraints of 0001_schema.sql:
\* whatever is deleted in whatever order, and whatever traps are stored in
\* between, no reference is left to a row that is gone.
THEOREM ClassifyReferencesResolve == Spec => []ReferencesResolve
BY ReferencesAlways

-----------------------------------------------------------------------------
(***************************************************************************)
(* The channel sets.                                                       *)
(***************************************************************************)

\* What was saved for one row is replaced, the sets of the others are not.
LEMMA OfReplace ==
  ASSUME NEW pairs, NEW i, NEW S \in SUBSET Id
  PROVE  /\ Of(Replace(pairs, i, S), i) = S
         /\ \A x : x # i => Of(Replace(pairs, i, S), x) = Of(pairs, x)
BY DEF Of, Replace

\* A cascade takes the deleted row out of every set, or drops its own.
LEMMA OfCascade ==
  ASSUME NEW pairs, NEW i
  PROVE  /\ \A x : x # i => Of(Cascade(pairs, 1, i), x) = Of(pairs, x)
         /\ \A x : Of(Cascade(pairs, 2, i), x) = Of(pairs, x) \ {i}
BY DEF Of, Cascade

\* An id that is given out is larger than every one before it: no row has one
\* still to come, and no set that was saved names one.
IdsGrow ==
  /\ DOMAIN rules \subseteq 1..lastId["rules"]
  /\ DOMAIN channels \subseteq 1..lastId["channels"]
  /\ DOMAIN severities \subseteq 1..lastId["severities"]
  /\ \A r \in Id : asked.rules[r] \subseteq 1..lastId["channels"]
  /\ \A s \in Id : asked.routes[s] \subseteq 1..lastId["channels"]
  /\ \A s \in Id : s > lastId["severities"] => asked.routes[s] = {}

SavedInv == IdsGrow /\ SavedAsAnswered

\* A new id is that of no row, and saves only what is there.
LEMMA FreshId ==
  ASSUME ConfigTypeOK, IdsGrow
  PROVE  /\ NewId("rules") \notin DOMAIN rules
         /\ NewId("channels") \notin DOMAIN channels
         /\ NewId("severities") \notin DOMAIN severities
         /\ \A r \in Id : /\ NewId("channels") \notin asked.rules[r]
                         /\ NewId("channels") \notin asked.routes[r]
         /\ NewId("severities") \in Id => asked.routes[NewId("severities")] = {}
<1>1. \A t \in Table : lastId[t] \in Nat
  BY ConfigBounds DEF ConfigTypeOK
<1>2. \A t \in Table : NewId(t) \notin 1..lastId[t] /\ NewId(t) > lastId[t]
  BY <1>1 DEF NewId
<1> QED
  BY <1>2 DEF IdsGrow, Table

\* Every edit preserves the ids and the channel sets.
LEMMA SavedEdit ==
  ASSUME ConfigTypeOK, ReferencesResolve, SavedInv, ConfigNext PROVE SavedInv'
<1>1. /\ lastId \in [Table -> 0..MaxId]
      /\ asked \in [rules : [Id -> SUBSET Id], routes : [Id -> SUBSET Id]]
      /\ DOMAIN rules \subseteq Id /\ DOMAIN channels \subseteq Id
      /\ DOMAIN severities \subseteq Id
  BY DEF ConfigTypeOK, IsTable
<1>2. /\ DOMAIN rules \subseteq 1..lastId["rules"]
      /\ DOMAIN channels \subseteq 1..lastId["channels"]
      /\ DOMAIN severities \subseteq 1..lastId["severities"]
      /\ \A r \in Id : asked.rules[r] \subseteq 1..lastId["channels"]
      /\ \A s \in Id : asked.routes[s] \subseteq 1..lastId["channels"]
      /\ \A s \in Id : s > lastId["severities"] => asked.routes[s] = {}
  BY DEF SavedInv, IdsGrow
<1>3. /\ \A r \in DOMAIN rules : Of(ruleChannels, r) = asked.rules[r] \cap DOMAIN channels
      /\ \A s \in DOMAIN severities : Of(routes, s) = asked.routes[s] \cap DOMAIN channels
  BY DEF SavedInv, SavedAsAnswered
<1>4. /\ \A p \in ruleChannels : p[1] \in DOMAIN rules /\ p[2] \in DOMAIN channels
      /\ \A p \in routes : p[1] \in DOMAIN severities /\ p[2] \in DOMAIN channels
  BY DEF ReferencesResolve
<1>5. /\ NewId("rules") \notin DOMAIN rules
      /\ NewId("channels") \notin DOMAIN channels
      /\ NewId("severities") \notin DOMAIN severities
      /\ \A r \in Id : /\ NewId("channels") \notin asked.rules[r]
                      /\ NewId("channels") \notin asked.routes[r]
      /\ NewId("severities") \in Id => asked.routes[NewId("severities")] = {}
  BY FreshId DEF SavedInv
<1>6. \A r : r \notin DOMAIN rules => Of(ruleChannels, r) = {}
  BY <1>4 DEF Of
<1>7. \A s : s \notin DOMAIN severities => Of(routes, s) = {}
  BY <1>4 DEF Of
<1>8. ASSUME NEW t \in Table, TakeId(t)
      PROVE  /\ NewId(t) \in Id /\ lastId'[t] = NewId(t)
             /\ \A u \in Table \ {t} : lastId'[u] = lastId[u]
             /\ 1..lastId'[t] = 1..lastId[t] \cup {NewId(t)}
  <2>1. lastId[t] \in Nat
    BY <1>1, ConfigBounds
  <2>2. /\ NewId(t) \in Id /\ lastId'[t] = NewId(t)
        /\ \A u \in Table \ {t} : lastId'[u] = lastId[u]
    BY <1>1, <1>8 DEF TakeId
  <2> QED
    BY <2>1, <2>2 DEF NewId
<1>9. CASE UNCHANGED <<channels, ruleChannels, routes, lastId, asked>>
           /\ DOMAIN rules' = DOMAIN rules /\ DOMAIN severities' = DOMAIN severities
  BY <1>2, <1>3, <1>9 DEF SavedInv, IdsGrow, SavedAsAnswered
<1>10. ASSUME NEW t \in Table, t \notin {"rules", "channels", "severities"}, TakeId(t),
              UNCHANGED <<severities, channels, rules, ruleChannels, routes, asked>>
       PROVE  SavedInv'
  BY <1>2, <1>3, <1>8, <1>10 DEF SavedInv, IdsGrow, SavedAsAnswered, Table
<1>11. ASSUME NEW s \in Id, CreateSeverity(s) PROVE SavedInv'
  <2> DEFINE n == NewId("severities")
  <2>1. /\ n \in Id /\ lastId'["severities"] = n /\ lastId'["rules"] = lastId["rules"]
        /\ lastId'["channels"] = lastId["channels"]
        /\ 1..lastId'["severities"] = 1..lastId["severities"] \cup {n}
    BY <1>8, <1>11 DEF CreateSeverity, Table
  <2>2. n > lastId["severities"]
    BY <1>1, ConfigBounds DEF NewId, Table
  <2>3. lastId["severities"] \in Nat /\ \A x \in Id : x \in Nat
    BY <1>1, ConfigBounds DEF Table, Id
  <2>4. /\ DOMAIN severities' = DOMAIN severities \cup {n}
        /\ UNCHANGED <<channels, rules, ruleChannels, routes, asked>>
    BY <1>11 DEF CreateSeverity, Insert
  <2> HIDE DEF n
  <2>5. Of(routes, n) = {} /\ asked.routes[n] = {}
    BY <1>5, <1>7, <2>1 DEF n
  <2>6. \A x \in Id : x > n => x > lastId["severities"]
    BY <2>1, <2>2, <2>3
  <2> QED
    BY <1>2, <1>3, <2>1, <2>4, <2>5, <2>6 DEF SavedInv, IdsGrow, SavedAsAnswered
<1>12. ASSUME NEW s \in Id, DeleteSeverity(s) PROVE SavedInv'
  <2>1. /\ DOMAIN severities' = DOMAIN severities \ {s} /\ routes' = Cascade(routes, 1, s)
        /\ UNCHANGED <<channels, rules, ruleChannels, lastId, asked>>
    BY <1>12 DEF DeleteSeverity, Delete
  <2>2. \A x \in DOMAIN severities' : Of(routes', x) = Of(routes, x)
    BY <2>1, OfCascade
  <2> QED
    BY <1>2, <1>3, <2>1, <2>2 DEF SavedInv, IdsGrow, SavedAsAnswered
<1>13. ASSUME NEW e \in BOOLEAN, CreateChannel(e) PROVE SavedInv'
  <2> DEFINE n == NewId("channels")
  <2>1. /\ n \in Id /\ lastId'["channels"] = n /\ lastId'["rules"] = lastId["rules"]
        /\ lastId'["severities"] = lastId["severities"]
        /\ 1..lastId'["channels"] = 1..lastId["channels"] \cup {n}
    BY <1>8, <1>13 DEF CreateChannel, Table
  <2>2. /\ DOMAIN channels' = DOMAIN channels \cup {n}
        /\ UNCHANGED <<severities, rules, ruleChannels, routes, asked>>
    BY <1>13 DEF CreateChannel, Insert
  <2>3. \A r \in Id : n \notin asked.rules[r] /\ n \notin asked.routes[r]
    BY <1>5
  <2> HIDE DEF n
  <2>4. /\ \A r \in DOMAIN rules : asked.rules[r] \cap DOMAIN channels' = asked.rules[r] \cap DOMAIN channels
        /\ \A s \in DOMAIN severities :
             asked.routes[s] \cap DOMAIN channels' = asked.routes[s] \cap DOMAIN channels
    BY <1>1, <2>2, <2>3
  <2>5. IdsGrow'
    BY <1>2, <2>1, <2>2 DEF IdsGrow
  <2>6. SavedAsAnswered'
    BY <1>3, <2>2, <2>4 DEF SavedAsAnswered
  <2> QED
    BY <2>5, <2>6 DEF SavedInv
<1>14. ASSUME NEW c \in DOMAIN channels, DeleteChannel(c) PROVE SavedInv'
  <2>1. /\ DOMAIN channels' = DOMAIN channels \ {c}
        /\ ruleChannels' = Cascade(ruleChannels, 2, c) /\ routes' = Cascade(routes, 2, c)
        /\ UNCHANGED <<severities, rules, lastId, asked>>
    BY <1>14 DEF DeleteChannel, Delete
  <2>2. /\ \A r : Of(ruleChannels', r) = Of(ruleChannels, r) \ {c}
        /\ \A s : Of(routes', s) = Of(routes, s) \ {c}
    BY <2>1, OfCascade
  <2>3. IdsGrow'
    BY <1>2, <2>1 DEF IdsGrow
  <2>4. SavedAsAnswered'
    BY <1>3, <2>1, <2>2 DEF SavedAsAnswered
  <2> QED
    BY <2>3, <2>4 DEF SavedInv
<1>15. ASSUME NEW s \in Id, NEW S \in SUBSET DOMAIN channels, SetDefaultRoutes(s, S)
       PROVE  SavedInv'
  <2>1. /\ routes' = Replace(routes, s, S)
        /\ S # {} => s \in DOMAIN severities
        /\ asked' = [asked EXCEPT !.routes[s] = S]
        /\ UNCHANGED <<severities, channels, rules, ruleChannels, lastId>>
    BY <1>15 DEF SetDefaultRoutes
  <2>2. S \in SUBSET Id
    BY <1>1
  <2>3. Of(routes', s) = S /\ \A x : x # s => Of(routes', x) = Of(routes, x)
    BY <2>1, <2>2, OfReplace
  <2>4. /\ asked'.rules = asked.rules /\ asked'.routes[s] = S
        /\ \A x \in Id : x # s => asked'.routes[x] = asked.routes[x]
    BY <1>1, <2>1
  <2>5. s > lastId["severities"] => S = {}
    <3>1. s \in DOMAIN severities => s \in 1..lastId["severities"]
      BY <1>2
    <3>2. s \in 1..lastId["severities"] => ~(s > lastId["severities"])
      BY <1>1, ConfigBounds DEF Table
    <3> QED
      BY <2>1, <3>1, <3>2
  <2>6. IdsGrow'
    BY <1>2, <2>1, <2>4, <2>5 DEF IdsGrow
  <2>7. SavedAsAnswered'
    BY <1>1, <1>3, <2>1, <2>3, <2>4 DEF SavedAsAnswered
  <2> QED
    BY <2>6, <2>7 DEF SavedInv
<1>16. ASSUME NEW ord \in Ord, NEW f \in Form, NEW S \in SUBSET DOMAIN channels,
              CreateRule(ord, f, S)
       PROVE  SavedInv'
  <2> DEFINE n == NewId("rules")
  <2>1. /\ n \in Id /\ lastId'["rules"] = n /\ lastId'["channels"] = lastId["channels"]
        /\ lastId'["severities"] = lastId["severities"]
        /\ 1..lastId'["rules"] = 1..lastId["rules"] \cup {n}
    BY <1>8, <1>16 DEF CreateRule, Table
  <2>2. /\ DOMAIN rules' = DOMAIN rules \cup {n}
        /\ ruleChannels' = ruleChannels \cup ({n} \X S)
        /\ asked' = [asked EXCEPT !.rules[n] = S]
        /\ UNCHANGED <<severities, channels, routes>>
    BY <1>16 DEF CreateRule, Insert
  <2>3. Of(ruleChannels, n) = {} /\ n \notin DOMAIN rules
    BY <1>5, <1>6
  <2> HIDE DEF n
  <2>4. S \in SUBSET Id
    BY <1>1
  <2>5. Of(ruleChannels', n) = S /\ \A x : x # n => Of(ruleChannels', x) = Of(ruleChannels, x)
    BY <2>2, <2>3, <2>4 DEF Of
  <2>6. /\ asked'.routes = asked.routes /\ asked'.rules[n] = S
        /\ \A x \in Id : x # n => asked'.rules[x] = asked.rules[x]
    BY <1>1, <2>1, <2>2
  <2>7. IdsGrow'
    BY <1>2, <2>1, <2>2, <2>6 DEF IdsGrow
  <2>8. SavedAsAnswered'
    <3>1. S \cap DOMAIN channels = S /\ \A r \in DOMAIN rules : r \in Id /\ r # n
      BY ONLY <1>1, <1>16, <2>3
    <3> QED
      BY ONLY <1>3, <2>2, <2>5, <2>6, <3>1 DEF SavedAsAnswered
  <2> QED
    BY <2>7, <2>8 DEF SavedInv
<1>17. ASSUME NEW ord \in Ord, NEW r \in DOMAIN rules, NEW f \in Form,
              NEW S \in SUBSET DOMAIN channels, UpdateRule(r, ord, f, S)
       PROVE  SavedInv'
  <2>1. /\ r \in DOMAIN rules /\ DOMAIN rules' = DOMAIN rules
        /\ ruleChannels' = Replace(ruleChannels, r, S)
        /\ asked' = [asked EXCEPT !.rules[r] = S]
        /\ UNCHANGED <<severities, channels, routes, lastId>>
    BY <1>17 DEF UpdateRule
  <2>2. S \in SUBSET Id /\ r \in Id
    BY <1>1, <2>1
  <2>3. Of(ruleChannels', r) = S /\ \A x : x # r => Of(ruleChannels', x) = Of(ruleChannels, x)
    BY <2>1, <2>2, OfReplace
  <2>4. /\ asked'.routes = asked.routes /\ asked'.rules[r] = S
        /\ \A x \in Id : x # r => asked'.rules[x] = asked.rules[x]
    BY <1>1, <2>1, <2>2
  <2>5. IdsGrow'
    BY <1>2, <2>1, <2>4 DEF IdsGrow
  <2>6. SavedAsAnswered'
    BY <1>1, <1>3, <2>1, <2>3, <2>4 DEF SavedAsAnswered
  <2> QED
    BY <2>5, <2>6 DEF SavedInv
<1>18. ASSUME NEW r \in DOMAIN rules, DeleteRule(r) PROVE SavedInv'
  <2>1. /\ DOMAIN rules' = DOMAIN rules \ {r}
        /\ ruleChannels' = Cascade(ruleChannels, 1, r)
        /\ UNCHANGED <<severities, channels, routes, lastId, asked>>
    BY <1>18 DEF DeleteRule, Delete
  <2>2. \A x \in DOMAIN rules' : Of(ruleChannels', x) = Of(ruleChannels, x)
    BY <2>1, OfCascade
  <2> QED
    BY <1>2, <1>3, <2>1, <2>2 DEF SavedInv, IdsGrow, SavedAsAnswered
<1>19. ASSUME NEW s \in Id \cup {None}, NEW oid \in Oid, CreateOID(oid, s) PROVE SavedInv'
  <2>1. UNCHANGED <<severities, channels, rules, ruleChannels, routes, asked>>
        /\ (UNCHANGED lastId \/ TakeId("oids"))
    BY <1>19 DEF CreateOID
  <2> QED
    BY <1>9, <1>10, <2>1 DEF Table
<1>20. ASSUME NEW ip \in Address, CreateDevice(ip) PROVE SavedInv'
  BY <1>10, <1>20 DEF CreateDevice, Table
<1>21. ASSUME NEW s \in Id, NEW rank \in Id, UpdateSeverity(s, rank) PROVE SavedInv'
  BY <1>9, <1>21 DEF UpdateSeverity
<1>22. ASSUME NEW place \in Places, ReorderRules(place) PROVE SavedInv'
  BY <1>9, <1>22 DEF ReorderRules, Reordered
<1>23. ASSUME NEW c \in DOMAIN channels, NEW e \in BOOLEAN, UpdateChannel(c, e)
       PROVE  SavedInv'
  <2>1. DOMAIN channels' = DOMAIN channels
        /\ UNCHANGED <<severities, rules, ruleChannels, routes, lastId, asked>>
    BY <1>23 DEF UpdateChannel
  <2> QED
    BY <1>2, <1>3, <2>1 DEF SavedInv, IdsGrow, SavedAsAnswered
<1>24. ASSUME \/ \E s \in Id \cup {None}, oid \in Oid, o \in DOMAIN oids : UpdateOID(o, oid, s)
              \/ \E o \in DOMAIN oids : DeleteOID(o)
              \/ \E ip \in Address, d \in DOMAIN devices : UpdateDevice(d, ip)
              \/ \E d \in DOMAIN devices : DeleteDevice(d)
              \/ \E s \in Id \cup {None} : SetUnknown(s)
       PROVE  SavedInv'
  BY <1>9, <1>24 DEF UpdateOID, DeleteOID, UpdateDevice, DeleteDevice, SetUnknown
<1> QED
  BY Edits, <1>11, <1>12, <1>13, <1>14, <1>15, <1>16, <1>17, <1>18, <1>19, <1>20, <1>21,
     <1>22, <1>23, <1>24

\* A configuration to start from has used the ids of its rows.
LEMMA SavedInit == ASSUME Init PROVE SavedInv
<1>1. PICK s \in Setup :
        /\ severities = s.severities /\ channels = s.channels /\ rules = s.rules
        /\ ruleChannels = s.ruleChannels /\ routes = s.routes /\ lastId = s.lastId
        /\ asked = [rules |-> [r \in Id |-> Of(s.ruleChannels, r)],
                    routes |-> [v \in Id |-> Of(s.routes, v)]]
  BY DEF Init
<1>2. /\ ruleChannels \subseteq (DOMAIN rules) \X (DOMAIN channels)
      /\ routes \subseteq (DOMAIN severities) \X (DOMAIN channels)
      /\ DOMAIN severities \subseteq 1..lastId["severities"]
      /\ DOMAIN channels \subseteq 1..lastId["channels"]
      /\ DOMAIN rules \subseteq 1..lastId["rules"]
      /\ lastId \in [Table -> 0..MaxId]
      /\ DOMAIN rules \subseteq Id /\ DOMAIN severities \subseteq Id
  BY <1>1, SetupAssumption DEF IsTable
<1>3. \A r \in Id : asked.rules[r] = Of(ruleChannels, r) /\ asked.routes[r] = Of(routes, r)
  BY <1>1
<1>4. \A x : /\ Of(ruleChannels, x) \subseteq DOMAIN channels
             /\ Of(routes, x) \subseteq DOMAIN channels
             /\ x \notin DOMAIN severities => Of(routes, x) = {}
  BY <1>2 DEF Of
<1>5. \A v \in Id : v > lastId["severities"] => v \notin DOMAIN severities
  BY <1>2, ConfigBounds DEF Table, Id
<1>6. IdsGrow
  BY <1>2, <1>3, <1>4, <1>5 DEF IdsGrow
<1>7. SavedAsAnswered
  BY <1>2, <1>3, <1>4 DEF SavedAsAnswered
<1> QED
  BY <1>6, <1>7 DEF SavedInv

\* They hold in every state.
LEMMA SavedAlways == Spec => []SavedInv
<1>1. Init => SavedInv
  BY SavedInit
<1>2. TypeInv /\ ReferencesResolve /\ SavedInv /\ [Next]_vars => SavedInv'
  <2> SUFFICES ASSUME ConfigTypeOK, ReferencesResolve, SavedInv, [Next]_vars PROVE SavedInv'
    BY DEF TypeInv, TypeOK
  <2>1. CASE Administer
    BY <2>1, SavedEdit DEF Administer
  <2>2. CASE ~Administer
    BY <2>2, OtherSteps DEF SavedInv, IdsGrow, SavedAsAnswered
  <2> QED
    BY <2>1, <2>2
<1> QED
  BY <1>1, <1>2, TypeInvAlways, ReferencesAlways, PTL DEF Spec

\* internal/store/rules.go, crud.go: for any tables and edits, the channels of a rule and of a route are those last saved, less
\* the deleted ones; no id is used twice, so no saved set comes back to life.
THEOREM ClassifySavedAsAnswered == Spec => []SavedAsAnswered
<1>1. SavedInv => SavedAsAnswered
  BY DEF SavedInv
<1> QED
  BY <1>1, SavedAlways, PTL

-----------------------------------------------------------------------------
(***************************************************************************)
(* What is refused.                                                        *)
(***************************************************************************)

\* A severity that came from the tables, or from the setting.
Sound(s) == unmapped \/ Exists(severities, s)

\* While no edit has come in between, what was read is still what is stored.
DecidedInv ==
  ~overlapped =>
    /\ pc = "unknown" => unmapped
    /\ pc \in {"rules", "channels", "device", "match", "classified"} => Sound(severity)
    /\ pc \in {"channels", "device", "match", "classified"} =>
         \A r \in DOMAIN listed : r \in DOMAIN rules /\ listed[r] = rules[r]
    /\ pc \in {"match", "classified"} =>
         Exists(rules, decision.rule) /\ Sound(decision.severity)

\* The queries of a classification and the edits in between preserve it.
LEMMA DecidedStep ==
  ASSUME TypeInv, ReferencesResolve, DecidedInv, [Next]_vars PROVE DecidedInv'
<1>1. /\ IsTable(listed, Row) /\ rest \subseteq DOMAIN listed
      /\ overlapped \in BOOLEAN
      /\ decision \in [rule : Id \cup {None}, severity : Id \cup {None},
                       channels : SUBSET Id, bypass : BOOLEAN]
  BY DEF TypeInv, TypeOK
<1> USE DEF DecidedInv, Sound, Exists
<1>2. CASE \E oid \in Oid, ip \in Address : Receive(oid, ip)
  BY <1>2 DEF Receive
<1>3. CASE LookupOID
  <2>1. \A o \in DOMAIN oids : Exists(severities, oids[o].severity)
    BY DEF ReferencesResolve
  <2> QED
    BY <1>3, <2>1 DEF LookupOID
<1>4. CASE UnknownDefaultSeverity
  BY <1>4 DEF UnknownDefaultSeverity
<1>5. CASE ReadRules
  BY <1>5 DEF ReadRules
<1>6. CASE ReadRuleChannels
  BY <1>6 DEF ReadRuleChannels
<1>7. CASE DeviceByIP
  <2>1. decision'.rule = None /\ decision'.severity = severity
    BY <1>7 DEF DeviceByIP, NoDecision
  <2> QED
    BY <1>7, <2>1 DEF DeviceByIP
<1>8. CASE Match
  <2> DEFINE r == First(Hits)
  <2>1. Hits \in SUBSET DOMAIN listed /\ Hits # {}
    BY <1>1, <1>8 DEF Match, Hits
  <2>2. r \in DOMAIN listed
    BY <1>1, <2>1, FirstIsMember
  <2>3. /\ pc = "match" /\ decision'.severity = SeverityAfter(r)
        /\ decision'.rule = r \/ decision'.rule = decision.rule
        /\ UNCHANGED <<configVars, pc, unmapped, severity, listed, overlapped>>
    BY <1>8 DEF Match
  <2> HIDE DEF r
  <2>4. SUFFICES ASSUME ~overlapped PROVE DecidedInv'
    BY <2>3
  <2>5. listed[r] = rules[r] /\ r \in DOMAIN rules
    BY <2>2, <2>3, <2>4
  <2>6. Exists(severities, rules[r].severity)
    BY <2>5 DEF ReferencesResolve, RowValid
  <2>7. Sound(SeverityAfter(r))
    BY <2>3, <2>4, <2>5, <2>6 DEF SeverityAfter
  <2> QED
    BY <2>3, <2>4, <2>5, <2>7
<1>9. CASE Conclude
  <2>1. decision'.rule = decision.rule /\ decision'.severity = decision.severity
    BY <1>1, <1>9 DEF Conclude
  <2> QED
    BY <1>9, <2>1 DEF Conclude
<1>10. CASE Persist
  BY <1>10 DEF Persist
<1>11. CASE Notify
  BY <1>11 DEF Notify
<1>12. CASE AnswerTest
  BY <1>12 DEF AnswerTest
<1>13. CASE Administer
  <2>1. UNCHANGED <<pc, call>> /\ overlapped' = (overlapped \/ (Busy /\ tables' # tables))
    BY <1>13 DEF Administer
  <2>2. CASE UNCHANGED tables
    BY <1>1, <2>1, <2>2
  <2>3. CASE Busy
    BY <2>1, <2>2, <2>3
  <2>4. CASE pc \in {"idle", "lost"}
    BY <2>1, <2>4
  <2> QED
    BY <2>2, <2>3, <2>4 DEF Busy
<1>14. CASE UNCHANGED vars
  BY <1>14
<1> QED
  BY <1>2, <1>3, <1>4, <1>5, <1>6, <1>7, <1>8, <1>9, <1>10, <1>11, <1>12, <1>13, <1>14
  DEF Next, Classification

\* internal/pipeline/pipeline.go, store/queries.go InsertTrap: for any rules and
\* any edits, the schema refuses a trap only when an edit came in between, or
\* when its OID is unmapped and the setting names a severity that is not there.
THEOREM ClassifyStoredUnlessEdited == Spec => StoredUnlessEdited
<1> DEFINE Refused == pc # "lost" /\ pc' = "lost" =>
             overlapped \/ (unmapped /\ decision.severity \notin DOMAIN severities)
<1>1. Init => DecidedInv
  BY DEF Init, DecidedInv
<1>2. TypeInv /\ ReferencesResolve /\ DecidedInv /\ [Next]_vars => DecidedInv'
  BY DecidedStep
<1>3. DecidedInv /\ [Next]_vars => [Refused]_vars
  <2> SUFFICES ASSUME DecidedInv, Next, pc # "lost", pc' = "lost", ~overlapped
               PROVE  unmapped /\ decision.severity \notin DOMAIN severities
    OBVIOUS
  <2>1. Persist
    BY DEF Next, Receive, Classification, LookupOID, UnknownDefaultSeverity, ReadRules,
           ReadRuleChannels, DeviceByIP, Match, Conclude, Notify, AnswerTest, Administer
  <2>2. /\ pc = "classified"
        /\ ~Exists(rules, decision.rule) \/ ~Exists(severities, decision.severity)
    BY <2>1 DEF Persist
  <2> QED
    BY <2>2 DEF DecidedInv, Sound, Exists
<1> QED
  BY <1>1, <1>2, <1>3, TypeInvAlways, ReferencesAlways, PTL DEF Spec, StoredUnlessEdited

=============================================================================
