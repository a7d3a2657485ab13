------------------------------- MODULE Config -------------------------------
(***************************************************************************)
(* The configuration tables (internal/store/crud.go, rules.go, queries.go, *)
(* migrations/0001_schema.sql) and the handlers of the console that edit   *)
(* them (internal/api/handlers_resources.go).                              *)
(*                                                                         *)
(* A table is a function from the ids of its rows.  Every store method is  *)
(* one SQL statement or one transaction, so a request is one step.  The    *)
(* guard of an action is what the schema demands of it: a request that     *)
(* breaks a constraint is rolled back and answered with an error, and      *)
(* changes nothing.  Names, colours, descriptions and sealed               *)
(* configurations are left out; a severity's name and rank are both        *)
(* unique, and its rank stands for the two.                                *)
(***************************************************************************)
EXTENDS Integers

CONSTANTS
  Oid, Address,
  Form,       \* what a request may say of a rule, but for its ord
  Ord,        \* the ord values requests ask for
  MinOrd,     \* the least integer the column holds
  Offset,     \* what ReorderRules adds to make room
  MaxId,      \* bound: ids in each table
  MaxEdits,   \* bound: successful edits
  None        \* SQL NULL

Id == 1..MaxId

\* The column is a 64-bit integer; its upper end is out of reach of the offset.
Place == {n \in Int : n >= MinOrd}

ASSUME OrdAssumption == MinOrd \in Int /\ MinOrd <= 0 /\ Ord \subseteq Place
ASSUME OffsetAssumption == Offset \in Nat /\ Offset >= MaxId
ASSUME ConfigBounds == MaxId \in Nat /\ MaxEdits \in Nat
ASSUME NoneAssumption == None \notin Nat
ASSUME FormAssumption ==
  Form \subseteq [device : Id \cup {None}, pattern : SUBSET Oid,
                  severity : Id \cup {None}, enabled : BOOLEAN,
                  continue : BOOLEAN, bypass : BOOLEAN]

VARIABLES
  severities,    \* severity_levels: rank and is_builtin
  oids,          \* oid_map: oid and default_severity_id
  devices,       \* devices: source_ip
  channels,      \* channels: enabled
  rules,         \* rules: a form and its ord
  ruleChannels,  \* rule_channels, pairs of a rule and a channel
  routes,        \* default_routes, pairs of a severity and a channel
  unknown,       \* the setting unknown_default_severity_id
  history,       \* what stored traps and notifications refer to
  lastId,        \* sqlite_sequence: AUTOINCREMENT never reuses an id
  asked,         \* history variable: the channel sets last saved
  edits

tables == <<severities, oids, devices, channels, rules, ruleChannels, routes,
            unknown, history>>
configVars == <<tables, lastId, asked, edits>>

Table == {"severities", "oids", "devices", "channels", "rules"}
Row == [ord : Place, device : Id \cup {None}, pattern : SUBSET Oid,
        severity : Id \cup {None}, enabled : BOOLEAN,
        continue : BOOLEAN, bypass : BOOLEAN]

\* T is a table of rows R.
IsTable(T, R) == DOMAIN T \subseteq Id /\ T \in [DOMAIN T -> R]

ConfigTypeOK ==
  /\ IsTable(severities, [rank : Nat, builtin : BOOLEAN])
  /\ IsTable(oids, [oid : Oid, severity : Id \cup {None}])
  /\ IsTable(devices, Address)
  /\ IsTable(channels, BOOLEAN)
  /\ IsTable(rules, Row)
  /\ ruleChannels \subseteq Id \X Id /\ routes \subseteq Id \X Id
  /\ unknown \in Id \cup {None}
  /\ history \in [rules : SUBSET Id, severities : SUBSET Id, channels : SUBSET Id]
  /\ lastId \in [Table -> 0..MaxId]
  /\ asked \in [rules : [Id -> SUBSET Id], routes : [Id -> SUBSET Id]]
  /\ edits \in 0..MaxEdits

-----------------------------------------------------------------------------
(***************************************************************************)
(* SQL.                                                                    *)
(***************************************************************************)

Insert(T, id, row) == [i \in DOMAIN T \cup {id} |-> IF i = id THEN row ELSE T[i]]
Delete(T, id) == [i \in DOMAIN T \ {id} |-> T[i]]

\* The second columns of the pairs whose first column is id.
Of(pairs, id) == {x \in Id : <<id, x>> \in pairs}

\* Mutant: the new pairs are added to the old ones.
ReplaceAdding(pairs, id, S) == pairs \cup ({id} \X S)

\* DELETE the pairs of id, INSERT one for each member of S.
Replace(pairs, id, S) == {p \in pairs : p[1] # id} \cup ({id} \X S)

\* ON DELETE CASCADE
Cascade(pairs, column, id) == {p \in pairs : p[column] # id}

Exists(T, id) == id = None \/ id \in DOMAIN T

\* An AUTOINCREMENT id of a table.
NewId(t) == lastId[t] + 1
TakeId(t) == NewId(t) \in Id /\ lastId' = [lastId EXCEPT ![t] = NewId(t)]

\* One successful edit; the bound keeps the instance small.
Edit == edits < MaxEdits /\ edits' = edits + 1

-----------------------------------------------------------------------------
(***************************************************************************)
(* Severities, the OID map, devices, channels, default routes, the         *)
(* severity of unknown events.                                             *)
(***************************************************************************)

RankFree(rank, s) == \A x \in DOMAIN severities \ {s} : severities[x].rank # rank

CreateSeverity(rank) ==
  /\ Edit /\ TakeId("severities")
  /\ RankFree(rank, None)
  /\ severities' = Insert(severities, NewId("severities"),
                          [rank |-> rank, builtin |-> FALSE])
  /\ UNCHANGED <<oids, devices, channels, rules, ruleChannels, routes, unknown,
                 history, asked>>

UpdateSeverity(s, rank) ==
  /\ Edit
  /\ s \in DOMAIN severities /\ RankFree(rank, s)
  /\ severities' = [severities EXCEPT ![s].rank = rank]
  /\ UNCHANGED <<oids, devices, channels, rules, ruleChannels, routes, unknown,
                 history, lastId, asked>>

\* Mutant: rules.severity_id has no foreign key.
SeverityUsedByHistory(s) ==
  s \in history.severities \/ \E o \in DOMAIN oids : oids[o].severity = s

SeverityUsed(s) ==
  \/ s \in history.severities
  \/ \E o \in DOMAIN oids : oids[o].severity = s
  \/ \E r \in DOMAIN rules : rules[r].severity = s

\* The look at is_builtin is a statement of its own; nothing changes that
\* column and no id is used twice, so the two statements act as one.  The
\* setting unknown_default_severity_id holds a number, not a reference.
DeleteSeverity(s) ==
  /\ Edit
  /\ s \in DOMAIN severities
  /\ ~severities[s].builtin
  /\ ~SeverityUsed(s)
  /\ severities' = Delete(severities, s)
  /\ routes' = Cascade(routes, 1, s)
  /\ UNCHANGED <<oids, devices, channels, rules, ruleChannels, unknown, history,
                 lastId, asked>>

\* UpsertOID: the row of that OID is updated when there is one.
CreateOID(oid, s) ==
  /\ Edit
  /\ Exists(severities, s)
  /\ \/ \E o \in DOMAIN oids :
          /\ oids[o].oid = oid
          /\ oids' = [oids EXCEPT ![o].severity = s]
          /\ UNCHANGED lastId
     \/ /\ \A o \in DOMAIN oids : oids[o].oid # oid
        /\ TakeId("oids")
        /\ oids' = Insert(oids, NewId("oids"), [oid |-> oid, severity |-> s])
  /\ UNCHANGED <<severities, devices, channels, rules, ruleChannels, routes,
                 unknown, history, asked>>

UpdateOID(o, oid, s) ==
  /\ Edit
  /\ o \in DOMAIN oids
  /\ Exists(severities, s)
  /\ \A x \in DOMAIN oids \ {o} : oids[x].oid # oid
  /\ oids' = [oids EXCEPT ![o] = [oid |-> oid, severity |-> s]]
  /\ UNCHANGED <<severities, devices, channels, rules, ruleChannels, routes,
                 unknown, history, lastId, asked>>

DeleteOID(o) ==
  /\ Edit
  /\ o \in DOMAIN oids
  /\ oids' = Delete(oids, o)
  /\ UNCHANGED <<severities, devices, channels, rules, ruleChannels, routes,
                 unknown, history, lastId, asked>>

AddressFree(ip, d) == \A x \in DOMAIN devices \ {d} : devices[x] # ip

CreateDevice(ip) ==
  /\ Edit /\ TakeId("devices")
  /\ AddressFree(ip, None)
  /\ devices' = Insert(devices, NewId("devices"), ip)
  /\ UNCHANGED <<severities, oids, channels, rules, ruleChannels, routes, unknown,
                 history, asked>>

UpdateDevice(d, ip) ==
  /\ Edit
  /\ d \in DOMAIN devices /\ AddressFree(ip, d)
  /\ devices' = [devices EXCEPT ![d] = ip]
  /\ UNCHANGED <<severities, oids, channels, rules, ruleChannels, routes, unknown,
                 history, lastId, asked>>

DeleteDevice(d) ==
  /\ Edit
  /\ d \in DOMAIN devices
  /\ \A r \in DOMAIN rules : rules[r].device # d
  /\ devices' = Delete(devices, d)
  /\ UNCHANGED <<severities, oids, channels, rules, ruleChannels, routes, unknown,
                 history, lastId, asked>>

CreateChannel(enabled) ==
  /\ Edit /\ TakeId("channels")
  /\ channels' = Insert(channels, NewId("channels"), enabled)
  /\ UNCHANGED <<severities, oids, devices, rules, ruleChannels, routes, unknown,
                 history, asked>>

UpdateChannel(c, enabled) ==
  /\ Edit
  /\ c \in DOMAIN channels
  /\ channels' = [channels EXCEPT ![c] = enabled]
  /\ UNCHANGED <<severities, oids, devices, rules, ruleChannels, routes, unknown,
                 history, lastId, asked>>

DeleteChannel(c) ==
  /\ Edit
  /\ c \in DOMAIN channels \ history.channels
  /\ channels' = Delete(channels, c)
  /\ ruleChannels' = Cascade(ruleChannels, 2, c)
  /\ routes' = Cascade(routes, 2, c)
  /\ UNCHANGED <<severities, oids, devices, rules, unknown, history, lastId,
                 asked>>

SetDefaultRoutes(s, S) ==
  /\ Edit
  /\ S \subseteq DOMAIN channels
  /\ S # {} => s \in DOMAIN severities
  /\ routes' = Replace(routes, s, S)
  /\ asked' = [asked EXCEPT !.routes[s] = S]
  /\ UNCHANGED <<severities, oids, devices, channels, rules, ruleChannels,
                 unknown, history, lastId>>

\* SetSetting, for the key the decoder reads: any number is accepted.
SetUnknown(s) ==
  /\ Edit
  /\ unknown' = s
  /\ UNCHANGED <<severities, oids, devices, channels, rules, ruleChannels, routes,
                 history, lastId, asked>>

-----------------------------------------------------------------------------
(***************************************************************************)
(* Rules.                                                                  *)
(***************************************************************************)

RowOf(ord, f) ==
  [ord |-> ord, device |-> f.device, pattern |-> f.pattern, severity |-> f.severity,
   enabled |-> f.enabled, continue |-> f.continue, bypass |-> f.bypass]

OrdFree(ord, r) == \A x \in DOMAIN rules \ {r} : rules[x].ord # ord
RowValid(row) == Exists(devices, row.device) /\ Exists(severities, row.severity)

\* A request places a rule wherever it asks to.
CreateRule(ord, f, S) ==
  LET row == RowOf(ord, f) IN
  /\ Edit /\ TakeId("rules")
  /\ OrdFree(ord, None) /\ RowValid(row)
  /\ S \subseteq DOMAIN channels
  /\ rules' = Insert(rules, NewId("rules"), row)
  /\ ruleChannels' = ruleChannels \cup ({NewId("rules")} \X S)
  /\ asked' = [asked EXCEPT !.rules[NewId("rules")] = S]
  /\ UNCHANGED <<severities, oids, devices, channels, routes, unknown, history>>

\* When the rule is gone the UPDATE finds no row, and only its channels are
\* refused.
UpdateRule(r, ord, f, S) ==
  LET row == RowOf(ord, f) IN
  /\ Edit
  /\ r \in DOMAIN rules
  /\ OrdFree(ord, r) /\ RowValid(row)
  /\ S \subseteq DOMAIN channels
  /\ rules' = [rules EXCEPT ![r] = row]
  /\ ruleChannels' = Replace(ruleChannels, r, S)
  /\ asked' = [asked EXCEPT !.rules[r] = S]
  /\ UNCHANGED <<severities, oids, devices, channels, routes, unknown, history,
                 lastId>>

DeleteRule(r) ==
  /\ Edit
  /\ r \in DOMAIN rules \ history.rules
  /\ rules' = Delete(rules, r)
  /\ ruleChannels' = Cascade(ruleChannels, 1, r)
  /\ UNCHANGED <<severities, oids, devices, channels, routes, unknown, history,
                 lastId, asked>>

\* UPDATE rules SET ord = ord + Offset visits the rows by id and stops at the
\* first one whose new ord is still another row's.
OffsetClashes ==
  \E r, x \in DOMAIN rules : r < x /\ rules[r].ord + Offset = rules[x].ord

\* Mutant: the rules that are not listed are turned around.
ReorderedBelow(place) ==
  [r \in DOMAIN rules |->
     [rules[r] EXCEPT !.ord = IF r \in DOMAIN place THEN place[r]
                              ELSE Offset + MaxId - rules[r].ord]]

\* What the statements of ReorderRules leave: the listed rules in the order of
\* the list (place), the others moved out of the way.
Reordered(place) ==
  [r \in DOMAIN rules |->
     [rules[r] EXCEPT !.ord = IF r \in DOMAIN place THEN place[r]
                              ELSE rules[r].ord + Offset]]

\* The places a list of ids gives: ids of no rule take up a place, rules need not
\* be listed.  A rule named twice has the later place.
Places ==
  UNION {{p \in [L -> 0 .. MaxId - 1] : \A r, x \in L : p[r] = p[x] => r = x} :
           L \in SUBSET DOMAIN rules}

\* The rules are given their places one by one, each of which must be free of
\* rules that are not listed and of those whose turn is still to come.
PlaceClashes(place) ==
  \E r \in DOMAIN place, x \in DOMAIN rules :
    /\ x # r /\ rules[x].ord + Offset = place[r]
    /\ ~ (x \in DOMAIN place /\ place[x] < place[r])

ReorderRules(place) ==
  /\ Edit
  /\ ~OffsetClashes /\ ~PlaceClashes(place)
  /\ rules' = Reordered(place)
  /\ UNCHANGED <<severities, oids, devices, channels, ruleChannels, routes,
                 unknown, history, lastId, asked>>

-----------------------------------------------------------------------------

SeverityRequest ==
  \E s \in Id :
    \/ CreateSeverity(s) \/ DeleteSeverity(s)
    \/ \E rank \in Id : UpdateSeverity(s, rank)

OidRequest ==
  \/ \E s \in Id \cup {None}, oid \in Oid :
       CreateOID(oid, s) \/ \E o \in DOMAIN oids : UpdateOID(o, oid, s)
  \/ \E o \in DOMAIN oids : DeleteOID(o)

DeviceRequest ==
  \/ \E ip \in Address :
       CreateDevice(ip) \/ \E d \in DOMAIN devices : UpdateDevice(d, ip)
  \/ \E d \in DOMAIN devices : DeleteDevice(d)

ChannelRequest ==
  \/ \E enabled \in BOOLEAN :
       CreateChannel(enabled) \/ \E c \in DOMAIN channels : UpdateChannel(c, enabled)
  \/ \E c \in DOMAIN channels : DeleteChannel(c)

RouteRequest ==
  \E s \in Id, S \in SUBSET DOMAIN channels : SetDefaultRoutes(s, S)

RuleRequest ==
  \/ \E ord \in Ord, f \in Form, S \in SUBSET DOMAIN channels :
       CreateRule(ord, f, S) \/ \E r \in DOMAIN rules : UpdateRule(r, ord, f, S)
  \/ \E r \in DOMAIN rules : DeleteRule(r)
  \/ \E place \in Places : ReorderRules(place)

ConfigNext ==
  \/ SeverityRequest \/ OidRequest \/ DeviceRequest \/ ChannelRequest
  \/ RouteRequest \/ RuleRequest
  \/ \E s \in Id \cup {None} : SetUnknown(s)

-----------------------------------------------------------------------------

\* Whatever is edited and deleted in whatever order, every reference held by a
\* rule, an OID, a route, a rule's channel set or the stored history leads to a
\* row that exists.
ReferencesResolve ==
  /\ \A r \in DOMAIN rules : RowValid(rules[r])
  /\ \A o \in DOMAIN oids : Exists(severities, oids[o].severity)
  /\ \A p \in ruleChannels : p[1] \in DOMAIN rules /\ p[2] \in DOMAIN channels
  /\ \A p \in routes : p[1] \in DOMAIN severities /\ p[2] \in DOMAIN channels
  /\ history.rules \subseteq DOMAIN rules
  /\ history.severities \subseteq DOMAIN severities
  /\ history.channels \subseteq DOMAIN channels

\* The channels of a rule and of a severity's route are those of the last save
\* that was answered with success, less the channels deleted since.
SavedAsAnswered ==
  /\ \A r \in DOMAIN rules :
       Of(ruleChannels, r) = asked.rules[r] \cap DOMAIN channels
  /\ \A s \in DOMAIN severities :
       Of(routes, s) = asked.routes[s] \cap DOMAIN channels

\* internal/store/rules.go:148 "It offsets existing ords first to avoid tripping
\* the UNIQUE(ord) constraint mid-update": adding the offset never trips over that
\* constraint itself.
OffsetNeverTrips == ~OffsetClashes
=============================================================================
