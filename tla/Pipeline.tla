------------------------------ MODULE Pipeline ------------------------------
(***************************************************************************)
(* internal/pipeline/pipeline.go over the store's foreign keys             *)
(* (internal/store/migrations/0001_schema.sql) and the flood controller's  *)
(* contract.                                                               *)
(*                                                                         *)
(* Run takes queued traps one at a time; every HTTP replay runs Process in *)
(* a goroutine of its own; the ticker flushes rollups; an administrator    *)
(* deletes configuration and switches channels between any two of their    *)
(* queries.                                                                *)
(* Each query or insert of Process that meets another's change is an       *)
(* action of its own.  Configuration is only removed here: a rule's        *)
(* channels and the default routes shrink, so reading them in one action   *)
(* gives what reading them one after the other would.                      *)
(***************************************************************************)
EXTENDS Naturals, Sequences, FiniteSets

CONSTANTS
  Trap,          \* the traps of a behaviour, replays included
  Replay,        \* those that an HTTP replay submits
  Original,      \* the stored trap each replay replays
  Key, KeyOf,    \* aggregation keys
  Channel, Rule, Severity,
  Builtin,       \* severities that cannot be deleted
  Mapped,        \* traps whose OID is in the OID map
  TrapSeverity,  \* the OID map's severity, or unknown_default_severity_id
  RuleOf,        \* the rule that matches a trap while it exists
  RuleSeverity,  \* the severity a rule assigns
  Bypass,        \* rules that bypass flood control
  None,          \* SQL NULL
  QueueCap,      \* capacity of the trap channel
  MaxRestarts    \* bound: how often the daemon is stopped

ASSUME TrapAssumption ==
  /\ Replay \subseteq Trap
  /\ Mapped \subseteq Trap
  /\ Original \in [Replay -> Trap]
  /\ KeyOf \in [Trap -> Key]
  /\ TrapSeverity \in [Trap -> Severity \cup {None}]
  /\ RuleOf \in [Trap -> Rule \cup {None}]
  /\ \A t \in Replay : LET o == Original[t] IN
       /\ KeyOf[t] = KeyOf[o] /\ TrapSeverity[t] = TrapSeverity[o]
       /\ RuleOf[t] = RuleOf[o] /\ (t \in Mapped <=> o \in Mapped)
ASSUME ConfigurationAssumption ==
  /\ Builtin \subseteq Severity /\ Bypass \subseteq Rule
  /\ RuleSeverity \in [Rule -> Severity \cup {None}]
  /\ None \notin Severity \cup Rule \cup Channel
ASSUME BoundAssumption == QueueCap \in Nat \ {0} /\ MaxRestarts \in Nat

VARIABLES
  \* the configuration tables
  rules, severities, channels,   \* the rows that exist
  enabled,                       \* channels.enabled
  ruleChannels,                  \* rule_channels
  routes,                        \* default_routes
  \* the history tables
  traps,                         \* traps, one row for each stored trap
  notes,                         \* notifications
  \* the processing of each trap
  pc, queue,
  decision,                      \* rules.Decision
  targets,                       \* the channels resolved for the dispatch
  results,                       \* dispatch results not yet recorded
  \* the outside
  delivered,                     \* messages a provider accepted
  life,
  \* the flood controller
  status, rollups

Flood == INSTANCE FloodContract WITH Event <- Trap

configuration == <<rules, severities, channels, enabled, ruleChannels, routes>>
tables        == <<traps, notes>>
processing    == <<queue, decision, targets, results>>
flood         == <<status, rollups>>
vars == <<configuration, tables, pc, processing, delivered, life, flood>>

Steps == {"new", "queued", "taken", "ruled", "classified", "admitted", "stored",
          "dispatching", "recording", "done", "failed", "killed"}
Final == {"done", "failed", "killed"}

\* rules.Decision and the row of a trap.
Decision == [severity : Severity \cup {None}, rule : Rule \cup {None},
             channels : SUBSET Channel, bypass : BOOLEAN]
TrapRow  == [stored : BOOLEAN, severity : Severity \cup {None},
             rule : Rule \cup {None}, suppressed : BOOLEAN]

NoDecision == [severity |-> None, rule |-> None, channels |-> {}, bypass |-> FALSE]
NoRow == [stored |-> FALSE, severity |-> None, rule |-> None, suppressed |-> FALSE]

TypeOK ==
  /\ rules \subseteq Rule /\ severities \subseteq Severity
  /\ channels \subseteq Channel /\ enabled \subseteq Channel
  /\ ruleChannels \in [Rule -> SUBSET Channel]
  /\ routes \in [Severity -> SUBSET Channel]
  /\ traps \in [Trap -> TrapRow]
  /\ notes \subseteq [trap : Trap, channel : Channel \cup {None},
                      status : {"sent", "failed", "held"}]
  /\ pc \in [Trap -> Steps]
  /\ queue \in Seq(Trap) /\ Len(queue) <= QueueCap
  /\ decision \in [Trap -> Decision]
  /\ targets \in [Trap -> SUBSET Channel]
  /\ results \in [Trap -> [Channel -> {"none", "sent", "failed"}]]
  /\ delivered \subseteq Trap \X Channel
  /\ life \in 0..MaxRestarts
  /\ Flood!TypeOK

Init ==
  /\ rules = Rule /\ severities = Severity
  /\ channels = Channel /\ enabled = Channel
  /\ ruleChannels \in [Rule -> SUBSET Channel]
  /\ routes \in [Severity -> SUBSET Channel]
  /\ traps = [t \in Trap |-> NoRow]
  /\ notes = {}
  /\ pc = [t \in Trap |-> "new"]
  /\ queue = <<>>
  /\ decision = [t \in Trap |-> NoDecision]
  /\ targets = [t \in Trap |-> {}]
  /\ results = [t \in Trap |-> [c \in Channel |-> "none"]]
  /\ delivered = {}
  /\ life = 0
  /\ Flood!Init

Stored == {t \in Trap : traps[t].stored}

Goto(t, step) == pc' = [pc EXCEPT ![t] = step]

-----------------------------------------------------------------------------
(***************************************************************************)
(* Traps come in.                                                          *)
(***************************************************************************)

\* Mutant: the queue between the listener and Run has no bound.
ArriveUnbounded(t) ==
  /\ t \notin Replay
  /\ pc[t] = "new"
  /\ queue' = Append(queue, t)
  /\ Goto(t, "queued")
  /\ Flood!Receive(t)
  /\ UNCHANGED <<configuration, tables, decision, targets, results, delivered, life>>

\* The listener hands a trap to the channel; it blocks while that is full.
Arrive(t) ==
  /\ t \notin Replay
  /\ pc[t] = "new"
  /\ Len(queue) < QueueCap
  /\ queue' = Append(queue, t)
  /\ Goto(t, "queued")
  /\ Flood!Receive(t)
  /\ UNCHANGED <<configuration, tables, decision, targets, results, delivered, life>>

\* Mutant: Run never comes back from a trap that failed.
RunBusyFailing ==
  \E t \in Trap \ Replay : pc[t] \notin {"new", "queued", "done", "killed"}

RunBusy == \E t \in Trap \ Replay : pc[t] \notin Final \cup {"new", "queued"}

\* Run takes the next trap when it is done with the one before.
Take ==
  /\ queue # <<>>
  /\ ~RunBusy
  /\ queue' = Tail(queue)
  /\ Goto(Head(queue), "taken")
  /\ UNCHANGED <<configuration, tables, decision, targets, results, delivered, life, flood>>

\* replayFunc reads a stored trap and submits it again.
StartReplay(t) ==
  /\ t \in Replay
  /\ pc[t] = "new"
  /\ Original[t] \in Stored
  /\ Goto(t, "taken")
  /\ Flood!Receive(t)
  /\ UNCHANGED <<configuration, tables, processing, delivered, life>>

-----------------------------------------------------------------------------
(***************************************************************************)
(* Process, query by query.                                                *)
(***************************************************************************)

\* Decode sets the severity of the OID; Classify reads the rules.
ReadRules(t) ==
  /\ pc[t] = "taken"
  /\ decision' = [decision EXCEPT ![t] =
       LET r == IF RuleOf[t] \in rules THEN RuleOf[t] ELSE None IN
       [severity |-> IF r # None /\ RuleSeverity[r] # None
                     THEN RuleSeverity[r] ELSE TrapSeverity[t],
        rule     |-> r,
        channels |-> {},
        bypass   |-> r \in Bypass]]
  /\ Goto(t, "ruled")
  /\ UNCHANGED <<configuration, tables, queue, targets, results, delivered, life, flood>>

\* The rule's channels, or the default routes when it has none (any more).
ReadChannels(t) ==
  LET d == decision[t]
      explicit == IF d.rule # None THEN ruleChannels[d.rule] ELSE {}
      default == IF d.severity # None THEN routes[d.severity] ELSE {} IN
  /\ pc[t] = "ruled"
  /\ decision' = [decision EXCEPT ![t].channels =
                    IF explicit # {} THEN explicit ELSE default]
  /\ Goto(t, "classified")
  /\ UNCHANGED <<configuration, tables, queue, targets, results, delivered, life, flood>>

\* The flood gate; a bypass rule never asks it.
Admit(t) ==
  /\ pc[t] = "classified"
  /\ IF decision[t].bypass
     THEN UNCHANGED flood
     ELSE Flood!Send(t) \/ Flood!Suppress(t) \/ Flood!Hold(t)
  /\ Goto(t, "admitted")
  /\ UNCHANGED <<configuration, tables, processing, delivered, life>>

\* What Admit returned, read from the status the trap has reached since.
Outcome(t) ==
  IF decision[t].bypass \/ status[t] = "send" THEN "send"
  ELSE IF status[t] = "suppress" THEN "suppress" ELSE "hold"

\* Mutant: the severity column has no foreign key.
TrapRowValidRule(d) == d.rule \in rules \cup {None}

\* Foreign keys of the traps table.
TrapRowValid(d) ==
  /\ d.severity \in severities \cup {None}
  /\ d.rule \in rules \cup {None}

\* Mutant: a trap that cannot be stored is only logged.
PersistLogging(t) ==
  LET d == decision[t] IN
  /\ pc[t] = "admitted"
  /\ traps' = IF TrapRowValid(d)
              THEN [traps EXCEPT ![t] =
                     [stored |-> TRUE, severity |-> d.severity, rule |-> d.rule,
                      suppressed |-> Outcome(t) # "send"]]
              ELSE traps
  /\ Goto(t, "stored")
  /\ UNCHANGED <<configuration, notes, processing, delivered, life, flood>>

\* persistTrap; an error ends the processing of the trap.
Persist(t) ==
  LET d == decision[t] IN
  /\ pc[t] = "admitted"
  /\ \/ /\ TrapRowValid(d)
        /\ traps' = [traps EXCEPT ![t] =
             [stored |-> TRUE, severity |-> d.severity, rule |-> d.rule,
              suppressed |-> Outcome(t) # "send"]]
        /\ Goto(t, "stored")
     \/ /\ ~TrapRowValid(d)
        /\ Goto(t, "failed")
        /\ UNCHANGED traps
  /\ UNCHANGED <<configuration, notes, processing, delivered, life, flood>>

FinishSuppressed(t) ==
  /\ pc[t] = "stored"
  /\ Outcome(t) = "suppress"
  /\ Goto(t, "done")
  /\ UNCHANGED <<configuration, tables, processing, delivered, life, flood>>

\* Mutant: one held row for each channel of the decision.
RecordHeldPerChannel(t) ==
  /\ pc[t] = "stored"
  /\ Outcome(t) = "hold"
  /\ notes' = notes \cup {[trap |-> t, channel |-> c, status |-> "held"] :
                           c \in decision[t].channels \cap channels}
  /\ Goto(t, "done")
  /\ UNCHANGED <<configuration, traps, processing, delivered, life, flood>>

\* A held trap has a single row, of no channel.
RecordHeld(t) ==
  /\ pc[t] = "stored"
  /\ Outcome(t) = "hold"
  /\ notes' = notes \cup {[trap |-> t, channel |-> None, status |-> "held"]}
  /\ Goto(t, "done")
  /\ UNCHANGED <<configuration, traps, processing, delivered, life, flood>>

\* ChannelsByIDs: the enabled channels that exist.
Resolve(t) ==
  LET found == decision[t].channels \cap enabled \cap channels IN
  /\ pc[t] = "stored"
  /\ Outcome(t) = "send"
  /\ targets' = [targets EXCEPT ![t] = found]
  /\ Goto(t, IF found = {} THEN "done" ELSE "dispatching")
  /\ UNCHANGED <<configuration, tables, queue, decision, results, delivered, life, flood>>

-----------------------------------------------------------------------------
(***************************************************************************)
(* Dispatch, seen from outside (module Dispatch has the attempts).         *)
(***************************************************************************)

\* The provider accepts the message, perhaps of an attempt given up already.
Deliver(t, c) ==
  /\ pc[t] \in {"dispatching", "recording", "done"}
  /\ c \in targets[t]
  /\ delivered' = delivered \cup {<<t, c>>}
  /\ UNCHANGED <<configuration, tables, pc, processing, life, flood>>

\* A channel's goroutine has its result; Dispatch returns with the last one.
Finish(t, c, s) ==
  /\ pc[t] = "dispatching"
  /\ c \in targets[t]
  /\ results[t][c] = "none"
  /\ s = "sent" => <<t, c>> \in delivered
  /\ results' = [results EXCEPT ![t][c] = s]
  /\ IF \A b \in targets[t] \ {c} : results[t][b] # "none"
     THEN Goto(t, "recording")
     ELSE UNCHANGED pc
  /\ UNCHANGED <<configuration, tables, queue, decision, targets, delivered, life, flood>>

\* recordNotification, one result after the other; a row whose channel has
\* been deleted in the meantime is refused, which is only logged.
Record(t, c) ==
  /\ pc[t] = "recording"
  /\ results[t][c] # "none"
  /\ notes' = IF c \in channels
              THEN notes \cup {[trap |-> t, channel |-> c, status |-> results[t][c]]}
              ELSE notes
  /\ results' = [results EXCEPT ![t][c] = "none"]
  /\ IF \A b \in targets[t] \ {c} : results[t][b] = "none"
     THEN Goto(t, "done")
     ELSE UNCHANGED pc
  /\ UNCHANGED <<configuration, traps, queue, decision, targets, delivered, life, flood>>

-----------------------------------------------------------------------------
(***************************************************************************)
(* The ticker, the administrator and the end of the process.               *)
(***************************************************************************)

Batch ==
  /\ \E R \in SUBSET (SUBSET Flood!With("hold")) : Flood!Batch(R)
  /\ UNCHANGED <<configuration, tables, pc, processing, delivered, life>>

\* FloodFlush: what becomes of a rollup's messages is not recorded.
Flush(r) ==
  /\ Flood!Flush(r)
  /\ UNCHANGED <<configuration, tables, pc, processing, delivered, life>>

\* Rows that history refers to cannot be deleted.
RuleReferenced(r) == \E t \in Stored : traps[t].rule = r
ChannelReferenced(c) == \E n \in notes : n.channel = c
SeverityReferenced(s) ==
  \/ \E t \in Stored : traps[t].severity = s
  \/ \E r \in rules : RuleSeverity[r] = s
  \/ \E t \in Mapped : TrapSeverity[t] = s

DeleteRule(r) ==
  /\ r \in rules /\ ~RuleReferenced(r)
  /\ rules' = rules \ {r}
  /\ ruleChannels' = [ruleChannels EXCEPT ![r] = {}]
  /\ UNCHANGED <<severities, channels, enabled, routes>>

DeleteChannel(c) ==
  /\ c \in channels /\ ~ChannelReferenced(c)
  /\ channels' = channels \ {c}
  /\ ruleChannels' = [r \in Rule |-> ruleChannels[r] \ {c}]
  /\ routes' = [s \in Severity |-> routes[s] \ {c}]
  /\ UNCHANGED <<rules, severities, enabled>>

DeleteSeverity(s) ==
  /\ s \in severities \ Builtin /\ ~SeverityReferenced(s)
  /\ severities' = severities \ {s}
  /\ routes' = [routes EXCEPT ![s] = {}]
  /\ UNCHANGED <<rules, channels, enabled, ruleChannels>>

\* The administrator switches a channel off or on.
UpdateChannel(c) ==
  /\ c \in channels
  /\ enabled' \in {enabled \ {c}, enabled \cup {c}}
  /\ UNCHANGED <<rules, severities, channels, ruleChannels, routes>>

Administer ==
  /\ \/ \E r \in Rule : DeleteRule(r)
     \/ \E c \in Channel : DeleteChannel(c) \/ UpdateChannel(c)
     \/ \E s \in Severity : DeleteSeverity(s)
  /\ UNCHANGED <<tables, pc, processing, delivered, life, flood>>

\* The process ends and starts again: the tables survive, the rest does not.
Restart ==
  /\ life < MaxRestarts
  /\ life' = life + 1
  /\ pc' = [t \in Trap |-> IF pc[t] \in Final \cup {"new"} THEN pc[t] ELSE "killed"]
  /\ queue' = <<>>
  /\ results' = [t \in Trap |-> [c \in Channel |-> "none"]]
  /\ Flood!Restart
  /\ UNCHANGED <<configuration, tables, decision, targets, delivered>>

Process(t) ==
  \/ ReadRules(t) \/ ReadChannels(t) \/ Admit(t) \/ Persist(t)
  \/ FinishSuppressed(t) \/ RecordHeld(t) \/ Resolve(t)
  \/ \E c \in Channel : Record(t, c) \/ \E s \in {"sent", "failed"} : Finish(t, c, s)

Next ==
  \/ \E t \in Trap : Arrive(t) \/ StartReplay(t) \/ Process(t)
  \/ Take
  \/ \E t \in Trap, c \in Channel : Deliver(t, c)
  \/ Batch
  \/ \E r \in rollups : Flush(r)
  \/ Administer
  \/ Restart

Spec == Init /\ [][Next]_vars

\* The Run loop and the handlers are scheduled, and a dispatch ends by its
\* timeouts; no provider need ever answer.
Fairness ==
  /\ WF_vars(Take)
  /\ \A t \in Trap : WF_vars(Process(t))

FairSpec == Spec /\ Fairness

-----------------------------------------------------------------------------

\* No message about a single trap reaches a provider unless the trap is in the
\* history and was not suppressed or held: a crash, a failed insert or a
\* deleted row never leaves a notification without its trap.
NotifiedIsStored ==
  \A t \in Trap, c \in Channel : <<t, c>> \in delivered =>
    t \in Stored /\ Outcome(t) = "send" /\ ~traps[t].suppressed

\* README.md:186-189.  When a trap is done its notification rows are: none if
\* it was suppressed, a single held row without channel if it was held, and
\* otherwise one row for each resolved channel that was not deleted meanwhile.
RowsMatchOutcome ==
  \A t \in Trap : pc[t] = "done" =>
    LET rows == {n \in notes : n.trap = t} IN
    CASE Outcome(t) = "suppress" -> rows = {}
      [] Outcome(t) = "hold" -> rows = {[trap |-> t, channel |-> None, status |-> "held"]}
      [] Outcome(t) = "send" ->
           /\ {n.channel : n \in rows} \subseteq targets[t]
           /\ \A c \in targets[t] \cap channels :
                Cardinality({n \in rows : n.channel = c}) = 1

\* History never dangles: whatever the administrator deletes between two
\* queries of Process, each stored trap's severity and rule and each
\* notification's trap and channel still exist.
HistoryIntact ==
  /\ \A t \in Stored : traps[t].severity \in severities \cup {None}
                     /\ traps[t].rule \in rules \cup {None}
  /\ \A n \in notes : n.trap \in Stored /\ n.channel \in channels \cup {None}

\* Every trap that enters the queue or is replayed comes to an end, though
\* providers never answer and rows disappear under it.
EventuallyProcessed ==
  \A t \in Trap : pc[t] \in {"queued", "taken"} ~> pc[t] \in Final

\* README.md:183 "Every trap is stored, including suppressed ones."
EveryTrapStored == \A t \in Trap : pc[t] \in Final \ {"killed"} => t \in Stored
=============================================================================
