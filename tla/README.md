# HoloNet, specified in TLA+

HoloNet receives SNMP traps, names and classifies them, decides through flood
control whether to notify at once, later or not at all, stores every trap and
sends notifications through chat, WhatsApp and webhook channels. This directory
holds TLA+ modules of its concurrent core, the TLC configurations that check
them and TLAPS proofs about them. All line numbers refer to the Go sources.

## The system

A trap travels through one process (`cmd/holonet/main.go`, `runDaemon`):

    UDP listener --chan(256)--> Run --> Process: decode, classify, flood gate,
    (snmp/sink.go)                               insert, dispatch, record
                                 ^                    |            |
    HTTP replay (own goroutine) -+                 SQLite      goroutine per channel
    HTTP edits of the tables --------------------> SQLite      (notify/dispatch.go)
    HTTP settings --> SQLite, then ReloadFlood --> flood.Configure
    ticker (flood.Start) -> tick -> rollup -> dispatch

    signal / service manager -> Stop -> context ends -> server shut down,
                                        listener stopped -> store closed
    one-shot commands (--add-community, ...) open the same database

| Component | State | Operations | What is hard, and what makes it correct |
|---|---|---|---|
| Flood controller (`flood`) | configuration, last sent time per key, rate bucket per key, digest, all under one mutex | `Admit`, `Configure`, `tick` and the flush after it | three kinds of goroutine; events admitted out of the order of their receipt; memory lost on a stop. Nothing is counted twice, nothing waits too long, what is suppressed was announced |
| Pipeline (`pipeline`) | none of its own: a trap's way through the queries | `Run`, `Process`, `FloodFlush` | each query sees another state of the tables; an insert may be refused. History, notification rows and deliveries agree |
| Dispatcher (`notify`) | a goroutine per channel, results behind a barrier | `Dispatch`, `dispatchOne` | timeouts race answers; abandoned sends still deliver. The call ends, results are true, channels do not disturb each other |
| Decoder and rule engine (`decode`, `rules`) | none | `Decode`, `Classify` | the OID map, rules, their channels, the device and the default routes are read one after the other while they are edited. Without an edit in between the decision is the one the tables call for |
| Configuration store (`store/crud.go`, `rules.go`) | tables with ids, unique columns, foreign keys and cascades | one insert, update or delete a request; `ReorderRules` | deletions in any order, any place asked for, reorders of a part of the rules. References resolve, what was answered is stored, the order of rules is the one asked for |
| Migrations (`store.go`) | `schema_migrations` | `Open`, `migrate` | two processes at one file, kills. Each migration takes effect once, in order |
| Settings (`api`, `main.go`) | `settings`; the configuration in memory | `updateSettings`, `ReloadFlood` | key by key, then a read and a `Configure`: saves overlap or fail half-way. What is in force is what is stored |
| SNMPv3 users and communities (`api`, `snmp/v3.go`, `crypto`) | rows with sealed secrets; a table and a checker in memory | create, update, delete; loaded once at start | the master key may change between starts; edits wait for the next start |
| Authentication (`auth`) | the account, a cookie | `Setup`, sign-in, sign-out, the middleware | set-up checks, hashes, inserts. There is one account |
| Trap sink (`snmp/sink.go`) | the listener | `Start`, `listenOnce` | bind failures, panics before and after the socket listens, a backoff that races the stop. It heals, and it ends |
| Daemon (`main.go`) | context, server, listener, store | `Start`, `runDaemon`, `Stop` | waits with limits, nested: requests end before the store closes, and the process does end |
| HTTP API (`api`) | none | handlers | they are the requests of the components above |
| Metrics, bootstrap configuration, web console, history queries | counters, flags, none | read or count | no state anything else depends on |

`PROJECT.json` lists every component with its status, and every hazard with the
line where it bites and the properties that cover it.

## The modules

**`Flood`** models `flood.go` operation by operation. A critical section of the
mutex is one action: `AdmitDedupe`, `AdmitRateLimit`, `AdmitDigest` and
`AdmitNone` (the cases of `Admit`), `Tick` (with `TickRateLimit`, `TickDigest`,
`TickIdle`), `Configure`. What happens outside it is an action of its own:
`Receive` stamps a trap (`toRawTrap`, `time.Now`), `ReadClock` reads the clock
for a tick, `Flush` hands over one rollup. `Restart` forgets everything in
memory, as `Start` returns without a last tick. The variables `cfg`,
`lastSeen`, `buckets`, `digest`, `digestAt` are the fields of `Controller`;
`tickNow` and `pending` are the locals of `Start` and `tick`; `at` is
`ReceivedAt`. `admitted`, `outcome`, `represented` and `announced` are history
variables. Go's append-only slices of held events become sets of events, since
no decision reads their order; `pending` may be a set of sets because two
rollups of a tick never hold the same events. A rollup whose events are equal
to another's cannot occur, an empty one is not built.

**`FloodContract`** says what other components may rely on: the life of an event
from receipt to rollup, with no clock, strategy or key table. `Flood` implements
it under the mapping `StatusOf` (`ImplementsContract`).

**`Pipeline`** models `pipeline.go` on top of that contract: `Flood ==
INSTANCE FloodContract` supplies the outcome of the gate. Each query or insert
of `Process` is an action (`ReadRules`, `ReadChannels`, `Admit`, `Persist`,
`RecordHeld`, `Resolve`, `Finish`, `Record`), so the deletions of an
administrator fall between any two of them. `TrapRowValid` and the
`...Referenced` operators are the foreign keys of `0001_schema.sql`. Traps from
the listener pass the bounded queue and `Take`, one at a time; a replay runs
concurrently. `Deliver` is the provider accepting a message, at any time after
the dispatch began, also after it was given up.

**`Dispatch`** models one call of `Dispatcher.Dispatch`: a goroutine per channel
with its attempts, the context of each attempt, cancellation, and the barrier.
`Pipeline` sees of it only that every channel gets one result, that `sent`
means accepted, and that results are read when all are there; `ResultsFinal`
is that statement.

**`Config`** models the tables the console edits. A table is a function from
ids to rows, `lastId` is SQLite's `AUTOINCREMENT`, and every store method is one
statement or one transaction, so one action: `CreateRule`, `DeleteSeverity`,
`SetDefaultRoutes` and so on, with the guards that the schema makes of unique
columns and foreign keys, and `Cascade` where it cascades. A request that breaks
a constraint is rolled back and changes nothing, so it is no action. A rule is
created or updated at any `ord` of the constant `Ord`, as the API stores whatever
a request sends, a negative one too. A reorder is given as `place`, the places a
list of ids comes to: any rules, in any order, with ids of no rule in between
(`Places`). `Reordered` is what the statements of `ReorderRules` leave,
`OffsetClashes` when the first of them is refused, `PlaceClashes` when one of the
others is: a rule the offset took from below zero may stand where another is to
go.

**`RuleList`** is the abstract specification of the rule table: one ordered list
in which an edit moves only the rules it names, and a reorder puts the listed ones
in front of the others. The order is a relation: a list that keeps part of its
order is a relation that agrees with the old one there, whatever the places were.
`ahead` are rules that a reorder does not get in front of, as they were put at a
negative place. `Classify` implements it with `RuleOrder`, the pairs of rules
ordered by `ord` (`ImplementsRuleList`).

**`Classify`** extends `Config` with an event on its way through `Decode`,
`Engine.Classify` and `InsertTrap`, one action for each query, and a dry run of
the rule editor that ends before the insert. `Match` is one turn of the loop over
the rules. `Taking` and `Right` say declaratively which rules take part and what
the decision is to be, without a loop.

**`Migrate`** models `store.Open` for several processes: `CheckMigration` is the
look-up outside the transaction, `ApplyMigration` the transaction, `CloseStore`
the end or the kill of a process at any point.

**`Console`** models the requests that change how the running process behaves.
A request of one statement is one action. Those of several hold a `slot`:
`UpdateSettings`, one `SetSetting` a key in any order, `ReloadFlood` (the read),
`ConfigureFlood`; and `Setup`, `CreateAdmin`. A read of the settings whose error
is ignored (`main.go:274`, `298`) may return any part of them, and `Default` for
the rest (`AllSettings`). `behind` remembers how the last reload went wrong: a
write or read failed, or another save wrote in between. A sealed secret is the master key
it was sealed under. `session` is the browser's cookie, the key it was signed
with. `Accept` is the server taking a request, `Admitted` the sign-in in front
of it.

**`Daemon`** composes `Migrate` and `Console` and adds the process: `phase` is
where `runDaemon` stands, `http` its server, `sink` its listener, `cancelled`
its context. `Stop` is `program.Stop` called, `Exit` its return after
`runDaemon` or after its limit, `Die` the loss of everything in memory. The
listener's library may panic before its socket listens (`BindPanics`) as well as
on a packet (`Panic`). `sink` is `"collected"` once the first `select` of
`runDaemon` took its result, so that the second waits in vain. `Tick` lets time pass in the waits. `RunCommand` is the one-shot command in a process
of its own.

`MCFlood`, `MCPipeline`, `MCDispatch`, `MCClassify` and `MCDaemon` hold the
instances. An operator marked "Mutant" is a plausible mistake in the definition
after it; each property has been seen to fail with one.

How the parts meet: `Pipeline` sees of the gate what `FloodContract` says, and
of a dispatch what `ResultsFinal` says. It takes classification as the choice of
a rule, a severity and channels from the tables at the time of each query, which
`Classify` refines with the order of the rules and their continuation. `Daemon`
leaves the traps out: what they do to its variables is nothing.

## The runs

| Run | Shows | Bounds, and why they are enough |
|---|---|---|
| `flood` | `HeldOnce`, `SuppressedCovered`, `DedupeSpacing`, `HeldWaitBounded`, `LostOnlyAtWindowTurn`, `ImplementsContract` | three traps of one key, four strategies with windows of two instants, lag 1, one restart. A window needs one event sent, one held and one to turn it; three do all of it |
| `flood_rate` | `RateBound`, `HeldOnce` over keys | four traps of one key and two of another, N of 1 and 2, lag 1: `2N` sends within a window would need four |
| `flood_live` | `DigestFlushed`, `SummaryFlushed` | two traps, `rate_limit` and `digest` switched at will |
| `flood_lost` | violation of `NoHeldEventLost` | see findings |
| `pipeline` | `NotifiedIsStored`, `RowsMatchOutcome`, `HistoryIntact`, `EventuallyProcessed` | two traps, one with a rule that bypasses flood control, and a replay of the other; a queue of one (it fills), one channel and rule, a severity that can be deleted, one restart. The barrier over several channels is checked in `dispatch` and proved |
| `pipeline_unstored` | violation of `EveryTrapStored` | see findings |
| `dispatch` | `NeverBlocked`, `ResultsFinal`, `AttemptsCounted`, `Returns` | two working channels and a broken one, the two retries of `main.go:271`, a timeout of two instants |
| `classify` | `ReferencesResolve`, `SavedAsAnswered`, `DecisionMatchesRules`, `StoredUnlessEdited`, `ImplementsRuleList` | one event and two edits of any kind, three ids a table. The start has two rules, the second in front. With an offset of 10, a rule put at -10 is one the offset takes to a place of the list, and one put at 11 is where the offset leads the rule at 1; two edits allow such a placement and a reorder, two reorders, or a deletion after a creation, around any query |
| `rules_offset` | violation of `OffsetNeverTrips` | see findings; no request asks for a place, so reorders alone do it |
| `daemon` | `MigratedOnceInOrder`, `OpenFailsOnlyWhenOvertaken`, `ConfigInForce`, `OneAccountUnlessContested`, `CredentialsInForce`, `RequestsDrained`, `ListenerHeals`, `StopEnds` | two migrations, the daemon and a command; two slots, keys, names and starts; one user, one community, one flood setting beside the sign-in; two requests or commands; waits of 1, 1 and 3. Two of each is what it takes to overlap, to restart under another key, and for the waits to differ |
| `daemon_overtaken` | violation of `ChangesApply` | see findings |
| `daemon_accounts` | violation of `OneAccount` | see findings |

Bounds are named constants: `LastReceipt`, `Horizon`, `MaxLag` and `MaxRestarts`
limit the clock, the wait between receipt and `Admit`, and the restarts;
`QueueCap` is the capacity of the channel. `MaxId`, `MaxEdits`, `MaxEvents`
limit tables, successful edits and events; `MaxRequests` counts requests that
reach their handler and one-shot commands together, `MaxStarts` the starts. The
clock of `Flood` stops at `Horizon`, beyond the end of every window that can
open. `Dispatch` needs no bound: its clock stops by itself.

Deadlock is checked in `Flood`'s runs (`ReadClock` can always happen again).
In the others the traps, the call, the edits or the starts of a behaviour come to
an end, so their configurations say `CHECK_DEADLOCK FALSE`.

### Fairness

`Flood!Fairness`: the clock moves, the ticker goroutine is scheduled and the
Run loop comes to the next trap, which it does because a dispatch is bounded
(`Dispatch!Returns`). `Pipeline!Fairness`: the Run loop and the handler
goroutines are scheduled; nothing is assumed of providers, `Deliver` is not
fair. `Dispatch!Fairness`: goroutines run and time passes; `Accept` and `Fail`
(a refusal) are not fair, only `Expire` is. `Daemon!Fairness`: the listener's
socket answers (`Bind`), its timer fires (`Rebuild`), the end of the context is
noticed (`SinkStops`), `runDaemon` takes the next step of its shutdown, and time
passes in a wait (`Tick`), so that its limit is reached. No query of the startup
and no step of a request is fair: both may hang, and `StopEnds` holds
nevertheless because `Stop` waits no longer than `StopWait`. A panic may come at
every bind, and nothing in `Start` would end that: `ListenerHeals` holds but for
behaviours in which `BindPanics` happens again and again. No fairness is
assumed of arrivals, the administrator, a crash or a restart.

## What disagrees with the documentation

1. `flood_lost`: when the next event of a key is admitted after its window has
   ended but before the tick, `Admit` replaces the bucket and the events it held
   are never summarised (`flood.go:127`), against `flood.go:30` and
   `README.md:445`.
2. `pipeline_unstored`: a rule or severity deleted while a trap is processed
   makes its insert fail, so the trap is not stored (`README.md:183`).
3. `rules_offset`: `ReorderRules` adds 1,000,000 to every `ord` "to avoid tripping
   the UNIQUE(ord) constraint" (`rules.go:148`). A rule that a reorder leaves out
   stays there; the offset of the next one may lead a rule onto it, and that
   reorder and every later one are refused until an edit changes the places. Two
   reorders that list one of two rules each bring it about, and so does any rule
   the API puts 1,000,000 behind another.
4. `daemon_overtaken`: of two saves of the settings, both answered with success,
   the older may be in force in the end (`main.go:298`), although changes "apply
   immediately" (`README.md:370`).
5. `daemon_accounts`: two set-ups at once leave two accounts (`auth.go:72`), where
   there is to be "the single admin account" (`README.md:381`). Only the first can
   sign in again.

`LostOnlyAtWindowTurn` shows that the first one and a restart are the only ways
to lose a held event. `ConfigInForce`
and `OneAccountUnlessContested` show that overlapping requests are the only
cause of the last two, failed writes and reads of the settings apart.

## What else was seen

The models contain this behaviour as well. No run is about it. The first four
are at odds with a sentence of the repository; for the others it states no
intent, or only an error message does.

- Events held under one strategy stay held after a switch to another
  (`flood.go:156`, `167`), against `flood.go:30`; `DigestFlushed` and
  `SummaryFlushed` say that they are flushed if it is put back in force for good.
- `Admit` compares windows with the time of receipt, the ticker with the clock. A
  trap that was decoded, classified or queued across a tick, if only for an
  instant, meets a window the tick has closed, and more than `2N - 1` of the events
  received within one window length are sent (`README.md:445`). `RateBound` is what
  the code does keep to: by the time of admission, and for a window length less
  the longest wait before it.
- Results are recorded after the last channel is done (`pipeline.go:127`). A stop
  in between leaves delivered messages without the row `README.md:186` promises;
  so does a channel deleted in that time, whose row the schema refuses
  (`pipeline.go:179`).
- `ListRules` reads rows and channels in separate queries, so it may return a rule
  with channels it never had along with that row (`rules.go:11`).

- The console numbers a new rule by the length of its list (`Rules.tsx:137`).
  After a deletion that place may be taken and the creation is refused.
- A rule at a negative place, which only the API can give it, stays in front of
  every reorder that does not list it, and at -1,000,000 refuses those that
  need the place the offset takes it to (`PlaceClashes`).
- The setting `unknown_default_severity_id` may name a severity that is gone.
  Every trap with an unmapped OID is then refused by the schema and not stored
  (`StoredUnlessEdited` has that case apart).
- A save of several settings that fails at one of them is answered with an error;
  those already written are stored and not in force until the next save or
  start (`behind`). A reload that cannot read the settings puts the defaults
  in force, without an error (`main.go:298`).
- `updateV3User` checks only the level. A user raised to `authPriv` without a
  privacy password is accepted, and left out of the table at the next start.
- A listener that cannot bind ends `runDaemon`, but the web server and the
  process stay; a web server that cannot bind leaves an idle process
  (`main.go:332`).
- A startup with slow queries uses up `Stop`'s limit, so requests admitted
  meanwhile are cut off (`excuse` in `RequestsDrained`).

## The proofs

The proofs hold for every value of the constants that satisfies the named
assumptions (`KeyAssumption`, `ConfigAssumption`, `BoundAssumption`,
`TrapAssumption`, `ConfigurationAssumption`, `DispatcherAssumption`,
`LastAssumption`, `SettingAssumption`, `FormAssumption`, `IdAssumption`,
`ProcessAssumption`, `StopAssumption`, `OrdAssumption`, `OffsetAssumption`, `NoneAssumption`,
`SetupAssumption` and the bounds). One theorem, `FloodRateBound`, has a
hypothesis besides. Every invariant and action property of the passing runs and
both refinements are theorems; liveness is not, it is beyond the prover.

`FloodProofs`:

- `FloodTypeOK` by one step for each action.
- `FloodHeldOnce`. The property is not inductive: it does not say that an event
  still waiting is in no bucket. The invariant `WhereIs` puts each event in
  exactly one place by its outcome; from it follow the disjointness and the
  count of `HeldOnce`.
- `FloodHeldWaitBounded` rests on `Stamps`: a bucket or digest never starts
  later than the events it holds were admitted, and never later than the clock.
- `FloodSuppressedCovered` and `FloodDedupeSpacing` rest on what `lastSeen`
  means: the receipt time of an announced event, and the latest one of its key.
  The second assumes that dedupe windows are not negative.

`FloodContractProofs`, what becomes of an event that is held:

- `Filed`: a window holds events of its own key, and a tick that has read the
  clock has nothing left to flush. With it, `WhereIs` and `Stamps`, an event has
  one place in the controller, and that place is what `StatusOf` says
  (`StatusIsPlace`). Then there is one lemma for each kind of step that says which
  events it moves and where (`FloodSteps`); both theorems follow from these.
- `FloodLostOnlyAtWindowTurn`: but for a restart, only `Admit` of the same key takes
  an event out of a window uncounted, and only where it starts a new window.
- `FloodImplementsContract`: each kind of step is the action of `FloodContract`
  that moves the same events, or a stutter. The tick that takes the held events
  of several windows at once is the step that needs `Filed`.

`RateProofs`:

- `FloodRateBound`, under `Steady`: one rate limit is in force and the process runs
  on, as in the run `flood_rate`, for any lag between receipt and admission, any
  window length, rate, keys and events. Across a change of the configuration the
  bound would not say which one it is the bound of.
  The code forgets a window when it turns, so the state alone does not say how many
  events were sent in earlier ones. `RateInv` says that there is an assignment of
  the sent events to windows that begin at least `Spread`, the window length less
  the longest lag, apart, each with at most `N` of them, of which the open bucket is
  the last and counts its own. An interval of that length meets at most two such
  windows, and where it meets two it misses the
  event that opened the first, so `2N - 1` is the bound (`WindowsBound`).

`PipelineProofs`:

- `PipelineTypeOK`, which includes the capacity of the queue.
- `PipelineNotifiedIsStored`. Three things must be known besides: a trap waits
  in the queue once and untouched (`QueuedOnce`), so `Take` never restarts one
  that is on its way; a rollup counts only held traps (`RollupsHeld`), so the
  gate's answer to a trap that passed it never turns (`OutcomeKept`); and the
  row just inserted says what the gate answered (`RowOfOutcome`). From these,
  only a trap stored as sent gets channels (`TargetsStored`), and only those
  channels get messages.
- `PipelineHistoryIntact` with `InHistory`: between its insert and the last row
  about it a trap is in the history, so the row it gets refers to it. The
  administrator's side is the foreign keys alone.
- `PipelineRowsMatchOutcome` with `RowsInv`. The property is about a trap that is
  done; the rows come one by one before, while channels are deleted. The invariant
  adds that a row's result is no longer open, so no channel gets a second one
  (`RowsFit`, `OneRowEach`), and that each channel still there has a row or an open
  result (`NoneMissed`).

`DispatchProofs`:

- `DispatchTypeOK` with `SendsCounted`: attempts are bounded by the loop and
  sends by the attempts.
- `DispatchNeverBlocked` rests on `OnTime`: a goroutine starts each attempt
  within the timeouts of the attempts before it, so its deadline is at most
  `attempts * Timeout`, whatever the other channels do.
- `DispatchResultsFinal` and `DispatchAttemptsCounted` rest on `Accounted`,
  which says what each goroutine knows at each point of its loop.

`DaemonProofs`:

- `DaemonMigratedOnceInOrder` and `DaemonOpenFailsOnlyWhenOvertaken` from
  `MigrateInv`. The properties say nothing of a process between its look-up and
  its transaction; the invariant adds that the migration it is about to apply is
  at most the next one, and recorded only if another process did that since.
- `DaemonTypes`. `CreateV3User` seals under `key`, which is a key only while the
  server serves (`Keyed`), and `CreateAdmin` stores the name its slot holds
  (`SlotsShaped`).
- `DaemonRequestsDrained` with `DrainInv`, the account of the time since `Stop`:
  none of it used while running, at most `waited` in the first wait, at most
  `ShutdownWait + waited` in the second. The limit of `Stop` is beyond both by
  `StopAssumption`, and once the server is closed no request enters
  (`ClosedServer`).
- `DaemonOneAccountUnlessContested` with `AccountInv`: two slots in a set-up, or
  one next to an account that exists, are contested already.
- `DaemonConfigInForce` with `ReloadInv`: a reload that read all the settings and
  was not overtaken has read what is stored. It needs that a request never takes a busy slot
  (`FreeSlotIsIdle`).
- `DaemonCredentialsInForce` with `LoadedInv`, which follows communities and
  users from their own moment of loading, and knows every user nobody updated to
  be valid.

`ClassifyProofs`, over `Config` and `Classify`. All of it starts from any
configuration that `SetupAssumption` admits:

- `ClassifyTypeOK` with `TypeInv`: the channels of every rule are read before
  one is matched, and nothing is left to match before the rules are read. The
  next rule to evaluate exists because places are bounded from below
  (`FirstIsMember`, by well-foundedness of their heights above `MinOrd`).
- `ClassifyReferencesResolve`, one step per edit: the foreign key is in the
  guard, or the cascade in the assignment. History grows only by rows that are
  there (`OtherSteps`).
- `ClassifySavedAsAnswered` with `IdsGrow`: a new id is larger than that of any
  row, and than any channel a saved set names. Without it a channel created
  later could return to a set that named a deleted one.
- `ClassifyStoredUnlessEdited` with `DecidedInv`: while no edit has come in
  between, the rules that were read are those of the table, so the rule and
  severity of the decision are rows that exist.

`RulesProofs`, over the same modules:

- `ClassifyDecisionMatchesRules` with `DecisionInv`. The property says what the
  decision is when the walk is over. The invariant says it at every query: what
  was read so far is what the tables hold (while no edit came in between),
  every matching rule behind the walk continues and stands before those ahead
  (`InOrder`), and the decision so far is the one that the rules that took
  part call for (`SoFar`). That the first match is unique needs that OIDs and
  places are (`UniqueAlways`), which the edits keep, a reorder with its offset too.
- `ClassifyImplementsRuleList`: each request on the rules is a step of `RuleList`
  (`RuleRequests`), every other step leaves the order alone. It needs
  `UniqueAlways` again: two rules at one place would not be ordered. A reorder
  keeps a rule at a negative place ahead only if the offset leaves it there
  (`Ahead`).

Only model-checked are the liveness properties: `DigestFlushed`, `SummaryFlushed`,
`EventuallyProcessed`, `Returns`, `ListenerHeals` and `StopEnds`.

## Not modelled, and the plan

Out of scope, with the reason:

- rendering of messages and rollups, the composed text of an event, the HTTP
  formats of the providers: text and pure I/O;
- metrics, history queries, dashboards: they only read, or nothing reads them;
- the web console: what it sends is among what the API takes;
- the upper end of a 64-bit `ord`, which the offset could pass, and a reorder that
  names a rule twice and is refused for the place it has for a moment;
- flags and environment, service installation, the password prompt: read once,
  or I/O of the operating system;
- password hashes and `UpdateAdminPassword`, the cipher: a password is right or
  wrong, a sealed value opens under its key alone;
- failures of the database other than a refused constraint and a settings write
  that finds it busy: a full or broken disk leaves no state to reason about;
- what gosnmp does with a packet, but for its panics.

Nothing of the plan is left but what is out of scope above and what the prover
cannot do: the six liveness properties stay with TLC.
