------------------------------- MODULE Flood -------------------------------
(***************************************************************************)
(* The flood controller, internal/flood/flood.go.                          *)
(*                                                                         *)
(* Three kinds of goroutine share one Controller under its mutex: those    *)
(* that admit events (the pipeline's Run loop and every HTTP replay), the  *)
(* ticker goroutine that closes windows and emits rollups, and the HTTP    *)
(* handler that swaps the configuration.  A critical section is one        *)
(* action; what happens outside the lock (stamping a trap on receipt, the  *)
(* ticker's clock read, the flush of a rollup) is an action of its own.    *)
(*                                                                         *)
(* An event is the identity of one trap.  Its aggregation key is KeyOf.    *)
(* It is admitted with the time it was RECEIVED, which may lie behind the  *)
(* clock the ticker reads: it waited in the trap queue in between.         *)
(***************************************************************************)
EXTENDS Integers, FiniteSets

CONSTANTS
  Event,        \* the traps of a behaviour
  Key,          \* aggregation keys (source IP + trap OID)
  KeyOf,        \* the key of each event
  Configs,      \* the configurations an administrator may put in force
  LastReceipt,  \* bound: no trap is received after this time
  Horizon,      \* bound: the last instant of the clock
  MaxLag,       \* bound: the longest an event waits between receipt and Admit
  MaxRestarts,  \* bound: how often the daemon is stopped and started again
  Reconfigurable \* whether the administrator changes the configuration

NoTime == -1    \* the zero time.Time, and the absent entry of a map
Time == 0..Horizon

Strategies == {"none", "dedupe", "rate_limit", "digest"}

\* flood.Config; ParseConfig accepts any duration, a rate of at least one.
Config == [strategy : Strategies, dedupeWindow : Int, rateN : Nat \ {0},
           rateWindow : Int, digestInterval : Int]

ASSUME KeyAssumption == KeyOf \in [Event -> Key]
ASSUME ConfigAssumption == Configs \subseteq Config
ASSUME BoundAssumption ==
  /\ LastReceipt \in Nat /\ Horizon \in Nat
  /\ MaxLag \in Nat /\ MaxRestarts \in Nat
  /\ Reconfigurable \in BOOLEAN

VARIABLES
  \* the Controller
  cfg,          \* Controller.cfg
  lastSeen,     \* Controller.lastSeen: when dedupe last let a key through
  buckets,      \* Controller.buckets: the open rate window of each key
  digest,       \* Controller.digest: events waiting for the next digest
  digestAt,     \* Controller.digestAt: start of the digest interval
  \* the ticker goroutine
  tickNow,      \* the clock value tick was called with, NoTime between ticks
  pending,      \* rollups built under the lock and not flushed yet
  \* the world
  clock,        \* wall-clock time
  life,         \* how often the daemon has been restarted
  \* what happened to each event
  at,           \* RawTrap.ReceivedAt
  admitted,     \* the clock when Admit decided
  outcome,      \* what Admit returned
  represented,  \* in how many flushed rollups the event was counted
  announced     \* the events dedupe let through since the daemon started

controller == <<cfg, lastSeen, buckets, digest, digestAt>>
ticker     == <<tickNow, pending>>
history    == <<at, admitted, outcome, represented, announced>>
vars       == <<controller, ticker, clock, life, history>>

Outcomes == {"unseen", "waiting", "gone", "send", "suppress", "hold"}

Bucket == [open : BOOLEAN, windowStart : Time \cup {NoTime},
           sent : Nat, held : SUBSET Event]

NoBucket == [open |-> FALSE, windowStart |-> NoTime, sent |-> 0, held |-> {}]
NewBucket(now) ==
  [open |-> TRUE, windowStart |-> now, sent |-> 0, held |-> {}]

Waiting == {e \in Event : outcome[e] = "waiting"}

TypeOK ==
  /\ cfg \in Configs
  /\ lastSeen \in [Key -> Time \cup {NoTime}]
  /\ buckets \in [Key -> Bucket]
  /\ digest \in SUBSET Event
  /\ digestAt \in Time \cup {NoTime}
  /\ tickNow \in Time \cup {NoTime}
  /\ pending \in SUBSET (SUBSET Event)
  /\ clock \in Time
  /\ life \in 0..MaxRestarts
  /\ at \in [Event -> Time \cup {NoTime}]
  /\ admitted \in [Event -> Time \cup {NoTime}]
  /\ outcome \in [Event -> Outcomes]
  /\ represented \in [Event -> Nat]
  /\ announced \in SUBSET Event

-----------------------------------------------------------------------------

\* flood.New with the configuration read from the settings at startup.
Init ==
  /\ cfg \in Configs
  /\ lastSeen = [k \in Key |-> NoTime]
  /\ buckets = [k \in Key |-> NoBucket]
  /\ digest = {}
  /\ digestAt = NoTime
  /\ tickNow = NoTime
  /\ pending = {}
  /\ clock = 0
  /\ life = 0
  /\ at = [e \in Event |-> NoTime]
  /\ admitted = [e \in Event |-> NoTime]
  /\ outcome = [e \in Event |-> "unseen"]
  /\ represented = [e \in Event |-> 0]
  /\ announced = {}

\* toRawTrap (or a replay) stamps the trap; the event is on its way to Admit.
Receive(e) ==
  /\ outcome[e] = "unseen"
  /\ clock <= LastReceipt
  /\ at' = [at EXCEPT ![e] = clock]
  /\ outcome' = [outcome EXCEPT ![e] = "waiting"]
  /\ UNCHANGED <<controller, ticker, clock, life, admitted, represented, announced>>

\* Time passes, unless that would keep an event waiting beyond MaxLag.
Elapse ==
  /\ clock < Horizon
  /\ \A e \in Waiting : clock - at[e] < MaxLag
  /\ clock' = clock + 1
  /\ UNCHANGED <<controller, ticker, life, history>>

-----------------------------------------------------------------------------
(***************************************************************************)
(* Controller.Admit, one action for each case of the switch.               *)
(***************************************************************************)

\* What Admit returned, and when.
Decide(e, o) ==
  /\ outcome' = [outcome EXCEPT ![e] = o]
  /\ admitted' = [admitted EXCEPT ![e] = clock]

\* Mutant: an event received before the last one sent counts as fresh.
SeenRecentlyInOrder(k, now) ==
  /\ lastSeen[k] # NoTime
  /\ now - lastSeen[k] \in 0..(cfg.dedupeWindow - 1)

SeenRecently(k, now) ==
  /\ lastSeen[k] # NoTime
  /\ now - lastSeen[k] < cfg.dedupeWindow

\* Mutant: a suppressed event restarts the window, as in a debounce.
AdmitDebounce(e) ==
  /\ cfg.strategy = "dedupe"
  /\ lastSeen' = [lastSeen EXCEPT ![KeyOf[e]] = at[e]]
  /\ \/ /\ SeenRecently(KeyOf[e], at[e])
        /\ Decide(e, "suppress")
        /\ UNCHANGED announced
     \/ /\ ~SeenRecently(KeyOf[e], at[e])
        /\ announced' = announced \cup {e}
        /\ Decide(e, "send")
  /\ UNCHANGED <<buckets, digest, digestAt>>

AdmitDedupe(e) ==
  /\ cfg.strategy = "dedupe"
  /\ \/ /\ SeenRecently(KeyOf[e], at[e])
        /\ Decide(e, "suppress")
        /\ UNCHANGED <<lastSeen, announced>>
     \/ /\ ~SeenRecently(KeyOf[e], at[e])
        /\ lastSeen' = [lastSeen EXCEPT ![KeyOf[e]] = at[e]]
        /\ announced' = announced \cup {e}
        /\ Decide(e, "send")
  /\ UNCHANGED <<buckets, digest, digestAt>>

\* Mutant: the window is over one instant early.
CurrentBucketEarly(k, now) ==
  IF \/ ~buckets[k].open
     \/ now - buckets[k].windowStart >= cfg.rateWindow - 1
  THEN NewBucket(now)
  ELSE buckets[k]

\* A missing or expired bucket is replaced, whatever it still holds.
CurrentBucket(k, now) ==
  IF \/ ~buckets[k].open
     \/ now - buckets[k].windowStart >= cfg.rateWindow
  THEN NewBucket(now)
  ELSE buckets[k]

AdmitRateLimit(e) ==
  LET b == CurrentBucket(KeyOf[e], at[e]) IN
  /\ cfg.strategy = "rate_limit"
  /\ \/ /\ b.sent < cfg.rateN
        /\ buckets' = [buckets EXCEPT ![KeyOf[e]] = [b EXCEPT !.sent = b.sent + 1]]
        /\ Decide(e, "send")
     \/ /\ b.sent >= cfg.rateN
        /\ buckets' = [buckets EXCEPT ![KeyOf[e]] = [b EXCEPT !.held = b.held \cup {e}]]
        /\ Decide(e, "hold")
  /\ UNCHANGED <<lastSeen, digest, digestAt, announced>>

\* Mutant: every event restarts the digest interval.
AdmitDigestRestarting(e) ==
  /\ cfg.strategy = "digest"
  /\ digestAt' = at[e]
  /\ digest' = digest \cup {e}
  /\ Decide(e, "hold")
  /\ UNCHANGED <<lastSeen, buckets, announced>>

AdmitDigest(e) ==
  /\ cfg.strategy = "digest"
  /\ digestAt' = IF digestAt = NoTime THEN at[e] ELSE digestAt
  /\ digest' = digest \cup {e}
  /\ Decide(e, "hold")
  /\ UNCHANGED <<lastSeen, buckets, announced>>

AdmitNone(e) ==
  /\ cfg.strategy = "none"
  /\ Decide(e, "send")
  /\ UNCHANGED <<lastSeen, buckets, digest, digestAt, announced>>

Admit(e) ==
  /\ outcome[e] = "waiting"
  /\ AdmitDedupe(e) \/ AdmitRateLimit(e) \/ AdmitDigest(e) \/ AdmitNone(e)
  /\ UNCHANGED <<cfg, ticker, clock, life, at, represented>>

-----------------------------------------------------------------------------
(***************************************************************************)
(* Start and tick: one goroutine reads the clock, takes the due rollups    *)
(* under the lock, then flushes them one by one outside it.  It returns to *)
(* its ticker only when every rollup of the tick is flushed.               *)
(***************************************************************************)

ReadClock ==
  /\ tickNow = NoTime
  /\ pending = {}
  /\ tickNow' = clock
  /\ UNCHANGED <<controller, pending, clock, life, history>>

\* Mutant: only a window that is over exactly at the tick is closed.
ClosedWindowsOnTheDot ==
  {k \in Key : buckets[k].open /\ tickNow - buckets[k].windowStart = cfg.rateWindow}

\* Rate windows that are over at the time of the tick.
ClosedWindows ==
  {k \in Key : buckets[k].open /\ tickNow - buckets[k].windowStart >= cfg.rateWindow}

\* Mutant: the summary is built but the bucket is not deleted.
TickRateLimitKeeping ==
  /\ cfg.strategy = "rate_limit"
  /\ pending' = {buckets[k].held : k \in ClosedWindows} \ {{}}
  /\ UNCHANGED <<buckets, digest, digestAt>>

TickRateLimit ==
  /\ cfg.strategy = "rate_limit"
  /\ pending' = {buckets[k].held : k \in ClosedWindows} \ {{}}
  /\ buckets' = [k \in Key |-> IF k \in ClosedWindows THEN NoBucket ELSE buckets[k]]
  /\ UNCHANGED <<digest, digestAt>>

DigestDue ==
  /\ digestAt # NoTime
  /\ tickNow - digestAt >= cfg.digestInterval
  /\ digest # {}

\* Mutant: the digest is built but not emptied.
TickDigestKeeping ==
  /\ cfg.strategy = "digest"
  /\ \/ /\ DigestDue
        /\ pending' = {digest}
        /\ digestAt' = tickNow
     \/ /\ ~DigestDue
        /\ UNCHANGED <<pending, digestAt>>
  /\ UNCHANGED <<buckets, digest>>

TickDigest ==
  /\ cfg.strategy = "digest"
  /\ \/ /\ DigestDue
        /\ pending' = {digest}
        /\ digest' = {}
        /\ digestAt' = tickNow
     \/ /\ ~DigestDue
        /\ UNCHANGED <<pending, digest, digestAt>>
  /\ UNCHANGED buckets

TickIdle ==
  /\ cfg.strategy \in {"none", "dedupe"}
  /\ UNCHANGED <<pending, buckets, digest, digestAt>>

Tick ==
  /\ tickNow # NoTime
  /\ TickRateLimit \/ TickDigest \/ TickIdle
  /\ tickNow' = NoTime
  /\ UNCHANGED <<cfg, lastSeen, clock, life, history>>

\* Mutant: a tick that finds rollups of the tick before sends them again.
FlushAgain(r) ==
  /\ r \in pending
  /\ represented' = [e \in Event |-> represented[e] + IF e \in r THEN 1 ELSE 0]
  /\ UNCHANGED <<controller, ticker, clock, life, at, admitted, outcome, announced>>

\* c.flush(r): the rollup goes to the channels of its events.
Flush(r) ==
  /\ r \in pending
  /\ pending' = pending \ {r}
  /\ represented' = [e \in Event |-> represented[e] + IF e \in r THEN 1 ELSE 0]
  /\ UNCHANGED <<controller, tickNow, clock, life, at, admitted, outcome, announced>>

-----------------------------------------------------------------------------

\* Mutants: a rate of zero is accepted; the state of the rate limiter is
\* cleared with the old configuration; the digest interval is.
ConfigureZeroRate(c) ==
  /\ Reconfigurable
  /\ cfg' = [c EXCEPT !.rateN = 0]
  /\ UNCHANGED <<lastSeen, buckets, digest, digestAt, ticker, clock, life, history>>
ConfigureClearing(c) ==
  /\ Reconfigurable
  /\ cfg' = c
  /\ buckets' = [k \in Key |-> NoBucket]
  /\ UNCHANGED <<lastSeen, digest, digestAt, ticker, clock, life, history>>
ConfigureRestarting(c) ==
  /\ Reconfigurable
  /\ cfg' = c
  /\ digestAt' = NoTime
  /\ UNCHANGED <<lastSeen, buckets, digest, ticker, clock, life, history>>

\* Configure swaps the configuration and nothing else.
Configure(c) ==
  /\ Reconfigurable
  /\ cfg' = c
  /\ UNCHANGED <<lastSeen, buckets, digest, digestAt, ticker, clock, life, history>>

\* The daemon stops: Start returns without a last flush, and everything the
\* Controller and the trap queue hold is gone when it starts again.
Restart ==
  /\ life < MaxRestarts
  /\ life' = life + 1
  /\ IF Reconfigurable THEN cfg' \in Configs ELSE UNCHANGED cfg
  /\ lastSeen' = [k \in Key |-> NoTime]
  /\ buckets' = [k \in Key |-> NoBucket]
  /\ digest' = {}
  /\ digestAt' = NoTime
  /\ tickNow' = NoTime
  /\ pending' = {}
  /\ outcome' = [e \in Event |-> IF e \in Waiting THEN "gone" ELSE outcome[e]]
  /\ announced' = {}
  /\ UNCHANGED <<clock, at, admitted, represented>>

Next ==
  \/ \E e \in Event : Receive(e) \/ Admit(e)
  \/ Elapse
  \/ ReadClock
  \/ Tick
  \/ \E r \in pending : Flush(r)
  \/ \E c \in Configs : Configure(c)
  \/ Restart

Spec == Init /\ [][Next]_vars

(***************************************************************************)
(* Time passes, the Run loop takes the next trap (a dispatch is bounded by *)
(* its timeouts) and the ticker goroutine is scheduled.  Nothing forces a  *)
(* trap to arrive, the configuration to change or the daemon to restart.   *)
(***************************************************************************)
Fairness ==
  /\ WF_vars(Elapse)
  /\ WF_vars(\E e \in Event : Admit(e))
  /\ WF_vars(ReadClock)
  /\ WF_vars(Tick)
  /\ WF_vars(\E r \in pending : Flush(r))

FairSpec == Spec /\ Fairness

-----------------------------------------------------------------------------
(***************************************************************************)
(* Where a held event can be.                                              *)
(***************************************************************************)
Held       == {e \in Event : outcome[e] = "hold"}
Sent       == {e \in Event : outcome[e] = "send"}
BucketHeld == UNION {buckets[k].held : k \in Key}
InFlight   == UNION pending
RolledUp   == {e \in Event : represented[e] > 0}
Lost       == Held \ (BucketHeld \cup digest \cup InFlight \cup RolledUp)

Disjoint(S, T) == S \cap T = {}

\* A trap is counted in at most one rollup, and only a held one is: across
\* Admit, tick, flush, reconfiguration and restart no event sits in two of
\* the bucket, the digest, a rollup on its way and a rollup already flushed,
\* and none that was sent or suppressed sits in any of them.
HeldOnce ==
  /\ BucketHeld \cup digest \cup InFlight \cup RolledUp \subseteq Held
  /\ Disjoint(BucketHeld, digest)
  /\ Disjoint(BucketHeld \cup digest, InFlight \cup RolledUp)
  /\ Disjoint(InFlight, RolledUp)
  /\ \A k, l \in Key : k # l => Disjoint(buckets[k].held, buckets[l].held)
  /\ \A r, s \in pending : r # s => Disjoint(r, s)
  /\ \A e \in Event : represented[e] <= 1

\* dedupe silences an event only when one of the same key was sent less than
\* a dedupe window before it (or after it, when events are admitted out of
\* the order of their receipt): a key is never silent on its own account.
SuppressedCovered ==
  \A e \in Event : outcome[e] = "suppress" =>
    \E f \in Sent : /\ KeyOf[f] = KeyOf[e]
                    /\ \E c \in Configs : at[e] - at[f] < c.dedupeWindow

\* Two events of a key that dedupe let through in one life of the daemon were
\* received at least a (the shortest configured) dedupe window apart, though
\* events are admitted out of order and other strategies ran in between.
DedupeSpacing ==
  \A e, f \in announced : e # f /\ KeyOf[e] = KeyOf[f] =>
    \E c \in Configs : \/ at[e] - at[f] >= c.dedupeWindow
                       \/ at[f] - at[e] >= c.dedupeWindow

\* Whatever instants the ticker and the events hit, a key opens its windows at
\* least a rate window less the lag of admission apart: of the events of a key,
\* at most 2 * rate_n - 1 are let through within that time, the rest of one
\* window and all of the next.
RateBound ==
  cfg.strategy = "rate_limit" =>
    \A e \in Sent :
      Cardinality({f \in Sent :
                     /\ KeyOf[f] = KeyOf[e]
                     /\ admitted[f] - admitted[e] \in 0..(cfg.rateWindow - MaxLag - 1)})
        <= 2 * cfg.rateN - 1

\* No tick leaves an event behind that the active strategy has held for its
\* whole window or interval, whatever was configured when it was admitted.
HeldWaitBounded ==
  [][ tickNow # NoTime /\ tickNow' = NoTime /\ life' = life =>
        /\ cfg.strategy = "digest" =>
             \A e \in digest' : tickNow - admitted[e] < cfg.digestInterval
        /\ cfg.strategy = "rate_limit" =>
             \A k \in Key : \A e \in buckets'[k].held :
               tickNow - admitted[e] < cfg.rateWindow ]_vars

\* A held event is lost in two ways only: the daemon restarts, or an event of
\* its key, received after its window, is admitted before the tick comes.
LostOnlyAtWindowTurn ==
  [][ life' = life =>
        \A e \in Lost' \ Lost :
          \E f \in Waiting : /\ outcome'[f] # "waiting"
                             /\ KeyOf[f] = KeyOf[e]
                             /\ at[f] - buckets[KeyOf[e]].windowStart >= cfg.rateWindow ]_vars

\* flood.go:30 "represented later in a summary/digest rollup": every held
\* event is in a window or a digest that is still open, on its way to the
\* channels or already there.
NoHeldEventLost == Lost = {}

\* An event held for a digest, or for a rate summary, is flushed in the end if
\* its strategy is in force from some time on, even when the administrator
\* switched it off while the event was waiting.
DigestFlushed ==
  <>[](cfg.strategy = "digest") => \A e \in Event : e \in digest ~> e \in RolledUp
SummaryFlushed ==
  <>[](cfg.strategy = "rate_limit") =>
    \A e \in Event : e \in BucketHeld ~> e \in RolledUp \cup Lost

-----------------------------------------------------------------------------
(***************************************************************************)
(* The refinement: an event's status in FloodContract is what Admit said   *)
(* of it and, once held, where it is.                                      *)
(***************************************************************************)
StatusOf == [e \in Event |->
  IF e \notin Held THEN outcome[e]
  ELSE IF e \in RolledUp THEN "rolledup"
  ELSE IF e \in InFlight THEN "batched"
  ELSE IF e \in BucketHeld \cup digest THEN "hold"
  ELSE "lost"]

Contract == INSTANCE FloodContract WITH status <- StatusOf, rollups <- pending

\* The controller keeps its contract: an event is decided once, a held one
\* moves forward through the bucket or digest, one rollup and one flush, and
\* only a repetition of a sent event is suppressed.
ImplementsContract == Contract!Spec
=============================================================================
