------------------------ MODULE FloodContractProofs ------------------------
(***************************************************************************)
(* What becomes of a held event: the controller implements FloodContract,  *)
(* and the only way but a restart to lose an event is the turn of its      *)
(* window.  Both are about steps; they rest on the invariants of           *)
(* FloodProofs and on the following one.                                   *)
(***************************************************************************)
EXTENDS FloodProofs

\* A window holds events of its own key, and a tick that has read the clock
\* has nothing left to flush.
Filed ==
  /\ \A k \in Key : \A e \in buckets[k].held : KeyOf[e] = k
  /\ tickNow # NoTime => pending = {}

\* What AdmitRateLimit does to the bucket of the event: it counts it as sent
\* or adds it, in the window there was or, if that is over, in a new one.
LEMMA RateLimitSteps ==
  ASSUME TypeOK, NEW e \in Event, Admit(e), AdmitRateLimit(e)
  PROVE  /\ \A k \in Key \ {KeyOf[e]} : buckets'[k] = buckets[k]
         /\ outcome'[e] \in {"send", "hold"}
         /\ outcome'[e] = "hold" => e \in buckets'[KeyOf[e]].held
         /\ \/ /\ buckets'[KeyOf[e]].held \ {e} = buckets[KeyOf[e]].held \ {e}
               /\ outcome'[e] = "send" =>
                    buckets'[KeyOf[e]].held = buckets[KeyOf[e]].held
            \/ /\ ~buckets[KeyOf[e]].open
                  \/ at[e] - buckets[KeyOf[e]].windowStart >= cfg.rateWindow
               /\ outcome'[e] = "send"
               /\ buckets'[KeyOf[e]].held = {}
<1> DEFINE k == KeyOf[e]
           b == CurrentBucket(k, at[e])
<1>1. k \in Key /\ cfg.rateN \in Nat \ {0}
  BY KeyAssumption, ConfigAssumption DEF TypeOK, Config
<1>2. \/ b = buckets[k]
      \/ /\ ~buckets[k].open \/ at[e] - buckets[k].windowStart >= cfg.rateWindow
         /\ b = NewBucket(at[e])
  BY DEF CurrentBucket
<1>3. b \in Bucket
  BY <1>1, CurrentBucketType DEF TypeOK
<1>4. \/ /\ outcome'[e] = "send"
         /\ buckets' = [buckets EXCEPT ![k] = [b EXCEPT !.sent = b.sent + 1]]
      \/ /\ outcome'[e] = "hold" /\ b.sent >= cfg.rateN
         /\ buckets' = [buckets EXCEPT ![k] = [b EXCEPT !.held = b.held \cup {e}]]
  BY DEF Admit, AdmitRateLimit, Decide, TypeOK
<1>5. NewBucket(at[e]).sent = 0 /\ NewBucket(at[e]).held = {}
  BY DEF NewBucket
<1>6. DOMAIN buckets = Key
  BY DEF TypeOK
<1> HIDE DEF k, b
<1>7. CASE outcome'[e] = "send"
           /\ buckets' = [buckets EXCEPT ![k] = [b EXCEPT !.sent = b.sent + 1]]
  <2>1. buckets'[k].held = b.held /\ \A l \in Key \ {k} : buckets'[l] = buckets[l]
    BY ONLY <1>1, <1>3, <1>6, <1>7 DEF Bucket
  <2> QED
    BY <1>2, <1>5, <1>7, <2>1 DEF k
<1>8. CASE outcome'[e] = "hold" /\ b.sent >= cfg.rateN
           /\ buckets' = [buckets EXCEPT ![k] = [b EXCEPT !.held = b.held \cup {e}]]
  <2>1. buckets'[k].held = b.held \cup {e} /\ \A l \in Key \ {k} : buckets'[l] = buckets[l]
    BY ONLY <1>1, <1>3, <1>6, <1>8 DEF Bucket
  <2>2. b = buckets[k]
    BY <1>1, <1>2, <1>5, <1>8
  <2> QED
    BY <1>8, <2>1, <2>2 DEF k
<1> QED
  BY <1>4, <1>7, <1>8

\* Admissions, ticks and flushes keep events where their keys belong.
LEMMA FloodFiled == Spec => []Filed
<1>1. Init => Filed
  BY DEF Init, Filed, NoBucket
<1>2. ASSUME TypeOK, Filed, [Next]_vars
      PROVE  Filed'
  <2> USE <1>2 DEF Filed
  <2>1. ASSUME NEW e \in Event, Admit(e)
        PROVE  Filed'
    <3>1. UNCHANGED <<tickNow, pending>>
      BY <2>1 DEF Admit, ticker
    <3>2. CASE AdmitRateLimit(e)
      <4>1. \A f \in buckets'[KeyOf[e]].held : f = e \/ f \in buckets[KeyOf[e]].held
        BY <2>1, <3>2, RateLimitSteps
      <4>2. \A k \in Key \ {KeyOf[e]} : buckets'[k] = buckets[k]
        BY <2>1, <3>2, RateLimitSteps
      <4> QED
        BY <3>1, <4>1, <4>2
    <3>3. CASE UNCHANGED buckets
      BY <3>1, <3>3
    <3> QED
      BY <2>1, <3>2, <3>3 DEF Admit, AdmitDedupe, AdmitDigest, AdmitNone
  <2>2. CASE Tick
    BY <2>2 DEF Tick, TickRateLimit, TickDigest, TickIdle, NoBucket
  <2>3. CASE Restart
    BY <2>3 DEF Restart, NoBucket
  <2>4. CASE ReadClock
    BY <2>4 DEF ReadClock, controller
  <2>5. ASSUME NEW r \in pending, Flush(r) PROVE Filed'
    BY <2>5 DEF Flush, controller
  <2>6. ASSUME UNCHANGED <<buckets, tickNow, pending>>
        PROVE  Filed'
    BY <2>6
  <2> QED
    BY <2>1, <2>2, <2>3, <2>4, <2>5, <2>6 DEF Next, Receive, Elapse, Configure, vars,
       controller, ticker
<1> QED
  BY <1>1, <1>2, FloodTypeOK, PTL DEF Spec

-----------------------------------------------------------------------------
(***************************************************************************)
(* Where an event is, event by event.                                      *)
(***************************************************************************)
InBucket(e) == \E k \in Key : e \in buckets[k].held
InRollup(e) == \E r \in pending : e \in r

Place(e) ==
  IF outcome[e] # "hold" THEN outcome[e]
  ELSE IF represented[e] # 0 THEN "rolledup"
  ELSE IF InRollup(e) THEN "batched"
  ELSE IF InBucket(e) \/ e \in digest THEN "hold"
  ELSE "lost"

StatusFits ==
  /\ StatusOf = [e \in Event |-> Place(e)]
  /\ \A e \in Event : e \in Lost <=> Place(e) = "lost"

\* The refinement mapping, and the lost events, say where each event is.
LEMMA StatusIsPlace == TypeOK => StatusFits
<1> SUFFICES ASSUME TypeOK
             PROVE  \A e \in Event : /\ StatusOf[e] = Place(e)
                                     /\ e \in Lost <=> Place(e) = "lost"
  BY DEF StatusOf, StatusFits
<1> TAKE e \in Event
<1>1. /\ e \in Held <=> outcome[e] = "hold"
      /\ e \in RolledUp <=> represented[e] # 0
      /\ e \in InFlight <=> InRollup(e)
      /\ e \in BucketHeld <=> InBucket(e)
  BY DEF Held, RolledUp, InFlight, InRollup, BucketHeld, InBucket, TypeOK
<1>2. outcome[e] # "lost"
  BY DEF TypeOK, Outcomes
<1> QED
  BY <1>1, <1>2 DEF StatusOf, Place, Lost

Everywhere == TypeOK /\ WhereIs /\ Stamps /\ CoverInv /\ Filed

\* A received event is waiting; no other event moves.
LEMMA ReceiveMoves ==
  ASSUME Everywhere, TypeOK', NEW e \in Event, Receive(e)
  PROVE  /\ Place(e) = "unseen" /\ Place(e)' = "waiting"
         /\ \A f \in Event \ {e} : Place(f)' = Place(f)
         /\ pending' = pending
<1> USE DEF Everywhere, TypeOK, Receive, controller, ticker
<1>1. /\ UNCHANGED <<represented, pending, buckets, digest>>
      /\ outcome[e] = "unseen" /\ outcome'[e] = "waiting"
      /\ \A f \in Event \ {e} : outcome'[f] = outcome[f]
  OBVIOUS
<1> QED
  BY ONLY <1>1 DEF Place, InBucket, InRollup

\* An admitted event is decided.  It may cost events of its key that a window
\* it turns was holding; no other event moves.
LEMMA AdmitMoves ==
  ASSUME Everywhere, TypeOK', NEW e \in Event, Admit(e)
  PROVE  /\ Place(e) = "waiting" /\ Place(e)' \in {"send", "suppress", "hold"}
         /\ Place(e)' = "suppress" =>
              \E f \in Event : Place(f) = "send" /\ KeyOf[f] = KeyOf[e]
         /\ \A f \in Event \ {e} :
              \/ Place(f)' = Place(f)
              \/ /\ Place(f) = "hold" /\ Place(f)' = "lost" /\ Place(e)' = "send"
                 /\ KeyOf[f] = KeyOf[e]
                 /\ at[e] - buckets[KeyOf[f]].windowStart >= cfg.rateWindow
         /\ pending' = pending
<1> USE DEF Everywhere
<1>1. /\ UNCHANGED <<represented, pending>>
      /\ outcome[e] = "waiting"
      /\ outcome'[e] \in {"send", "suppress", "hold"}
      /\ \A f \in Event \ {e} : outcome'[f] = outcome[f]
  BY DEF Admit, ticker, AdmitDedupe, AdmitRateLimit, AdmitDigest, AdmitNone, Decide, TypeOK
<1>2. represented[e] = 0 /\ ~InRollup(e)
  BY <1>1 DEF WhereIs, InRollup
<1>3. Place(e) = "waiting"
  BY <1>1 DEF Place
<1>4. \A f \in Event : represented'[f] = represented[f] /\ (InRollup(f)' <=> InRollup(f))
  BY <1>1 DEF InRollup
<1>5. KeyOf[e] \in Key
  BY KeyAssumption
<1>6. CASE AdmitRateLimit(e)
  <2>1. digest' = digest
    BY <1>6 DEF AdmitRateLimit
  <2>2. outcome'[e] = "hold" => InBucket(e)'
    BY <1>5, <1>6, RateLimitSteps DEF InBucket
  <2>3. outcome'[e] \in {"send", "hold"}
    BY <1>6, RateLimitSteps
  <2>4. ASSUME NEW f \in Event \ {e}
        PROVE  \/ Place(f)' = Place(f)
               \/ /\ Place(f) = "hold" /\ Place(f)' = "lost" /\ outcome'[e] = "send"
                  /\ KeyOf[f] = KeyOf[e]
                  /\ at[e] - buckets[KeyOf[f]].windowStart >= cfg.rateWindow
    <3>1. outcome'[f] = outcome[f] /\ (f \in digest' <=> f \in digest)
      BY <1>1, <2>1
    <3>2. \A k \in Key \ {KeyOf[e]} : buckets'[k] = buckets[k]
      BY <1>6, RateLimitSteps
    <3>3. CASE f \in buckets'[KeyOf[e]].held <=> f \in buckets[KeyOf[e]].held
      <4>1. InBucket(f)' <=> InBucket(f)
        BY <1>5, <3>2, <3>3 DEF InBucket
      <4> QED
        BY <1>4, <3>1, <4>1 DEF Place
    <3>4. CASE ~(f \in buckets'[KeyOf[e]].held <=> f \in buckets[KeyOf[e]].held)
      <4>1. /\ ~buckets[KeyOf[e]].open
               \/ at[e] - buckets[KeyOf[e]].windowStart >= cfg.rateWindow
            /\ outcome'[e] = "send"
            /\ buckets'[KeyOf[e]].held = {}
        BY <1>6, <3>4, RateLimitSteps
      <4>2. f \in buckets[KeyOf[e]].held
        BY <3>4, <4>1
      <4>3. buckets[KeyOf[e]].open /\ KeyOf[f] = KeyOf[e]
        BY <1>5, <4>2 DEF Stamps, Filed
      <4>4. /\ InBucket(f) /\ f \notin digest /\ outcome[f] = "hold" /\ represented[f] = 0
            /\ ~InRollup(f)
            /\ \A k \in Key : k # KeyOf[e] => f \notin buckets[k].held
        BY <1>5, <4>2 DEF WhereIs, InBucket, InRollup
      <4>5. ~InBucket(f)'
        BY <3>2, <4>1, <4>4 DEF InBucket
      <4>6. Place(f) = "hold" /\ Place(f)' = "lost"
        BY <1>4, <3>1, <4>4, <4>5 DEF Place
      <4> QED
        BY <4>1, <4>3, <4>6
    <3> QED
      BY <3>3, <3>4
  <2>5. Place(e)' = outcome'[e]
    BY <1>2, <1>4, <2>2, <2>3 DEF Place
  <2> QED
    BY <1>1, <1>3, <2>3, <2>4, <2>5
<1>7. CASE ~AdmitRateLimit(e)
  <2>1. AdmitDedupe(e) \/ AdmitDigest(e) \/ AdmitNone(e)
    BY <1>7 DEF Admit
  <2>2. /\ buckets' = buckets
        /\ digest' = digest \/ digest' = digest \cup {e}
        /\ outcome'[e] = "hold" => e \in digest'
    BY <2>1 DEF AdmitDedupe, AdmitDigest, AdmitNone, Decide, TypeOK
  <2>3. \A f \in Event : InBucket(f)' <=> InBucket(f)
    BY <2>2 DEF InBucket
  <2>4. \A f \in Event \ {e} : Place(f)' = Place(f)
    BY <1>1, <1>4, <2>2, <2>3 DEF Place
  <2>5. Place(e)' = outcome'[e]
    BY <1>2, <1>4, <2>2 DEF Place
  <2>6. outcome'[e] = "suppress" =>
          \E f \in Event : outcome[f] = "send" /\ KeyOf[f] = KeyOf[e]
    <3>1. outcome'[e] = "suppress" => lastSeen[KeyOf[e]] # NoTime
      BY <2>1 DEF AdmitDedupe, AdmitDigest, AdmitNone, Decide, TypeOK, SeenRecently
    <3> QED
      BY <1>5, <3>1 DEF CoverInv, SeenWasSent
  <2>7. \A f \in Event : outcome[f] = "send" => Place(f) = "send"
    BY DEF Place
  <2> QED
    BY <1>1, <1>3, <2>4, <2>5, <2>6, <2>7
<1> QED
  BY <1>6, <1>7

\* A tick moves what it takes from the windows or the digest into rollups.
LEMMA TickMoves ==
  ASSUME Everywhere, TypeOK', Tick
  PROVE  /\ pending = {} /\ {} \notin pending'
         /\ \A r, s \in pending' : r # s => r \cap s = {}
         /\ \A f \in Event : InRollup(f)' => Place(f) = "hold" /\ Place(f)' = "batched"
         /\ \A f \in Event : ~InRollup(f)' => Place(f)' = Place(f)
<1> USE DEF Everywhere
<1>1. UNCHANGED <<outcome, represented>> /\ pending = {}
  BY DEF Tick, history, Filed
<1>2. CASE TickRateLimit
  <2>1. /\ pending' = {buckets[k].held : k \in ClosedWindows} \ {{}}
        /\ buckets' = [k \in Key |-> IF k \in ClosedWindows THEN NoBucket ELSE buckets[k]]
        /\ digest' = digest
    BY <1>2 DEF TickRateLimit
  <2>2. ClosedWindows \subseteq Key /\ NoBucket.held = {}
    BY DEF ClosedWindows, NoBucket
  <2> HIDE DEF ClosedWindows
  <2>3. \A f \in Event : InRollup(f)' <=> \E k \in ClosedWindows : f \in buckets[k].held
    BY ONLY <2>1 DEF InRollup
  <2>4. \A f \in Event : ~InRollup(f)' => (InBucket(f)' <=> InBucket(f))
    BY ONLY <2>1, <2>2, <2>3 DEF InBucket
  <2>5. \A f \in Event : InRollup(f)' => InBucket(f)
    BY ONLY <2>2, <2>3 DEF InBucket
  <2>6. \A f \in Event : InBucket(f) => outcome[f] = "hold" /\ represented[f] = 0
    BY DEF WhereIs, InBucket
  <2>7. \A f \in Event : ~InRollup(f)
    BY <1>1 DEF InRollup
  <2>8. \A r, s \in pending' : r # s => r \cap s = {}
    BY <2>1, <2>2 DEF WhereIs
  <2>9. {} \notin pending'
    BY <2>1
  <2> QED
    BY ONLY <1>1, <2>1, <2>4, <2>5, <2>6, <2>7, <2>8, <2>9 DEF Place
<1>3. CASE TickDigest \/ TickIdle
  <2>1. /\ buckets' = buckets
        /\ \/ pending' = {digest} /\ digest' = {} /\ digest # {}
           \/ pending' = {} /\ digest' = digest
    BY <1>1, <1>3 DEF TickDigest, TickIdle, DigestDue
  <2>2. \A f \in Event : InBucket(f)' <=> InBucket(f)
    BY <2>1 DEF InBucket
  <2>3. \A f \in digest : outcome[f] = "hold" /\ represented[f] = 0
    BY DEF WhereIs
  <2>4. \A f \in Event : ~InRollup(f)
    BY <1>1 DEF InRollup
  <2>5. CASE pending' = {digest} /\ digest' = {} /\ digest # {}
    <3>1. \A f \in Event : InRollup(f)' <=> f \in digest
      BY <2>5 DEF InRollup
    <3> QED
      BY ONLY <1>1, <2>2, <2>3, <2>4, <2>5, <3>1 DEF Place
  <2>6. CASE pending' = {} /\ digest' = digest
    <3>1. \A f \in Event : ~InRollup(f)'
      BY <2>6 DEF InRollup
    <3> QED
      BY ONLY <1>1, <2>2, <2>4, <2>6, <3>1 DEF Place
  <2> QED
    BY <2>1, <2>5, <2>6
<1> QED
  BY <1>2, <1>3 DEF Tick

\* A flush counts the events of its rollup and no other.
LEMMA FlushMoves ==
  ASSUME Everywhere, TypeOK', NEW r \in pending, Flush(r)
  PROVE  /\ pending' = pending \ {r}
         /\ \A f \in Event : IF f \in r THEN Place(f)' = "rolledup"
                             ELSE Place(f)' = Place(f)
<1> USE DEF Everywhere
<1>1. /\ UNCHANGED <<outcome, buckets, digest>>
      /\ pending' = pending \ {r}
      /\ \A f \in Event : represented'[f] = represented[f] + IF f \in r THEN 1 ELSE 0
  BY DEF Flush, controller
<1>2. \A f \in Event : represented[f] \in Nat
  BY DEF TypeOK
<1>3. \A f \in Event : InBucket(f)' <=> InBucket(f)
  BY <1>1 DEF InBucket
<1>4. ASSUME NEW f \in Event, f \in r PROVE Place(f)' = "rolledup"
  <2>1. outcome[f] = "hold" /\ represented[f] = 0
    BY <1>4 DEF WhereIs
  <2> QED
    BY <1>1, <1>4, <2>1 DEF Place
<1>5. ASSUME NEW f \in Event, f \notin r PROVE Place(f)' = Place(f)
  <2>1. represented'[f] = represented[f] /\ (InRollup(f)' <=> InRollup(f))
    BY <1>1, <1>2, <1>5 DEF InRollup
  <2> QED
    BY <1>1, <1>3, <2>1 DEF Place
<1> QED
  BY <1>1, <1>4, <1>5

\* A restart loses what waits and what is held, and no rollup already flushed.
LEMMA RestartMoves ==
  ASSUME Everywhere, TypeOK', Restart
  PROVE  /\ pending' = {}
         /\ \A f \in Event :
              Place(f)' = IF Place(f) = "waiting" THEN "gone"
                          ELSE IF Place(f) \in {"hold", "batched"} THEN "lost"
                          ELSE Place(f)
<1> USE DEF Everywhere
<1>1. /\ UNCHANGED represented
      /\ pending' = {} /\ digest' = {}
      /\ \A k \in Key : buckets'[k].held = {}
      /\ \A f \in Event : outcome'[f] = IF outcome[f] = "waiting" THEN "gone" ELSE outcome[f]
  BY DEF Restart, NoBucket, Waiting
<1>2. \A f \in Event : ~InBucket(f)' /\ ~InRollup(f)'
  BY <1>1 DEF InBucket, InRollup
<1>3. \A f \in Event : outcome[f] \in Outcomes
  BY DEF TypeOK
<1> QED
  BY ONLY <1>1, <1>2, <1>3 DEF Place, Outcomes

\* Every other step leaves every event where it is.
LEMMA QuietMoves ==
  ASSUME Elapse \/ ReadClock \/ UNCHANGED vars \/ \E c \in Configs : Configure(c)
  PROVE  /\ pending' = pending
         /\ \A f \in Event : Place(f)' = Place(f)
<1>1. UNCHANGED <<outcome, represented, pending, buckets, digest>>
  BY DEF Elapse, ReadClock, Configure, vars, controller, ticker, history
<1> QED
  BY <1>1 DEF Place, InBucket, InRollup

\* The steps of the controller, one by one.
LEMMA FloodSteps ==
  ASSUME [Next]_vars
  PROVE  \/ \E e \in Event : Receive(e) \/ Admit(e)
         \/ Tick
         \/ \E r \in pending : Flush(r)
         \/ Restart
         \/ Elapse \/ ReadClock \/ UNCHANGED vars \/ \E c \in Configs : Configure(c)
BY DEF Next

\* Everything the moves rest on holds throughout.
LEMMA FloodEverywhere == Spec => []Everywhere
<1>1. TypeOK /\ WhereIs /\ Stamps /\ CoverInv /\ Filed => Everywhere
  BY DEF Everywhere
<1> QED
  BY <1>1, FloodTypeOK, FloodWhereIs, FloodStamps, FloodCoverInv, FloodFiled, PTL

-----------------------------------------------------------------------------
(***************************************************************************)
(* The two theorems.                                                       *)
(***************************************************************************)

\* While the daemon runs, a held event is lost only when an event of its key,
\* received after its window, is admitted before the tick comes:
\* LostOnlyAtWindowTurn, for every configuration, reload and order of admission.
THEOREM FloodLostOnlyAtWindowTurn == Spec => LostOnlyAtWindowTurn
<1>1. TypeOK' => StatusFits'
  BY StatusIsPlace, PTL
<1>2. ASSUME Everywhere, TypeOK', [Next]_vars, life' = life
      PROVE  \A e \in Lost' \ Lost :
               \E f \in Waiting : /\ outcome'[f] # "waiting"
                                  /\ KeyOf[f] = KeyOf[e]
                                  /\ at[f] - buckets[KeyOf[e]].windowStart >= cfg.rateWindow
  <2> TAKE e \in Lost' \ Lost
  <2>1. TypeOK
    BY <1>2 DEF Everywhere
  <2>2. e \in Event /\ Place(e) # "lost" /\ Place(e)' = "lost"
    <3>1. e \in Event
      BY <1>2 DEF Lost, Held
    <3> QED
      BY <1>1, <1>2, <2>1, <3>1, StatusIsPlace DEF StatusFits
  <2>3. ASSUME NEW f \in Event, Admit(f)
        PROVE  /\ f \in Waiting /\ outcome'[f] # "waiting" /\ KeyOf[f] = KeyOf[e]
               /\ at[f] - buckets[KeyOf[e]].windowStart >= cfg.rateWindow
    <3>1. e # f
      BY <1>2, <2>2, <2>3, AdmitMoves
    <3>2. /\ KeyOf[f] = KeyOf[e]
          /\ at[f] - buckets[KeyOf[e]].windowStart >= cfg.rateWindow
          /\ Place(f) = "waiting" /\ Place(f)' = "send"
      BY <1>2, <2>2, <2>3, <3>1, AdmitMoves
    <3>3. outcome[f] = "waiting" /\ outcome'[f] # "waiting"
      BY <3>2 DEF Place
    <3> QED
      BY <3>2, <3>3 DEF Waiting
  <2>4. ASSUME NEW f \in Event, Receive(f) PROVE FALSE
    BY <1>2, <2>2, <2>4, ReceiveMoves
  <2>5. ~Tick
    BY <1>2, <2>2, TickMoves
  <2>6. ASSUME NEW r \in pending, Flush(r) PROVE FALSE
    BY <1>2, <2>2, <2>6, FlushMoves
  <2>7. ~Restart
    BY <1>2, <2>1, BoundAssumption DEF Restart, TypeOK
  <2>8. ~(Elapse \/ ReadClock \/ UNCHANGED vars \/ \E c \in Configs : Configure(c))
    BY <2>2, QuietMoves
  <2> QED
    BY <1>2, <2>3, <2>4, <2>5, <2>6, <2>7, <2>8, FloodSteps
<1> QED
  BY <1>2, FloodTypeOK, FloodEverywhere, PTL DEF Spec, LostOnlyAtWindowTurn

\* The controller implements its contract: every admission, tick, flush and
\* restart of the daemon is the step FloodContract names, or none of it, for
\* every strategy, configuration, clock and order of admission.
THEOREM FloodImplementsContract == Spec => ImplementsContract
<1> USE DEF Contract!Move, Contract!With
<1>1. Init => Contract!Init
  <2> SUFFICES ASSUME Init PROVE Contract!Init
    OBVIOUS
  <2>1. pending = {} /\ \A e \in Event : StatusOf[e] = "unseen"
    BY DEF Init, StatusOf, Held
  <2>2. StatusOf = [e \in Event |-> StatusOf[e]]
    BY DEF StatusOf
  <2> QED
    BY <2>1, <2>2 DEF Contract!Init
<1>2. TypeOK' => StatusFits'
  BY StatusIsPlace, PTL
<1>3. Everywhere /\ TypeOK' /\ [Next]_vars => [Contract!Next]_(Contract!vars)
  <2> SUFFICES ASSUME Everywhere, TypeOK', [Next]_vars
               PROVE  Contract!Next \/ (StatusOf' = StatusOf /\ pending' = pending)
    BY DEF Contract!vars
  <2>1. StatusOf = [e \in Event |-> Place(e)] /\ StatusOf' = [e \in Event |-> Place(e)']
    BY <1>2, StatusIsPlace DEF Everywhere, StatusFits
  <2> DEFINE S == StatusOf
             T == StatusOf'
  <2>2. /\ \A e \in Event : S[e] = Place(e) /\ T[e] = Place(e)'
        /\ S = [e \in Event |-> S[e]] /\ T = [e \in Event |-> T[e]]
    BY <2>1
  <2> HIDE DEF S, T
  <2>3. ASSUME NEW e \in Event, Receive(e) PROVE Contract!Next
    <3>1. Contract!Receive(e)
      <4>1. /\ S[e] = "unseen" /\ pending' = pending
            /\ \A f \in Event : T[f] = IF f \in {e} THEN "waiting" ELSE S[f]
        BY <2>2, <2>3, ReceiveMoves
      <4> QED
        BY <2>2, <4>1 DEF Contract!Receive, S, T
    <3> QED
      BY <3>1 DEF Contract!Next
  <2>4. ASSUME NEW e \in Event, Admit(e) PROVE Contract!Next
    <3>1. S[e] = "waiting" /\ pending' = pending
      BY <2>2, <2>4, AdmitMoves
    <3>2. CASE T[e] = "send"
      <4> DEFINE L == {f \in Event \ {e} : T[f] # S[f]}
      <4>1. \A f \in Event \ {e} : f \in L => S[f] = "hold" /\ T[f] = "lost" /\ KeyOf[f] = KeyOf[e]
        BY <2>2, <2>4, AdmitMoves
      <4>2. L \in SUBSET {f \in {g \in Event : S[g] = "hold"} : KeyOf[f] = KeyOf[e]}
        BY <4>1
      <4>3. T = [[f \in Event |-> IF f \in L THEN "lost" ELSE S[f]] EXCEPT ![e] = "send"]
        <5>1. \A f \in Event : T[f] = IF f = e THEN "send" ELSE IF f \in L THEN "lost" ELSE S[f]
          BY <3>2, <4>1
        <5> QED
          BY <2>2, <5>1
      <4> HIDE DEF L
      <4>4. Contract!Send(e)
        BY <3>1, <4>2, <4>3 DEF Contract!Send, S, T
      <4> QED
        BY <4>4 DEF Contract!Next
    <3>3. CASE T[e] \in {"suppress", "hold"}
      <4>1. \A f \in Event \ {e} : T[f] = S[f]
        BY <2>2, <2>4, <3>3, AdmitMoves
      <4>2. T = [f \in Event |-> IF f \in {e} THEN T[e] ELSE S[f]]
        <5>1. \A f \in Event : T[f] = IF f \in {e} THEN T[e] ELSE S[f]
          BY <4>1
        <5> QED
          BY <2>2, <5>1
      <4>3. T[e] = "suppress" =>
              \E f \in {g \in Event : S[g] = "send"} : KeyOf[f] = KeyOf[e]
        BY <2>2, <2>4, AdmitMoves
      <4>4. Contract!Suppress(e) \/ Contract!Hold(e)
        BY <3>1, <3>3, <4>2, <4>3 DEF Contract!Suppress, Contract!Hold, S, T
      <4> QED
        BY <4>4 DEF Contract!Next
    <3> QED
      BY <2>2, <2>4, <3>2, <3>3, AdmitMoves
  <2>5. CASE Tick
    <3>1. UNION pending' \subseteq Event
      BY DEF TypeOK
    <3>2. /\ pending = {} /\ {} \notin pending'
          /\ \A r, s \in pending' : r # s => r \cap s = {}
          /\ \A f \in UNION pending' : S[f] = "hold"
      BY <2>2, <2>5, <3>1, TickMoves DEF InRollup
    <3>3. \A f \in Event : T[f] = IF f \in UNION pending' THEN "batched" ELSE S[f]
      BY <2>2, <2>5, TickMoves DEF InRollup
    <3>4. T = [f \in Event |-> IF f \in UNION pending' THEN "batched" ELSE S[f]]
      BY <2>2, <3>3
    <3>5. CASE pending' = {}
      <4>1. T = S
        BY <2>2, <3>3, <3>5
      <4> QED
        BY <3>2, <3>5, <4>1 DEF S, T
    <3>6. CASE pending' # {}
      <4>1. Contract!Batch(pending')
        BY <3>1, <3>2, <3>4, <3>6 DEF Contract!Batch, S, T
      <4>2. pending' \in SUBSET (SUBSET Contract!With("hold"))
        BY <3>1, <3>2 DEF S
      <4> QED
        BY <4>1, <4>2 DEF Contract!Next
    <3> QED
      BY <3>5, <3>6
  <2>6. ASSUME NEW r \in pending, Flush(r) PROVE Contract!Next
    <3>1. \A f \in Event : T[f] = IF f \in r THEN "rolledup" ELSE S[f]
      BY <2>2, <2>6, FlushMoves
    <3>2. T = [f \in Event |-> IF f \in r THEN "rolledup" ELSE S[f]]
      BY <2>2, <3>1
    <3>3. pending' = pending \ {r}
      BY <2>6, FlushMoves
    <3>4. Contract!Flush(r)
      BY <3>2, <3>3 DEF Contract!Flush, S, T
    <3> QED
      BY <3>4 DEF Contract!Next
  <2>7. CASE Restart
    <3>1. /\ pending' = {}
          /\ \A f \in Event : T[f] = IF S[f] = "waiting" THEN "gone"
                                     ELSE IF S[f] \in {"hold", "batched"} THEN "lost"
                                     ELSE S[f]
      BY <2>2, <2>7, RestartMoves
    <3>2. T = [f \in Event |-> IF S[f] = "waiting" THEN "gone"
                               ELSE IF S[f] \in {"hold", "batched"} THEN "lost"
                               ELSE S[f]]
      BY <2>2, <3>1
    <3>3. Contract!Restart
      BY <3>1, <3>2 DEF Contract!Restart, S, T
    <3> QED
      BY <3>3 DEF Contract!Next
  <2>8. CASE Elapse \/ ReadClock \/ UNCHANGED vars \/ \E c \in Configs : Configure(c)
    <3>1. pending' = pending /\ \A f \in Event : T[f] = S[f]
      BY <2>2, <2>8, QuietMoves
    <3>2. T = S
      BY <2>2, <3>1
    <3> QED
      BY <3>1, <3>2 DEF S, T
  <2> QED
    BY <2>3, <2>4, <2>5, <2>6, <2>7, <2>8, FloodSteps
<1> QED
  BY <1>1, <1>3, FloodTypeOK, FloodEverywhere, PTL DEF Spec, ImplementsContract, Contract!Spec
=============================================================================
