---------------------------- MODULE FloodProofs ----------------------------
(***************************************************************************)
(* What the flood controller keeps for every set of events, keys and       *)
(* configurations, every lag and any number of restarts.                   *)
(***************************************************************************)
EXTENDS Flood, TLAPS

\* A bucket stays one when an event is counted in it.
LEMMA BucketEdits ==
  ASSUME NEW b \in Bucket, NEW e \in Event
  PROVE  /\ [b EXCEPT !.sent = b.sent + 1] \in Bucket
         /\ [b EXCEPT !.held = b.held \cup {e}] \in Bucket
BY DEF Bucket

\* The bucket an event is admitted to is one.
LEMMA CurrentBucketType ==
  ASSUME NEW k \in Key, buckets[k] \in Bucket, NEW now \in Time \cup {NoTime}
  PROVE  CurrentBucket(k, now) \in Bucket
BY DEF CurrentBucket, NewBucket, Bucket

\* The type invariant of the controller: no critical section, flush, restart
\* or reconfiguration leaves the types of its fields.
THEOREM FloodTypeOK == Spec => []TypeOK
<1> USE KeyAssumption, ConfigAssumption, BoundAssumption
<1>1. Init => TypeOK
  BY DEF Init, TypeOK, Time, NoTime, Bucket, NoBucket, Outcomes
<1>2. ASSUME TypeOK, [Next]_vars
      PROVE  TypeOK'
  <2> USE TypeOK DEF TypeOK, Time, NoTime
  <2>1. ASSUME NEW e \in Event, Receive(e)
        PROVE  TypeOK'
    BY <2>1 DEF Receive, controller, ticker, Outcomes
  <2>2. ASSUME NEW e \in Event, Admit(e)
        PROVE  TypeOK'
    <3> USE <2>2 DEF Admit, ticker, Decide, Outcomes
    <3>1. CASE AdmitDedupe(e)
      BY <3>1 DEF AdmitDedupe
    <3>2. CASE AdmitRateLimit(e)
      <4> DEFINE b == CurrentBucket(KeyOf[e], at[e])
      <4>1. at[e] \in Time \cup {NoTime} /\ KeyOf[e] \in Key
        OBVIOUS
      <4>2. b \in Bucket
        BY <4>1, CurrentBucketType
      <4>3. [b EXCEPT !.sent = b.sent + 1] \in Bucket
            /\ [b EXCEPT !.held = b.held \cup {e}] \in Bucket
        BY ONLY <2>2, <4>2, BucketEdits
      <4>4. \/ buckets' = [buckets EXCEPT ![KeyOf[e]] = [b EXCEPT !.sent = b.sent + 1]]
            \/ buckets' = [buckets EXCEPT ![KeyOf[e]] = [b EXCEPT !.held = b.held \cup {e}]]
        BY <3>2 DEF AdmitRateLimit
      <4> HIDE DEF b
      <4>5. buckets' \in [Key -> Bucket]
        <5>1. buckets \in [Key -> Bucket]
          OBVIOUS
        <5> QED
          BY ONLY <4>3, <4>4, <5>1
      <4> QED
        BY <3>2, <4>5 DEF AdmitRateLimit
    <3>3. CASE AdmitDigest(e)
      BY <3>3 DEF AdmitDigest
    <3>4. CASE AdmitNone(e)
      BY <3>4 DEF AdmitNone
    <3> QED
      BY <2>2, <3>1, <3>2, <3>3, <3>4 DEF Admit
  <2>3. CASE Elapse
    BY <2>3 DEF Elapse, controller, ticker, history
  <2>4. CASE ReadClock
    BY <2>4 DEF ReadClock, controller, history
  <2>5. CASE Tick
    <3> USE <2>5 DEF Tick, history
    <3>1. CASE TickRateLimit
      <4>1. buckets' \in [Key -> Bucket]
        BY <3>1 DEF TickRateLimit, NoBucket, Bucket
      <4>2. pending' \in SUBSET (SUBSET Event)
        BY <3>1 DEF TickRateLimit, ClosedWindows, Bucket
      <4> QED
        BY <3>1, <4>1, <4>2 DEF TickRateLimit
    <3>2. CASE TickDigest
      BY <3>2 DEF TickDigest
    <3>3. CASE TickIdle
      BY <3>3 DEF TickIdle
    <3> QED
      BY <2>5, <3>1, <3>2, <3>3 DEF Tick
  <2>6. ASSUME NEW r \in pending, Flush(r)
        PROVE  TypeOK'
    BY <2>6 DEF Flush, controller
  <2>7. ASSUME NEW c \in Configs, Configure(c)
        PROVE  TypeOK'
    BY <2>7 DEF Configure, ticker, history
  <2>8. CASE Restart
    BY <2>8 DEF Restart, Bucket, NoBucket, Outcomes
  <2>9. CASE UNCHANGED vars
    BY <2>9 DEF vars, controller, ticker, history
  <2> QED
    BY <1>2, <2>1, <2>2, <2>3, <2>4, <2>5, <2>6, <2>7, <2>8, <2>9 DEF Next
<1> QED
  BY <1>1, <1>2, PTL DEF Spec

-----------------------------------------------------------------------------
(***************************************************************************)
(* Exactly-once counting.  HeldOnce is inductive on its own: a waiting     *)
(* event is not held yet, so Admit adds one that sits nowhere; a tick      *)
(* moves what it takes; a flush counts what was on its way.  The step is   *)
(* proved event by event, with WhereIs naming the five places.             *)
(***************************************************************************)

\* HeldOnce, one event and one pair of places at a time.
WhereIs ==
  /\ \A k \in Key : \A e \in buckets[k].held :
       /\ outcome[e] = "hold" /\ e \notin digest /\ represented[e] = 0
       /\ \A r \in pending : e \notin r
       /\ \A l \in Key : k # l => e \notin buckets[l].held
  /\ \A e \in digest :
       /\ outcome[e] = "hold" /\ represented[e] = 0
       /\ \A r \in pending : e \notin r
  /\ \A r \in pending : \A e \in r :
       /\ outcome[e] = "hold" /\ represented[e] = 0
       /\ \A s \in pending : r # s => e \notin s
  /\ \A e \in Event : represented[e] # 0 => represented[e] = 1 /\ outcome[e] = "hold"

LEMMA WhereIsHeldOnce ==
  ASSUME TypeOK, WhereIs
  PROVE  HeldOnce
<1> USE DEF WhereIs, TypeOK, Bucket, Held, BucketHeld, InFlight, RolledUp, Disjoint
<1>1. BucketHeld \cup digest \cup InFlight \cup RolledUp \subseteq Held
  OBVIOUS
<1>2. Disjoint(BucketHeld, digest)
  OBVIOUS
<1>3. Disjoint(BucketHeld \cup digest, InFlight \cup RolledUp)
  OBVIOUS
<1>4. Disjoint(InFlight, RolledUp)
  OBVIOUS
<1>5. \A k, l \in Key : k # l => Disjoint(buckets[k].held, buckets[l].held)
  OBVIOUS
<1>6. \A r, s \in pending : r # s => Disjoint(r, s)
  OBVIOUS
<1>7. \A e \in Event : represented[e] <= 1
  OBVIOUS
<1> QED
  BY <1>1, <1>2, <1>3, <1>4, <1>5, <1>6, <1>7 DEF HeldOnce

\* Every event is in at most one of the five places.
LEMMA FloodWhereIs == Spec => []WhereIs
<1> USE KeyAssumption, ConfigAssumption, BoundAssumption
<1>1. Init => WhereIs
  BY DEF Init, WhereIs, NoBucket
<1>2. ASSUME TypeOK, WhereIs, [Next]_vars
      PROVE  WhereIs'
  <2>1. ASSUME NEW e \in Event, Receive(e)
        PROVE  WhereIs'
    BY <1>2, <2>1 DEF WhereIs, TypeOK, Bucket, Receive, controller, ticker
  <2>2. ASSUME NEW e \in Event, Admit(e)
        PROVE  WhereIs'
    <3> USE <1>2, <2>2 DEF WhereIs, TypeOK, Admit, ticker, Decide
    <3>1. CASE AdmitDedupe(e)
      BY <3>1 DEF AdmitDedupe, Bucket
    <3>2. CASE AdmitRateLimit(e)
      <4> DEFINE k == KeyOf[e]
                 b == CurrentBucket(k, at[e])
      <4>1. k \in Key
        OBVIOUS
      <4>2. /\ b.held \subseteq buckets[k].held
            /\ b \in [open : BOOLEAN, windowStart : Time \cup {NoTime},
                     sent : Nat, held : SUBSET Event]
        BY <4>1 DEF CurrentBucket, NewBucket, Bucket
      <4>3. /\ \A l \in Key : l # k => buckets'[l] = buckets[l]
            /\ \/ buckets'[k].held = b.held /\ outcome' = [outcome EXCEPT ![e] = "send"]
               \/ buckets'[k].held = b.held \cup {e} /\ outcome' = [outcome EXCEPT ![e] = "hold"]
        BY <3>2, <4>1, <4>2 DEF AdmitRateLimit
      <4>4. /\ \A l \in Key : e \notin buckets[l].held
            /\ e \notin digest /\ represented[e] = 0
            /\ \A r \in pending : e \notin r
        BY DEF Bucket
      <4>5. UNCHANGED <<digest, pending, represented>>
        BY <3>2 DEF AdmitRateLimit
      <4>6. \A l \in Key : \A f \in buckets'[l].held :
              \/ f \in buckets[l].held /\ f # e
              \/ f = e /\ l = k /\ outcome'[e] = "hold"
        BY <4>1, <4>2, <4>3, <4>4
      <4>7. \A f \in Event : f # e => outcome'[f] = outcome[f]
        BY <4>3
      <4>8. \A l \in Key : buckets[l].held \subseteq Event
        BY DEF Bucket
      <4> HIDE DEF b, k
      <4>9. \A l \in Key : \A f \in buckets'[l].held :
              /\ outcome'[f] = "hold" /\ f \notin digest /\ represented[f] = 0
              /\ \A r \in pending : f \notin r
              /\ \A m \in Key : l # m => f \notin buckets'[m].held
        <5> TAKE l \in Key
        <5> TAKE f \in buckets'[l].held
        <5>1. CASE f = e
          BY <5>1, <4>4, <4>6
        <5>2. CASE f # e
          BY <5>2, <4>6, <4>7, <4>8
        <5> QED
          BY <5>1, <5>2
      <4> QED
        BY <4>4, <4>5, <4>7, <4>9
    <3>3. CASE AdmitDigest(e)
      BY <3>3 DEF AdmitDigest, Bucket
    <3>4. CASE AdmitNone(e)
      BY <3>4 DEF AdmitNone, Bucket
    <3> QED
      BY <2>2, <3>1, <3>2, <3>3, <3>4 DEF Admit
  <2>3. CASE Elapse
    BY <1>2, <2>3 DEF WhereIs, Elapse, controller, ticker, history
  <2>4. CASE ReadClock
    BY <1>2, <2>4 DEF WhereIs, ReadClock, controller, history
  <2>5. CASE Tick
    <3> USE <1>2, <2>5 DEF WhereIs, Tick, history
    <3>1. CASE TickRateLimit
      BY <3>1 DEF TickRateLimit, ClosedWindows, NoBucket
    <3>2. CASE TickDigest
      BY <3>2 DEF TickDigest, TypeOK, Bucket
    <3>3. CASE TickIdle
      BY <3>3 DEF TickIdle
    <3> QED
      BY <2>5, <3>1, <3>2, <3>3 DEF Tick
  <2>6. ASSUME NEW r \in pending, Flush(r)
        PROVE  WhereIs'
    BY <1>2, <2>6 DEF WhereIs, TypeOK, Bucket, Flush, controller
  <2>7. ASSUME NEW c \in Configs, Configure(c)
        PROVE  WhereIs'
    BY <1>2, <2>7 DEF WhereIs, Configure, ticker, history
  <2>8. CASE Restart
    BY <1>2, <2>8 DEF WhereIs, TypeOK, Restart, NoBucket, Waiting
  <2>9. CASE UNCHANGED vars
    BY <1>2, <2>9 DEF WhereIs, vars, controller, ticker, history
  <2> QED
    BY <1>2, <2>1, <2>2, <2>3, <2>4, <2>5, <2>6, <2>7, <2>8, <2>9 DEF Next
<1> QED
  BY <1>1, <1>2, FloodTypeOK, PTL DEF Spec

\* No event is counted in two rollups, or counted and sent: HeldOnce, for
\* every interleaving of admissions, ticks, flushes, reloads and restarts.
THEOREM FloodHeldOnce == Spec => []HeldOnce
BY FloodTypeOK, FloodWhereIs, WhereIsHeldOnce, PTL

-----------------------------------------------------------------------------
(***************************************************************************)
(* The clocks.  An event is admitted with a receipt time that may lie      *)
(* behind the clock, and tick works with a clock value read before it took *)
(* the lock; no stamp lies ahead of the clock, and what a window or the    *)
(* digest holds was admitted after it began.                               *)
(***************************************************************************)
Stamps ==
  /\ tickNow <= clock
  /\ digestAt <= clock
  /\ \A e \in Event : outcome[e] # "unseen" => at[e] \in 0..clock
  /\ \A k \in Key : buckets[k].windowStart <= clock
  /\ \A k \in Key : \A e \in buckets[k].held :
       buckets[k].open /\ buckets[k].windowStart <= admitted[e]
  /\ \A e \in digest : digestAt # NoTime /\ digestAt <= admitted[e]

LEMMA FloodStamps == Spec => []Stamps
<1> USE KeyAssumption, ConfigAssumption, BoundAssumption DEF NoTime, Time
<1>1. Init => Stamps
  BY DEF Init, Stamps, NoBucket
<1>2. ASSUME TypeOK, Stamps, [Next]_vars
      PROVE  Stamps'
  <2> USE <1>2 DEF TypeOK, Stamps
  <2>1. ASSUME NEW e \in Event, Receive(e)
        PROVE  Stamps'
    BY <2>1 DEF Receive, controller, ticker, Bucket
  <2>2. ASSUME NEW e \in Event, Admit(e)
        PROVE  Stamps'
    <3> USE <2>2 DEF Admit, ticker, Decide
    <3>1. CASE AdmitDedupe(e)
      <4>1. /\ admitted' = [admitted EXCEPT ![e] = clock]
            /\ \A f \in Event : f # e => outcome'[f] = outcome[f]
            /\ UNCHANGED <<buckets, digest, digestAt, clock, at, tickNow>>
        BY <3>1 DEF AdmitDedupe
      <4> QED
        BY <4>1 DEF Bucket
    <3>2. CASE AdmitRateLimit(e)
      <4> DEFINE k == KeyOf[e]
                 b == CurrentBucket(k, at[e])
      <4>1. k \in Key /\ at[e] \in 0..clock
        OBVIOUS
      <4>2. /\ b \in [open : BOOLEAN, windowStart : Time \cup {NoTime},
                     sent : Nat, held : SUBSET Event]
            /\ b.open
            /\ b.windowStart <= clock
            /\ \A f \in b.held : b.windowStart <= admitted[f]
        BY <4>1 DEF CurrentBucket, NewBucket, Bucket
      <4>3. /\ \A l \in Key : l # k => buckets'[l] = buckets[l]
            /\ buckets'[k].open
            /\ buckets'[k].windowStart = b.windowStart
            /\ buckets'[k].held \subseteq b.held \cup {e}
        <5>1. \/ buckets' = [buckets EXCEPT ![k] = [b EXCEPT !.sent = b.sent + 1]]
              \/ buckets' = [buckets EXCEPT ![k] = [b EXCEPT !.held = b.held \cup {e}]]
          BY <3>2 DEF AdmitRateLimit
        <5>2. DOMAIN buckets = Key
          OBVIOUS
        <5> HIDE DEF b, k
        <5> QED
          BY ONLY <4>1, <4>2, <5>1, <5>2
      <4>4. /\ admitted' = [admitted EXCEPT ![e] = clock]
            /\ \A f \in Event : f # e => outcome'[f] = outcome[f]
            /\ UNCHANGED <<digest, digestAt, clock, at, tickNow>>
        BY <3>2 DEF AdmitRateLimit
      <4>5. \A l \in Key : buckets[l].held \subseteq Event
        BY DEF Bucket
      <4> HIDE DEF b, k
      <4>6. \A l \in Key : buckets'[l].windowStart <= clock'
        BY <4>2, <4>3, <4>4
      <4>7. \A l \in Key : \A f \in buckets'[l].held :
              buckets'[l].open /\ buckets'[l].windowStart <= admitted'[f]
        BY <4>2, <4>3, <4>4, <4>5, <4>6
      <4> QED
        BY <4>1, <4>4, <4>6, <4>7
    <3>3. CASE AdmitDigest(e)
      BY <3>3 DEF AdmitDigest, Bucket
    <3>4. CASE AdmitNone(e)
      BY <3>4 DEF AdmitNone, Bucket
    <3> QED
      BY <3>1, <3>2, <3>3, <3>4
  <2>3. CASE Elapse
    BY <2>3 DEF Elapse, controller, ticker, history, Bucket
  <2>4. CASE ReadClock
    BY <2>4 DEF ReadClock, controller, history
  <2>5. CASE Tick
    <3> USE <2>5 DEF Tick, history
    <3>1. CASE TickRateLimit
      BY <3>1 DEF TickRateLimit, NoBucket
    <3>2. CASE TickDigest
      BY <3>2 DEF TickDigest
    <3>3. CASE TickIdle
      BY <3>3 DEF TickIdle
    <3> QED
      BY <3>1, <3>2, <3>3
  <2>6. ASSUME NEW r \in pending, Flush(r)
        PROVE  Stamps'
    BY <2>6 DEF Flush, controller
  <2>7. ASSUME NEW c \in Configs, Configure(c)
        PROVE  Stamps'
    BY <2>7 DEF Configure, ticker, history
  <2>8. CASE Restart
    BY <2>8 DEF Restart, NoBucket, Waiting
  <2>9. CASE UNCHANGED vars
    BY <2>9 DEF vars, controller, ticker, history
  <2> QED
    BY <1>2, <2>1, <2>2, <2>3, <2>4, <2>5, <2>6, <2>7, <2>8, <2>9 DEF Next
<1> QED
  BY <1>1, <1>2, FloodTypeOK, PTL DEF Spec

\* The tick sweeps what is due: HeldWaitBounded, from the stamps of what is
\* held and the one comparison the tick makes for each window.
THEOREM FloodHeldWaitBounded == Spec => HeldWaitBounded
<1> USE KeyAssumption, ConfigAssumption, BoundAssumption DEF NoTime, Time
<1>1. ASSUME TypeOK, Stamps, [Next]_vars,
             tickNow # NoTime, tickNow' = NoTime, life' = life
      PROVE  /\ cfg.strategy = "digest" =>
                  \A e \in digest' : tickNow - admitted[e] < cfg.digestInterval
             /\ cfg.strategy = "rate_limit" =>
                  \A k \in Key : \A e \in buckets'[k].held :
                    tickNow - admitted[e] < cfg.rateWindow
  <2>1. Tick
    BY <1>1 DEF Next, Receive, Admit, Elapse, ReadClock, Flush, Configure, Restart,
                vars, ticker, TypeOK
  <2>2. /\ cfg \in Config /\ tickNow \in Int /\ digestAt \in Int
        /\ \A e \in Event : admitted[e] \in Int
        /\ \A k \in Key : buckets[k].held \subseteq Event /\ buckets[k].windowStart \in Int
    BY <1>1 DEF TypeOK, Bucket
  <2>3. ASSUME cfg.strategy = "digest", NEW e \in digest'
        PROVE  tickNow - admitted[e] < cfg.digestInterval
    <3>1. ~DigestDue /\ digest' = digest /\ e \in Event
      BY <1>1, <2>1, <2>3 DEF Tick, TickRateLimit, TickDigest, TickIdle, TypeOK
    <3> QED
      BY <1>1, <2>2, <2>3, <3>1 DEF DigestDue, Stamps, Config
  <2>4. ASSUME cfg.strategy = "rate_limit", NEW k \in Key, NEW e \in buckets'[k].held
        PROVE  tickNow - admitted[e] < cfg.rateWindow
    <3>1. k \notin ClosedWindows /\ e \in buckets[k].held
      BY <2>1, <2>4 DEF Tick, TickRateLimit, TickDigest, TickIdle, NoBucket
    <3> QED
      BY <1>1, <2>2, <2>4, <3>1 DEF ClosedWindows, Stamps, Config
  <2> QED
    BY <2>3, <2>4
<1> QED
  BY <1>1, FloodTypeOK, FloodStamps, PTL DEF Spec, HeldWaitBounded

-----------------------------------------------------------------------------
(***************************************************************************)
(* Dedupe.  What Admit compares with is lastSeen; what a reader cares for  *)
(* is which events were sent.  Both invariants below tie the two together. *)
(***************************************************************************)

\* lastSeen[k] is the receipt time of an event of k that was sent.
SeenWasSent ==
  \A k \in Key : lastSeen[k] # NoTime =>
    \E f \in Event : outcome[f] = "send" /\ KeyOf[f] = k /\ at[f] = lastSeen[k]

CoverInv == SeenWasSent /\ SuppressedCovered

\* Nothing but Receive and Admit touches an outcome, a receipt time or
\* lastSeen, except that a restart forgets.
LEMMA CoverFrame ==
  ASSUME TypeOK, CoverInv,
         lastSeen' = lastSeen \/ lastSeen' = [k \in Key |-> NoTime],
         \A e \in Event : outcome[e] # "unseen" => at'[e] = at[e],
         \A e \in Event : \/ outcome'[e] = outcome[e]
                         \/ /\ outcome[e] \in {"unseen", "waiting"}
                            /\ outcome'[e] \in {"waiting", "gone"}
  PROVE  CoverInv'
<1> USE DEF CoverInv, TypeOK
<1>1. \A f \in Event : outcome[f] = "send" => outcome'[f] = "send" /\ at'[f] = at[f]
  OBVIOUS
<1>2. SeenWasSent'
  BY <1>1 DEF SeenWasSent
<1>3. \A e \in Event : outcome'[e] = "suppress" => outcome[e] = "suppress" /\ at'[e] = at[e]
  OBVIOUS
<1>4. SuppressedCovered'
  BY <1>1, <1>3 DEF SuppressedCovered, Sent
<1> QED
  BY <1>2, <1>4

\* No admission and no restart breaks the tie between lastSeen and what was sent.
LEMMA FloodCoverInv == Spec => []CoverInv
<1> USE KeyAssumption, ConfigAssumption, BoundAssumption
<1>1. Init => CoverInv
  BY DEF Init, CoverInv, SeenWasSent, SuppressedCovered
<1>2. ASSUME TypeOK, CoverInv, [Next]_vars
      PROVE  CoverInv'
  <2>1. ASSUME NEW e \in Event, Receive(e)
        PROVE  CoverInv'
    BY <1>2, <2>1, CoverFrame DEF TypeOK, Receive, controller
  <2>2. ASSUME NEW e \in Event, Admit(e)
        PROVE  CoverInv'
    <3> USE <1>2, <2>2 DEF Admit, TypeOK, Decide
    <3>1. /\ at' = at
          /\ \A f \in Event : f # e => outcome'[f] = outcome[f]
          /\ \A f \in Event : outcome[f] = "send" => f # e /\ outcome'[f] = "send"
      BY DEF AdmitDedupe, AdmitRateLimit, AdmitDigest, AdmitNone
    <3>2. CASE /\ cfg.strategy = "dedupe"
               /\ SeenRecently(KeyOf[e], at[e])
               /\ Decide(e, "suppress")
               /\ UNCHANGED lastSeen
      <4>1. PICK f \in Event : /\ outcome[f] = "send" /\ KeyOf[f] = KeyOf[e]
                              /\ at[f] = lastSeen[KeyOf[e]]
        BY <3>2 DEF SeenRecently, CoverInv, SeenWasSent
      <4>2. at[e] - at[f] < cfg.dedupeWindow
        BY <3>2, <4>1 DEF SeenRecently
      <4>3. SuppressedCovered'
        BY <3>1, <3>2, <4>1, <4>2 DEF CoverInv, SuppressedCovered, Sent
      <4>4. SeenWasSent'
        BY <3>1, <3>2 DEF CoverInv, SeenWasSent
      <4> QED
        BY <4>3, <4>4 DEF CoverInv
    <3>3. CASE /\ outcome' = [outcome EXCEPT ![e] = "send"]
               /\ \/ lastSeen' = lastSeen
                  \/ lastSeen' = [lastSeen EXCEPT ![KeyOf[e]] = at[e]]
      BY <3>1, <3>3 DEF CoverInv, SeenWasSent, SuppressedCovered, Sent
    <3>4. CASE outcome' = [outcome EXCEPT ![e] = "hold"] /\ lastSeen' = lastSeen
      BY <3>1, <3>4 DEF CoverInv, SeenWasSent, SuppressedCovered, Sent
    <3> QED
      BY <3>2, <3>3, <3>4 DEF AdmitDedupe, AdmitRateLimit, AdmitDigest, AdmitNone
  <2>3. CASE Elapse
    BY <1>2, <2>3, CoverFrame DEF Elapse, controller, history
  <2>4. CASE ReadClock
    BY <1>2, <2>4, CoverFrame DEF ReadClock, controller, history
  <2>5. CASE Tick
    BY <1>2, <2>5, CoverFrame DEF Tick, history
  <2>6. ASSUME NEW r \in pending, Flush(r)
        PROVE  CoverInv'
    BY <1>2, <2>6, CoverFrame DEF Flush, controller
  <2>7. ASSUME NEW c \in Configs, Configure(c)
        PROVE  CoverInv'
    BY <1>2, <2>7, CoverFrame DEF Configure, history
  <2>8. CASE Restart
    <3>1. /\ lastSeen' = [k \in Key |-> NoTime]
          /\ at' = at
          /\ \A e \in Event : \/ outcome'[e] = outcome[e]
                              \/ outcome[e] = "waiting" /\ outcome'[e] = "gone"
      BY <1>2, <2>8 DEF Restart, Waiting, TypeOK
    <3> QED
      BY <1>2, <3>1, CoverFrame
  <2>9. CASE UNCHANGED vars
    <3>1. UNCHANGED <<lastSeen, at, outcome>>
      BY <2>9 DEF vars, controller, history
    <3> QED
      BY <1>2, <3>1, CoverFrame
  <2> QED
    BY <1>2, <2>1, <2>2, <2>3, <2>4, <2>5, <2>6, <2>7, <2>8, <2>9 DEF Next
<1> QED
  BY <1>1, <1>2, FloodTypeOK, PTL DEF Spec

\* A suppressed trap always has a sent one of its key within a dedupe window:
\* SuppressedCovered, for every window, lag, order of admission and restart.
THEOREM FloodSuppressedCovered == Spec => []SuppressedCovered
<1>1. CoverInv => SuppressedCovered
  BY DEF CoverInv
<1> QED
  BY <1>1, FloodCoverInv, PTL

\* lastSeen never lies behind an event let through in this life.
SeenIsLatest ==
  \A f \in announced :
    /\ outcome[f] = "send"
    /\ at[f] # NoTime
    /\ lastSeen[KeyOf[f]] # NoTime
    /\ at[f] <= lastSeen[KeyOf[f]]

SpacingInv == SeenIsLatest /\ DedupeSpacing

LEMMA SpacingFrame ==
  ASSUME TypeOK, SpacingInv,
         (announced' = announced /\ lastSeen' = lastSeen) \/ announced' = {},
         \A e \in Event : outcome[e] # "unseen" => at'[e] = at[e],
         \A e \in Event : outcome[e] = "send" => outcome'[e] = "send"
  PROVE  SpacingInv'
BY DEF SpacingInv, SeenIsLatest, DedupeSpacing, TypeOK

\* Two events of a key that dedupe lets through are a window apart, whatever
\* the order in which they are admitted: DedupeSpacing.  A negative duration,
\* which ParseConfig accepts, would let lastSeen run backwards, so the theorem
\* is about windows that are not negative.
THEOREM FloodDedupeSpacing ==
  ASSUME \A c \in Configs : c.dedupeWindow \in Nat
  PROVE  Spec => []DedupeSpacing
<1> USE KeyAssumption, ConfigAssumption, BoundAssumption
<1>1. Init => SpacingInv
  BY DEF Init, SpacingInv, SeenIsLatest, DedupeSpacing
<1>2. ASSUME TypeOK, Stamps, SpacingInv, [Next]_vars
      PROVE  SpacingInv'
  <2>1. ASSUME NEW e \in Event, Receive(e)
        PROVE  SpacingInv'
    BY <1>2, <2>1, SpacingFrame DEF TypeOK, Receive, controller
  <2>2. ASSUME NEW e \in Event, Admit(e)
        PROVE  SpacingInv'
    <3> USE <1>2, <2>2
    <3>1. /\ at' = at
          /\ \A f \in Event : outcome[f] = "send" => f # e /\ outcome'[f] = "send"
      BY DEF Admit, TypeOK, Decide, AdmitDedupe, AdmitRateLimit, AdmitDigest, AdmitNone
    <3>2. CASE /\ ~SeenRecently(KeyOf[e], at[e])
               /\ lastSeen' = [lastSeen EXCEPT ![KeyOf[e]] = at[e]]
               /\ announced' = announced \cup {e}
               /\ Decide(e, "send")
      <4> DEFINE k == KeyOf[e]
      <4>1. k \in Key /\ at[e] \in Int /\ lastSeen[k] \in Int /\ cfg \in Configs
            /\ cfg.dedupeWindow \in Nat
        BY DEF TypeOK, Time, NoTime
      <4>3. \A f \in announced : KeyOf[f] = k =>
              at[e] - at[f] >= cfg.dedupeWindow /\ at[f] <= at[e]
        BY <3>2, <4>1 DEF SeenRecently, SpacingInv, SeenIsLatest, TypeOK, Time, NoTime
      <4>4. DedupeSpacing'
        BY <3>1, <3>2, <4>1, <4>3 DEF SpacingInv, DedupeSpacing, TypeOK
      <4>5. at[e] # NoTime
        BY DEF Admit, Stamps, TypeOK, NoTime
      <4>6. SeenIsLatest'
        BY <3>1, <3>2, <4>1, <4>3, <4>5 DEF SpacingInv, SeenIsLatest, TypeOK, Decide, Time, NoTime
      <4> QED
        BY <4>4, <4>6 DEF SpacingInv
    <3>3. CASE UNCHANGED <<lastSeen, announced>>
      BY <3>1, <3>3, SpacingFrame
    <3> QED
      BY <3>2, <3>3 DEF Admit, AdmitDedupe, AdmitRateLimit, AdmitDigest, AdmitNone
  <2>3. CASE Elapse
    BY <1>2, <2>3, SpacingFrame DEF Elapse, controller, history
  <2>4. CASE ReadClock
    BY <1>2, <2>4, SpacingFrame DEF ReadClock, controller, history
  <2>5. CASE Tick
    BY <1>2, <2>5, SpacingFrame DEF Tick, history
  <2>6. ASSUME NEW r \in pending, Flush(r)
        PROVE  SpacingInv'
    BY <1>2, <2>6, SpacingFrame DEF Flush, controller
  <2>7. ASSUME NEW c \in Configs, Configure(c)
        PROVE  SpacingInv'
    BY <1>2, <2>7, SpacingFrame DEF Configure, history
  <2>8. CASE Restart
    BY <1>2, <2>8, SpacingFrame DEF Restart, Waiting, TypeOK
  <2>9. CASE UNCHANGED vars
    BY <1>2, <2>9, SpacingFrame DEF vars, controller, history
  <2> QED
    BY <1>2, <2>1, <2>2, <2>3, <2>4, <2>5, <2>6, <2>7, <2>8, <2>9 DEF Next
<1>3. SpacingInv => DedupeSpacing
  BY DEF SpacingInv
<1> QED
  BY <1>1, <1>2, <1>3, FloodTypeOK, FloodStamps, PTL DEF Spec
=============================================================================
