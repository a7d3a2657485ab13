----------------------------- MODULE RateProofs -----------------------------
(***************************************************************************)
(* Proof of the bound on what the rate limiter lets through, for any rate, *)
(* window, set of events and keys, and any lag between receipt and Admit:  *)
(* the windows of a key, as late events and the ticker open and close      *)
(* them, open at least a rate window less that lag apart.                  *)
(***************************************************************************)
EXTENDS FloodProofs, FiniteSetTheorems

\* One configuration is in force, for one life of the daemon.
Steady == MaxRestarts = 0 /\ ~Reconfigurable

\* How far apart a key opens its windows at least: an event that waited opens a
\* window that begins in the past, by the lag at the most.
Spread == cfg.rateWindow - MaxLag

Limiting == cfg.strategy = "rate_limit" /\ Spread >= 1

-----------------------------------------------------------------------------
(***************************************************************************)
(* The inductive invariant.                                                *)
(***************************************************************************)

\* The events sent in the window that a key opened at instant s of the clock.
SentIn(w, k, s) == {f \in Sent : KeyOf[f] = k /\ w[f] = s}

\* One window is over, and all its events are admitted, when the other opens.
Before(w, e, f) == w[e] + Spread <= w[f] /\ admitted[e] <= w[f]

\* w gives each sent event the instant at which its window was opened: each
\* window is opened by an event that is sent in it, and at most rate_n are sent.
Windows(w) ==
  /\ \A e \in Sent : w[e] <= admitted[e] /\ admitted[e] <= clock
  /\ \A e, f \in Sent : KeyOf[e] = KeyOf[f] =>
       w[e] = w[f] \/ Before(w, e, f) \/ Before(w, f, e)
  /\ \A e \in Sent : \E f \in Sent :
       KeyOf[f] = KeyOf[e] /\ w[f] = w[e] /\ admitted[f] = w[e]
  /\ \A k \in Key, s \in Time :
       IsFiniteSet(SentIn(w, k, s)) /\ Cardinality(SentIn(w, k, s)) <= cfg.rateN

\* Bucket b of key k is the window opened at s, the last one of its key: it
\* begins at most the lag before s and counts what was sent in it.
LastWindow(w, k, b, s) ==
  /\ s - MaxLag <= b.windowStart /\ b.windowStart <= s
  /\ Cardinality(SentIn(w, k, s)) = b.sent
  /\ \A f \in Sent : KeyOf[f] = k =>
       w[f] = s \/ (w[f] + Spread <= s /\ admitted[f] <= s)

\* The open bucket of a key is its last window; without one, all are over.
Counted(w) ==
  \A k \in Key :
    /\ buckets[k].open =>
         \E s \in Time : /\ LastWindow(w, k, buckets[k], s)
                         /\ \E f \in Sent : KeyOf[f] = k /\ w[f] = s
    /\ ~buckets[k].open =>
         \A f \in Sent : KeyOf[f] = k => w[f] + Spread <= clock

\* No event waits longer than the lag for its admission.
Lagged == \A e \in Waiting : clock - at[e] <= MaxLag

RateInv ==
  /\ Lagged
  /\ Limiting => \E w \in [Event -> Time] : Windows(w) /\ Counted(w)

\* What the types say of one event and one key.
LEMMA RateTypes ==
  ASSUME TypeOK
  PROVE  /\ cfg.rateN \in Nat \ {0} /\ cfg.rateWindow \in Int /\ MaxLag \in Nat
         /\ Spread \in Int /\ Spread + MaxLag = cfg.rateWindow
         /\ clock \in Time /\ clock \in Nat
         /\ \A s \in Time : s \in Nat
         /\ \A e \in Event : /\ at[e] \in Time \cup {NoTime} /\ at[e] \in Int
                             /\ admitted[e] \in Int /\ KeyOf[e] \in Key
         /\ \A k \in Key : /\ buckets[k] \in Bucket /\ buckets[k].windowStart \in Int
                           /\ buckets[k].sent \in Nat
BY ConfigAssumption, KeyAssumption, BoundAssumption
DEF TypeOK, Config, Spread, Time, NoTime, Bucket

\* Nothing that was sent is forgotten when no event is decided.
LEMMA WindowsKept ==
  ASSUME NEW w, Windows(w), UNCHANGED <<cfg, Sent>>,
         \A e \in Sent : admitted'[e] = admitted[e] /\ admitted[e] <= clock'
  PROVE  Windows(w)' /\ \A k, s : SentIn(w, k, s)' = SentIn(w, k, s)
<1>1. \A k, s : SentIn(w, k, s)' = SentIn(w, k, s)
  BY DEF SentIn
<1>2. \A k \in Key, s \in Time :
        IsFiniteSet(SentIn(w, k, s))' /\ (Cardinality(SentIn(w, k, s)) <= cfg.rateN)'
  BY <1>1 DEF Windows
<1>3. \A e, f \in Sent : Before(w, e, f)' <=> Before(w, e, f)
  BY DEF Before, Spread
<1> QED
  BY <1>1, <1>2, <1>3 DEF Windows

\* A bucket whose window began more than a rate window before an instant that
\* has come is over: its last window was opened at least the spread ago.
LEMMA WindowOver ==
  ASSUME TypeOK, NEW w \in [Event -> Time],
         NEW k \in Key, NEW s \in Time, LastWindow(w, k, buckets[k], s),
         NEW t \in Int, t <= clock, t - buckets[k].windowStart >= cfg.rateWindow
  PROVE  /\ s + Spread <= clock
         /\ Spread >= 1 => \A f \in Sent : KeyOf[f] = k => w[f] + Spread <= clock
<1>1. /\ cfg.rateWindow \in Int /\ MaxLag \in Nat /\ Spread \in Int
      /\ Spread + MaxLag = cfg.rateWindow /\ clock \in Nat /\ s \in Nat
      /\ buckets[k].windowStart \in Int
      /\ \A f \in Sent : w[f] \in Nat
  BY RateTypes DEF Sent
<1>2. s - MaxLag <= buckets[k].windowStart
  BY DEF LastWindow
<1>3. s + Spread <= clock
  BY <1>1, <1>2
<1>4. \A f \in Sent : KeyOf[f] = k => w[f] = s \/ w[f] + Spread <= s
  BY DEF LastWindow
<1> QED
  BY <1>1, <1>3, <1>4

\* The bucket an event is admitted to is the last window of its key, opened now
\* or earlier; when it is new, every other window of the key is over.
LEMMA CurrentWindow ==
  ASSUME TypeOK, Limiting, NEW w \in [Event -> Time], Windows(w), Counted(w),
         NEW k \in Key, NEW t \in Time, t <= clock, clock - t <= MaxLag,
         NEW b, b = CurrentBucket(k, t)
  PROVE  /\ b \in Bucket /\ b.open
         /\ \E s \in Time : /\ s <= clock /\ LastWindow(w, k, b, s)
                            /\ \/ s = clock /\ b.sent = 0
                               \/ \E f \in Sent : KeyOf[f] = k /\ w[f] = s
<1>1. /\ Spread \in Int /\ Spread >= 1 /\ clock \in Nat /\ clock \in Time
      /\ cfg.rateWindow \in Int /\ MaxLag \in Nat /\ t \in Nat
      /\ buckets[k] \in Bucket /\ buckets[k].windowStart \in Int
  BY RateTypes DEF Limiting
<1>2. \A f \in Sent : f \in Event /\ w[f] \in Nat /\ admitted[f] \in Int
  BY RateTypes DEF Sent
<1>3. CASE buckets[k].open /\ ~(t - buckets[k].windowStart >= cfg.rateWindow)
  <2>1. b = buckets[k]
    BY <1>3 DEF CurrentBucket
  <2>2. PICK s \in Time : /\ LastWindow(w, k, buckets[k], s)
                          /\ \E f \in Sent : KeyOf[f] = k /\ w[f] = s
    BY <1>3 DEF Counted
  <2>3. s <= clock
    <3>1. PICK f \in Sent : w[f] = s
      BY <2>2
    <3>2. w[f] <= admitted[f] /\ admitted[f] <= clock
      BY DEF Windows
    <3> QED
      BY <1>1, <1>2, <3>1, <3>2
  <2> QED
    BY <1>1, <1>3, <2>1, <2>2, <2>3
<1>4. CASE ~buckets[k].open \/ t - buckets[k].windowStart >= cfg.rateWindow
  <2>1. b = NewBucket(t)
    BY <1>4 DEF CurrentBucket
  <2>2. b \in Bucket /\ b.open /\ b.windowStart = t /\ b.sent = 0
    BY <2>1 DEF NewBucket, Bucket
  <2>3. \A f \in Sent : KeyOf[f] = k => w[f] + Spread <= clock
    <3>1. CASE ~buckets[k].open
      BY <3>1 DEF Counted
    <3>2. CASE buckets[k].open /\ t - buckets[k].windowStart >= cfg.rateWindow
      <4>1. PICK s \in Time : LastWindow(w, k, buckets[k], s)
        BY <3>2 DEF Counted
      <4> QED
        BY <1>1, <3>2, <4>1, WindowOver
    <3> QED
      BY <1>4, <3>1, <3>2
  <2>4. SentIn(w, k, clock) = {}
    BY <1>1, <1>2, <2>3 DEF SentIn
  <2>5. Cardinality(SentIn(w, k, clock)) = b.sent
    BY <2>2, <2>4, FS_EmptySet
  <2>6. \A f \in Sent : admitted[f] <= clock
    BY DEF Windows
  <2>7. LastWindow(w, k, b, clock)
    BY <1>1, <2>2, <2>3, <2>5, <2>6 DEF LastWindow
  <2> QED
    BY <1>1, <2>2, <2>7
<1> QED
  BY <1>3, <1>4

\* The windows of the keys that a step does not touch stay as they are.
LEMMA OtherWindows ==
  ASSUME TypeOK, Limiting, NEW w \in [Event -> Time], Windows(w), Counted(w),
         NEW v, NEW l \in Key, UNCHANGED <<cfg, buckets[l]>>, clock <= clock', clock' \in Int,
         \A f \in Sent : /\ f \in Sent' /\ v[f] = w[f]
                         /\ admitted'[f] = admitted[f],
         \A f \in Sent' : KeyOf[f] = l => f \in Sent
  PROVE  /\ buckets'[l].open =>
              \E s \in Time : /\ LastWindow(v, l, buckets[l], s)'
                              /\ \E f \in Sent' : KeyOf[f] = l /\ v[f] = s
         /\ ~buckets'[l].open =>
              \A f \in Sent' : KeyOf[f] = l => v[f] + Spread' <= clock'
<1>1. Spread' = Spread
  BY DEF Spread
<1>2. \A s : SentIn(v, l, s)' = SentIn(w, l, s)
  BY DEF SentIn
<1>3. \A s : LastWindow(w, l, buckets[l], s) => LastWindow(v, l, buckets[l], s)'
  BY <1>1, <1>2 DEF LastWindow
<1>4. /\ buckets[l].open =>
           \E s \in Time : /\ LastWindow(w, l, buckets[l], s)
                           /\ \E f \in Sent : KeyOf[f] = l /\ w[f] = s
      /\ ~buckets[l].open =>
           \A f \in Sent : KeyOf[f] = l => w[f] + Spread <= clock
  BY DEF Counted
<1>5. /\ Spread \in Int /\ clock \in Int
      /\ \A f \in Sent : w[f] \in Int
  BY RateTypes DEF Sent
<1>6. CASE buckets[l].open
  BY <1>3, <1>4, <1>6
<1>7. CASE ~buckets[l].open
  BY <1>1, <1>4, <1>5, <1>7
<1> QED
  BY <1>6, <1>7

\* An event that is sent joins the window of its bucket; when the bucket is new,
\* the event opens that window.
LEMMA SendCounted ==
  ASSUME TypeOK, Limiting, NEW w \in [Event -> Time], Windows(w), Counted(w),
         NEW e \in Event, outcome[e] = "waiting",
         at[e] \in Time, at[e] <= clock, clock - at[e] <= MaxLag,
         NEW b, b = CurrentBucket(KeyOf[e], at[e]), b.sent < cfg.rateN,
         buckets' = [buckets EXCEPT ![KeyOf[e]] = [b EXCEPT !.sent = b.sent + 1]],
         outcome' = [outcome EXCEPT ![e] = "send"],
         admitted' = [admitted EXCEPT ![e] = clock],
         UNCHANGED <<cfg, clock>>
  PROVE  \E v \in [Event -> Time] : Windows(v)' /\ Counted(v)'
<1> DEFINE k == KeyOf[e]
<1>1. /\ Spread \in Int /\ Spread >= 1 /\ MaxLag \in Nat /\ clock \in Nat /\ clock \in Time
      /\ cfg.rateN \in Nat /\ k \in Key
      /\ \A s \in Time : s \in Nat
  BY RateTypes DEF Limiting
<1>2. b \in Bucket /\ b.open /\ b.sent \in Nat /\ b.windowStart \in Int
  <2>1. b \in Bucket /\ b.open
    BY <1>1, CurrentWindow
  <2> QED
    BY <2>1, BoundAssumption DEF Bucket, Time, NoTime
<1>3. PICK s \in Time : /\ s <= clock /\ LastWindow(w, k, b, s)
                        /\ \/ s = clock /\ b.sent = 0
                           \/ \E f \in Sent : KeyOf[f] = k /\ w[f] = s
  BY <1>1, CurrentWindow
<1> DEFINE v == [w EXCEPT ![e] = s]
<1>4. Sent' = Sent \cup {e} /\ e \notin Sent
  BY DEF Sent, TypeOK
<1>5. /\ v \in [Event -> Time] /\ v[e] = s /\ admitted'[e] = clock /\ s \in Nat
      /\ \A f \in Sent : /\ f # e /\ f \in Event /\ v[f] = w[f] /\ w[f] \in Nat
                         /\ admitted'[f] = admitted[f] /\ admitted[f] \in Int
  BY <1>1, <1>4, RateTypes DEF Sent, TypeOK
<1>6. /\ buckets'[k].open /\ buckets'[k].windowStart = b.windowStart
      /\ buckets'[k].sent = b.sent + 1
      /\ \A l \in Key : l # k => buckets'[l] = buckets[l]
  BY <1>1, <1>2 DEF TypeOK, Bucket
<1>7. /\ s - MaxLag <= b.windowStart /\ b.windowStart <= s
      /\ Cardinality(SentIn(w, k, s)) = b.sent
      /\ \A f \in Sent : KeyOf[f] = k => w[f] = s \/ (w[f] + Spread <= s /\ admitted[f] <= s)
  BY <1>3 DEF LastWindow
<1> HIDE DEF v
<1>8. SentIn(v, k, s)' = SentIn(w, k, s) \cup {e}
  BY <1>4, <1>5 DEF SentIn
<1>9. \A l \in Key, t \in Time : l # k \/ t # s => SentIn(v, l, t)' = SentIn(w, l, t)
  BY <1>4, <1>5 DEF SentIn
<1>10. /\ IsFiniteSet(SentIn(w, k, s) \cup {e})
       /\ Cardinality(SentIn(w, k, s) \cup {e}) = b.sent + 1
  <2>1. IsFiniteSet(SentIn(w, k, s)) /\ e \notin SentIn(w, k, s)
    BY <1>1, <1>4 DEF Windows, SentIn
  <2> QED
    BY <1>7, <2>1, FS_AddElement
<1>11. Spread' = Spread
  BY DEF Spread
<1>12. Windows(v)'
  <2>1. \A f \in Sent' : v[f] <= admitted'[f] /\ admitted'[f] <= clock'
    BY <1>1, <1>3, <1>4, <1>5 DEF Windows
  <2>2. \A f, g \in Sent' : KeyOf[f] = KeyOf[g] =>
          v[f] = v[g] \/ Before(v, f, g)' \/ Before(v, g, f)'
    <3>1. \A f, g \in Sent : KeyOf[f] = KeyOf[g] =>
            v[f] = v[g] \/ Before(v, f, g)' \/ Before(v, g, f)'
      BY <1>5, <1>11 DEF Windows, Before
    <3>2. \A f \in Sent : KeyOf[f] = k => v[f] = v[e] \/ Before(v, f, e)'
      BY <1>5, <1>7, <1>11 DEF Before
    <3> QED
      BY <1>4, <3>1, <3>2
  <2>3. \A f \in Sent' : \E g \in Sent' :
          KeyOf[g] = KeyOf[f] /\ v[g] = v[f] /\ admitted'[g] = v[f]
    <3>1. \A f \in Sent : \E g \in Sent :
            KeyOf[g] = KeyOf[f] /\ v[g] = v[f] /\ admitted'[g] = v[f]
      BY <1>5 DEF Windows
    <3>2. \E g \in Sent' : KeyOf[g] = k /\ v[g] = s /\ admitted'[g] = s
      <4>1. CASE s = clock
        BY <1>4, <1>5, <4>1
      <4>2. ASSUME NEW f \in Sent, KeyOf[f] = k, w[f] = s
            PROVE  \E g \in Sent' : KeyOf[g] = k /\ v[g] = s /\ admitted'[g] = s
        BY <1>4, <1>5, <3>1, <4>2
      <4> QED
        BY <1>3, <4>1, <4>2
    <3> QED
      BY <1>4, <1>5, <3>1, <3>2
  <2>4. ASSUME NEW l \in Key, NEW t \in Time
        PROVE  IsFiniteSet(SentIn(v, l, t))' /\ (Cardinality(SentIn(v, l, t)) <= cfg.rateN)'
    <3>1. CASE l = k /\ t = s
      <4>1. b.sent + 1 <= cfg.rateN
        BY <1>1, <1>2
      <4> QED
        BY <1>8, <1>10, <3>1, <4>1
    <3>2. CASE l # k \/ t # s
      BY <1>9, <3>2 DEF Windows
    <3> QED
      BY <3>1, <3>2
  <2> QED
    BY <2>1, <2>2, <2>3, <2>4 DEF Windows
<1>13. Counted(v)'
  <2>1. LastWindow(v, k, buckets[k], s)'
    <3>1. (Cardinality(SentIn(v, k, s)) = buckets[k].sent)'
      BY <1>6, <1>8, <1>10
    <3>2. \A f \in Sent' : KeyOf[f] = k =>
            v[f] = s \/ (v[f] + Spread' <= s /\ admitted'[f] <= s)
      BY <1>4, <1>5, <1>7, <1>11
    <3> QED
      BY <1>6, <1>7, <3>1, <3>2 DEF LastWindow
  <2>2. \E f \in Sent' : KeyOf[f] = k /\ v[f] = s
    BY <1>4, <1>5
  <2>3. ASSUME NEW l \in Key, l # k
        PROVE  /\ buckets'[l].open =>
                    \E t \in Time : /\ LastWindow(v, l, buckets[l], t)'
                                    /\ \E f \in Sent' : KeyOf[f] = l /\ v[f] = t
               /\ ~buckets'[l].open =>
                    \A f \in Sent' : KeyOf[f] = l => v[f] + Spread' <= clock'
    <3>1. /\ buckets'[l] = buckets[l] /\ clock <= clock' /\ clock' \in Int
          /\ \A f \in Sent' : KeyOf[f] = l => f \in Sent
          /\ \A f \in Sent : f \in Sent' /\ v[f] = w[f] /\ admitted'[f] = admitted[f]
      BY <1>1, <1>4, <1>5, <1>6, <2>3
    <3> QED
      BY <3>1, OtherWindows
  <2> QED
    BY <1>6, <2>1, <2>2, <2>3 DEF Counted
<1> QED
  BY <1>5, <1>12, <1>13

\* An event is held only in a window in which others were sent.
LEMMA HoldCounted ==
  ASSUME TypeOK, Limiting, NEW w \in [Event -> Time], Windows(w), Counted(w),
         NEW k \in Key, NEW t \in Time, t <= clock, clock - t <= MaxLag,
         NEW b, b = CurrentBucket(k, t), b.sent >= cfg.rateN,
         NEW held, buckets' = [buckets EXCEPT ![k] = [b EXCEPT !.held = held]],
         UNCHANGED <<cfg, clock, Sent>>, \A f \in Sent : admitted'[f] = admitted[f]
  PROVE  Windows(w)' /\ Counted(w)'
<1>1. /\ Windows(w)'
      /\ \A l, s : SentIn(w, l, s)' = SentIn(w, l, s)
  <2>1. \A f \in Sent : admitted[f] <= clock'
    BY DEF Windows
  <2> QED
    BY <2>1, WindowsKept
<1>2. PICK s \in Time : /\ LastWindow(w, k, b, s)
                        /\ b.sent = 0 \/ \E f \in Sent : KeyOf[f] = k /\ w[f] = s
  BY CurrentWindow
<1>3. b \in Bucket /\ b.open
  BY CurrentWindow
<1>4. \E f \in Sent : KeyOf[f] = k /\ w[f] = s
  BY <1>2, <1>3, RateTypes DEF Bucket
<1>5. /\ buckets'[k].open /\ buckets'[k].windowStart = b.windowStart
      /\ buckets'[k].sent = b.sent
      /\ \A l \in Key : l # k => buckets'[l] = buckets[l]
  BY <1>3 DEF TypeOK, Bucket
<1>6. LastWindow(w, k, buckets[k], s)'
  BY <1>1, <1>2, <1>5 DEF LastWindow, Spread
<1>7. ASSUME NEW l \in Key, l # k
      PROVE  /\ buckets'[l].open =>
                  \E u \in Time : /\ LastWindow(w, l, buckets[l], u)'
                                  /\ \E f \in Sent' : KeyOf[f] = l /\ w[f] = u
             /\ ~buckets'[l].open =>
                  \A f \in Sent' : KeyOf[f] = l => w[f] + Spread' <= clock'
  <2>1. buckets'[l] = buckets[l] /\ clock <= clock' /\ clock' \in Int
    BY <1>5, <1>7, RateTypes
  <2> QED
    BY <2>1, OtherWindows
<1> QED
  BY <1>1, <1>4, <1>5, <1>6, <1>7 DEF Counted

\* Time that passes and buckets that close after their window leave the count.
LEMMA CountKept ==
  ASSUME TypeOK, Limiting, NEW w \in [Event -> Time], Windows(w), Counted(w),
         UNCHANGED <<cfg, Sent>>, \A e \in Sent : admitted'[e] = admitted[e],
         clock' \in Time, clock <= clock',
         NEW t \in Int, t <= clock,
         \A k \in Key :
           \/ buckets'[k] = buckets[k]
           \/ /\ buckets[k].open /\ ~buckets'[k].open
              /\ t - buckets[k].windowStart >= cfg.rateWindow
  PROVE  Windows(w)' /\ Counted(w)'
<1>1. /\ Spread \in Int /\ Spread >= 1 /\ Spread' = Spread
      /\ clock \in Nat /\ clock' \in Nat
      /\ \A f \in Sent : w[f] \in Nat /\ admitted[f] \in Int
  BY RateTypes DEF Limiting, Sent, Spread
<1>2. Windows(w)'
  <2>1. \A e \in Sent : admitted[e] <= clock'
    BY <1>1 DEF Windows
  <2> QED
    BY <2>1, WindowsKept
<1>3. ASSUME NEW l \in Key
      PROVE  /\ buckets'[l].open =>
                  \E s \in Time : /\ LastWindow(w, l, buckets[l], s)'
                                  /\ \E f \in Sent' : KeyOf[f] = l /\ w[f] = s
             /\ ~buckets'[l].open =>
                  \A f \in Sent' : KeyOf[f] = l => w[f] + Spread' <= clock'
  <2>1. CASE buckets'[l] = buckets[l]
    BY <1>1, <2>1, OtherWindows
  <2>2. CASE /\ buckets[l].open /\ ~buckets'[l].open
             /\ t - buckets[l].windowStart >= cfg.rateWindow
    <3>1. PICK s \in Time : LastWindow(w, l, buckets[l], s)
      BY <2>2 DEF Counted
    <3>2. \A f \in Sent : KeyOf[f] = l => w[f] + Spread <= clock
      BY <1>1, <2>2, <3>1, WindowOver
    <3> QED
      BY <1>1, <2>2, <3>2
  <2> QED
    BY <2>1, <2>2
<1> QED
  BY <1>2, <1>3 DEF Counted

\* Every step preserves the lag, the windows and their count.
LEMMA RateStep ==
  ASSUME TypeOK, TypeOK', Stamps, Steady, RateInv, [Next]_vars PROVE RateInv'
<1> DEFINE Kept ==
      UNCHANGED cfg /\
      (Limiting => \E w \in [Event -> Time] : Windows(w)' /\ Counted(w)')
<1>1. SUFFICES Lagged' /\ Kept
  BY DEF RateInv, Limiting, Spread
<1>2. /\ clock \in Nat /\ MaxLag \in Nat /\ MaxRestarts = 0 /\ life = 0
      /\ \A e \in Event : KeyOf[e] \in Key /\ at[e] \in Int /\ admitted[e] \in Int
      /\ outcome \in [Event -> Outcomes] /\ at \in [Event -> Time \cup {NoTime}]
      /\ admitted \in [Event -> Time \cup {NoTime}]
  BY RateTypes DEF Steady, TypeOK
<1>3. Lagged
  BY DEF RateInv
<1>4. ASSUME UNCHANGED <<cfg, Sent>>, \A e \in Sent : admitted'[e] = admitted[e],
             clock <= clock',
             NEW t \in Int, t <= clock,
             Limiting => \A k \in Key :
               \/ buckets'[k] = buckets[k]
               \/ /\ buckets[k].open /\ ~buckets'[k].open
                  /\ t - buckets[k].windowStart >= cfg.rateWindow
      PROVE  Kept
  <2>1. SUFFICES ASSUME Limiting
                 PROVE  \E w \in [Event -> Time] : Windows(w)' /\ Counted(w)'
    BY <1>4
  <2>2. PICK w \in [Event -> Time] : Windows(w) /\ Counted(w)
    BY <2>1 DEF RateInv
  <2>3. clock' \in Time
    BY DEF TypeOK
  <2>4. Windows(w)' /\ Counted(w)'
    BY <1>4, <2>1, <2>2, <2>3, CountKept
  <2> QED
    BY <2>4
<1>5. ASSUME NEW e \in Event, Receive(e) PROVE Lagged' /\ Kept
  <2>1. /\ outcome[e] = "unseen" /\ outcome' = [outcome EXCEPT ![e] = "waiting"]
        /\ at' = [at EXCEPT ![e] = clock] /\ UNCHANGED <<cfg, buckets, clock, admitted>>
    BY <1>5 DEF Receive, controller
  <2>2. Sent' = Sent
    BY <1>2, <2>1 DEF Sent
  <2>3. Lagged'
    BY <1>2, <1>3, <2>1 DEF Lagged, Waiting
  <2> QED
    BY <1>2, <1>4, <2>1, <2>2, <2>3
<1>6. ASSUME NEW e \in Event, Admit(e) PROVE Lagged' /\ Kept
  <2>1. /\ e \in Waiting /\ outcome[e] = "waiting" /\ UNCHANGED <<cfg, clock, at>>
        /\ at[e] \in Time /\ at[e] <= clock /\ clock - at[e] <= MaxLag
    <3>1. e \in Waiting /\ outcome[e] = "waiting" /\ UNCHANGED <<cfg, clock, at>>
      BY <1>6 DEF Admit, Waiting
    <3>2. at[e] \in 0..clock
      BY <3>1 DEF Stamps
    <3> QED
      BY <1>2, <1>3, <3>1, <3>2, BoundAssumption DEF Lagged, TypeOK, Time
  <2>2. \E o \in {"send", "suppress", "hold"} : Decide(e, o)
    BY <1>6 DEF Admit, AdmitDedupe, AdmitRateLimit, AdmitDigest, AdmitNone
  <2>3. Lagged'
    BY <1>2, <1>3, <2>1, <2>2 DEF Lagged, Waiting, Decide
  <2>4. ASSUME Limiting
        PROVE  \E w \in [Event -> Time] : Windows(w)' /\ Counted(w)'
    <3> DEFINE b == CurrentBucket(KeyOf[e], at[e])
    <3>1. AdmitRateLimit(e)
      BY <1>6, <2>4 DEF Admit, AdmitDedupe, AdmitDigest, AdmitNone, Limiting
    <3>2. /\ admitted' = [admitted EXCEPT ![e] = clock]
          /\ \/ /\ b.sent < cfg.rateN
                /\ buckets' = [buckets EXCEPT ![KeyOf[e]] = [b EXCEPT !.sent = b.sent + 1]]
                /\ outcome' = [outcome EXCEPT ![e] = "send"]
             \/ /\ b.sent >= cfg.rateN
                /\ buckets' = [buckets EXCEPT ![KeyOf[e]] = [b EXCEPT !.held = b.held \cup {e}]]
                /\ outcome' = [outcome EXCEPT ![e] = "hold"]
      BY <3>1 DEF AdmitRateLimit, Decide
    <3> HIDE DEF b
    <3>3. PICK w \in [Event -> Time] : Windows(w) /\ Counted(w)
      BY <2>4 DEF RateInv
    <3>4. CASE /\ b.sent < cfg.rateN
               /\ buckets' = [buckets EXCEPT ![KeyOf[e]] = [b EXCEPT !.sent = b.sent + 1]]
               /\ outcome' = [outcome EXCEPT ![e] = "send"]
      BY <2>1, <2>4, <3>2, <3>3, <3>4, SendCounted DEF b
    <3>5. CASE /\ b.sent >= cfg.rateN
               /\ buckets' = [buckets EXCEPT ![KeyOf[e]] = [b EXCEPT !.held = b.held \cup {e}]]
               /\ outcome' = [outcome EXCEPT ![e] = "hold"]
      <4>1. Sent' = Sent /\ \A f \in Sent : admitted'[f] = admitted[f]
        BY <1>2, <2>1, <3>2, <3>5 DEF Sent
      <4>2. Windows(w)' /\ Counted(w)'
        BY <1>2, <2>1, <2>4, <3>3, <3>5, <4>1, HoldCounted DEF b
      <4> QED
        BY <4>2
    <3> QED
      BY <3>2, <3>4, <3>5
  <2> QED
    BY <2>1, <2>3, <2>4
<1>7. CASE Elapse
  <2>1. /\ UNCHANGED <<cfg, buckets, outcome, at, admitted>> /\ clock' = clock + 1
        /\ \A e \in Waiting : clock - at[e] < MaxLag
    BY <1>7 DEF Elapse, controller, history
  <2>2. Sent' = Sent /\ Waiting' = Waiting /\ Waiting \subseteq Event
    BY <2>1 DEF Sent, Waiting
  <2>3. Lagged'
    BY <1>2, <2>1, <2>2 DEF Lagged
  <2>4. clock <= clock'
    BY <1>2, <2>1
  <2> QED
    BY <1>2, <1>4, <2>1, <2>2, <2>3, <2>4
<1>8. ASSUME UNCHANGED <<cfg, buckets, clock, outcome, at, admitted>> PROVE Lagged' /\ Kept
  <2>1. Sent' = Sent /\ Waiting' = Waiting /\ clock <= clock'
    BY <1>2, <1>8 DEF Sent, Waiting
  <2> QED
    BY <1>2, <1>3, <1>4, <1>8, <2>1 DEF Lagged
<1>9. CASE ReadClock
  BY <1>8, <1>9 DEF ReadClock, controller, history
<1>10. CASE Tick
  <2>1. UNCHANGED <<cfg, clock, outcome, at, admitted>> /\ tickNow # NoTime
    BY <1>10 DEF Tick, history
  <2>2. Limiting => \A k \in Key :
          \/ buckets'[k] = buckets[k]
          \/ /\ buckets[k].open /\ ~buckets'[k].open
             /\ tickNow - buckets[k].windowStart >= cfg.rateWindow
    <3>1. Limiting => TickRateLimit
      BY <1>10 DEF Tick, TickDigest, TickIdle, Limiting
    <3> QED
      BY <3>1 DEF TickRateLimit, ClosedWindows, NoBucket
  <2>3. tickNow \in Int /\ tickNow <= clock
    BY BoundAssumption DEF Stamps, TypeOK, Time, NoTime
  <2>4. Sent' = Sent /\ Waiting' = Waiting /\ clock <= clock'
    BY <1>2, <2>1 DEF Sent, Waiting
  <2> QED
    BY <1>3, <1>4, <2>1, <2>2, <2>3, <2>4 DEF Lagged
<1>11. ASSUME NEW r \in pending, Flush(r) PROVE Lagged' /\ Kept
  BY <1>8, <1>11 DEF Flush, controller
<1>12. ASSUME NEW c \in Configs, Configure(c) PROVE FALSE
  BY <1>12 DEF Configure, Steady
<1>13. CASE Restart
  BY <1>2, <1>13 DEF Restart
<1>14. CASE UNCHANGED vars
  BY <1>8, <1>14 DEF vars, controller, history
<1> QED
  BY <1>1, <1>5, <1>6, <1>7, <1>9, <1>10, <1>11, <1>12, <1>13, <1>14 DEF Next

-----------------------------------------------------------------------------
(***************************************************************************)
(* The bound.                                                              *)
(***************************************************************************)

\* What is sent within the spread of one event, and belongs to two windows, lacks
\* the event that opened the earlier one.
LEMMA TwoWindows ==
  ASSUME TypeOK, Limiting, NEW w \in [Event -> Time], Windows(w),
         NEW a \in Int, NEW F \in SUBSET Sent,
         \A f \in F : a <= admitted[f] /\ admitted[f] < a + Spread,
         NEW x \in F, NEW y \in F, KeyOf[y] = KeyOf[x], w[x] + Spread <= w[y],
         \A f \in F : KeyOf[f] = KeyOf[x] /\ (w[f] = w[x] \/ w[f] = w[y])
  PROVE  Cardinality(F) <= 2 * cfg.rateN - 1
<1> DEFINE N == cfg.rateN
           A == SentIn(w, KeyOf[x], w[x])
           B == SentIn(w, KeyOf[x], w[y])
<1>1. /\ N \in Nat /\ N >= 1 /\ Spread \in Int /\ KeyOf[x] \in Key
      /\ \A f \in Sent : w[f] \in Nat /\ w[f] \in Time /\ admitted[f] \in Int
  BY RateTypes DEF Sent
<1>2. /\ IsFiniteSet(A) /\ Cardinality(A) <= N /\ Cardinality(A) \in Nat
      /\ IsFiniteSet(B) /\ Cardinality(B) <= N /\ Cardinality(B) \in Nat
  <2>1. /\ IsFiniteSet(A) /\ Cardinality(A) <= N
        /\ IsFiniteSet(B) /\ Cardinality(B) <= N
    BY <1>1 DEF Windows
  <2> QED
    BY <2>1, FS_CardinalityType
<1>3. PICK h \in Sent : KeyOf[h] = KeyOf[x] /\ w[h] = w[x] /\ admitted[h] = w[x]
  BY DEF Windows
<1>4. h \in A /\ h \notin F
  <2>1. w[y] <= admitted[y] /\ admitted[y] < a + Spread
    BY DEF Windows
  <2>2. admitted[h] < a
    BY <1>1, <1>3, <2>1
  <2>3. h \notin F
    BY <1>1, <1>3, <2>2
  <2> QED
    BY <1>3, <2>3 DEF SentIn
<1>5. F \subseteq (A \ {h}) \cup B
  BY <1>4 DEF SentIn
<1> HIDE DEF A, B
<1>6. IsFiniteSet(A \ {h}) /\ Cardinality(A \ {h}) = Cardinality(A) - 1
  BY <1>2, <1>4, FS_RemoveElement
<1>7. /\ IsFiniteSet((A \ {h}) \cup B)
      /\ Cardinality((A \ {h}) \cup B) <= Cardinality(A \ {h}) + Cardinality(B)
  <2>1. /\ IsFiniteSet((A \ {h}) \cup B)
        /\ Cardinality((A \ {h}) \cup B) =
             Cardinality(A \ {h}) + Cardinality(B) - Cardinality((A \ {h}) \cap B)
    BY <1>2, <1>6, FS_Union
  <2>2. IsFiniteSet((A \ {h}) \cap B)
    BY <1>6, FS_Intersection
  <2>3. Cardinality((A \ {h}) \cap B) \in Nat /\ Cardinality(A \ {h}) \in Nat
    BY <1>6, <2>2, FS_CardinalityType
  <2> QED
    BY <1>2, <2>1, <2>3
<1>8. IsFiniteSet(F) /\ Cardinality(F) <= Cardinality((A \ {h}) \cup B)
  BY <1>5, <1>7, FS_Subset
<1>9. /\ Cardinality(F) \in Nat /\ Cardinality((A \ {h}) \cup B) \in Nat
      /\ Cardinality(A \ {h}) \in Nat
  BY <1>6, <1>7, <1>8, FS_CardinalityType
<1> QED
  BY <1>1, <1>2, <1>6, <1>7, <1>8, <1>9

\* What is sent within the spread of one event belongs to two windows at most:
\* a third would be opened too late.
LEMMA WindowsBound ==
  ASSUME TypeOK, Limiting, NEW w \in [Event -> Time], Windows(w), NEW e \in Sent
  PROVE  Cardinality({f \in Sent : /\ KeyOf[f] = KeyOf[e]
                                   /\ admitted[f] - admitted[e] \in 0..(Spread - 1)})
           <= 2 * cfg.rateN - 1
<1> DEFINE N == cfg.rateN
           F == {f \in Sent : /\ KeyOf[f] = KeyOf[e]
                              /\ admitted[f] - admitted[e] \in 0..(Spread - 1)}
           A == SentIn(w, KeyOf[e], w[e])
<1>1. /\ Spread \in Int /\ Spread >= 1 /\ N \in Nat /\ N >= 1 /\ KeyOf[e] \in Key
      /\ \A f \in Sent : w[f] \in Nat /\ w[f] \in Time /\ admitted[f] \in Int
  BY RateTypes DEF Sent, Limiting
<1>2. \A f \in F : /\ f \in Sent /\ KeyOf[f] = KeyOf[e] /\ w[f] <= admitted[f]
                   /\ admitted[e] <= admitted[f] /\ admitted[f] < admitted[e] + Spread
  BY <1>1 DEF Windows
<1>3. \A f, g \in F : \/ w[f] = w[g]
                      \/ w[f] + Spread <= w[g] /\ admitted[f] <= w[g]
                      \/ w[g] + Spread <= w[f] /\ admitted[g] <= w[f]
  BY <1>2 DEF Windows, Before
<1>4. e \in F
  BY <1>1
<1>5. SUFFICES Cardinality(F) <= 2 * N - 1
  OBVIOUS
<1>6. CASE \A f \in F : w[f] = w[e]
  <2>1. IsFiniteSet(A) /\ Cardinality(A) <= N /\ Cardinality(A) \in Nat
    <3>1. IsFiniteSet(A) /\ Cardinality(A) <= N
      BY <1>1 DEF Windows
    <3> QED
      BY <3>1, FS_CardinalityType
  <2>2. F \subseteq A
    BY <1>2, <1>6 DEF SentIn
  <2> HIDE DEF F, A
  <2>3. IsFiniteSet(F) /\ Cardinality(F) <= Cardinality(A)
    BY <2>1, <2>2, FS_Subset
  <2>4. Cardinality(F) \in Nat
    BY <2>3, FS_CardinalityType
  <2> QED
    BY <1>1, <2>1, <2>3, <2>4
<1>7. ASSUME NEW x \in F, NEW y \in F, w[x] + Spread <= w[y], admitted[x] <= w[y]
      PROVE  Cardinality(F) <= 2 * N - 1
  <2>1. ASSUME NEW f \in F, w[f] # w[x], w[f] # w[y] PROVE FALSE
    <3>1. /\ w[f] \in Nat /\ w[x] \in Nat /\ w[y] \in Nat /\ admitted[e] \in Int
          /\ admitted[f] \in Int /\ admitted[x] \in Int /\ admitted[y] \in Int
      BY <1>1, <1>2
    <3>2. /\ w[f] <= admitted[f] /\ admitted[f] < admitted[e] + Spread
          /\ w[y] <= admitted[y] /\ admitted[y] < admitted[e] + Spread
          /\ admitted[e] <= admitted[x] /\ admitted[e] <= admitted[f]
          /\ w[x] <= admitted[x]
      BY <1>2
    <3>3. \/ w[f] + Spread <= w[x] /\ admitted[f] <= w[x]
          \/ w[x] + Spread <= w[f] /\ admitted[x] <= w[f]
      BY <1>3, <2>1
    <3>4. \/ w[f] + Spread <= w[y] /\ admitted[f] <= w[y]
          \/ w[y] + Spread <= w[f] /\ admitted[y] <= w[f]
      BY <1>3, <2>1
    <3> QED
      BY <1>1, <1>7, <3>1, <3>2, <3>3, <3>4
  <2>2. F \in SUBSET Sent /\ KeyOf[y] = KeyOf[x] /\ \A f \in F : KeyOf[f] = KeyOf[x]
    BY <1>2
  <2>3. admitted[e] \in Int
    BY <1>1
  <2> HIDE DEF F
  <2> QED
    BY <1>2, <1>7, <2>1, <2>2, <2>3, TwoWindows
<1>8. CASE ~(\A f \in F : w[f] = w[e])
  <2>1. PICK g \in F : w[g] # w[e]
    BY <1>8
  <2> QED
    BY <1>3, <1>4, <1>7, <2>1
<1> QED
  BY <1>6, <1>8

\* internal/flood/flood.go admitRateLimit, tick: with one configuration in force
\* and no restart, of the events of a key let through within the rate window less
\* the lag fewer than 2 * rate_n are sent, for any rate, window, lag and load.
THEOREM FloodRateBound ==
  ASSUME Steady PROVE Spec => []RateBound
<1>1. Init => RateInv
  <2> SUFFICES ASSUME Init PROVE RateInv
    OBVIOUS
  <2>1. Sent = {} /\ Waiting = {} /\ \A k \in Key : ~buckets[k].open
    BY DEF Init, Sent, Waiting, NoBucket
  <2>2. \A w, k, s : SentIn(w, k, s) = {}
    BY <2>1 DEF SentIn
  <2>3. cfg.rateN \in Nat
    BY ConfigAssumption DEF Init, Config
  <2>4. [e \in Event |-> 0] \in [Event -> Time]
    BY BoundAssumption DEF Time
  <2>5. ASSUME NEW w \in [Event -> Time] PROVE Windows(w) /\ Counted(w)
    <3>1. IsFiniteSet({}) /\ Cardinality({}) <= cfg.rateN
      BY <2>3, FS_EmptySet
    <3>2. \A k \in Key, s \in Time :
            IsFiniteSet(SentIn(w, k, s)) /\ Cardinality(SentIn(w, k, s)) <= cfg.rateN
      BY <2>2, <3>1
    <3> QED
      BY <2>1, <3>2 DEF Windows, Counted
  <2> QED
    BY <2>1, <2>4, <2>5 DEF RateInv, Lagged
<1>2. TypeOK /\ TypeOK' /\ Stamps /\ RateInv /\ [Next]_vars => RateInv'
  BY RateStep
<1>3. TypeOK /\ RateInv => RateBound
  <2> SUFFICES ASSUME TypeOK, RateInv, cfg.strategy = "rate_limit"
               PROVE  \A e \in Sent :
                        Cardinality({f \in Sent :
                            /\ KeyOf[f] = KeyOf[e]
                            /\ admitted[f] - admitted[e] \in 0..(Spread - 1)})
                          <= 2 * cfg.rateN - 1
    BY DEF RateBound, Spread
  <2>1. CASE Spread >= 1
    <3>1. PICK w \in [Event -> Time] : Windows(w)
      BY <2>1 DEF RateInv, Limiting
    <3> QED
      BY <2>1, <3>1, WindowsBound DEF Limiting
  <2>2. CASE ~(Spread >= 1)
    <3>1. 0..(Spread - 1) = {} /\ cfg.rateN \in Nat \ {0}
      BY <2>2, RateTypes
    <3>2. \A e \in Sent : {f \in Sent : /\ KeyOf[f] = KeyOf[e]
                                        /\ admitted[f] - admitted[e] \in 0..(Spread - 1)} = {}
      BY <3>1
    <3>3. 0 <= 2 * cfg.rateN - 1
      BY <3>1
    <3> QED
      BY <3>2, <3>3, FS_EmptySet
  <2> QED
    BY <2>1, <2>2
<1> QED
  BY <1>1, <1>2, <1>3, FloodTypeOK, FloodStamps, PTL DEF Spec

=============================================================================
