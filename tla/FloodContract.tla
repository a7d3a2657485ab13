--------------------------- MODULE FloodContract ---------------------------
(***************************************************************************)
(* What the rest of the daemon may rely on from the flood controller,      *)
(* whatever the strategy, its tunables and the clock: the life of an event *)
(* from its receipt to the rollup that counts it.  Flood implements it;    *)
(* the pipeline is modelled on top of it.                                  *)
(***************************************************************************)
EXTENDS FiniteSets

CONSTANTS
  Event,    \* the traps of a behaviour
  Key,      \* aggregation keys
  KeyOf     \* the key of each event

VARIABLES
  status,   \* where each event is in its life
  rollups   \* rollups on their way to the channels

vars == <<status, rollups>>

Statuses == {"unseen",    \* not received
             "waiting",   \* received, not admitted
             "gone",      \* the daemon stopped before it was admitted
             "send", "suppress",
             "hold",      \* in a rate window or the digest
             "batched",   \* in a rollup on its way
             "rolledup",  \* in a rollup that was flushed
             "lost"}      \* held once, and forgotten

TypeOK ==
  /\ status \in [Event -> Statuses]
  /\ rollups \in SUBSET (SUBSET Event)

With(s) == {e \in Event : status[e] = s}

\* The status function after the events of S moved to s.
Move(S, s) == [e \in Event |-> IF e \in S THEN s ELSE status[e]]

Init ==
  /\ status = [e \in Event |-> "unseen"]
  /\ rollups = {}

Receive(e) ==
  /\ status[e] = "unseen"
  /\ status' = Move({e}, "waiting")
  /\ UNCHANGED rollups

\* The event opens a new window of its key, or fits into the one there is.  A
\* window that is replaced takes what it held with it.
Send(e) ==
  /\ status[e] = "waiting"
  /\ \E L \in SUBSET {f \in With("hold") : KeyOf[f] = KeyOf[e]} :
       status' = [Move(L, "lost") EXCEPT ![e] = "send"]
  /\ UNCHANGED rollups

\* Only a repetition of an event that was sent is suppressed.
Suppress(e) ==
  /\ status[e] = "waiting"
  /\ \E f \in With("send") : KeyOf[f] = KeyOf[e]
  /\ status' = Move({e}, "suppress")
  /\ UNCHANGED rollups

Hold(e) ==
  /\ status[e] = "waiting"
  /\ status' = Move({e}, "hold")
  /\ UNCHANGED rollups

\* A tick takes held events into rollups, each event into one, and only after
\* the rollups of the tick before are flushed.
Batch(R) ==
  /\ rollups = {}
  /\ R # {} /\ {} \notin R
  /\ UNION R \subseteq With("hold")
  /\ \A r, s \in R : r # s => r \cap s = {}
  /\ rollups' = R
  /\ status' = Move(UNION R, "batched")

Flush(r) ==
  /\ r \in rollups
  /\ rollups' = rollups \ {r}
  /\ status' = Move(r, "rolledup")

\* Nothing the controller or the trap queue holds survives a stop.
Restart ==
  /\ status' = [e \in Event |->
                  IF status[e] = "waiting" THEN "gone"
                  ELSE IF status[e] \in {"hold", "batched"} THEN "lost"
                  ELSE status[e]]
  /\ rollups' = {}

Next ==
  \/ \E e \in Event : Receive(e) \/ Send(e) \/ Suppress(e) \/ Hold(e)
  \/ \E R \in SUBSET (SUBSET With("hold")) : Batch(R)
  \/ \E r \in rollups : Flush(r)
  \/ Restart

Spec == Init /\ [][Next]_vars
=============================================================================
