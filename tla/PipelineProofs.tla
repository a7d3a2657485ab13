--------------------------- MODULE PipelineProofs ---------------------------
(***************************************************************************)
(* Proofs about Pipeline for any traps, replays, channels, rules,          *)
(* severities and queue capacity.                                          *)
(***************************************************************************)
EXTENDS Pipeline, FiniteSetTheorems, TLAPS

USE DEF configuration, tables, processing, flood, Goto

-----------------------------------------------------------------------------
(***************************************************************************)
(* The steps, one by one: what a proof that goes through Next must treat.  *)
(***************************************************************************)
LEMMA Steps_of_Next ==
  ASSUME [Next]_vars
  PROVE  \/ \E t \in Trap :
              \/ Arrive(t) \/ StartReplay(t)
              \/ ReadRules(t) \/ ReadChannels(t) \/ Admit(t) \/ Persist(t)
              \/ FinishSuppressed(t) \/ RecordHeld(t) \/ Resolve(t)
              \/ \E c \in Channel : \/ Record(t, c)
                                    \/ \E s \in {"sent", "failed"} : Finish(t, c, s)
                                    \/ Deliver(t, c)
         \/ Take \/ Batch
         \/ \E r \in rollups : Flush(r)
         \/ Administer
         \/ Restart
         \/ UNCHANGED vars
BY DEF Next, Process

\* Every variable of the pipeline keeps its type.
THEOREM PipelineTypeOK == Spec => []TypeOK
<1> USE TrapAssumption, ConfigurationAssumption, BoundAssumption
<1>1. Init => TypeOK
  <2> SUFFICES ASSUME Init PROVE TypeOK
    OBVIOUS
  <2>1. NoRow \in TrapRow /\ NoDecision \in Decision
    BY DEF NoRow, TrapRow, NoDecision, Decision
  <2> QED
    BY <2>1 DEF Init, TypeOK, Steps, Flood!Init, Flood!TypeOK, Flood!Statuses
<1>2. TypeOK /\ [Next]_vars => TypeOK'
  <2> SUFFICES ASSUME TypeOK, [Next]_vars PROVE TypeOK'
    OBVIOUS
  <2> USE DEF TypeOK, Steps, Flood!TypeOK, Flood!Statuses
  <2>1. ASSUME NEW t \in Trap, Arrive(t) PROVE TypeOK'
    BY <2>1 DEF Arrive, Flood!Receive, Flood!Move
  <2>2. ASSUME NEW t \in Trap, StartReplay(t) PROVE TypeOK'
    BY <2>2 DEF StartReplay, Flood!Receive, Flood!Move
  <2>3. ASSUME NEW t \in Trap, ReadRules(t) PROVE TypeOK'
    <3> DEFINE R == IF RuleOf[t] \in rules THEN RuleOf[t] ELSE None
               D == [severity |-> IF R # None /\ RuleSeverity[R] # None
                                  THEN RuleSeverity[R] ELSE TrapSeverity[t],
                     rule |-> R, channels |-> {}, bypass |-> R \in Bypass]
    <3>1. R \in Rule \cup {None}
      OBVIOUS
    <3>2. D \in Decision
      <4> HIDE DEF R
      <4> QED
        BY <3>1 DEF Decision
    <3>3. decision' = [decision EXCEPT ![t] = D]
      BY <2>3 DEF ReadRules
    <3> HIDE DEF D
    <3>4. decision' \in [Trap -> Decision]
      BY <3>2, <3>3
    <3> QED
      BY <2>3, <3>4 DEF ReadRules
  <2>4. ASSUME NEW t \in Trap, ReadChannels(t) PROVE TypeOK'
    <3>1. PICK X \in SUBSET Channel :
            decision' = [decision EXCEPT ![t].channels = X]
      <4>1. \A r \in Rule : ruleChannels[r] \in SUBSET Channel
        OBVIOUS
      <4>2. \A s \in Severity : routes[s] \in SUBSET Channel
        OBVIOUS
      <4>3. /\ decision[t].rule # None => decision[t].rule \in Rule
            /\ decision[t].severity # None => decision[t].severity \in Severity
        BY DEF Decision
      <4> DEFINE E == IF decision[t].rule # None THEN ruleChannels[decision[t].rule] ELSE {}
                 F == IF decision[t].severity # None THEN routes[decision[t].severity] ELSE {}
      <4>4. E \in SUBSET Channel
        BY <4>1, <4>3
      <4>5. F \in SUBSET Channel
        BY <4>2, <4>3
      <4>6. decision' = [decision EXCEPT ![t].channels = IF E # {} THEN E ELSE F]
        BY <2>4 DEF ReadChannels
      <4> HIDE DEF E, F
      <4> QED
        BY <4>4, <4>5, <4>6
    <3>2. [decision[t] EXCEPT !.channels = X] \in Decision
      <4>1. decision[t] \in Decision
        OBVIOUS
      <4> QED
        BY <4>1 DEF Decision
    <3> DEFINE D == [decision[t] EXCEPT !.channels = X]
    <3>3. decision' = [decision EXCEPT ![t] = D]
      BY <3>1
    <3> HIDE DEF D
    <3>4. decision' \in [Trap -> Decision]
      BY <3>2, <3>3 DEF D
    <3> QED
      BY <2>4, <3>4 DEF ReadChannels
  <2>5. ASSUME NEW t \in Trap, Admit(t) PROVE TypeOK'
    <3>1. CASE UNCHANGED flood
      BY <2>5, <3>1 DEF Admit
    <3>2. CASE Flood!Send(t)
      BY <2>5, <3>2 DEF Admit, Flood!Send, Flood!Move
    <3>3. CASE Flood!Suppress(t) \/ Flood!Hold(t)
      BY <2>5, <3>3 DEF Admit, Flood!Suppress, Flood!Hold, Flood!Move
    <3> QED
      BY <2>5, <3>1, <3>2, <3>3 DEF Admit
  <2>6. ASSUME NEW t \in Trap, Persist(t) PROVE TypeOK'
    <3> DEFINE Row == [stored |-> TRUE, severity |-> decision[t].severity,
                       rule |-> decision[t].rule, suppressed |-> Outcome(t) # "send"]
    <3>1. Row \in TrapRow
      BY DEF TrapRow, Decision
    <3>2. traps' = [traps EXCEPT ![t] = Row] \/ traps' = traps
      BY <2>6 DEF Persist
    <3>3. traps' \in [Trap -> TrapRow]
      <4> HIDE DEF Row
      <4>1. CASE traps' = [traps EXCEPT ![t] = Row]
        BY <3>1, <4>1
      <4>2. CASE traps' = traps
        BY <4>2
      <4> QED
        BY <3>2, <4>1, <4>2
    <3>4. Goto(t, "stored") \/ Goto(t, "failed")
      BY <2>6 DEF Persist
    <3>5. pc' \in [Trap -> Steps]
      BY <3>4
    <3>6. UNCHANGED <<configuration, notes, processing, delivered, life, flood>>
      BY <2>6 DEF Persist
    <3> QED
      BY <3>3, <3>5, <3>6
  <2>7. ASSUME NEW t \in Trap, FinishSuppressed(t) PROVE TypeOK'
    BY <2>7 DEF FinishSuppressed
  <2>8. ASSUME NEW t \in Trap, RecordHeld(t) PROVE TypeOK'
    BY <2>8 DEF RecordHeld
  <2>9. ASSUME NEW t \in Trap, Resolve(t) PROVE TypeOK'
    BY <2>9 DEF Resolve
  <2>10. ASSUME NEW t \in Trap, NEW c \in Channel, Record(t, c) PROVE TypeOK'
    <3>1. results[t][c] \in {"sent", "failed"}
      BY <2>10 DEF Record
    <3>2. [trap |-> t, channel |-> c, status |-> results[t][c]]
            \in [trap : Trap, channel : Channel \cup {None},
                 status : {"sent", "failed", "held"}]
      BY <3>1
    <3>3. notes' \subseteq [trap : Trap, channel : Channel \cup {None},
                           status : {"sent", "failed", "held"}]
      <4> DEFINE n == [trap |-> t, channel |-> c, status |-> results[t][c]]
      <4>1. notes' = notes \cup {n} \/ notes' = notes
        BY <2>10 DEF Record
      <4>2. notes \subseteq [trap : Trap, channel : Channel \cup {None},
                            status : {"sent", "failed", "held"}]
        OBVIOUS
      <4> HIDE DEF n
      <4> QED
        BY ONLY <3>2, <4>1, <4>2 DEF n
    <3>4. results' \in [Trap -> [Channel -> {"none", "sent", "failed"}]]
      BY <2>10 DEF Record
    <3>5. pc' \in [Trap -> Steps]
      <4>1. Goto(t, "done") \/ UNCHANGED pc
        BY <2>10 DEF Record
      <4> QED
        BY <4>1
    <3>6. UNCHANGED <<configuration, traps, queue, decision, targets, delivered,
                      life, flood>>
      BY <2>10 DEF Record
    <3> QED
      BY <3>3, <3>4, <3>5, <3>6
  <2>11. ASSUME NEW t \in Trap, NEW c \in Channel, NEW s \in {"sent", "failed"},
                Finish(t, c, s)
         PROVE TypeOK'
    <3>1. results' \in [Trap -> [Channel -> {"none", "sent", "failed"}]]
      BY <2>11 DEF Finish
    <3>2. Goto(t, "recording") \/ UNCHANGED pc
      BY <2>11 DEF Finish
    <3>3. pc' \in [Trap -> Steps]
      BY <3>2
    <3>4. UNCHANGED <<configuration, tables, queue, decision, targets, delivered,
                      life, flood>>
      BY <2>11 DEF Finish
    <3> QED
      BY <3>1, <3>3, <3>4
  <2>12. ASSUME NEW t \in Trap, NEW c \in Channel, Deliver(t, c) PROVE TypeOK'
    BY <2>12 DEF Deliver
  <2>13. CASE Take
    BY <2>13 DEF Take
  <2>14. CASE Batch
    BY <2>14 DEF Batch, Flood!Batch, Flood!Move, Flood!With
  <2>15. ASSUME NEW r \in rollups, Flush(r) PROVE TypeOK'
    BY <2>15 DEF Flush, Flood!Flush, Flood!Move
  <2>16. CASE Administer
    <3>1. ASSUME NEW r \in Rule, DeleteRule(r) PROVE TypeOK'
      BY <2>16, <3>1 DEF Administer, DeleteRule
    <3>2. ASSUME NEW c \in Channel, DeleteChannel(c) PROVE TypeOK'
      BY <2>16, <3>2 DEF Administer, DeleteChannel
    <3>3. ASSUME NEW c \in Channel, UpdateChannel(c) PROVE TypeOK'
      BY <2>16, <3>3 DEF Administer, UpdateChannel
    <3>4. ASSUME NEW s \in Severity, DeleteSeverity(s) PROVE TypeOK'
      BY <2>16, <3>4 DEF Administer, DeleteSeverity
    <3> QED
      BY <2>16, <3>1, <3>2, <3>3, <3>4 DEF Administer
  <2>17. CASE Restart
    <3>1. /\ pc' \in [Trap -> Steps] /\ results' \in [Trap -> [Channel -> {"none", "sent", "failed"}]]
          /\ queue' = <<>> /\ life' \in 0..MaxRestarts
          /\ UNCHANGED <<configuration, tables, decision, targets, delivered>>
      BY <2>17 DEF Restart
    <3>2. status' \in [Trap -> Flood!Statuses] /\ rollups' = {}
      BY <2>17 DEF Restart, Flood!Restart
    <3> QED
      BY <3>1, <3>2
  <2>18. CASE UNCHANGED vars
    BY <2>18 DEF vars
  <2> QED
    <3> HIDE DEF TypeOK
    <3>1. ASSUME NEW t \in Trap,
                 \/ Arrive(t) \/ StartReplay(t) \/ ReadRules(t)
                 \/ ReadChannels(t) \/ Admit(t) \/ Persist(t)
                 \/ FinishSuppressed(t) \/ RecordHeld(t) \/ Resolve(t)
          PROVE  TypeOK'
      BY ONLY <2>1, <2>2, <2>3, <2>4, <2>5, <2>6, <2>7, <2>8, <2>9, <3>1
    <3> QED
      BY <2>10, <2>11, <2>12, <2>13, <2>14, <2>15, <2>16, <2>17, <2>18, <3>1,
         Steps_of_Next
<1> QED
  BY <1>1, <1>2, PTL DEF Spec

-----------------------------------------------------------------------------
(***************************************************************************)
(* What is delivered was stored.  The gate's answer is read off the status *)
(* of a trap, which other traps' admissions, the ticker and a restart go   *)
(* on changing: it must first be shown that, once given, it does not turn. *)
(***************************************************************************)
Undecided == {"new", "queued", "taken", "ruled", "classified"}

\* A rollup counts only traps that were held.
RollupsHeld == \A r \in rollups : \A t \in r : status[t] \in {"batched", "rolledup"}

\* Only a trap that was stored as sent gets channels to be dispatched to.
TargetsStored ==
  \A t \in Trap : targets[t] # {} =>
    /\ pc[t] \in {"dispatching", "recording", "done", "killed"}
    /\ traps[t].stored /\ ~traps[t].suppressed
    /\ Outcome(t) = "send"

\* The row of a trap that was just stored says what the gate answered.
RowOfOutcome ==
  \A t \in Trap : pc[t] = "stored" =>
    traps[t].stored /\ (traps[t].suppressed <=> Outcome(t) # "send")

DeliveredToTargets == \A t \in Trap, c \in Channel : <<t, c>> \in delivered => c \in targets[t]

\* Nothing the flood controller does makes a rollup count a trap that was not held.
LEMMA FloodKeepsRollups ==
  ASSUME TypeOK, RollupsHeld,
         \/ \E t \in Trap : Flood!Receive(t) \/ Flood!Send(t) \/ Flood!Suppress(t)
                            \/ Flood!Hold(t)
         \/ \E R \in SUBSET (SUBSET Flood!With("hold")) : Flood!Batch(R)
         \/ \E r \in rollups : Flood!Flush(r)
         \/ Flood!Restart
         \/ UNCHANGED flood
  PROVE  RollupsHeld'
<1> USE DEF TypeOK, RollupsHeld, Flood!TypeOK, Flood!Statuses, Flood!Move, Flood!With
<1>1. CASE \E t \in Trap : Flood!Receive(t) \/ Flood!Suppress(t) \/ Flood!Hold(t)
  BY <1>1 DEF Flood!Receive, Flood!Suppress, Flood!Hold
<1>2. CASE \E t \in Trap : Flood!Send(t)
  BY <1>2 DEF Flood!Send
<1>3. CASE \E R \in SUBSET (SUBSET Flood!With("hold")) : Flood!Batch(R)
  BY <1>3 DEF Flood!Batch
<1>4. CASE \E r \in rollups : Flood!Flush(r)
  BY <1>4 DEF Flood!Flush
<1>5. CASE Flood!Restart
  BY <1>5 DEF Flood!Restart
<1>6. CASE UNCHANGED flood
  BY <1>6
<1> QED
  BY <1>1, <1>2, <1>3, <1>4, <1>5, <1>6

\* What a step does to the flood controller.
LEMMA FloodSteps ==
  ASSUME [Next]_vars
  PROVE  \/ \E t \in Trap :
              \/ Flood!Receive(t) /\ pc[t] = "new"
              \/ /\ Flood!Send(t) \/ Flood!Suppress(t) \/ Flood!Hold(t)
                 /\ pc[t] = "classified"
         \/ \E R \in SUBSET (SUBSET Flood!With("hold")) : Flood!Batch(R)
         \/ \E r \in rollups : Flood!Flush(r)
         \/ Flood!Restart
         \/ UNCHANGED flood
<1>1. ASSUME NEW t \in Trap, Arrive(t) \/ StartReplay(t)
      PROVE  Flood!Receive(t) /\ pc[t] = "new"
  BY <1>1 DEF Arrive, StartReplay
<1>2. ASSUME NEW t \in Trap, Admit(t)
      PROVE  \/ UNCHANGED flood
             \/ /\ Flood!Send(t) \/ Flood!Suppress(t) \/ Flood!Hold(t)
                /\ pc[t] = "classified"
  BY <1>2 DEF Admit
<1>3. ASSUME NEW t \in Trap, 
             \/ ReadRules(t) \/ ReadChannels(t) \/ Persist(t)
             \/ FinishSuppressed(t) \/ RecordHeld(t) \/ Resolve(t)
      PROVE  UNCHANGED flood
  BY <1>3 DEF ReadRules, ReadChannels, Persist, FinishSuppressed, RecordHeld, Resolve
<1>4. ASSUME NEW t \in Trap, NEW c \in Channel,
             \/ Record(t, c) \/ Deliver(t, c)
             \/ \E s \in {"sent", "failed"} : Finish(t, c, s)
      PROVE  UNCHANGED flood
  BY <1>4 DEF Record, Deliver, Finish
<1>5. CASE Take \/ Administer \/ UNCHANGED vars
  BY <1>5 DEF Take, Administer, vars
<1>6. CASE Batch \/ Restart \/ \E r \in rollups : Flush(r)
  BY <1>6 DEF Batch, Restart, Flush
<1> QED
  BY <1>1, <1>2, <1>3, <1>4, <1>5, <1>6, Steps_of_Next

\* Once a trap has passed the gate, nothing turns the answer.
LEMMA OutcomeKept ==
  ASSUME TypeOK, RollupsHeld, [Next]_vars,
         NEW t \in Trap, pc[t] \notin Undecided
  PROVE  Outcome(t)' = Outcome(t)
<1> USE DEF TypeOK, Flood!TypeOK, Flood!Statuses, Undecided
<1>1. decision'[t].bypass = decision[t].bypass
  <2>1. CASE \E u \in Trap : ReadRules(u) \/ ReadChannels(u)
    BY <2>1 DEF ReadRules, ReadChannels
  <2>2. CASE decision' = decision
    BY <2>2
  <2>3. ASSUME NEW u \in Trap,
               \/ Arrive(u) \/ StartReplay(u) \/ Admit(u) \/ Persist(u)
               \/ FinishSuppressed(u) \/ RecordHeld(u) \/ Resolve(u)
        PROVE  decision' = decision
    BY <2>3 DEF Arrive, StartReplay, Admit, Persist, FinishSuppressed, RecordHeld, Resolve
  <2>4. ASSUME NEW u \in Trap, NEW c \in Channel,
               \/ Record(u, c) \/ Deliver(u, c)
               \/ \E s \in {"sent", "failed"} : Finish(u, c, s)
        PROVE  decision' = decision
    BY <2>4 DEF Record, Deliver, Finish
  <2>5. CASE Take \/ Administer \/ UNCHANGED vars \/ Batch \/ Restart
             \/ \E r \in rollups : Flush(r)
    <3>1. decision' = decision
      BY <2>5 DEF Take, Administer, vars, Batch, Restart, Flush
    <3> QED
      BY <3>1
  <2> QED
    BY <2>1, <2>2, <2>3, <2>4, <2>5, Steps_of_Next
<1>2. /\ status'[t] = "send" <=> status[t] = "send"
      /\ status'[t] = "suppress" <=> status[t] = "suppress"
  <2> USE DEF Flood!Move, Flood!With
  <2>1. CASE \E u \in Trap : Flood!Receive(u) /\ pc[u] = "new"
    BY <2>1 DEF Flood!Receive
  <2>2. CASE \E u \in Trap : /\ Flood!Send(u) \/ Flood!Suppress(u) \/ Flood!Hold(u)
                             /\ pc[u] = "classified"
    BY <2>2 DEF Flood!Send, Flood!Suppress, Flood!Hold
  <2>3. CASE \E R \in SUBSET (SUBSET Flood!With("hold")) : Flood!Batch(R)
    BY <2>3 DEF Flood!Batch
  <2>4. CASE \E r \in rollups : Flood!Flush(r)
    <3>1. PICK r \in rollups : status' = Flood!Move(r, "rolledup")
      BY <2>4 DEF Flood!Flush
    <3>2. t \in r => status[t] \notin {"send", "suppress"}
      BY <3>1 DEF RollupsHeld
    <3>3. status'[t] = IF t \in r THEN "rolledup" ELSE status[t]
      BY <3>1
    <3> QED
      BY <3>2, <3>3
  <2>5. CASE Flood!Restart
    BY <2>5 DEF Flood!Restart
  <2>6. CASE UNCHANGED flood
    BY <2>6
  <2> QED
    BY <2>1, <2>2, <2>3, <2>4, <2>5, <2>6, FloodSteps
<1> QED
  BY ONLY <1>1, <1>2, Zenon DEF Outcome


\* A trap waits in the queue once, and has not been touched yet.
QueuedOnce ==
  \A i \in 1..Len(queue) :
    /\ pc[queue[i]] = "queued"
    /\ \A j \in 1..Len(queue) : queue[i] = queue[j] => i = j

\* The listener, Run and a restart keep the traps in the queue distinct and untouched.
LEMMA QueuedOnceStep ==
  ASSUME TypeOK, QueuedOnce, [Next]_vars
  PROVE  QueuedOnce'
<1> USE DEF TypeOK
<1> DEFINE N == 1..Len(queue)
<1>0. \A i \in N : queue[i] \in Trap
  OBVIOUS
<1>1. ASSUME NEW t \in Trap, Arrive(t) PROVE QueuedOnce'
  <2>1. /\ queue' = Append(queue, t)
        /\ pc' = [pc EXCEPT ![t] = "queued"]
        /\ pc[t] = "new"
    BY <1>1 DEF Arrive
  <2>2. \A i \in N : queue[i] # t
    BY <2>1 DEF QueuedOnce
  <2>3. /\ Len(queue') = Len(queue) + 1
        /\ \A i \in N : queue'[i] = queue[i]
        /\ queue'[Len(queue) + 1] = t
    BY <2>1
  <2>4. \A i \in N : pc'[queue[i]] = "queued"
    BY <1>0, <2>1, <2>2 DEF QueuedOnce
  <2>5. pc'[t] = "queued"
    BY <2>1
  <2>6. \A i \in 1..Len(queue') : i \in N \/ i = Len(queue) + 1
    BY <2>3
  <2> HIDE DEF TypeOK
  <2>7. \A i \in 1..Len(queue') : pc'[queue'[i]] = "queued"
    BY <2>3, <2>4, <2>5, <2>6
  <2>8. \A i, j \in 1..Len(queue') : queue'[i] = queue'[j] => i = j
    <3>1. SUFFICES ASSUME NEW i \in 1..Len(queue'), NEW j \in 1..Len(queue'),
                          queue'[i] = queue'[j]
                   PROVE  i = j
      OBVIOUS
    <3>2. CASE i \in N /\ j \in N
      BY <2>3, <3>1, <3>2 DEF QueuedOnce
    <3>3. CASE i \in N /\ j = Len(queue) + 1
      BY <2>2, <2>3, <3>1, <3>3
    <3>4. CASE i = Len(queue) + 1 /\ j \in N
      BY <2>2, <2>3, <3>1, <3>4
    <3> QED
      BY <2>6, <3>2, <3>3, <3>4
  <2> QED
    BY <2>7, <2>8 DEF QueuedOnce
<1>2. CASE Take
  <2>1. /\ queue # <<>> /\ queue' = Tail(queue)
        /\ pc' = [pc EXCEPT ![queue[1]] = "taken"]
    BY <1>2 DEF Take
  <2>2. /\ Len(queue') = Len(queue) - 1
        /\ \A i \in 1..Len(queue') : i + 1 \in N /\ queue'[i] = queue[i + 1]
    BY <2>1
  <2>3. 1 \in N
    BY <2>1
  <2>4. \A i \in 1..Len(queue') : queue'[i] # queue[1]
    BY <2>2, <2>3 DEF QueuedOnce
  <2>5. \A i \in 1..Len(queue') : pc'[queue'[i]] = "queued"
    <3> SUFFICES ASSUME NEW i \in 1..Len(queue') PROVE pc'[queue'[i]] = "queued"
      OBVIOUS
    <3>1. i + 1 \in N /\ queue'[i] = queue[i + 1] /\ queue'[i] # queue[1]
      BY <2>2, <2>4
    <3>2. pc[queue'[i]] = "queued" /\ queue'[i] \in Trap
      BY <1>0, <3>1 DEF QueuedOnce
    <3> QED
      BY <2>1, <3>1, <3>2
  <2>6. \A i, j \in 1..Len(queue') : queue'[i] = queue'[j] => i = j
    <3> SUFFICES ASSUME NEW i \in 1..Len(queue'), NEW j \in 1..Len(queue'),
                        queue'[i] = queue'[j]
                 PROVE  i = j
      OBVIOUS
    <3>1. i + 1 \in N /\ j + 1 \in N /\ queue[i + 1] = queue[j + 1]
      BY <2>2
    <3>2. i + 1 = j + 1
      BY <3>1 DEF QueuedOnce
    <3> QED
      BY <3>2
  <2> QED
    BY <2>5, <2>6 DEF QueuedOnce
<1>3. CASE queue' = queue /\ \A t \in Trap : pc[t] = "queued" => pc'[t] = "queued"
  BY <1>0, <1>3 DEF QueuedOnce
<1>4. CASE Restart
  BY <1>4 DEF Restart, QueuedOnce
<1>5. ASSUME NEW t \in Trap,
             \/ StartReplay(t)
             \/ ReadRules(t) \/ ReadChannels(t) \/ Admit(t) \/ Persist(t)
             \/ FinishSuppressed(t) \/ RecordHeld(t) \/ Resolve(t)
      PROVE  QueuedOnce'
  <2>1. queue' = queue /\ pc[t] # "queued" /\ \E s \in Steps : pc' = [pc EXCEPT ![t] = s]
    BY <1>5 DEF StartReplay, ReadRules, ReadChannels, Admit, Persist, FinishSuppressed,
                RecordHeld, Resolve, Steps
  <2> QED
    BY <2>1, <1>3
<1>6. ASSUME NEW t \in Trap, NEW c \in Channel,
             \/ Record(t, c) \/ Deliver(t, c)
             \/ \E s \in {"sent", "failed"} : Finish(t, c, s)
      PROVE  QueuedOnce'
  <2>1. queue' = queue /\ \A u \in Trap : pc[u] = "queued" => pc'[u] = "queued"
    BY <1>6 DEF Record, Deliver, Finish
  <2> QED
    BY <2>1, <1>3
<1>7. CASE Batch \/ Administer \/ UNCHANGED vars \/ \E r \in rollups : Flush(r)
  <2>1. queue' = queue /\ pc' = pc
    BY <1>7 DEF Batch, Administer, vars, Flush
  <2> QED
    BY <2>1, <1>3
<1> QED
  BY <1>1, <1>2, <1>4, <1>5, <1>6, <1>7, Steps_of_Next

DeliveryInv ==
  /\ TypeOK /\ RollupsHeld /\ QueuedOnce
  /\ TargetsStored /\ RowOfOutcome /\ DeliveredToTargets

\* A step that moves no trap to another channel set, row or answer.
LEMMA SettledSteps ==
  ASSUME DeliveryInv, [Next]_vars, TypeOK',
         traps' = traps, targets' = targets, delivered' = delivered,
         \A t \in Trap : targets[t] # {} =>
           pc'[t] \in {"dispatching", "recording", "done", "killed"},
         \A t \in Trap : pc'[t] = "stored" => pc[t] = "stored"
  PROVE  TargetsStored' /\ RowOfOutcome' /\ DeliveredToTargets'
<1> USE DEF DeliveryInv
<1>1. ASSUME NEW t \in Trap, pc[t] \notin Undecided
      PROVE  Outcome(t)' = "send" <=> Outcome(t) = "send"
  BY <1>1, OutcomeKept
<1>2. TargetsStored'
  BY <1>1 DEF TargetsStored, Undecided
<1>3. RowOfOutcome'
  BY <1>1 DEF RowOfOutcome, Undecided
<1>4. DeliveredToTargets'
  BY DEF DeliveredToTargets
<1> QED
  BY <1>2, <1>3, <1>4

\* Every step keeps deliveries within the channels of traps stored as sent.
LEMMA DeliveryInvStep ==
  ASSUME DeliveryInv, [Next]_vars, TypeOK'
  PROVE  DeliveryInv'
<1> USE DEF DeliveryInv
<1>1. RollupsHeld'
  <2>1. \/ \E t \in Trap : Flood!Receive(t) \/ Flood!Send(t) \/ Flood!Suppress(t)
                            \/ Flood!Hold(t)
        \/ \E R \in SUBSET (SUBSET Flood!With("hold")) : Flood!Batch(R)
        \/ \E r \in rollups : Flood!Flush(r)
        \/ Flood!Restart
        \/ UNCHANGED flood
    BY FloodSteps
  <2> QED
    BY <2>1, FloodKeepsRollups
<1>2. TargetsStored' /\ RowOfOutcome' /\ DeliveredToTargets'
  <2>1. ASSUME NEW t \in Trap,
               \/ Arrive(t) \/ StartReplay(t)
               \/ ReadRules(t) \/ ReadChannels(t) \/ Admit(t)
               \/ FinishSuppressed(t) \/ RecordHeld(t)
        PROVE  TargetsStored' /\ RowOfOutcome' /\ DeliveredToTargets'
    <3>1. UNCHANGED <<traps, targets, delivered>>
      BY <2>1 DEF Arrive, StartReplay, ReadRules, ReadChannels, Admit,
                  FinishSuppressed, RecordHeld
    <3>2. /\ pc[t] \in Undecided \cup {"stored"}
          /\ \E s \in Steps \ {"stored"} : pc' = [pc EXCEPT ![t] = s]
      BY <2>1 DEF Arrive, StartReplay, ReadRules, ReadChannels, Admit,
                  FinishSuppressed, RecordHeld, Undecided, Steps
    <3>3. targets[t] = {}
      BY <3>2 DEF TargetsStored, Undecided
    <3>4. /\ \A u \in Trap : targets[u] # {} =>
               pc'[u] \in {"dispatching", "recording", "done", "killed"}
          /\ \A u \in Trap : pc'[u] = "stored" => pc[u] = "stored"
      BY <3>2, <3>3 DEF TargetsStored, TypeOK
    <3> QED
      BY <3>1, <3>4, SettledSteps
  <2>2. ASSUME NEW t \in Trap, Persist(t)
        PROVE  TargetsStored' /\ RowOfOutcome' /\ DeliveredToTargets'
    <3>1. pc[t] = "admitted" /\ targets[t] = {}
      BY <2>2 DEF Persist, TargetsStored
    <3>2. UNCHANGED <<targets, delivered, decision, flood>>
      BY <2>2 DEF Persist
    <3>3. \A u \in Trap : Outcome(u)' = Outcome(u)
      BY <3>2 DEF Outcome
    <3>4. \A u \in Trap \ {t} : pc'[u] = pc[u] /\ traps'[u] = traps[u]
      BY <2>2 DEF Persist, TypeOK
    <3>5. \/ pc'[t] = "failed"
          \/ traps'[t].stored /\ (traps'[t].suppressed <=> Outcome(t) # "send")
      <4> DEFINE Row == [stored |-> TRUE, severity |-> decision[t].severity,
                         rule |-> decision[t].rule, suppressed |-> Outcome(t) # "send"]
      <4>1. pc' = [pc EXCEPT ![t] = "failed"] \/ traps' = [traps EXCEPT ![t] = Row]
        BY <2>2 DEF Persist
      <4>2. Row.stored /\ (Row.suppressed <=> Outcome(t) # "send")
        OBVIOUS
      <4> HIDE DEF Row
      <4>3. pc'[t] = "failed" \/ traps'[t] = Row
        BY <4>1 DEF TypeOK
      <4> QED
        BY <4>2, <4>3
    <3>6. TargetsStored'
      BY <3>1, <3>2, <3>3, <3>4 DEF TargetsStored
    <3>7. RowOfOutcome'
      BY <3>3, <3>4, <3>5 DEF RowOfOutcome
    <3> QED
      BY <3>2, <3>6, <3>7 DEF DeliveredToTargets
  <2>3. ASSUME NEW t \in Trap, Resolve(t)
        PROVE  TargetsStored' /\ RowOfOutcome' /\ DeliveredToTargets'
    <3>1. /\ pc[t] = "stored" /\ Outcome(t) = "send"
          /\ targets[t] = {}
          /\ traps[t].stored /\ ~traps[t].suppressed
      BY <2>3 DEF Resolve, RowOfOutcome, TargetsStored
    <3>2. UNCHANGED <<traps, delivered, decision, flood>>
      BY <2>3 DEF Resolve
    <3>3. \A u \in Trap : Outcome(u)' = Outcome(u)
      BY <3>2 DEF Outcome
    <3>4. \A u \in Trap \ {t} : pc'[u] = pc[u] /\ targets'[u] = targets[u]
      BY <2>3 DEF Resolve, TypeOK
    <3>5. pc'[t] \in {"done", "dispatching"}
      BY <2>3 DEF Resolve, TypeOK
    <3>6. TargetsStored'
      BY <3>1, <3>2, <3>3, <3>4, <3>5 DEF TargetsStored
    <3>7. RowOfOutcome'
      BY <3>2, <3>3, <3>4, <3>5 DEF RowOfOutcome
    <3>8. DeliveredToTargets'
      BY <3>1, <3>2, <3>4 DEF DeliveredToTargets
    <3> QED
      BY <3>6, <3>7, <3>8
  <2>4. ASSUME NEW t \in Trap, NEW c \in Channel,
               Record(t, c) \/ \E s \in {"sent", "failed"} : Finish(t, c, s)
        PROVE  TargetsStored' /\ RowOfOutcome' /\ DeliveredToTargets'
    <3>1. UNCHANGED <<traps, targets, delivered>>
      BY <2>4 DEF Record, Finish
    <3>2. \A u \in Trap : pc'[u] = pc[u] \/ pc'[u] \in {"recording", "done"}
      BY <2>4 DEF Record, Finish, TypeOK
    <3>3. /\ \A u \in Trap : targets[u] # {} =>
               pc'[u] \in {"dispatching", "recording", "done", "killed"}
          /\ \A u \in Trap : pc'[u] = "stored" => pc[u] = "stored"
      BY <3>2 DEF TargetsStored
    <3> QED
      BY <3>1, <3>3, SettledSteps
  <2>5. ASSUME NEW t \in Trap, NEW c \in Channel, Deliver(t, c)
        PROVE  TargetsStored' /\ RowOfOutcome' /\ DeliveredToTargets'
    <3>1. UNCHANGED <<traps, targets, pc, decision, flood>>
      BY <2>5 DEF Deliver
    <3>2. c \in targets[t] /\ delivered' = delivered \cup {<<t, c>>}
      BY <2>5 DEF Deliver
    <3>3. \A u \in Trap : Outcome(u)' = Outcome(u)
      BY <3>1 DEF Outcome
    <3> QED
      BY <3>1, <3>2, <3>3 DEF TargetsStored, RowOfOutcome, DeliveredToTargets
  <2>6. CASE Take
    <3>1. UNCHANGED <<traps, targets, delivered>>
      BY <2>6 DEF Take
    <3>2. queue[1] \in Trap /\ pc[queue[1]] = "queued"
      BY <2>6 DEF Take, TypeOK, QueuedOnce
    <3>3. pc' = [pc EXCEPT ![queue[1]] = "taken"]
      BY <2>6 DEF Take
    <3>4. /\ \A u \in Trap : targets[u] # {} =>
               pc'[u] \in {"dispatching", "recording", "done", "killed"}
          /\ \A u \in Trap : pc'[u] = "stored" => pc[u] = "stored"
      BY <3>2, <3>3 DEF TargetsStored, TypeOK
    <3> QED
      BY <3>1, <3>4, SettledSteps
  <2>7. CASE Batch \/ Administer \/ UNCHANGED vars \/ \E r \in rollups : Flush(r)
    <3>1. UNCHANGED <<traps, targets, delivered, pc>>
      BY <2>7 DEF Batch, Administer, vars, Flush
    <3>2. \A u \in Trap : targets[u] # {} =>
            pc'[u] \in {"dispatching", "recording", "done", "killed"}
      BY <3>1 DEF TargetsStored
    <3> QED
      BY <3>1, <3>2, SettledSteps
  <2>8. CASE Restart
    <3>1. UNCHANGED <<traps, targets, delivered>>
      BY <2>8 DEF Restart
    <3>2. \A u \in Trap : pc'[u] = pc[u] \/ pc'[u] = "killed"
      BY <2>8 DEF Restart
    <3>3. /\ \A u \in Trap : targets[u] # {} =>
               pc'[u] \in {"dispatching", "recording", "done", "killed"}
          /\ \A u \in Trap : pc'[u] = "stored" => pc[u] = "stored"
      BY <3>2 DEF TargetsStored
    <3> QED
      BY <3>1, <3>3, SettledSteps
  <2> QED
    BY <2>1, <2>2, <2>3, <2>4, <2>5, <2>6, <2>7, <2>8, Steps_of_Next
<1>3. QueuedOnce'
  BY QueuedOnceStep
<1> QED
  BY <1>1, <1>2, <1>3

\* Deliveries stay within the channels of traps stored as sent.
THEOREM PipelineDeliveryInv == Spec => []DeliveryInv
<1>1. Init => TargetsStored /\ RowOfOutcome /\ DeliveredToTargets /\ RollupsHeld /\ QueuedOnce
  BY DEF Init, TargetsStored, RowOfOutcome, DeliveredToTargets, RollupsHeld, QueuedOnce,
         Flood!Init
<1>2. TypeOK /\ TypeOK' /\ DeliveryInv /\ [Next]_vars => DeliveryInv'
  BY DeliveryInvStep
<1>3. TypeOK /\ TargetsStored /\ RowOfOutcome /\ DeliveredToTargets /\ RollupsHeld
      /\ QueuedOnce => DeliveryInv
  BY DEF DeliveryInv
<1> QED
  BY <1>1, <1>2, <1>3, PipelineTypeOK, PTL DEF Spec

\* No message about a single trap ever reaches a provider unless the trap is in
\* the history as sent, for any traps, channels, queue and number of restarts.
THEOREM PipelineNotifiedIsStored == Spec => []NotifiedIsStored
<1>1. DeliveryInv => NotifiedIsStored
  BY DEF DeliveryInv, TargetsStored, DeliveredToTargets, NotifiedIsStored, Stored
<1> QED
  BY <1>1, PipelineDeliveryInv, PTL

-----------------------------------------------------------------------------
(***************************************************************************)
(* The history tables against the administrator and the providers.         *)
(***************************************************************************)

\* Between its insert and the last row about it a trap is in the history.
InHistory ==
  \A t \in Trap : pc[t] \in {"stored", "dispatching", "recording"} => traps[t].stored

HistoryInv == TypeOK /\ InHistory /\ HistoryIntact

\* No insert of Process and no deletion of the administrator leaves a reference
\* without its row.
LEMMA HistoryInvStep ==
  ASSUME HistoryInv, [Next]_vars
  PROVE  InHistory' /\ HistoryIntact'
<1> USE DEF HistoryInv
<1>1. ASSUME UNCHANGED <<rules, severities, channels, traps, notes>>
      PROVE  HistoryIntact'
  BY <1>1 DEF HistoryIntact, Stored
<1>2. ASSUME NEW t \in Trap,
             \/ Arrive(t) \/ StartReplay(t)
             \/ ReadRules(t) \/ ReadChannels(t) \/ Admit(t)
             \/ FinishSuppressed(t) \/ Resolve(t)
      PROVE  InHistory' /\ HistoryIntact'
  <2>1. UNCHANGED <<rules, severities, channels, traps, notes>>
    BY <1>2 DEF Arrive, StartReplay, ReadRules, ReadChannels, Admit,
                FinishSuppressed, Resolve
  <2>2. /\ \E s \in Steps : pc' = [pc EXCEPT ![t] = s]
        /\ pc'[t] \in {"stored", "dispatching", "recording"} => pc[t] = "stored"
    BY <1>2 DEF Arrive, StartReplay, ReadRules, ReadChannels, Admit,
                FinishSuppressed, Resolve, TypeOK, Steps
  <2> QED
    BY <1>1, <2>1, <2>2 DEF InHistory, TypeOK
<1>3. ASSUME NEW t \in Trap, Persist(t)
      PROVE  InHistory' /\ HistoryIntact'
  <2> DEFINE Row == [stored |-> TRUE, severity |-> decision[t].severity,
                     rule |-> decision[t].rule, suppressed |-> Outcome(t) # "send"]
  <2>1. UNCHANGED <<rules, severities, channels, notes>>
    BY <1>3 DEF Persist
  <2>2. \/ /\ decision[t].severity \in severities \cup {None}
           /\ decision[t].rule \in rules \cup {None}
           /\ traps' = [traps EXCEPT ![t] = Row]
           /\ pc' = [pc EXCEPT ![t] = "stored"]
        \/ traps' = traps /\ pc' = [pc EXCEPT ![t] = "failed"]
    BY <1>3 DEF Persist, TrapRowValid
  <2>3. Row.stored /\ Row.severity = decision[t].severity /\ Row.rule = decision[t].rule
    OBVIOUS
  <2> HIDE DEF Row
  <2>4. CASE traps' = traps /\ pc' = [pc EXCEPT ![t] = "failed"]
    BY <1>1, <2>1, <2>4 DEF InHistory, TypeOK
  <2>5. CASE /\ decision[t].severity \in severities \cup {None}
             /\ decision[t].rule \in rules \cup {None}
             /\ traps' = [traps EXCEPT ![t] = Row]
             /\ pc' = [pc EXCEPT ![t] = "stored"]
    <3>1. traps'[t] = Row /\ \A u \in Trap \ {t} : traps'[u] = traps[u] /\ pc'[u] = pc[u]
      BY <2>5 DEF TypeOK
    <3>2. InHistory'
      BY <2>3, <3>1 DEF InHistory
    <3>3. Stored' = Stored \cup {t}
      BY <2>3, <3>1 DEF Stored
    <3>4. HistoryIntact'
      BY <2>1, <2>3, <2>5, <3>1, <3>3 DEF HistoryIntact
    <3> QED
      BY <3>2, <3>4
  <2> QED
    BY <2>2, <2>4, <2>5
<1>4. ASSUME NEW t \in Trap, RecordHeld(t)
      PROVE  InHistory' /\ HistoryIntact'
  <2>1. /\ UNCHANGED <<rules, severities, channels, traps>>
        /\ pc[t] = "stored" /\ pc' = [pc EXCEPT ![t] = "done"]
        /\ notes' = notes \cup {[trap |-> t, channel |-> None, status |-> "held"]}
    BY <1>4 DEF RecordHeld
  <2>2. t \in Stored
    BY <2>1 DEF InHistory, Stored
  <2> QED
    BY <2>1, <2>2 DEF InHistory, HistoryIntact, Stored, TypeOK
<1>5. ASSUME NEW t \in Trap, NEW c \in Channel, Record(t, c)
      PROVE  InHistory' /\ HistoryIntact'
  <2>1. /\ UNCHANGED <<rules, severities, channels, traps>>
        /\ pc[t] = "recording" /\ (pc' = [pc EXCEPT ![t] = "done"] \/ pc' = pc)
        /\ \/ notes' = notes
           \/ /\ c \in channels
              /\ notes' = notes \cup
                   {[trap |-> t, channel |-> c, status |-> results[t][c]]}
    BY <1>5 DEF Record
  <2>2. t \in Stored
    BY <2>1 DEF InHistory, Stored
  <2>3. InHistory'
    BY <2>1 DEF InHistory, TypeOK
  <2>4. HistoryIntact'
    BY <2>1, <2>2 DEF HistoryIntact, Stored
  <2> QED
    BY <2>3, <2>4
<1>6. ASSUME NEW t \in Trap, NEW c \in Channel,
             Deliver(t, c) \/ \E s \in {"sent", "failed"} : Finish(t, c, s)
      PROVE  InHistory' /\ HistoryIntact'
  <2>1. UNCHANGED <<rules, severities, channels, traps, notes>>
    BY <1>6 DEF Deliver, Finish
  <2>2. \A u \in Trap : pc'[u] = pc[u] \/ pc[u] = "dispatching"
    BY <1>6 DEF Deliver, Finish, TypeOK
  <2> QED
    BY <1>1, <2>1, <2>2 DEF InHistory
<1>7. CASE Take \/ Restart
  <2>1. UNCHANGED <<rules, severities, channels, traps, notes>>
    BY <1>7 DEF Take, Restart
  <2>2. \A u \in Trap : pc'[u] = pc[u] \/ pc'[u] \in {"taken", "killed"}
    BY <1>7 DEF Take, Restart, TypeOK
  <2> QED
    BY <1>1, <2>1, <2>2 DEF InHistory
<1>8. CASE Administer
  <2>1. UNCHANGED <<traps, notes, pc>>
    BY <1>8 DEF Administer
  <2>2. ASSUME NEW r \in Rule, DeleteRule(r) PROVE HistoryIntact'
    BY <2>1, <2>2 DEF DeleteRule, RuleReferenced, HistoryIntact, Stored
  <2>3. ASSUME NEW c \in Channel, DeleteChannel(c) PROVE HistoryIntact'
    BY <2>1, <2>3 DEF DeleteChannel, ChannelReferenced, HistoryIntact, Stored
  <2>4. ASSUME NEW s \in Severity, DeleteSeverity(s) PROVE HistoryIntact'
    BY <2>1, <2>4 DEF DeleteSeverity, SeverityReferenced, HistoryIntact, Stored
  <2>5. ASSUME NEW c \in Channel, UpdateChannel(c) PROVE HistoryIntact'
    BY <2>1, <2>5, <1>1 DEF UpdateChannel
  <2> QED
    BY <1>8, <2>1, <2>2, <2>3, <2>4, <2>5 DEF Administer, InHistory
<1>9. CASE Batch \/ UNCHANGED vars \/ \E r \in rollups : Flush(r)
  <2>1. UNCHANGED <<rules, severities, channels, traps, notes, pc>>
    BY <1>9 DEF Batch, vars, Flush
  <2> QED
    BY <1>1, <2>1 DEF InHistory
<1> QED
  BY <1>2, <1>3, <1>4, <1>5, <1>6, <1>7, <1>8, <1>9, Steps_of_Next

\* History never dangles, whatever rows an administrator deletes between the
\* queries of however many traps.
THEOREM PipelineHistoryIntact == Spec => []HistoryIntact
<1>1. Init => InHistory /\ HistoryIntact
  BY DEF Init, InHistory, HistoryIntact, Stored, NoRow
<1>2. TypeOK /\ InHistory /\ HistoryIntact /\ [Next]_vars => InHistory' /\ HistoryIntact'
  BY HistoryInvStep DEF HistoryInv
<1> QED
  BY <1>1, <1>2, PipelineTypeOK, PTL DEF Spec

-----------------------------------------------------------------------------
(***************************************************************************)
(* The notification rows of a trap against what became of it.  They are    *)
(* written one by one, each in a step of its own, while channels vanish,   *)
(* so the invariant says at every point of the recording which rows are    *)
(* there and which results are still to be written.                        *)
(***************************************************************************)
HeldRow(t) == [trap |-> t, channel |-> None, status |-> "held"]

\* Rows about a trap are written in the last phase of its processing.
RowsLate == \A n \in notes : pc[n.trap] \in {"recording", "done", "killed"}

\* Results exist only of channels that were dispatched to, until they are written.
ResultsOpen ==
  \A t \in Trap, c \in Channel : results[t][c] # "none" =>
    c \in targets[t] /\ pc[t] \in {"dispatching", "recording"}

\* A row is either one of a channel that was dispatched to, whose result is
\* thereby written, or the held row of a trap that was held.
RowsFit ==
  \A n \in notes :
    \/ /\ Outcome(n.trap) = "send"
       /\ n.channel \in targets[n.trap]
       /\ results[n.trap][n.channel] = "none"
    \/ Outcome(n.trap) = "hold" /\ n = HeldRow(n.trap)

\* No channel has two rows about the same trap.
OneRowEach ==
  \A n, m \in notes : n.trap = m.trap /\ n.channel = m.channel => n = m

HasRow(t, c) == \E n \in notes : n.trap = t /\ n.channel = c

\* No result is forgotten: what is not written yet is still to be written,
\* unless its channel is gone.
NoneMissed ==
  \A t \in Trap :
    /\ pc[t] \in {"recording", "done"} /\ Outcome(t) = "send" =>
         \A c \in targets[t] \cap channels : results[t][c] # "none" \/ HasRow(t, c)
    /\ pc[t] = "done" /\ Outcome(t) = "hold" => HeldRow(t) \in notes

RowsInv == RowsLate /\ ResultsOpen /\ RowsFit /\ OneRowEach /\ NoneMissed

\* Steps that write no row and no result keep the rows as they should be, as
\* long as they start or end no recording.
LEMMA RowsSettled ==
  ASSUME DeliveryInv, RowsInv, [Next]_vars, TypeOK',
         notes' = notes, results' = results, channels' \subseteq channels,
         NEW S \in SUBSET Trap,
         \A t \in S : pc[t] \in Undecided \cup {"admitted", "stored"}
                      /\ pc'[t] \notin {"recording", "done"},
         \A t \in Trap \ S : pc'[t] = pc[t] /\ targets'[t] = targets[t]
  PROVE  RowsInv'
<1> USE DEF DeliveryInv, RowsInv
<1>1. ASSUME NEW t \in Trap, pc[t] \notin Undecided
      PROVE  Outcome(t)' = Outcome(t)
  BY <1>1, OutcomeKept
<1>2. \A n \in notes : n.trap \in Trap
  BY DEF TypeOK
<1>3. \A n \in notes : n.trap \notin S
  BY DEF RowsLate, Undecided
<1>4. \A t \in S, c \in Channel : results[t][c] = "none"
  BY DEF ResultsOpen, Undecided
<1>5. RowsLate'
  BY <1>2, <1>3 DEF RowsLate
<1>6. ResultsOpen'
  BY <1>4 DEF ResultsOpen
<1>7. RowsFit'
  <2> SUFFICES ASSUME NEW n \in notes
               PROVE  \/ /\ Outcome(n.trap)' = "send"
                         /\ n.channel \in targets'[n.trap]
                         /\ results'[n.trap][n.channel] = "none"
                      \/ Outcome(n.trap)' = "hold" /\ n = HeldRow(n.trap)
    BY DEF RowsFit, HeldRow
  <2>1. n.trap \in Trap \ S /\ pc[n.trap] \notin Undecided
    BY <1>2, <1>3 DEF RowsLate, Undecided
  <2>2. Outcome(n.trap)' = Outcome(n.trap) /\ targets'[n.trap] = targets[n.trap]
    BY <1>1, <2>1
  <2> QED
    BY <2>2 DEF RowsFit
<1>8. OneRowEach'
  BY DEF OneRowEach
<1>9. NoneMissed'
  <2> SUFFICES ASSUME NEW t \in Trap, pc'[t] \in {"recording", "done"}
               PROVE  /\ Outcome(t)' = "send" =>
                           \A c \in targets'[t] \cap channels' :
                              results'[t][c] # "none" \/ HasRow(t, c)
                      /\ pc'[t] = "done" /\ Outcome(t)' = "hold" => HeldRow(t) \in notes
    BY DEF NoneMissed, HasRow, HeldRow
  <2>1. t \notin S /\ pc'[t] = pc[t] /\ targets'[t] = targets[t]
    OBVIOUS
  <2>2. Outcome(t)' = Outcome(t)
    BY <1>1, <2>1 DEF Undecided
  <2> QED
    BY <2>1, <2>2 DEF NoneMissed
<1> QED
  BY <1>5, <1>6, <1>7, <1>8, <1>9

\* The end of a trap that has nothing to dispatch: suppressed, held, or sent
\* to no channel.
LEMMA RowsAtOnce ==
  ASSUME DeliveryInv, RowsInv, [Next]_vars, TypeOK',
         NEW t \in Trap, pc[t] = "stored", pc' = [pc EXCEPT ![t] = "done"],
         UNCHANGED <<results, channels, targets>>,
         \/ Outcome(t) = "suppress" /\ notes' = notes
         \/ Outcome(t) = "hold" /\ notes' = notes \cup {HeldRow(t)}
  PROVE  RowsInv'
<1> USE DEF DeliveryInv, RowsInv
<1>1. ASSUME NEW u \in Trap, pc[u] \notin Undecided
      PROVE  Outcome(u)' = Outcome(u)
  BY <1>1, OutcomeKept
<1>2. /\ \A n \in notes : n.trap \in Trap \ {t}
      /\ \A c \in Channel : results[t][c] = "none"
      /\ targets[t] = {}
  BY DEF TypeOK, RowsLate, ResultsOpen, TargetsStored
<1>3. pc'[t] = "done" /\ \A u \in Trap \ {t} : pc'[u] = pc[u]
  BY DEF TypeOK
<1>4. HeldRow(t).trap = t /\ HeldRow(t).channel = None
  BY DEF HeldRow
<1>5. \A n \in notes' : n \in notes \/ (Outcome(t) = "hold" /\ n = HeldRow(t))
  <2> HIDE DEF DeliveryInv, RowsInv
  <2> QED
    OBVIOUS
<1>6. RowsLate'
  BY <1>2, <1>3, <1>4, <1>5 DEF RowsLate
<1>7. ResultsOpen'
  BY <1>2, <1>3 DEF ResultsOpen
<1>8. RowsFit'
  <2> SUFFICES ASSUME NEW n \in notes'
               PROVE  \/ /\ Outcome(n.trap)' = "send"
                         /\ n.channel \in targets'[n.trap]
                         /\ results'[n.trap][n.channel] = "none"
                      \/ Outcome(n.trap)' = "hold" /\ n = HeldRow(n.trap)
    BY DEF RowsFit, HeldRow
  <2>1. CASE n \in notes
    <3>1. n.trap \in Trap /\ pc[n.trap] \notin Undecided
      BY <1>2, <2>1 DEF RowsLate, Undecided
    <3>2. Outcome(n.trap)' = Outcome(n.trap)
      BY <1>1, <3>1
    <3> QED
      BY <2>1, <3>2 DEF RowsFit
  <2>2. CASE Outcome(t) = "hold" /\ n = HeldRow(t)
    <3>1. Outcome(t)' = Outcome(t)
      BY <1>1 DEF Undecided
    <3> QED
      BY <2>2, <3>1, <1>4
  <2> QED
    BY <1>5, <2>1, <2>2
<1>9. OneRowEach'
  BY <1>2, <1>4, <1>5 DEF OneRowEach
<1>10. NoneMissed'
  <2> SUFFICES ASSUME NEW u \in Trap, pc'[u] \in {"recording", "done"}
               PROVE  /\ Outcome(u)' = "send" =>
                           \A c \in targets'[u] \cap channels' :
                              results'[u][c] # "none" \/ HasRow(u, c)'
                      /\ pc'[u] = "done" /\ Outcome(u)' = "hold" => HeldRow(u) \in notes'
    BY DEF NoneMissed, HeldRow
  <2>1. \A c \in Channel : HasRow(u, c) => HasRow(u, c)'
    BY DEF HasRow
  <2>2. Outcome(u)' = Outcome(u)
    BY <1>1, <1>3 DEF Undecided
  <2>3. CASE u = t
    BY <1>2, <2>2, <2>3
  <2>4. CASE u # t
    <3>1. pc'[u] = pc[u]
      BY <1>3, <2>4
    <3>2. \A c \in targets[u] : c \in Channel
      BY DEF TypeOK
    <3> QED
      BY <2>1, <2>2, <3>1, <3>2 DEF NoneMissed
  <2> QED
    BY <2>3, <2>4
<1> QED
  BY <1>6, <1>7, <1>8, <1>9, <1>10

\* A trap that was sent and has no channel left, or goes to its dispatch.
LEMMA RowsResolve ==
  ASSUME DeliveryInv, RowsInv, [Next]_vars, TypeOK',
         NEW t \in Trap, Resolve(t)
  PROVE  RowsInv'
<1> USE DEF DeliveryInv, RowsInv
<1>1. \A u \in Trap : Outcome(u)' = Outcome(u)
  BY DEF Resolve, Outcome
<1>2. UNCHANGED <<notes, results, channels>>
  BY DEF Resolve
<1>3. pc[t] = "stored" /\ Outcome(t) = "send"
  BY DEF Resolve
<1>4. (pc'[t] = "done" /\ targets'[t] = {}) \/ pc'[t] = "dispatching"
  BY DEF Resolve, TypeOK
<1>5. \A u \in Trap \ {t} : pc'[u] = pc[u] /\ targets'[u] = targets[u]
  BY DEF Resolve, TypeOK
<1>6. /\ \A n \in notes : n.trap \in Trap \ {t}
      /\ \A c \in Channel : results[t][c] = "none"
  BY <1>3 DEF TypeOK, RowsLate, ResultsOpen
<1>7. RowsLate'
  BY <1>2, <1>5, <1>6 DEF RowsLate
<1>8. ResultsOpen'
  BY <1>2, <1>5, <1>6 DEF ResultsOpen
<1>9. RowsFit'
  <2> SUFFICES ASSUME NEW n \in notes
               PROVE  \/ /\ Outcome(n.trap)' = "send"
                         /\ n.channel \in targets'[n.trap]
                         /\ results'[n.trap][n.channel] = "none"
                      \/ Outcome(n.trap)' = "hold" /\ n = HeldRow(n.trap)
    BY <1>2 DEF RowsFit, HeldRow
  <2>1. n.trap \in Trap \ {t} /\ Outcome(n.trap)' = Outcome(n.trap)
    BY <1>1, <1>6
  <2> QED
    BY <1>2, <1>5, <2>1 DEF RowsFit
<1>10. OneRowEach'
  BY <1>2 DEF OneRowEach
<1>11. NoneMissed'
  <2> SUFFICES ASSUME NEW u \in Trap, pc'[u] \in {"recording", "done"}
               PROVE  /\ Outcome(u) = "send" =>
                           \A c \in targets'[u] \cap channels :
                              results[u][c] # "none" \/ HasRow(u, c)
                      /\ pc'[u] = "done" /\ Outcome(u) = "hold" => HeldRow(u) \in notes
    BY <1>1, <1>2 DEF NoneMissed, HasRow, HeldRow
  <2>1. CASE u = t
    BY <1>3, <1>4, <2>1
  <2>2. CASE u # t
    BY <1>5, <2>2 DEF NoneMissed
  <2> QED
    BY <2>1, <2>2
<1> QED
  BY <1>7, <1>8, <1>9, <1>10, <1>11

\* A result comes in: the last one starts the recording.
LEMMA RowsFinish ==
  ASSUME DeliveryInv, RowsInv, [Next]_vars, TypeOK',
         NEW t \in Trap, NEW d \in Channel, NEW s \in {"sent", "failed"},
         Finish(t, d, s)
  PROVE  RowsInv'
<1> USE DEF DeliveryInv, RowsInv
<1>1. \A u \in Trap : Outcome(u)' = Outcome(u)
  BY DEF Finish, Outcome
<1>2. UNCHANGED <<notes, targets, channels>>
  BY DEF Finish
<1>3. pc[t] = "dispatching" /\ d \in targets[t]
  BY DEF Finish
<1>4. /\ \A u \in Trap \ {t} : pc'[u] = pc[u] /\ results'[u] = results[u]
      /\ results'[t][d] = s
      /\ \A c \in Channel \ {d} : results'[t][c] = results[t][c]
  BY DEF Finish, TypeOK
<1>5. \/ pc'[t] = "dispatching"
      \/ pc'[t] = "recording" /\ \A c \in targets[t] \ {d} : results[t][c] # "none"
  BY DEF Finish, TypeOK
<1>6. \A n \in notes : n.trap \in Trap \ {t}
  BY <1>3 DEF TypeOK, RowsLate
<1>7. RowsLate'
  BY <1>2, <1>4, <1>6 DEF RowsLate
<1>8. ResultsOpen'
  BY <1>2, <1>3, <1>4, <1>5 DEF ResultsOpen
<1>9. RowsFit'
  <2> SUFFICES ASSUME NEW n \in notes
               PROVE  \/ /\ Outcome(n.trap)' = "send"
                         /\ n.channel \in targets'[n.trap]
                         /\ results'[n.trap][n.channel] = "none"
                      \/ Outcome(n.trap)' = "hold" /\ n = HeldRow(n.trap)
    BY <1>2 DEF RowsFit, HeldRow
  <2>1. n.trap \in Trap \ {t} /\ Outcome(n.trap)' = Outcome(n.trap)
    BY <1>1, <1>6
  <2> QED
    BY <1>2, <1>4, <2>1 DEF RowsFit
<1>10. OneRowEach'
  BY <1>2 DEF OneRowEach
<1>11. NoneMissed'
  <2> SUFFICES ASSUME NEW u \in Trap, pc'[u] \in {"recording", "done"}
               PROVE  /\ Outcome(u) = "send" =>
                           \A c \in targets[u] \cap channels :
                              results'[u][c] # "none" \/ HasRow(u, c)
                      /\ pc'[u] = "done" /\ Outcome(u) = "hold" => HeldRow(u) \in notes
    BY <1>1, <1>2 DEF NoneMissed, HasRow, HeldRow
  <2>1. CASE u = t
    <3>1. pc'[t] = "recording" /\ \A c \in targets[t] \ {d} : results[t][c] # "none"
      BY <1>5, <2>1
    <3>2. \A c \in targets[t] : results'[t][c] # "none"
      <4>1. targets[t] \subseteq Channel
        BY DEF TypeOK
      <4> QED
        BY <1>4, <3>1, <4>1
    <3> QED
      BY <2>1, <3>1, <3>2
  <2>2. CASE u # t
    BY <1>4, <2>2 DEF NoneMissed
  <2> QED
    BY <2>1, <2>2
<1> QED
  BY <1>7, <1>8, <1>9, <1>10, <1>11

\* A result is written, or refused because its channel is gone.
LEMMA RowsRecord ==
  ASSUME DeliveryInv, RowsInv, [Next]_vars, TypeOK',
         NEW t \in Trap, NEW d \in Channel, Record(t, d)
  PROVE  RowsInv'
<1> DEFINE row == [trap |-> t, channel |-> d, status |-> results[t][d]]
<1>1. /\ \A u \in Trap : Outcome(u)' = Outcome(u)
      /\ UNCHANGED <<targets, channels>>
  BY DEF Record, Outcome
<1>2. pc[t] = "recording" /\ results[t][d] # "none"
  BY DEF Record
<1>3. \/ d \in channels /\ notes' = notes \cup {row}
      \/ d \notin channels /\ notes' = notes
  BY DEF Record
<1>4. row.trap = t /\ row.channel = d
  OBVIOUS
<1> HIDE DEF row
<1> USE DEF DeliveryInv, RowsInv
<1>5. /\ \A u \in Trap \ {t} : pc'[u] = pc[u] /\ results'[u] = results[u]
      /\ results'[t][d] = "none"
      /\ \A c \in Channel \ {d} : results'[t][c] = results[t][c]
  BY DEF Record, TypeOK
<1>6. \/ pc'[t] = "recording"
      \/ pc'[t] = "done" /\ \A c \in targets[t] \ {d} : results[t][c] = "none"
  BY <1>2 DEF Record, TypeOK
<1>7. d \in targets[t] /\ Outcome(t) = "send"
  BY <1>2 DEF ResultsOpen, TargetsStored
<1>8. \A n \in notes : n.trap \in Trap /\ (n.channel \in Channel \/ n.channel = None)
  BY DEF TypeOK
<1>9. \A n \in notes : n.trap = t => n.channel \in Channel \ {d}
  <2> SUFFICES ASSUME NEW n \in notes, n.trap = t PROVE n.channel \in Channel \ {d}
    OBVIOUS
  <2>1. n.channel \in targets[t] /\ results[t][n.channel] = "none"
    BY <1>7 DEF RowsFit
  <2>2. targets[t] \subseteq Channel
    BY DEF TypeOK
  <2> QED
    BY <1>2, <2>1, <2>2
<1>10. notes \subseteq notes' /\ \A n \in notes' : n \in notes \/ n = row
  BY ONLY <1>3
<1>11. RowsLate'
  BY <1>2, <1>4, <1>5, <1>6, <1>8, <1>10 DEF RowsLate
<1>12. ResultsOpen'
  <2>1. ASSUME NEW c \in Channel, results'[t][c] # "none"
        PROVE  c \in targets[t] /\ pc'[t] = "recording"
    <3>1. c # d /\ results[t][c] # "none"
      BY <1>5, <2>1
    <3> QED
      BY <1>6, <3>1 DEF ResultsOpen
  <2> QED
    BY <1>1, <1>5, <2>1 DEF ResultsOpen
<1>13. RowsFit'
  <2> SUFFICES ASSUME NEW n \in notes'
               PROVE  \/ /\ Outcome(n.trap)' = "send"
                         /\ n.channel \in targets'[n.trap]
                         /\ results'[n.trap][n.channel] = "none"
                      \/ Outcome(n.trap)' = "hold" /\ n = HeldRow(n.trap)
    BY DEF RowsFit, HeldRow
  <2>1. CASE n = row
    BY <1>1, <1>4, <1>5, <1>7, <2>1
  <2>2. CASE n \in notes
    <3>1. n.trap \in Trap /\ Outcome(n.trap)' = Outcome(n.trap)
      BY <1>1, <1>8, <2>2
    <3>2. n.channel \in targets[n.trap] /\ results[n.trap][n.channel] = "none"
          => results'[n.trap][n.channel] = "none"
      BY <1>5, <1>9, <2>2, <3>1
    <3> QED
      BY <1>1, <2>2, <3>1, <3>2 DEF RowsFit
  <2> QED
    BY <1>10, <2>1, <2>2
<1>14. OneRowEach'
  BY <1>4, <1>9, <1>10 DEF OneRowEach
<1>15. NoneMissed'
  <2> SUFFICES ASSUME NEW u \in Trap, pc'[u] \in {"recording", "done"}
               PROVE  /\ Outcome(u) = "send" =>
                           \A c \in targets[u] \cap channels :
                              results'[u][c] # "none" \/ HasRow(u, c)'
                      /\ pc'[u] = "done" /\ Outcome(u) = "hold" => HeldRow(u) \in notes'
    BY <1>1 DEF NoneMissed, HeldRow
  <2>1. \A c \in Channel : HasRow(u, c) => HasRow(u, c)'
    BY <1>10 DEF HasRow
  <2>2. targets[u] \subseteq Channel
    BY DEF TypeOK
  <2>3. CASE u = t
    <3>1. d \in channels => HasRow(t, d)'
      BY <1>3, <1>4 DEF HasRow
    <3> QED
      BY <1>2, <1>5, <1>7, <2>1, <2>2, <2>3, <3>1 DEF NoneMissed
  <2>4. CASE u # t
    BY <1>5, <1>10, <2>1, <2>2, <2>4 DEF NoneMissed
  <2> QED
    BY <2>3, <2>4
<1> QED
  BY <1>11, <1>12, <1>13, <1>14, <1>15

\* A stop of the daemon leaves the rows written so far and forgets the rest.
LEMMA RowsRestart ==
  ASSUME DeliveryInv, RowsInv, [Next]_vars, TypeOK', Restart
  PROVE  RowsInv'
<1> USE DEF DeliveryInv, RowsInv
<1>1. ASSUME NEW u \in Trap, pc[u] \notin Undecided
      PROVE  Outcome(u)' = Outcome(u)
  BY <1>1, OutcomeKept
<1>2. UNCHANGED <<notes, targets, channels>>
  BY DEF Restart
<1>3. \A u \in Trap : IF pc[u] \in {"done", "killed", "new", "failed"} 
                      THEN pc'[u] = pc[u] ELSE pc'[u] = "killed"
  BY DEF Restart, Final
<1>4. \A u \in Trap, c \in Channel : results'[u][c] = "none"
  BY DEF Restart
<1>5. \A n \in notes : n.trap \in Trap /\ (n.channel \in Channel \/ n.channel = None)
  BY DEF TypeOK
<1>6. RowsLate'
  BY <1>2, <1>3, <1>5 DEF RowsLate
<1>7. ResultsOpen'
  BY <1>4 DEF ResultsOpen
<1>8. RowsFit'
  <2> SUFFICES ASSUME NEW n \in notes
               PROVE  \/ /\ Outcome(n.trap)' = "send"
                         /\ n.channel \in targets'[n.trap]
                         /\ results'[n.trap][n.channel] = "none"
                      \/ Outcome(n.trap)' = "hold" /\ n = HeldRow(n.trap)
    BY <1>2 DEF RowsFit, HeldRow
  <2>1. n.trap \in Trap /\ pc[n.trap] \notin Undecided
    BY <1>5 DEF RowsLate, Undecided
  <2>2. Outcome(n.trap)' = Outcome(n.trap)
    BY <1>1, <2>1
  <2>3. targets[n.trap] \subseteq Channel
    BY <2>1 DEF TypeOK
  <2> QED
    BY <1>2, <1>4, <2>1, <2>2, <2>3 DEF RowsFit
<1>9. OneRowEach'
  BY <1>2 DEF OneRowEach
<1>10. NoneMissed'
  <2> SUFFICES ASSUME NEW u \in Trap, pc'[u] \in {"recording", "done"}
               PROVE  /\ Outcome(u)' = "send" =>
                           \A c \in targets[u] \cap channels :
                              results'[u][c] # "none" \/ HasRow(u, c)
                      /\ pc'[u] = "done" /\ Outcome(u)' = "hold" => HeldRow(u) \in notes
    BY <1>2 DEF NoneMissed, HasRow, HeldRow
  <2>1. pc[u] = "done"
    BY <1>3
  <2>2. Outcome(u)' = Outcome(u)
    BY <1>1, <2>1 DEF Undecided
  <2>3. \A c \in targets[u] : results[u][c] = "none"
    BY <2>1 DEF ResultsOpen, TypeOK
  <2> QED
    BY <2>1, <2>2, <2>3 DEF NoneMissed
<1> QED
  BY <1>6, <1>7, <1>8, <1>9, <1>10

\* Every step writes the rows it should, and no other.
LEMMA RowsInvStep ==
  ASSUME DeliveryInv, RowsInv, [Next]_vars, TypeOK'
  PROVE  RowsInv'
<1> USE DEF DeliveryInv
<1>1. ASSUME NEW t \in Trap,
             \/ Arrive(t) \/ StartReplay(t) \/ ReadRules(t) \/ ReadChannels(t)
             \/ Admit(t) \/ Persist(t)
      PROVE  RowsInv'
  <2>1. UNCHANGED <<notes, results, channels, targets>>
    BY <1>1 DEF Arrive, StartReplay, ReadRules, ReadChannels, Admit, Persist
  <2>2. /\ pc[t] \in Undecided \cup {"admitted"}
        /\ \E s \in Steps \ {"recording", "done"} : pc' = [pc EXCEPT ![t] = s]
    BY <1>1 DEF Arrive, StartReplay, ReadRules, ReadChannels, Admit, Persist, Undecided, Steps
  <2>3. pc'[t] \notin {"recording", "done"} /\ \A u \in Trap \ {t} : pc'[u] = pc[u]
    BY <2>2 DEF TypeOK
  <2> QED
    BY <2>1, <2>2, <2>3, RowsSettled, {t} \in SUBSET Trap
<1>2. ASSUME NEW t \in Trap, FinishSuppressed(t) \/ RecordHeld(t)
      PROVE  RowsInv'
  BY <1>2, RowsAtOnce DEF FinishSuppressed, RecordHeld, HeldRow
<1>3. ASSUME NEW t \in Trap, Resolve(t) PROVE RowsInv'
  BY <1>3, RowsResolve
<1>4. ASSUME NEW t \in Trap, NEW c \in Channel, NEW s \in {"sent", "failed"},
             Finish(t, c, s)
      PROVE  RowsInv'
  BY <1>4, RowsFinish
<1>5. ASSUME NEW t \in Trap, NEW c \in Channel, Record(t, c) PROVE RowsInv'
  BY <1>5, RowsRecord
<1>6. CASE Take
  <2>1. UNCHANGED <<notes, results, channels, targets>>
    BY <1>6 DEF Take
  <2>2. queue[1] \in Trap /\ pc[queue[1]] = "queued"
    BY <1>6 DEF Take, TypeOK, QueuedOnce
  <2>3. pc' = [pc EXCEPT ![queue[1]] = "taken"]
    BY <1>6 DEF Take
  <2>4. pc'[queue[1]] = "taken" /\ \A u \in Trap \ {queue[1]} : pc'[u] = pc[u]
    BY <2>2, <2>3 DEF TypeOK
  <2>5. {queue[1]} \in SUBSET Trap
    BY <2>2
  <2> QED
    BY <2>1, <2>2, <2>4, <2>5, RowsSettled DEF Undecided
<1>7. CASE Batch \/ Administer \/ UNCHANGED vars \/ (\E r \in rollups : Flush(r))
           \/ (\E t \in Trap, c \in Channel : Deliver(t, c))
  <2>1. UNCHANGED <<notes, results, targets, pc>>
    BY <1>7 DEF Batch, Administer, vars, Flush, Deliver
  <2>2. channels' \subseteq channels
    BY <1>7 DEF Batch, Administer, vars, Flush, Deliver, DeleteRule, DeleteChannel,
                DeleteSeverity, UpdateChannel
  <2> QED
    BY <2>1, <2>2, RowsSettled, {} \in SUBSET Trap
<1>8. CASE Restart
  BY <1>8, RowsRestart
<1> QED
  BY <1>1, <1>2, <1>3, <1>4, <1>5, <1>6, <1>7, <1>8, Steps_of_Next

\* When a trap is done its rows say what became of it: none if it was
\* suppressed, one held row if it was held, and one row of every channel it was
\* dispatched to and that still exists, however the results came in and
\* whatever was deleted or stopped in between.
THEOREM PipelineRowsMatchOutcome == Spec => []RowsMatchOutcome
<1>1. Init => RowsInv
  BY DEF Init, RowsInv, RowsLate, ResultsOpen, RowsFit, OneRowEach, NoneMissed
<1>2. DeliveryInv /\ RowsInv /\ [Next]_vars /\ TypeOK' => RowsInv'
  BY RowsInvStep
<1>3. DeliveryInv /\ RowsInv => RowsMatchOutcome
  <2> SUFFICES ASSUME DeliveryInv, RowsInv, NEW t \in Trap, pc[t] = "done"
               PROVE  LET rows == {n \in notes : n.trap = t} IN
                      CASE Outcome(t) = "suppress" -> rows = {}
                        [] Outcome(t) = "hold" ->
                             rows = {[trap |-> t, channel |-> None, status |-> "held"]}
                        [] Outcome(t) = "send" ->
                             /\ {n.channel : n \in rows} \subseteq targets[t]
                             /\ \A c \in targets[t] \cap channels :
                                  Cardinality({n \in rows : n.channel = c}) = 1
    BY DEF RowsMatchOutcome
  <2> DEFINE rows == {n \in notes : n.trap = t}
  <2> USE DEF RowsInv
  <2>1. CASE Outcome(t) = "suppress"
    <3>1. rows = {}
      BY <2>1 DEF RowsFit
    <3> QED
      BY <2>1, <3>1
  <2>2. CASE Outcome(t) = "hold"
    <3>1. \A n \in rows : n = HeldRow(t)
      BY <2>2 DEF RowsFit
    <3>2. HeldRow(t) \in rows
      BY <2>2 DEF NoneMissed, HeldRow
    <3>3. rows = {HeldRow(t)}
      BY <3>1, <3>2
    <3> QED
      BY <2>2, <3>3 DEF HeldRow
  <2>3. CASE Outcome(t) = "send"
    <3>1. \A n \in rows : n.channel \in targets[t]
      BY <2>3 DEF RowsFit
    <3>2. ASSUME NEW c \in targets[t] \cap channels
          PROVE  Cardinality({n \in rows : n.channel = c}) = 1
      <4>1. c \in Channel /\ results[t][c] = "none"
        BY DEF ResultsOpen, DeliveryInv, TypeOK
      <4>2. PICK n \in notes : n.trap = t /\ n.channel = c
        BY <2>3, <4>1 DEF NoneMissed, HasRow
      <4>3. {m \in rows : m.channel = c} = {n}
        BY <4>2 DEF OneRowEach
      <4> QED
        BY <4>3, FS_Singleton
    <3> QED
      BY <2>3, <3>1, <3>2
  <2>4. Outcome(t) \in {"send", "suppress", "hold"}
    BY DEF Outcome
  <2> QED
    BY <2>1, <2>2, <2>3, <2>4
<1> QED
  BY <1>1, <1>2, <1>3, PipelineTypeOK, PipelineDeliveryInv, PTL DEF Spec
=============================================================================
