--------------------------- MODULE DispatchProofs ---------------------------
(***************************************************************************)
(* Proofs about Dispatch for any channels, retries and timeout.            *)
(***************************************************************************)
EXTENDS Dispatch, TLAPS

\* The number of sends is bounded because each is counted as an attempt.
SendsCounted == \A c \in Channel : sends[c] <= attempts[c]

LEMMA TypeInit == Init => TypeOK /\ SendsCounted
<1> SUFFICES ASSUME Init PROVE TypeOK /\ SendsCounted
  OBVIOUS
<1>1. 0 \in 0..(Retries + 1) /\ 0 \in Nat
  BY DispatcherAssumption
<1>2. ASSUME NEW S, 0 \in S PROVE [c \in Channel |-> 0] \in [Channel -> S]
  BY <1>2
<1>3. SendsCounted
  <2> SUFFICES ASSUME NEW c \in Channel PROVE sends[c] <= attempts[c]
    BY DEF SendsCounted
  <2>1. sends[c] = 0 /\ attempts[c] = 0
    BY DEF Init
  <2> QED
    BY <2>1
<1>4. accepted \subseteq Channel \X (1..(Retries + 1))
  BY DEF Init
<1>5. /\ attempts \in [Channel -> 0..(Retries + 1)]
      /\ sends \in [Channel -> 0..(Retries + 1)]
      /\ deadline \in [Channel -> Nat]
  BY <1>1, <1>2 DEF Init
<1> QED
  BY <1>3, <1>4, <1>5 DEF Init, TypeOK

LEMMA TypeNext ==
  TypeOK /\ SendsCounted /\ [Next]_vars => TypeOK' /\ SendsCounted'
<1> SUFFICES ASSUME TypeOK, SendsCounted, [Next]_vars
             PROVE  TypeOK' /\ SendsCounted'
  OBVIOUS
<1> USE DispatcherAssumption DEF TypeOK, SendsCounted, Goto
<1>1. ASSUME NEW c \in Channel, Prepare(c) PROVE TypeOK' /\ SendsCounted'
  BY <1>1 DEF Prepare
<1>2. ASSUME NEW c \in Channel, Attempt(c) PROVE TypeOK' /\ SendsCounted'
  <2>1. /\ attempts[c] + 1 \in 0..(Retries + 1)
        /\ sends[c] + 1 \in 0..(Retries + 1)
        /\ clock + Timeout \in Nat
    BY <1>2 DEF Attempt
  <2>2. attempts' \in [Channel -> 0..(Retries + 1)]
    BY <1>2, <2>1 DEF Attempt
  <2>3. sends' \in [Channel -> 0..(Retries + 1)]
    BY <1>2, <2>1 DEF Attempt
  <2>4. deadline' \in [Channel -> Nat]
    BY <1>2, <2>1 DEF Attempt
  <2>5. pc' \in [Channel -> {"starting", "looping", "sending", "done"}]
    BY <1>2 DEF Attempt
  <2>6. SendsCounted'
    BY <1>2, <2>1 DEF Attempt
  <2> QED
    BY <1>2, <2>2, <2>3, <2>4, <2>5, <2>6 DEF Attempt
<1>3. ASSUME NEW c \in Channel, Succeed(c) PROVE TypeOK' /\ SendsCounted'
  BY <1>3 DEF Succeed
<1>4. ASSUME NEW c \in Channel, Fail(c) PROVE TypeOK' /\ SendsCounted'
  BY <1>4 DEF Fail
<1>5. ASSUME NEW c \in Channel, GiveUp(c) PROVE TypeOK' /\ SendsCounted'
  BY <1>5 DEF GiveUp
<1>6. ASSUME NEW c \in Channel, NEW n \in 1..(Retries + 1), Accept(c, n)
      PROVE TypeOK' /\ SendsCounted'
  BY <1>6 DEF Accept, goroutines
<1>7. CASE Return
  BY <1>7 DEF Return, goroutines
<1>8. CASE Cancel
  BY <1>8 DEF Cancel, goroutines
<1>9. CASE Elapse
  BY <1>9 DEF Elapse, goroutines
<1>10. CASE UNCHANGED vars
  BY <1>10 DEF vars, goroutines
<1> QED
  BY <1>1, <1>2, <1>3, <1>4, <1>5, <1>6, <1>7, <1>8, <1>9, <1>10
     DEF Next, dispatchOne, Expire

\* The state of Dispatch keeps its types: no goroutine makes more than
\* Retries + 1 attempts, or sends more often than that.
THEOREM DispatchTypeOK == Spec => []TypeOK
BY TypeInit, TypeNext, PTL DEF Spec

-----------------------------------------------------------------------------
(***************************************************************************)
(* A goroutine is on time: it starts with the call, begins each attempt    *)
(* within the timeouts of the ones before, and waits within its deadline.  *)
(***************************************************************************)
OnTime ==
  /\ \A c \in Channel :
       /\ pc[c] = "starting" => clock = 0
       /\ pc[c] = "looping" => clock <= attempts[c] * Timeout
       /\ pc[c] = "sending" => /\ clock <= deadline[c]
                               /\ deadline[c] <= attempts[c] * Timeout
  /\ clock <= (Retries + 1) * Timeout

\* Multiplication by the timeout is monotonic, and one more is one timeout more.
LEMMA Timeouts ==
  ASSUME NEW a \in Nat, NEW b \in Nat, NEW t \in Nat
  PROVE  /\ a * t \in Nat
         /\ a + 1 \in Nat
         /\ (a + 1) * t = a * t + t
         /\ a <= b => a * t <= b * t
<1>1. a <= b => a * t <= b * t
  <2> SUFFICES ASSUME a <= b PROVE a * t <= b * t
    OBVIOUS
  <2>1. PICK d \in Nat : b = a + d
    <3>1. b - a \in Nat /\ b = a + (b - a)
      OBVIOUS
    <3> QED
      BY <3>1
  <2>2. b * t = a * t + d * t
    BY <2>1
  <2>3. d * t \in Nat /\ a * t \in Nat
    OBVIOUS
  <2> QED
    BY <2>2, <2>3
<1> QED
  BY <1>1

LEMMA OnTimeInit == Init => OnTime
<1> SUFFICES ASSUME Init PROVE OnTime
  OBVIOUS
<1>1. 0 <= (Retries + 1) * Timeout
  BY DispatcherAssumption, Timeouts
<1> QED
  BY <1>1 DEF Init, OnTime

LEMMA OnTimeNext == TypeOK /\ TypeOK' /\ OnTime /\ [Next]_vars => OnTime'
<1> SUFFICES ASSUME TypeOK, TypeOK', OnTime, [Next]_vars PROVE OnTime'
  OBVIOUS
<1>0. Retries \in Nat /\ Timeout \in Nat /\ Timeout > 0
  BY DispatcherAssumption
<1> USE <1>0 DEF TypeOK, OnTime, Goto
<1>1. ASSUME NEW c \in Channel, Prepare(c) PROVE OnTime'
  <2>1. 0 <= attempts[c] * Timeout
    BY Timeouts
  <2> QED
    BY <1>1, <2>1 DEF Prepare, MayStart
<1>2. ASSUME NEW c \in Channel, Attempt(c) PROVE OnTime'
  <2>1. attempts'[c] = attempts[c] + 1 /\ attempts[c] \in Nat
    BY <1>2 DEF Attempt
  <2>2. attempts'[c] * Timeout = attempts[c] * Timeout + Timeout
    BY <2>1, Timeouts
  <2>3. attempts[c] * Timeout \in Nat /\ clock <= attempts[c] * Timeout
    BY <1>2, <2>1, Timeouts DEF Attempt
  <2>4. ASSUME ctx = "live", Goto(c, "sending"), clock' = clock,
               deadline' = [deadline EXCEPT ![c] = clock + Timeout]
        PROVE  clock' <= deadline'[c] /\ deadline'[c] <= attempts'[c] * Timeout
    BY <2>2, <2>3, <2>4
  <2>5. ASSUME NEW b \in Channel \ {c}
        PROVE  pc'[b] = pc[b] /\ attempts'[b] = attempts[b] /\ deadline'[b] = deadline[b]
    BY <1>2 DEF Attempt
  <2>6. pc'[c] \in {"sending", "done"} /\ clock' = clock
    BY <1>2 DEF Attempt
  <2>7. pc'[c] = "sending" =>
          clock' <= deadline'[c] /\ deadline'[c] <= attempts'[c] * Timeout
    BY <1>2, <2>4 DEF Attempt
  <2> QED
    BY <2>5, <2>6, <2>7
<1>3. ASSUME NEW c \in Channel, Succeed(c) PROVE OnTime'
  BY <1>3 DEF Succeed
<1>4. ASSUME NEW c \in Channel, Fail(c) PROVE OnTime'
  <2>1. attempts[c] * Timeout \in Nat /\ deadline[c] \in Nat /\ clock \in Nat
    BY Timeouts
  <2>2. clock <= attempts[c] * Timeout
    BY <1>4, <2>1 DEF Fail
  <2> QED
    BY <1>4, <2>2 DEF Fail
<1>5. ASSUME NEW c \in Channel, GiveUp(c) PROVE OnTime'
  BY <1>5 DEF GiveUp
<1>6. ASSUME NEW c \in Channel, NEW n \in 1..(Retries + 1), Accept(c, n)
      PROVE OnTime'
  BY <1>6 DEF Accept, goroutines
<1>7. CASE Return
  BY <1>7 DEF Return, goroutines
<1>8. CASE Cancel
  BY <1>8 DEF Cancel, goroutines
<1>9. CASE Elapse
  <2>1. \A c \in Channel : pc[c] = "done" \/ (pc[c] = "sending" /\ clock + 1 <= deadline[c])
    BY <1>9 DEF Elapse, Runnable, Expired, MayStart
  <2>2. PICK c \in Channel : pc[c] # "done"
    BY <1>9 DEF Elapse
  <2>3. attempts[c] * Timeout <= (Retries + 1) * Timeout
    <3>1. attempts[c] \in Nat /\ Retries + 1 \in Nat /\ attempts[c] <= Retries + 1
      OBVIOUS
    <3> QED
      BY <3>1, Timeouts
  <2>4. attempts[c] * Timeout \in Nat /\ (Retries + 1) * Timeout \in Nat
    BY Timeouts
  <2>5. clock + 1 <= (Retries + 1) * Timeout
    BY <2>1, <2>2, <2>3, <2>4
  <2> QED
    BY <1>9, <2>1, <2>5 DEF Elapse, goroutines
<1>10. CASE UNCHANGED vars
  BY <1>10 DEF vars, goroutines
<1> QED
  BY <1>1, <1>2, <1>3, <1>4, <1>5, <1>6, <1>7, <1>8, <1>9, <1>10
     DEF Next, dispatchOne, Expire

\* One channel never delays another, and the call is over within Retries + 1
\* timeouts, however many channels there are and whatever the providers do.
THEOREM DispatchNeverBlocked == Spec => []NeverBlocked
<1>1. TypeOK /\ OnTime => NeverBlocked
  <2> SUFFICES ASSUME TypeOK, OnTime, NEW c \in Channel, pc[c] # "done"
               PROVE  clock <= attempts[c] * Timeout
    BY DEF NeverBlocked, OnTime
  <2>1. attempts[c] * Timeout \in Nat /\ clock \in Nat /\ deadline[c] \in Nat
    BY DispatcherAssumption, Timeouts DEF TypeOK
  <2> QED
    BY <2>1 DEF TypeOK, OnTime
<1> QED
  BY <1>1, DispatchTypeOK, OnTimeInit, OnTimeNext, PTL DEF Spec

-----------------------------------------------------------------------------
(***************************************************************************)
(* What each goroutine has done so far, and with what result.              *)
(***************************************************************************)
Accounted ==
  /\ \A c \in Channel :
       /\ pc[c] # "done" => attempts[c] = sends[c] /\ status[c] = "failed"
       /\ attempts[c] # sends[c] =>
            attempts[c] = sends[c] + 1 /\ ctx = "cancelled" /\ status[c] = "failed"
       /\ status[c] = "sent" => <<c, attempts[c]>> \in accepted
       /\ pc[c] = "done" /\ status[c] = "failed" =>
            c \in Broken \/ ctx = "cancelled" \/ sends[c] = Retries + 1
       /\ \A n \in 1..(Retries + 1) : <<c, n>> \in accepted => n <= sends[c]
  /\ returned => \A c \in Channel : pc[c] = "done"

LEMMA AccountedNext == TypeOK /\ Accounted /\ [Next]_vars => Accounted'
<1> SUFFICES ASSUME TypeOK, Accounted, [Next]_vars PROVE Accounted'
  OBVIOUS
<1> USE DispatcherAssumption DEF TypeOK, Accounted, Goto
<1>1. ASSUME NEW c \in Channel, Prepare(c) PROVE Accounted'
  BY <1>1 DEF Prepare, MayStart
<1>2. ASSUME NEW c \in Channel, Attempt(c) PROVE Accounted'
  <2>1. ASSUME NEW b \in Channel \ {c}
        PROVE  /\ pc'[b] = pc[b] /\ attempts'[b] = attempts[b]
               /\ sends'[b] = sends[b] /\ status'[b] = status[b]
    BY <1>2 DEF Attempt
  <2>2. ctx' = ctx /\ accepted' = accepted /\ returned' = returned /\ ~returned
    BY <1>2 DEF Attempt
  <2>3. attempts'[c] = attempts[c] + 1 /\ status'[c] = "failed" /\ attempts[c] = sends[c]
    BY <1>2 DEF Attempt
  <2>4. CASE ctx = "cancelled"
    <3>1. pc'[c] = "done" /\ sends'[c] = sends[c]
      BY <1>2, <2>4 DEF Attempt
    <3>2. Accounted /\ sends \in [Channel -> 0..(Retries + 1)]
      OBVIOUS
    <3> QED
      BY ONLY DispatcherAssumption, <2>1, <2>2, <2>3, <2>4, <3>1, <3>2 DEF Accounted
  <2>5. CASE ctx = "live"
    <3>1. pc'[c] = "sending" /\ sends'[c] = sends[c] + 1
      BY <1>2, <2>5 DEF Attempt
    <3>2. ASSUME NEW n \in 1..(Retries + 1), <<c, n>> \in accepted
          PROVE  n <= sends'[c]
      <4>1. n <= sends[c]
        BY <3>2
      <4>2. n \in Nat
        OBVIOUS
      <4>3. sends[c] \in Nat
        OBVIOUS
      <4> QED
        BY ONLY <3>1, <4>1, <4>2, <4>3
    <3>3. attempts'[c] = sends'[c]
      BY <2>3, <3>1
    <3>4. ASSUME NEW b \in Channel
          PROVE  /\ pc'[b] # "done" => attempts'[b] = sends'[b] /\ status'[b] = "failed"
                 /\ attempts'[b] # sends'[b] =>
                      attempts'[b] = sends'[b] + 1 /\ ctx' = "cancelled"
                                                  /\ status'[b] = "failed"
                 /\ status'[b] = "sent" => <<b, attempts'[b]>> \in accepted'
                 /\ pc'[b] = "done" /\ status'[b] = "failed" =>
                      b \in Broken \/ ctx' = "cancelled" \/ sends'[b] = Retries + 1
                 /\ \A n \in 1..(Retries + 1) : <<b, n>> \in accepted' => n <= sends'[b]
      <4>1. CASE b = c
        BY <4>1, <2>2, <2>3, <3>1, <3>2, <3>3
      <4>2. CASE b # c
        <5>1. b \in Channel \ {c}
          BY <4>2
        <5>2. /\ pc'[b] = pc[b] /\ attempts'[b] = attempts[b]
              /\ sends'[b] = sends[b] /\ status'[b] = status[b]
          BY <2>1, <5>1
        <5> QED
          BY <2>2, <5>2
      <4> QED
        BY <4>1, <4>2
    <3> QED
      BY <2>2, <3>4
  <2> QED
    BY <2>4, <2>5
<1>3. ASSUME NEW c \in Channel, Succeed(c) PROVE Accounted'
  BY <1>3 DEF Succeed
<1>4. ASSUME NEW c \in Channel, Fail(c) PROVE Accounted'
  BY <1>4 DEF Fail
<1>5. ASSUME NEW c \in Channel, GiveUp(c) PROVE Accounted'
  BY <1>5 DEF GiveUp
<1>6. ASSUME NEW c \in Channel, NEW n \in 1..(Retries + 1), Accept(c, n)
      PROVE Accounted'
  BY <1>6 DEF Accept, goroutines
<1>7. CASE Return
  BY <1>7 DEF Return, goroutines
<1>8. CASE Cancel
  BY <1>8 DEF Cancel, goroutines
<1>9. CASE Elapse
  BY <1>9 DEF Elapse, goroutines
<1>10. CASE UNCHANGED vars
  BY <1>10 DEF vars, goroutines
<1> QED
  BY <1>1, <1>2, <1>3, <1>4, <1>5, <1>6, <1>7, <1>8, <1>9, <1>10
     DEF Next, dispatchOne, Expire

\* Every result Dispatch returns is final and true: sent was accepted, failed
\* is broken, cancelled or tried Retries + 1 times.
THEOREM DispatchResultsFinal == Spec => []ResultsFinal
<1>1. Init => Accounted
  BY DispatcherAssumption DEF Init, Accounted
<1>2. Accounted => ResultsFinal
  BY DEF Accounted, ResultsFinal
<1> QED
  BY <1>1, <1>2, AccountedNext, DispatchTypeOK, PTL DEF Spec

\* The recorded attempts are the messages sent, give or take the check of a
\* cancelled context, and bound what a provider accepted.
THEOREM DispatchAttemptsCounted == Spec => []AttemptsCounted
<1>1. Init => Accounted
  BY DispatcherAssumption DEF Init, Accounted
<1>2. Accounted => AttemptsCounted
  BY DEF Accounted, AttemptsCounted
<1> QED
  BY <1>1, <1>2, AccountedNext, DispatchTypeOK, PTL DEF Spec
=============================================================================
