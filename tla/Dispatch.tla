------------------------------ MODULE Dispatch ------------------------------
(***************************************************************************)
(* One call of Dispatcher.Dispatch, internal/notify/dispatch.go: a         *)
(* goroutine for each channel makes up to Retries + 1 attempts, each of at *)
(* most Timeout; the caller waits for all of them.                         *)
(*                                                                         *)
(* Time is that of the attempts: the goroutines' own steps take none, so   *)
(* the clock moves only while every goroutine that is left waits for its   *)
(* provider.  A provider may accept a message long after the attempt was   *)
(* given up (shoutrrr.Send cannot be cancelled, and an HTTP request may    *)
(* have arrived), and the answer may be lost.                              *)
(***************************************************************************)
EXTENDS Naturals

CONSTANTS
  Channel,   \* the channels of the call
  Broken,    \* those whose configuration cannot be unsealed or built
  Retries,   \* Dispatcher.retries
  Timeout    \* Dispatcher.timeout

\* NewDispatcher makes the retries non-negative and the timeout positive.
ASSUME DispatcherAssumption ==
  Broken \subseteq Channel /\ Retries \in Nat /\ Timeout \in Nat \ {0}

VARIABLES
  ctx,       \* the caller's context
  clock,     \* time since the call
  pc,        \* where each goroutine is
  attempts,  \* Result.Attempts
  sends,     \* how often notifier.Send was called
  deadline,  \* when the context of the current attempt expires
  status,    \* Result.Status
  accepted,  \* the attempts <<channel, n>> whose message a provider accepted
  returned   \* whether Dispatch has returned

goroutines == <<pc, attempts, sends, deadline, status>>
vars == <<ctx, clock, goroutines, accepted, returned>>

TypeOK ==
  /\ ctx \in {"live", "cancelled"}
  /\ clock \in Nat
  /\ pc \in [Channel -> {"starting", "looping", "sending", "done"}]
  /\ attempts \in [Channel -> 0..(Retries + 1)]
  /\ sends \in [Channel -> 0..(Retries + 1)]
  /\ deadline \in [Channel -> Nat]
  /\ status \in [Channel -> {"sent", "failed"}]
  /\ accepted \subseteq Channel \X (1..(Retries + 1))
  /\ returned \in BOOLEAN

Init ==
  /\ ctx \in {"live", "cancelled"}
  /\ clock = 0
  /\ pc = [c \in Channel |-> "starting"]
  /\ attempts = [c \in Channel |-> 0]
  /\ sends = [c \in Channel |-> 0]
  /\ deadline = [c \in Channel |-> 0]
  /\ status = [c \in Channel |-> "failed"]
  /\ accepted = {}
  /\ returned = FALSE

Goto(c, step) == pc' = [pc EXCEPT ![c] = step]

-----------------------------------------------------------------------------
(***************************************************************************)
(* dispatchOne.                                                            *)
(***************************************************************************)

\* Mutant: the channels are served one after the other.
MayStartInTurn(c) ==
  pc[c] = "starting" /\ \A b \in Channel \ {c} : pc[b] \in {"starting", "done"}

\* The goroutine of each channel starts with the call.
MayStart(c) == pc[c] = "starting"

\* Mutant: a broken channel is tried again and again.
PrepareAgain(c) ==
  /\ MayStart(c)
  /\ pc' = [pc EXCEPT ![c] = IF c \in Broken THEN @ ELSE "looping"]
  /\ UNCHANGED <<ctx, clock, attempts, sends, deadline, status, accepted, returned>>

\* Unseal the configuration and build the notifier; an error is the result.
Prepare(c) ==
  /\ MayStart(c)
  /\ Goto(c, IF c \in Broken THEN "done" ELSE "looping")
  /\ UNCHANGED <<ctx, clock, attempts, sends, deadline, status, accepted, returned>>

\* Mutants: one attempt too many; a cancelled context does not end the loop.
AttemptOnceMore(c) ==
  /\ pc[c] = "looping"
  /\ attempts[c] <= Retries + 1
  /\ attempts' = [attempts EXCEPT ![c] = @ + 1]
  /\ \/ /\ ctx = "cancelled"
        /\ Goto(c, "done")
        /\ UNCHANGED <<sends, deadline>>
     \/ /\ ctx = "live"
        /\ sends' = [sends EXCEPT ![c] = @ + 1]
        /\ deadline' = [deadline EXCEPT ![c] = clock + Timeout]
        /\ Goto(c, "sending")
  /\ UNCHANGED <<ctx, clock, status, accepted, returned>>
AttemptRegardless(c) ==
  /\ pc[c] = "looping"
  /\ attempts[c] <= Retries
  /\ attempts' = [attempts EXCEPT ![c] = @ + 1]
  /\ IF ctx = "live"
     THEN /\ sends' = [sends EXCEPT ![c] = @ + 1]
          /\ deadline' = [deadline EXCEPT ![c] = clock + Timeout]
          /\ Goto(c, "sending")
     ELSE UNCHANGED <<pc, sends, deadline>>
  /\ UNCHANGED <<ctx, clock, status, accepted, returned>>

\* The attempt is counted, then the context checked, then the message sent.
Attempt(c) ==
  /\ pc[c] = "looping"
  /\ attempts[c] <= Retries
  /\ attempts' = [attempts EXCEPT ![c] = @ + 1]
  /\ \/ /\ ctx = "cancelled"
        /\ Goto(c, "done")
        /\ UNCHANGED <<sends, deadline>>
     \/ /\ ctx = "live"
        /\ sends' = [sends EXCEPT ![c] = @ + 1]
        /\ deadline' = [deadline EXCEPT ![c] = clock + Timeout]
        /\ Goto(c, "sending")
  /\ UNCHANGED <<ctx, clock, status, accepted, returned>>

\* Send returned nil: the provider's answer to this attempt arrived.
Succeed(c) ==
  /\ pc[c] = "sending"
  /\ <<c, attempts[c]>> \in accepted
  /\ status' = [status EXCEPT ![c] = "sent"]
  /\ Goto(c, "done")
  /\ UNCHANGED <<ctx, clock, attempts, sends, deadline, accepted, returned>>

Expired(c) == clock >= deadline[c] \/ ctx = "cancelled"

\* Send returned an error: its context expired, or the provider refused.
Fail(c) ==
  /\ pc[c] = "sending"
  /\ Goto(c, "looping")
  /\ UNCHANGED <<ctx, clock, attempts, sends, deadline, status, accepted, returned>>
Expire(c) == Expired(c) /\ Fail(c)

\* The loop ran out of attempts.
GiveUp(c) ==
  /\ pc[c] = "looping"
  /\ attempts[c] > Retries
  /\ Goto(c, "done")
  /\ UNCHANGED <<ctx, clock, attempts, sends, deadline, status, accepted, returned>>

-----------------------------------------------------------------------------

\* Mutant: Dispatch does not wait for the last goroutine.
ReturnFirst ==
  /\ ~returned
  /\ \E c \in Channel : pc[c] = "done"
  /\ returned' = TRUE
  /\ UNCHANGED <<ctx, clock, goroutines, accepted>>

\* wg.Wait is over.
Return ==
  /\ ~returned
  /\ \A c \in Channel : pc[c] = "done"
  /\ returned' = TRUE
  /\ UNCHANGED <<ctx, clock, goroutines, accepted>>

\* The daemon stops, or the client of a replay goes away.
Cancel ==
  /\ ctx = "live"
  /\ ~returned
  /\ ctx' = "cancelled"
  /\ UNCHANGED <<clock, goroutines, accepted, returned>>

\* The provider accepts the message of an attempt, the current or an old one.
Accept(c, n) ==
  /\ n <= sends[c]
  /\ accepted' = accepted \cup {<<c, n>>}
  /\ UNCHANGED <<ctx, clock, goroutines, returned>>

\* A goroutine that has something to do at this instant.
Runnable(c) ==
  \/ MayStart(c)
  \/ pc[c] = "looping"
  \/ pc[c] = "sending" /\ Expired(c)

Elapse ==
  /\ \E c \in Channel : pc[c] # "done"
  /\ \A c \in Channel : ~Runnable(c)
  /\ clock' = clock + 1
  /\ UNCHANGED <<ctx, goroutines, accepted, returned>>

dispatchOne(c) == Prepare(c) \/ Attempt(c) \/ Succeed(c) \/ Expire(c) \/ GiveUp(c)

Next ==
  \/ \E c \in Channel : dispatchOne(c) \/ Fail(c)
  \/ \E c \in Channel, n \in 1..(Retries + 1) : Accept(c, n)
  \/ Return
  \/ Cancel
  \/ Elapse

Spec == Init /\ [][Next]_vars

\* Time passes and the goroutines run.  No provider need ever answer.
Fairness ==
  /\ WF_vars(Elapse)
  /\ WF_vars(Return)
  /\ \A c \in Channel : WF_vars(dispatchOne(c))

FairSpec == Spec /\ Fairness

-----------------------------------------------------------------------------

\* dispatch.go:33 "one channel failing never blocks the others": a channel is
\* never later than its own attempts make it, however slow the others are, so
\* the call is over after Retries + 1 timeouts.
NeverBlocked ==
  /\ \A c \in Channel : pc[c] # "done" => clock <= attempts[c] * Timeout
  /\ clock <= (Retries + 1) * Timeout

\* Once Dispatch has returned every channel has its final result: sent, and
\* the provider took the message of the attempt that is recorded as the last;
\* or failed, and the channel is broken, the call was cancelled or all its
\* attempts were made.
ResultsFinal ==
  returned => \A c \in Channel :
    /\ pc[c] = "done"
    /\ status[c] = "sent" => <<c, attempts[c]>> \in accepted
    /\ status[c] = "failed" => \/ c \in Broken
                               \/ ctx = "cancelled"
                               \/ sends[c] = Retries + 1

\* A provider gets a message as often as it was sent, and the recorded number
\* of attempts is that of the sends, or, for a call that was cancelled before
\* a retry, one more.
AttemptsCounted ==
  \A c \in Channel :
    /\ \A n \in 1..(Retries + 1) : <<c, n>> \in accepted => n <= sends[c]
    /\ attempts[c] # sends[c] =>
         attempts[c] = sends[c] + 1 /\ ctx = "cancelled" /\ status[c] = "failed"

\* Dispatch returns, though providers never answer and the context is never
\* cancelled.
Returns == <>returned
=============================================================================
