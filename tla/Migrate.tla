------------------------------- MODULE Migrate -------------------------------
(***************************************************************************)
(* Opening the database (internal/store/store.go).  The daemon and the     *)
(* one-shot commands each open the same file and bring its schema up to    *)
(* date: a migration is looked up, then applied and recorded in one        *)
(* transaction of its own.  No migration can run twice: its statements or  *)
(* its record collide with what is there, and the transaction rolls back.  *)
(***************************************************************************)
EXTENDS Naturals, Sequences

CONSTANTS
  Process,
  Last        \* the number of migrations, 1 .. Last in filename order

ASSUME LastAssumption == Last \in Nat \ {0}

VARIABLES
  applied,    \* schema_migrations
  effects,    \* history variable: the migrations that took effect, in order
  opener      \* what each process does with the file; whether another one
              \* migrated it meanwhile (history)

storeVars == <<applied, effects, opener>>

At(place) == [at |-> place, next |-> 1, overtaken |-> FALSE]
Closed == At("closed")

MigrateTypeOK ==
  /\ applied \subseteq 1..Last
  /\ effects \in Seq(1..Last)
  /\ opener \in [Process -> [at : {"closed", "check", "apply", "open", "failed"},
                             next : 1 .. Last, overtaken : BOOLEAN]]

MigrateInit ==
  /\ \E n \in {0, Last} : applied = 1..n /\ effects = [i \in 1..n |-> i]
  /\ opener = [p \in Process |-> Closed]

Opening(p) == opener[p].at \in {"check", "apply"}

\* p goes on to the next migration, under the eyes of the others.
Applied(p) ==
  [q \in Process |->
     IF q = p THEN [opener[p] EXCEPT !.at = "check", !.next = 1]
     ELSE [opener[q] EXCEPT !.overtaken = @ \/ Opening(q)]]

OpenStore(p) ==
  /\ opener[p].at = "closed"
  /\ opener' = [opener EXCEPT ![p].at = "check"]
  /\ UNCHANGED <<applied, effects>>

\* Mutant: only a complete record is noticed; what is in it is not looked up.
CheckMigrationFromFirst(p) ==
  /\ opener[p].at = "check"
  /\ opener' = [opener EXCEPT ![p] =
                 IF 1..Last \subseteq applied THEN At("open")
                 ELSE [@ EXCEPT !.at = "apply", !.next = 1]]
  /\ UNCHANGED <<applied, effects>>

\* A recorded migration stays recorded, so the look-ups that find one are taken
\* together with the one that does not.
CheckMigration(p) ==
  /\ opener[p].at = "check"
  /\ opener' = [opener EXCEPT ![p] =
                 IF 1..Last \subseteq applied THEN At("open")
                 ELSE [@ EXCEPT !.at = "apply",
                       !.next = CHOOSE n \in 1..Last \ applied : 1..(n - 1) \subseteq applied]]
  /\ UNCHANGED <<applied, effects>>

\* Mutant: the record is written outside the transaction, or not at all.
ApplyMigrationUnrecorded(p) ==
  LET n == opener[p].next IN
  /\ opener[p].at = "apply"
  /\ n \notin applied
  /\ effects' = Append(effects, n)
  /\ applied' \in {applied, applied \cup {n}}
  /\ opener' = Applied(p)

ApplyMigration(p) ==
  LET n == opener[p].next IN
  /\ opener[p].at = "apply"
  /\ \/ /\ n \notin applied
        /\ effects' = Append(effects, n)
        /\ applied' = applied \cup {n}
        /\ opener' = Applied(p)
     \/ /\ n \in applied
        /\ opener' = [opener EXCEPT ![p].at = "failed"]
        /\ UNCHANGED <<applied, effects>>

\* The process ends, or is killed: an open transaction is lost.
CloseStore(p) ==
  /\ opener' = [opener EXCEPT ![p] = Closed]
  /\ UNCHANGED <<applied, effects>>

-----------------------------------------------------------------------------

\* internal/store/store.go:48 "applies embedded migrations in filename order,
\* tracking applied versions in schema_migrations so each runs exactly once",
\* with two processes at it and a kill at any point; what is recorded is what
\* took effect, and an open store has them all.
MigratedOnceInOrder ==
  /\ effects = [i \in 1 .. Len(effects) |-> i]
  /\ applied = 1 .. Len(effects)
  /\ \A p \in Process : opener[p].at = "open" => Len(effects) = Last

\* A process fails to open the store only when another one migrated it at the
\* same time; starting it again is enough.
OpenFailsOnlyWhenOvertaken ==
  \A p \in Process : opener[p].at = "failed" => opener[p].overtaken
=============================================================================
