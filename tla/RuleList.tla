------------------------------ MODULE RuleList ------------------------------
(***************************************************************************)
(* What the rule table promises: one ordered list of rules, in which only  *)
(* the rules an edit names change places with each other.  A rule that was *)
(* put ahead of every place a reorder gives stays where it was when it is  *)
(* not listed; the others that are not listed follow the listed ones.      *)
(***************************************************************************)
CONSTANT Rule
VARIABLES
  members,   \* the rules in the list
  before,    \* <<r, x>>: r is in front of x
  ahead      \* the rules ahead of the places a reorder gives

\* B puts the members of S one after the other.
Orders(B, S) ==
  /\ B \subseteq S \X S
  /\ \A r \in S : <<r, r>> \notin B
  /\ \A r, x \in S : r # x => <<r, x>> \in B \/ <<x, r>> \in B
  /\ \A r, x, y \in S : <<r, x>> \in B /\ <<x, y>> \in B => <<r, y>> \in B

\* The rules of S keep their order among themselves, in a list of members'.
Keeping(S) ==
  /\ Orders(before', members')
  /\ \A r, x \in S : <<r, x>> \in before' <=> <<r, x>> \in before

\* A rule named by an edit may go ahead or come back, the others may not.
Placing(r) == ahead' \subseteq members' /\ ahead' \ {r} = ahead \ {r}

Add(r) ==
  /\ r \notin members /\ members' = members \cup {r}
  /\ Keeping(members) /\ Placing(r)

Withdraw(r) ==
  /\ r \in members /\ members' = members \ {r}
  /\ Keeping(members') /\ ahead' = ahead \ {r}

Move(r) ==
  /\ r \in members /\ UNCHANGED members
  /\ Keeping(members \ {r}) /\ Placing(r)

\* The rules of L come first, in the order the request asks for.
Reorder(L) ==
  /\ Keeping(members \ L)
  /\ \A r \in L, x \in members \ (L \cup ahead) : <<r, x>> \in before'
  /\ ahead' \subseteq ahead \ L
  /\ UNCHANGED members

Next ==
  \/ \E r \in Rule : Add(r) \/ Withdraw(r) \/ Move(r)
  \/ \E L \in SUBSET members : Reorder(L)

Init == members \subseteq Rule /\ Orders(before, members) /\ ahead \subseteq members

Spec == Init /\ [][Next]_<<members, before, ahead>>
=============================================================================
