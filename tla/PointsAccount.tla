--------------------------- MODULE PointsAccount ----------------------------
(***************************************************************************)
(* What the reward documents and the reward transaction log promise        *)
(* together, whatever handlers move the points: every movement is made     *)
(* once, changes its owner's balance by exactly its points, and is logged  *)
(* after it was made, if at all.  Orders implements this specification.    *)
(***************************************************************************)
EXTENDS Integers

CONSTANTS
  Users,         \* the owners of reward documents
  InitialPoints  \* their balances at the start

VARIABLES
  balance,  \* the points of each user
  made,     \* the movements made: records with a user and points
  logged    \* the movements the log knows

account == <<balance, made, logged>>

Init == balance = InitialPoints /\ made = {} /\ logged = {}

Make(e) ==
  /\ e \notin made
  /\ e.user \in Users
  /\ made' = made \cup {e}
  /\ balance' = [balance EXCEPT ![e.user] = @ + e.points]
  /\ logged' = logged

Log(e) ==
  /\ e \in made
  /\ logged' = logged \cup {e}
  /\ UNCHANGED <<balance, made>>

\* Any movement may be made next: it is one of those made after the step.
Next == \E e \in made' : Make(e) \/ Log(e)

Spec == Init /\ [][Next]_account

=============================================================================
