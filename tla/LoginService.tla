---------------------------- MODULE LoginService ----------------------------
(***************************************************************************)
(* What the login server promises its clients, whatever services and       *)
(* channels a login passes through: a login is answered at most once, to   *)
(* the connection that sent it.  It may be lost on the way.                *)
(***************************************************************************)
EXTENDS Naturals

CONSTANTS Uids, Nothing, Asked(_), Answered(_)

VARIABLES
  owed,   (* how many logins of each connection are not answered yet       *)
  seen    (* the login sent or answered by this step, or Nothing           *)

vars == <<owed, seen>>

Init == owed = [u \in Uids |-> 0] /\ seen = Nothing

Settle(u) == owed[u] > 0 /\ owed' = [owed EXCEPT ![u] = @ - 1]

Ask(u) ==
  /\ seen' = Asked(u)
  /\ owed' \in {owed, [owed EXCEPT ![u] = @ + 1]}

Answer(u) == Settle(u) /\ seen' = Answered(u)
Lose(u)   == Settle(u) /\ seen' = Nothing

Rest == seen' = Nothing /\ UNCHANGED owed

Next == Rest \/ \E u \in Uids : Ask(u) \/ Answer(u) \/ Lose(u)

Spec == Init /\ [][Next]_vars

=============================================================================
