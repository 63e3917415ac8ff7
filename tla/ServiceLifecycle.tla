-------------------------- MODULE ServiceLifecycle --------------------------
(***************************************************************************)
(* What the service manager promises the services registered with it,      *)
(* whatever the thread pool does: a service is in at most one of its       *)
(* handlers at a time, Init and Shutdown are called once, no service is    *)
(* ticked before every service has been initialised, and none is shut      *)
(* down while another is being ticked.                                     *)
(***************************************************************************)
CONSTANT Services

VARIABLE stage  (* where each service is in its life                       *)

Stages == {"new", "init", "failed", "up", "tick", "stop", "down"}

Init == stage = [s \in Services |-> "new"]

Move(s, from, to) == stage[s] = from /\ stage' = [stage EXCEPT ![s] = to]

Others(s, S) == \A t \in Services \ {s} : stage[t] \in S

Initialise(s) == Move(s, "new", "init")
Initialised(s) == Move(s, "init", "up") \/ Move(s, "init", "failed")

Tick(s)   == Move(s, "up", "tick") /\ Others(s, {"up", "tick"})
Ticked(s) == Move(s, "tick", "up")

Stop(s)    == Move(s, "up", "stop") /\ Others(s, {"up", "stop", "down"})
Stopped(s) == Move(s, "stop", "down")

Next ==
  \E s \in Services :
    \/ Initialise(s) \/ Initialised(s)
    \/ Tick(s) \/ Ticked(s)
    \/ Stop(s) \/ Stopped(s)

Spec == Init /\ [][Next]_stage

=============================================================================
