-------------------------- MODULE RuntimeLifecycle --------------------------
(***************************************************************************)
(* The life of provider runtimes as their users see it: at most one is live *)
(* and can be borrowed, a retired one is given back by those that have it,  *)
(* and only then closed.  Locks, tasks, failures and retries do not show.   *)
(***************************************************************************)
EXTENDS Naturals

CONSTANT Runtimes

VARIABLES
  stage, \* "absent", "live", "retired" or "closed"
  users  \* how many use each runtime

vars == <<stage, users>>

Init ==
  /\ stage = [r \in Runtimes |-> IF r = 1 THEN "live" ELSE "absent"]
  /\ users = [r \in Runtimes |-> 0]

\* The live runtime is replaced in the very moment the new one goes live.
Publish(r) ==
  /\ stage[r] = "absent"
  /\ \E previous \in Runtimes :
       /\ stage[previous] = "live"
       /\ stage' = [stage EXCEPT ![r] = "live", ![previous] = "retired"]
  /\ UNCHANGED users

\* A candidate that never goes live.
Discard(r) ==
  /\ stage[r] = "absent"
  /\ stage' = [stage EXCEPT ![r] = "retired"]
  /\ UNCHANGED users

\* The shutdown retires the last live runtime.
Retire(r) ==
  /\ stage[r] = "live"
  /\ stage' = [stage EXCEPT ![r] = "retired"]
  /\ UNCHANGED users

Borrow(r) ==
  /\ stage[r] = "live"
  /\ users' = [users EXCEPT ![r] = @ + 1]
  /\ UNCHANGED stage

GiveBack(r) ==
  /\ stage[r] \in {"live", "retired"}
  /\ users[r] > 0
  /\ users' = [users EXCEPT ![r] = @ - 1]
  /\ UNCHANGED stage

Close(r) ==
  /\ stage[r] = "retired"
  /\ users[r] = 0
  /\ stage' = [stage EXCEPT ![r] = "closed"]
  /\ UNCHANGED users

Next == \E r \in Runtimes : \/ Publish(r) \/ Discard(r) \/ Retire(r)
                            \/ Borrow(r) \/ GiveBack(r) \/ Close(r)

Spec == Init /\ [][Next]_vars
=============================================================================
