----------------------------- MODULE RateBudget -----------------------------
(***************************************************************************)
(* What the per-IP limiter promises: each key has a budget of Limit events *)
(* per window, a window opens with the first event after the previous one  *)
(* closed, and nothing else (no pruning, no other key) touches a budget.   *)
(***************************************************************************)
EXTENDS Integers

CONSTANTS Keys, Limit, Window

VARIABLES
  now,
  used,    \* per key: events granted in its open window, 0 when none is open
  until    \* per key: when that window closes, 0 when none is open

budgetVars == <<now, used, until>>

Open(k, t) == used[k] # 0 /\ t < until[k]

Init ==
  /\ now = 0
  /\ used = [k \in Keys |-> 0]
  /\ until = [k \in Keys |-> 0]

Grant(k) ==
  /\ ~Open(k, now) \/ used[k] < Limit
  /\ used' = [used EXCEPT ![k] = IF Open(k, now) THEN used[k] + 1 ELSE 1]
  /\ until' = [until EXCEPT ![k] = IF Open(k, now) THEN until[k] ELSE now + Window]
  /\ UNCHANGED now

\* Time passes, and closes the windows it reaches.
Tick ==
  /\ now' = now + 1
  /\ used' = [k \in Keys |-> IF Open(k, now') THEN used[k] ELSE 0]
  /\ until' = [k \in Keys |-> IF Open(k, now') THEN until[k] ELSE 0]

Next == Tick \/ \E k \in Keys : Grant(k)

Spec == Init /\ [][Next]_budgetVars
=============================================================================
