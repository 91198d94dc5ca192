----------------------------- MODULE FencedTask -----------------------------
(***************************************************************************)
(* What a handover promises, without its calls, its checkpoint and its     *)
(* retries: a task is held by one realm at a time, moves from the local to *)
(* the Modal realm at most once and only while it is open, and is finished *)
(* at most once, by the realm that holds it.  Handover.tla implements it.  *)
(***************************************************************************)
CONSTANT Open   \* the outcome of a task nobody has finished

VARIABLES
    holder,     \* the realm that may finish the task
    outcome,    \* the realm that finished it, or Open
    cancelled   \* the handover was revoked

vars == <<holder, outcome, cancelled>>

Init == holder = "local" /\ outcome = Open /\ cancelled = FALSE

Move ==
    /\ holder = "local" /\ outcome = Open /\ ~cancelled
    /\ holder' = "modal"
    /\ UNCHANGED <<outcome, cancelled>>

Finish ==
    /\ outcome = Open /\ ~cancelled
    /\ outcome' = holder
    /\ UNCHANGED <<holder, cancelled>>

Cancel == cancelled' = TRUE /\ UNCHANGED <<holder, outcome>>

Next == Move \/ Finish \/ Cancel

Spec == Init /\ [][Next]_vars

=============================================================================
