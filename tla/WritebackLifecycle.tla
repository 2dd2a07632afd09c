-------------------------- MODULE WritebackLifecycle --------------------------
(***************************************************************************)
(* What a pending action promises to the user who sees its card: it is     *)
(* decided once, a refusal has no effect, and a confirmation has at most   *)
(* one.  An action that failed may or may not have had its effect: Feishu  *)
(* may have carried out a request whose answer was lost.                   *)
(***************************************************************************)
EXTENDS Naturals

CONSTANT Actions

VARIABLES status, writes

vars == <<status, writes>>

Init ==
    /\ status = [a \in Actions |-> "absent"]
    /\ writes = [a \in Actions |-> 0]

Move(a, from, to) ==
    /\ status[a] = from
    /\ status' = [status EXCEPT ![a] = to]
    /\ UNCHANGED writes

Offer(a)   == Move(a, "absent", "pending")
Confirm(a) == Move(a, "pending", "confirmed")
Cancel(a)  == Move(a, "pending", "canceled")
Expire(a)  == Move(a, "pending", "expired")
Fail(a)    == Move(a, "confirmed", "failed")

Succeed(a) ==
    /\ writes[a] = 1
    /\ Move(a, "confirmed", "executed")

Write(a) ==
    /\ status[a] = "confirmed"
    /\ writes[a] = 0
    /\ writes' = [writes EXCEPT ![a] = 1]
    /\ UNCHANGED status

Next ==
    \E a \in Actions :
        \/ Offer(a) \/ Confirm(a) \/ Cancel(a) \/ Expire(a)
        \/ Write(a) \/ Succeed(a) \/ Fail(a)

Spec == Init /\ [][Next]_vars
=============================================================================
