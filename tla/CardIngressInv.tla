---------------------------- MODULE CardIngressInv ----------------------------
(***************************************************************************)
(* The inductive invariant behind the theorems of CardIngressProofs, in a  *)
(* module of its own so that TLC can check it.                             *)
(***************************************************************************)
EXTENDS CardIngress, WritebackInv

(* A callback knows its event and its press, and a key in the table is     *)
(* that of an event that was served.                                       *)
KeysInv ==
    /\ \A s \in Sessions : channel[s] = "callback" =>
           /\ callback[s] \in Events
           /\ pressed[callback[s]] # None
    /\ \A e \in Events : served[e] = IF e \in keys THEN 1 ELSE 0

(* The session is in confirm() or cancel().                                *)
InService(s) == pc[s] \notin {"idle", "insert_undo", "audit_created", "send_card"}

(* The session is a message's that has made a proposal.                    *)
Proposes(s) == channel[s] = "message" /\ pc[s] # "insert_undo"

(* Who works for an action, by the channel it came through.                *)
ChannelInv ==
    /\ \A a \in cards : status[a] # "absent"
    /\ \A s \in Sessions :
           /\ pc[s] = "idle" => channel[s] \in {"none", "callback"}
           /\ channel[s] = "none" => pc[s] = "idle"
           /\ channel[s] = "click" <=> loop = s
           /\ channel[s] = "click" => /\ InService(s)
                                      /\ req[s].action \in cards \cup {None}
           /\ channel[s] \in {"background", "callback"} /\ pc[s] # "idle" =>
                  /\ InService(s)
                  /\ req[s].action \in overlapped \cup {None}
           /\ Proposes(s) => /\ req[s].action \in Actions \ cards
                             /\ status[req[s].action] # "absent"
    /\ \A s, t \in Sessions :
           Proposes(s) /\ Proposes(t) /\ req[s].action = req[t].action => s = t

(* What a request knows of an action that nobody else works for.           *)
Knows(s) ==
    LET a == req[s].action IN
    /\ pc[s] \in {"set_confirmed", "set_expired", "set_canceled"} =>
           status[a] = "pending" /\ writes[a] = 0
    /\ pc[s] \in {"audit_confirmed", "execute"} =>
           status[a] = "confirmed" /\ writes[a] = 0
    /\ pc[s] = "set_failed" => status[a] = "confirmed"
    /\ pc[s] = "set_executed" => status[a] = "confirmed" /\ writes[a] = 1
    /\ pc[s] \in Recorded \cup {"save_execution"} => status[a] = "executed"
    /\ pc[s] = "audit_canceled" => status[a] = "canceled"

(* What is true of such an action.                                         *)
Settled(a) ==
    /\ writes[a] <= 1
    /\ status[a] \in {"absent", "pending", "canceled", "expired"} => writes[a] = 0
    /\ status[a] = "executed" => writes[a] = 1
    /\ "canceled" \in told[a] => status[a] = "canceled"
    /\ "executed" \in told[a] => status[a] = "executed"

OutcomeInv ==
    /\ \A a \in Actions \ overlapped : Settled(a)
    /\ \A s \in Sessions :
           InService(s) /\ req[s].action \in Actions \ overlapped => Knows(s)

CardIInv == IInv /\ CardTypeOK /\ KeysInv /\ ChannelInv /\ OutcomeInv
=============================================================================
