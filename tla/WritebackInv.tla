----------------------------- MODULE WritebackInv -----------------------------
(***************************************************************************)
(* The inductive invariants behind the theorems of WritebackProofs, in a   *)
(* module of their own so that TLC can check them.                         *)
(***************************************************************************)
EXTENDS Writeback

(* What a session knows about its action, by the step it has reached.      *)
Undoing  == {"mark_reverted", "audit_reverted"}
Recorded == Undoing \cup {"audit_executed"}
Written  == Recorded \cup {"set_executed", "save_execution"}
Audited  == Written \cup {"execute", "set_failed", "audit_failed"}
Settling == Audited \cup {"audit_confirmed", "audit_expired", "audit_canceled"}
Holding  == Labels \ {"idle", "insert_undo", "read_confirm", "read_cancel"}

HoldsAction(s) ==
    pc[s] \in Holding => /\ req[s].action # None
                         /\ status[req[s].action] # "absent"
                         /\ req[s].actor = details[req[s].action].owner

HoldsOriginal(s) ==
    pc[s] = "insert_undo" => /\ req[s].actor \in Actors
                             /\ req[s].action # None
                             /\ rows[req[s].action] # None
                             /\ details[req[s].action].type \in DOMAIN UndoType
                             /\ details[req[s].action].undoOf = None
                             /\ details[req[s].action].owner = req[s].actor

Progressed(s) ==
    /\ pc[s] \in Settling => Decided(req[s].action)
    /\ pc[s] \in Audited  => "action_confirmed" \in audit[req[s].action]
    /\ pc[s] \in Written  => writes[req[s].action] > 0
    /\ pc[s] \in Recorded => rows[req[s].action] # None
    /\ pc[s] \in Undoing  => details[req[s].action].undoOf # None

SessionInv ==
    \A s \in Sessions : HoldsAction(s) /\ HoldsOriginal(s) /\ Progressed(s)

(* What the tables say of an action, whatever the sessions do.             *)
RowInv(a) ==
    /\ status[a] # "absent" <=> details[a] # None
    /\ rows[a] # None => details[a] # None
    /\ rows[a] # None /\ rows[a].undo # None =>
           /\ details[a].undoOf = None
           /\ details[a].type \in DOMAIN UndoType
    /\ details[a] # None /\ details[a].undoOf # None =>
           /\ details[details[a].undoOf] # None
           /\ details[details[a].undoOf].undoOf = None
           /\ details[details[a].undoOf].owner = details[a].owner

TableInv == \A a \in Actions : RowInv(a)

IInv ==
    /\ TypeOK
    /\ SessionInv
    /\ TableInv
    /\ WriteIsDecided
    /\ ReportedMeansWritten

(* With one request at a time, the session that may still write an action  *)
(* knows that nobody has.                                                  *)
Serial == \A s, t \in Sessions : s = t

Alone(s) ==
    /\ pc[s] \in {"set_confirmed", "set_expired", "set_canceled"} =>
           status[req[s].action] = "pending"
    /\ pc[s] \in {"audit_confirmed", "execute"} =>
           /\ status[req[s].action] = "confirmed"
           /\ writes[req[s].action] = 0
    /\ pc[s] \in {"set_failed", "set_executed"} =>
           status[req[s].action] = "confirmed"
    /\ pc[s] = "set_executed" => writes[req[s].action] = 1

SerialInv ==
    /\ AtMostOneWrite
    /\ StatusTellsTheTruth
    /\ \A s \in Sessions : Alone(s)
=============================================================================
