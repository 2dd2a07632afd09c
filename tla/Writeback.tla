------------------------------ MODULE Writeback ------------------------------
(***************************************************************************)
(* The writeback pipeline of Flago: proposals saved as pending actions,    *)
(* the card clicks that confirm or cancel them, the call to Feishu that    *)
(* carries a confirmed action out, the record of executions, and the       *)
(* /undo command that turns an execution into a new pending action.        *)
(*                                                                         *)
(* Every store call of the code opens its own SQLite connection and        *)
(* commits its own transaction, and every one is awaited.  A session below *)
(* is one coroutine (a click, a command or a message being handled); each  *)
(* of its steps is one store call or one call to Feishu together with the  *)
(* plain code that runs up to the next await.  Sessions of one event loop, *)
(* of background threads and of other processes on the same database       *)
(* interleave between those steps.                                         *)
(***************************************************************************)
EXTENDS Integers, FiniteSets

CONSTANTS
    Actors,         \* Feishu users
    Actions,        \* primary keys of pending_actions (uuid4 values)
    Sessions,       \* coroutines that may be in flight at the same time
    ProposalTypes,  \* the write types the assistant proposes
    DirectAllowed,  \* the effective confirmation mode is LOW_RISK_DIRECT
    Ttl,            \* pending_action_ttl_seconds, in ticks
    MaxTime,        \* bound on the clock
    None            \* SQL NULL, Python None

WriteActionType ==
    {"doc_create", "doc_append", "doc_delete_block", "sheet_write_range",
     "bitable_create_record", "bitable_update_record",
     "bitable_delete_record", "message_send"}

VARIABLES
    status,   \* pending_actions.status, "absent" where there is no row
    details,  \* the other columns of pending_actions, never updated
    rows,     \* writeback_executions, None where there is no row
    audit,    \* the kinds of audit_events recorded for each action
    cards,    \* actions whose confirmation card has reached the chat
    pc,       \* the next step of each session
    req,      \* the actor and the action a session works for
    writes,   \* how often the write of an action took effect in Feishu
    now       \* the wall clock

table == <<status, details, rows, audit>>
vars  == <<status, details, rows, audit, cards, pc, req, writes, now>>
-----------------------------------------------------------------------------
PendingActionStatus ==
    {"pending", "confirmed", "executed", "failed", "canceled", "expired"}

AuditEventType ==
    {"action_created", "action_confirmed", "action_canceled",
     "action_expired", "write_executed", "write_reverted", "error"}

Labels ==
    {"idle", "insert_undo", "audit_created", "send_card",
     "read_confirm", "set_expired", "audit_expired", "audit_blocked",
     "set_confirmed", "audit_confirmed", "execute",
     "set_failed", "audit_failed", "set_executed", "save_execution",
     "mark_reverted", "audit_reverted", "audit_executed",
     "read_cancel", "set_canceled", "audit_canceled"}

Details ==
    [owner : Actors, type : WriteActionType, undoOf : Actions \cup {None},
     oversize : BOOLEAN, expires : Nat]

Execution ==
    [undo : WriteActionType \cup {None}, reverted : BOOLEAN, executedAt : Nat]

ASSUME ConstantsAssumption ==
    /\ None \notin Actors \cup Actions \cup WriteActionType
    /\ None \notin Details \cup Execution
    /\ ProposalTypes \subseteq WriteActionType
    /\ DirectAllowed \in BOOLEAN
    /\ Ttl \in Nat \ {0}
    /\ MaxTime \in Nat

Request   == [actor : Actors \cup {None}, action : Actions \cup {None}]
NoRequest == [actor |-> None, action |-> None]

TypeOK ==
    /\ status \in [Actions -> PendingActionStatus \cup {"absent"}]
    /\ details \in [Actions -> Details \cup {None}]
    /\ rows \in [Actions -> Execution \cup {None}]
    /\ audit \in [Actions -> SUBSET AuditEventType]
    /\ cards \in SUBSET Actions
    /\ pc \in [Sessions -> Labels]
    /\ req \in [Sessions -> Request]
    /\ writes \in [Actions -> Nat]
    /\ now \in Nat

Init ==
    /\ status = [a \in Actions |-> "absent"]
    /\ details = [a \in Actions |-> None]
    /\ rows = [a \in Actions |-> None]
    /\ audit = [a \in Actions |-> {}]
    /\ cards = {}
    /\ pc = [s \in Sessions |-> "idle"]
    /\ req = [s \in Sessions |-> NoRequest]
    /\ writes = [a \in Actions |-> 0]
    /\ now = 0
-----------------------------------------------------------------------------
(* Steps of a session *)

Goto(s, label) == pc' = [pc EXCEPT ![s] = label]

Begin(s, label, actor, a) ==
    /\ pc[s] = "idle"
    /\ Goto(s, label)
    /\ req' = [req EXCEPT ![s] = [actor |-> actor, action |-> a]]

Return(s) ==
    /\ Goto(s, "idle")
    /\ req' = [req EXCEPT ![s] = NoRequest]

ExpiresAtMinusTtl == now - Ttl  \* mutant of ExpiresAt: the sign of the TTL

ExpiresAt == now + Ttl

(* save_pending_action: the INSERT; its audit event is a second commit.    *)
Insert(a, owner, type, undoOf, oversize) ==
    /\ status[a] = "absent"
    /\ status' = [status EXCEPT ![a] = "pending"]
    /\ details' = [details EXCEPT ![a] =
           [owner |-> owner, type |-> type, undoOf |-> undoOf,
            oversize |-> oversize, expires |-> ExpiresAt]]

(* set_pending_action_status: an UPDATE whose WHERE names only the key.    *)
SetStatus(s, st) == status' = [status EXCEPT ![req[s].action] = st]

Record(a, event) == audit' = [audit EXCEPT ![a] = @ \cup {event}]

(* What _undo_metadata may return: nothing for an undo, nothing for a type *)
(* without an inverse, and otherwise the inverse type, or nothing when     *)
(* Feishu's answer lacks the identifiers the inverse needs.                *)
UndoType ==
    [doc_append            |-> "doc_delete_block",
     bitable_create_record |-> "bitable_delete_record",
     sheet_write_range     |-> "sheet_write_range"]

UndoMetadata(a) ==
    IF details[a].undoOf = None /\ details[a].type \in DOMAIN UndoType
    THEN {None, UndoType[details[a].type]}
    ELSE {None}

Reversible(actor) ==
    {a \in Actions : /\ rows[a] # None
                     /\ details[a].owner = actor
                     /\ rows[a].undo # None
                     /\ ~rows[a].reverted}

(* find_latest_reversible_writeback; equal timestamps are in any order.    *)
LatestReversible(actor) ==
    {a \in Reversible(actor) :
        \A b \in Reversible(actor) : rows[b].executedAt <= rows[a].executedAt}
-----------------------------------------------------------------------------
(* Proposals *)

(* A message makes the assistant propose a write; it is saved as pending.  *)
Propose(s, actor, a, type, oversize) ==
    /\ type \in ProposalTypes
    /\ Insert(a, actor, type, None, oversize)
    /\ Begin(s, "audit_created", actor, a)
    /\ UNCHANGED <<rows, audit, cards, writes, now>>

(* /undo looks for the latest reversible execution of the sender.          *)
RequestUndo(s, actor) ==
    /\ \E a \in LatestReversible(actor) : Begin(s, "insert_undo", actor, a)
    /\ UNCHANGED <<table, cards, writes, now>>

InsertUndoReverting(s, a) ==  \* mutant of InsertUndo: reverts too early
    LET original == req[s].action IN
    /\ pc[s] = "insert_undo"
    /\ \E oversize \in BOOLEAN :
           Insert(a, req[s].actor, UndoType[details[original].type], original,
                  oversize)
    /\ rows' = [rows EXCEPT ![original].reverted = TRUE]
    /\ Goto(s, "audit_created")
    /\ req' = [req EXCEPT ![s].action = a]
    /\ UNCHANGED <<audit, cards, writes, now>>

(* ... and saves its inverse as a new pending action of the same sender.   *)
InsertUndo(s, a) ==
    LET original == req[s].action IN
    /\ pc[s] = "insert_undo"
    /\ \E oversize \in BOOLEAN :
           Insert(a, req[s].actor, UndoType[details[original].type], original,
                  oversize)
    /\ Goto(s, "audit_created")
    /\ req' = [req EXCEPT ![s].action = a]
    /\ UNCHANGED <<rows, audit, cards, writes, now>>

(* After the audit event the proposal goes to the chat as a card, or, for  *)
(* a low-risk append under LOW_RISK_DIRECT, straight to confirm().         *)
AuditCreated(s) ==
    /\ pc[s] = "audit_created"
    /\ Record(req[s].action, "action_created")
    /\ \/ Goto(s, "send_card")
       \/ /\ DirectAllowed
          /\ details[req[s].action].type = "doc_append"
          /\ Goto(s, "read_confirm")
    /\ UNCHANGED <<status, details, rows, cards, req, writes, now>>

SendCard(s) ==
    /\ pc[s] = "send_card"
    /\ cards' = cards \cup {req[s].action}
    /\ Return(s)
    /\ UNCHANGED <<table, writes, now>>
-----------------------------------------------------------------------------
(* Confirmation *)

(* Anyone who sees a card may click it; a card of a database that has been *)
(* replaced since names no row.                                            *)
Click(s, actor, a, label) ==
    /\ a \in cards \cup {None}
    /\ Begin(s, label, actor, a)
    /\ UNCHANGED <<table, cards, writes, now>>

ActionableByAnyone(r) ==  \* mutant of Actionable: no look at the creator
    /\ r.action # None
    /\ status[r.action] = "pending"

ActionableAnyTime(r) ==  \* mutant of Actionable: no look at the status
    /\ r.action # None
    /\ status[r.action] # "absent"
    /\ details[r.action].owner = r.actor

(* The checks that confirm() and cancel() share: the row exists, it is the *)
(* clicker's own, and it is still pending.                                 *)
Actionable(r) ==
    /\ r.action # None
    /\ status[r.action] = "pending"
    /\ details[r.action].owner = r.actor

Expired(r) == details[r.action].expires <= now

WithinLimits(r) == ~details[r.action].oversize

ReadForConfirm(s) ==
    /\ pc[s] = "read_confirm"
    /\ \/ /\ ~Actionable(req[s])
          /\ Return(s)
       \/ /\ Actionable(req[s]) /\ Expired(req[s])
          /\ Goto(s, "set_expired")
          /\ UNCHANGED req
       \/ /\ Actionable(req[s]) /\ ~Expired(req[s])
          /\ Goto(s, IF WithinLimits(req[s]) THEN "set_confirmed"
                                             ELSE "audit_blocked")
          /\ UNCHANGED req
    /\ UNCHANGED <<table, cards, writes, now>>

SetExpired(s) ==
    /\ pc[s] = "set_expired"
    /\ SetStatus(s, "expired")
    /\ Goto(s, "audit_expired")
    /\ UNCHANGED <<details, rows, audit, cards, req, writes, now>>

SetConfirmed(s) ==
    /\ pc[s] = "set_confirmed"
    /\ SetStatus(s, "confirmed")
    /\ Goto(s, "audit_confirmed")
    /\ UNCHANGED <<details, rows, audit, cards, req, writes, now>>

AuditConfirmed(s) ==
    /\ pc[s] = "audit_confirmed"
    /\ Record(req[s].action, "action_confirmed")
    /\ Goto(s, "execute")
    /\ UNCHANGED <<status, details, rows, cards, req, writes, now>>

ExecuteTrusting(s) ==  \* mutant of Execute: a refusal passes for success
    /\ pc[s] = "execute"
    /\ \/ /\ writes' = [writes EXCEPT ![req[s].action] = @ + 1]
          /\ Goto(s, "set_executed")
       \/ /\ UNCHANGED writes
          /\ Goto(s, "set_executed")
    /\ UNCHANGED <<table, cards, req, now>>

(* The executor's call to Feishu.  It raises when the request is refused,  *)
(* but also when the answer is lost after the write took effect.           *)
Execute(s) ==
    /\ pc[s] = "execute"
    /\ \/ /\ writes' = [writes EXCEPT ![req[s].action] = @ + 1]
          /\ Goto(s, "set_executed")
       \/ /\ writes' = [writes EXCEPT ![req[s].action] = @ + 1]
          /\ Goto(s, "set_failed")
       \/ /\ UNCHANGED writes
          /\ Goto(s, "set_failed")
    /\ UNCHANGED <<table, cards, req, now>>

SetFailedRetryable(s) ==  \* mutant of SetFailed: offers the write again
    /\ pc[s] = "set_failed"
    /\ SetStatus(s, "pending")
    /\ Goto(s, "audit_failed")
    /\ UNCHANGED <<details, rows, audit, cards, req, writes, now>>

SetFailedUnmarked(s) ==  \* mutant of SetFailed: only the audit event
    /\ pc[s] = "set_failed"
    /\ Goto(s, "audit_failed")
    /\ UNCHANGED <<table, cards, req, writes, now>>

SetFailed(s) ==
    /\ pc[s] = "set_failed"
    /\ SetStatus(s, "failed")
    /\ Goto(s, "audit_failed")
    /\ UNCHANGED <<details, rows, audit, cards, req, writes, now>>

SetExecuted(s) ==
    /\ pc[s] = "set_executed"
    /\ SetStatus(s, "executed")
    /\ Goto(s, "save_execution")
    /\ UNCHANGED <<details, rows, audit, cards, req, writes, now>>

SaveExecutionIfReversible(s) ==  \* mutant: keeps only what /undo can use
    LET a == req[s].action IN
    /\ pc[s] = "save_execution"
    /\ \E undo \in UndoMetadata(a) :
           rows' = [rows EXCEPT ![a] =
               IF undo = None
               THEN @
               ELSE [undo |-> undo, reverted |-> FALSE, executedAt |-> now]]
    /\ Goto(s, IF details[a].undoOf = None THEN "audit_executed"
                                           ELSE "mark_reverted")
    /\ UNCHANGED <<status, details, audit, cards, req, writes, now>>

(* save_writeback_execution: a second execution of the same action keeps   *)
(* executed_at and reverted_at and replaces the undo columns.              *)
SaveExecution(s) ==
    LET a == req[s].action IN
    /\ pc[s] = "save_execution"
    /\ \E undo \in UndoMetadata(a) :
           rows' = [rows EXCEPT ![a] =
               IF @ = None
               THEN [undo |-> undo, reverted |-> FALSE, executedAt |-> now]
               ELSE [@ EXCEPT !.undo = undo]]
    /\ Goto(s, IF details[a].undoOf = None THEN "audit_executed"
                                           ELSE "mark_reverted")
    /\ UNCHANGED <<status, details, audit, cards, req, writes, now>>

MarkReverted(s) ==
    LET original == details[req[s].action].undoOf IN
    /\ pc[s] = "mark_reverted"
    /\ rows' = [rows EXCEPT ![original] =
                   IF @ = None THEN None ELSE [@ EXCEPT !.reverted = TRUE]]
    /\ Goto(s, "audit_reverted")
    /\ UNCHANGED <<status, details, audit, cards, req, writes, now>>

AuditReverted(s) ==
    /\ pc[s] = "audit_reverted"
    /\ Record(details[req[s].action].undoOf, "write_reverted")
    /\ Goto(s, "audit_executed")
    /\ UNCHANGED <<status, details, rows, cards, req, writes, now>>
-----------------------------------------------------------------------------
(* Cancellation *)

ReadForCancel(s) ==
    /\ pc[s] = "read_cancel"
    /\ \/ /\ ~Actionable(req[s])
          /\ Return(s)
       \/ /\ Actionable(req[s])
          /\ Goto(s, "set_canceled")
          /\ UNCHANGED req
    /\ UNCHANGED <<table, cards, writes, now>>

SetCanceled(s) ==
    /\ pc[s] = "set_canceled"
    /\ SetStatus(s, "canceled")
    /\ Goto(s, "audit_canceled")
    /\ UNCHANGED <<details, rows, audit, cards, req, writes, now>>
-----------------------------------------------------------------------------
(* The last audit event of a request; the answer follows without an await. *)
FinalEvent ==
    [audit_expired  |-> "action_expired",  audit_blocked  |-> "error",
     audit_failed   |-> "error",           audit_executed |-> "write_executed",
     audit_canceled |-> "action_canceled"]

AuditAndAnswer(s) ==
    /\ pc[s] \in DOMAIN FinalEvent
    /\ Record(req[s].action, FinalEvent[pc[s]])
    /\ Return(s)
    /\ UNCHANGED <<status, details, rows, cards, writes, now>>

(* A session ends early: a store call raises (SQLite busy, disk full), the *)
(* card cannot be sent, or the process stops and takes its daemon threads  *)
(* with it.  Nothing resumes it: what it had committed stays as it is.     *)
Abort(s) ==
    /\ pc[s] # "idle"
    /\ Return(s)
    /\ UNCHANGED <<table, cards, writes, now>>

Tick ==
    /\ now < MaxTime
    /\ now' = now + 1
    /\ UNCHANGED <<table, cards, pc, req, writes>>

Proceed(s) ==
    \/ \E a \in Actions : InsertUndo(s, a)
    \/ AuditCreated(s)
    \/ SendCard(s)
    \/ ReadForConfirm(s)
    \/ SetExpired(s)
    \/ SetConfirmed(s)
    \/ AuditConfirmed(s)
    \/ Execute(s)
    \/ SetFailed(s)
    \/ SetExecuted(s)
    \/ SaveExecution(s)
    \/ MarkReverted(s)
    \/ AuditReverted(s)
    \/ ReadForCancel(s)
    \/ SetCanceled(s)
    \/ AuditAndAnswer(s)

Arrive(s) ==
    \E actor \in Actors :
        \/ \E a \in Actions, type \in ProposalTypes, oversize \in BOOLEAN :
               Propose(s, actor, a, type, oversize)
        \/ RequestUndo(s, actor)
        \/ \E a \in Actions \cup {None} :
               \/ Click(s, actor, a, "read_confirm")
               \/ Click(s, actor, a, "read_cancel")

Serve == Tick \/ \E s \in Sessions : Arrive(s) \/ Proceed(s)

Next == Serve \/ \E s \in Sessions : Abort(s)

Spec == Init /\ [][Next]_vars
-----------------------------------------------------------------------------
(* Properties that hold however the sessions interleave or abort *)

(* Nothing reaches Feishu without a durable decision: an action that was   *)
(* written has left "pending" and its ACTION_CONFIRMED audit event is in   *)
(* the table (service.py confirms and audits before it executes).          *)
WriteIsDecided ==
    \A a \in Actions : writes[a] > 0 =>
        /\ status[a] \notin {"absent", "pending"}
        /\ "action_confirmed" \in audit[a]

(* What Flago reports as carried out was carried out: a row of             *)
(* writeback_executions or a WRITE_EXECUTED event exists only for an       *)
(* action that was written, and the event only once the row exists, so     *)
(* that /undo and the history find what the audit trail claims.            *)
ReportedMeansWritten ==
    \A a \in Actions :
        /\ rows[a] # None => writes[a] > 0
        /\ "write_executed" \in audit[a] => rows[a] # None

(* An execution counts as reverted only if some undo of it, owned by the   *)
(* same user, was itself confirmed, written and recorded.                  *)
RevertedMeansUndone ==
    \A a \in Actions : rows[a] # None /\ rows[a].reverted =>
        \E u \in Actions : /\ rows[u] # None
                           /\ details[u].undoOf = a
                           /\ details[u].owner = details[a].owner
                           /\ writes[u] > 0

(* /undo never chains: the execution of an undo is not itself reversible,  *)
(* and no pending action undoes an undo (README: no endless undo of undo). *)
NoUndoOfUndo ==
    \A a \in Actions : status[a] # "absent" /\ details[a].undoOf # None =>
        /\ details[details[a].undoOf].undoOf = None
        /\ rows[a] # None => rows[a].undo = None

(* The check and the update of a status are separate transactions, so      *)
(* clicks that race may all write; but only those that read "pending"      *)
(* before the first decision: an action is never written more often than   *)
(* sessions can be in flight together, however many clicks follow.         *)
Racing(a) ==
    {s \in Sessions : req[s].action = a
                      /\ pc[s] \in {"set_confirmed", "audit_confirmed", "execute"}}

WritesBoundedByRace ==
    \A a \in Actions : writes[a] + Cardinality(Racing(a)) <= Cardinality(Sessions)

(* A decision is never taken back: no step makes a decided action pending  *)
(* again, so a failed or abandoned write is not offered a second time.     *)
Decided(a) == status[a] \notin {"absent", "pending"}

DecisionIsFinal == [][\A a \in Actions : Decided(a) => Decided(a)']_status

(* Only the user who caused an action moves it: every change of its status *)
(* and every write of it is a step of a session of that user.              *)
OnlyOwnerDecides ==
    [][\A a \in Actions :
          (status[a] # "absent" /\ (status'[a] # status[a] \/ writes'[a] # writes[a]))
          => \E s \in Sessions : /\ req[s].action = a
                                 /\ req[s].actor = details[a].owner
                                 /\ pc'[s] # pc[s]]_vars
-----------------------------------------------------------------------------
(* Properties that need requests to be handled one after the other *)

(* One confirmed proposal is written at most once.                         *)
AtMostOneWrite == \A a \in Actions : writes[a] <= 1

(* A refused action is not written: what was canceled or has expired has   *)
(* no effect in Feishu, and what is marked executed has exactly one.       *)
StatusTellsTheTruth ==
    \A a \in Actions :
        /\ status[a] \in {"pending", "canceled", "expired"} => writes[a] = 0
        /\ status[a] = "executed" => writes[a] = 1

(* One execution is undone at most once.                                   *)
Undone(a) == {u \in Actions : /\ status[u] # "absent"
                              /\ details[u].undoOf = a
                              /\ writes[u] > 0}

UndoneAtMostOnce == \A a \in Actions : Cardinality(Undone(a)) <= 1
-----------------------------------------------------------------------------
(* Liveness *)

(* An event loop resumes a coroutine whose store or HTTP call returned,    *)
(* and every such call returns: SQLite waits at most its busy timeout and  *)
(* httpx is given 30 s.  Fairness is on the steps a session already owes;  *)
(* nothing forces a user to click, or time to pass.  No session dies here: *)
(* nothing in the code resumes the work of one that did.                   *)
FairSpec == Init /\ [][Serve]_vars /\ \A s \in Sessions : WF_vars(Proceed(s))

(* A confirmed action does not stay confirmed, even when a racing cancel   *)
(* or expiry overwrites its status for a while.                            *)
ConfirmedSettles ==
    \A a \in Actions :
        status[a] = "confirmed" ~> status[a] \in {"executed", "failed"}

(* Every write that Feishu acknowledged gets its row, so that /undo and    *)
(* the history can find it.                                                *)
SuccessIsRecorded ==
    \A s \in Sessions, a \in Actions :
        pc[s] = "set_executed" /\ req[s].action = a ~> rows[a] # None
-----------------------------------------------------------------------------
(* What a pending action promises, apart from sessions and tables.         *)
Lifecycle == INSTANCE WritebackLifecycle WITH status <- status, writes <- writes

LifecycleSpec == Lifecycle!Spec
=============================================================================
