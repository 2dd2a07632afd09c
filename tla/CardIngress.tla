------------------------------ MODULE CardIngress ------------------------------
(***************************************************************************)
(* How card clicks reach the writeback service.  `flago serve` is one      *)
(* process with two event loops on one database.                           *)
(*                                                                         *)
(* The long-connection worker runs its own loop.  Messages are tasks of    *)
(* it.  A card click is handled by a blocking callback: the service runs   *)
(* in a thread with a loop of its own, and the worker's loop, with every   *)
(* task on it, stands still until the thread has a result or, for a        *)
(* confirm, until the acknowledgement timeout leaves the thread running    *)
(* in the background.                                                      *)
(*                                                                         *)
(* The HTTP callback runs on the server's loop.  Feishu delivers an event  *)
(* again when the answer is late or an error, and the event id, inserted   *)
(* in idempotency_keys before the service is called, filters the repeats.  *)
(***************************************************************************)
EXTENDS Writeback

CONSTANT Events    \* ids of card events delivered over HTTP

VARIABLES
    loop,        \* the session whose result the worker's loop waits for
    channel,     \* through which channel each session came
    callback,    \* the event that an HTTP session handles
    pressed,     \* what the user did, for the events delivered over HTTP
    keys,        \* the event ids in idempotency_keys
    served,      \* how often an event was handed to the writeback service
    told,        \* the outcomes that the toasts announced for each action
    overlapped   \* actions with a request that the worker's loop did not wait for

ingress == <<loop, channel, callback, pressed, keys, served, told, overlapped>>
cardVars == <<vars, ingress>>
-----------------------------------------------------------------------------
Channels == {"none", "message", "click", "background", "callback"}

Presses == [actor : Actors, action : Actions,
            label : {"read_confirm", "read_cancel"}]

ASSUME EventsAssumption ==
    /\ None \notin Sessions \cup Events
    /\ None \notin Presses

(* The toasts that announce what became of the action.                     *)
Outcomes == {"executed", "canceled", "expired"}

CardTypeOK ==
    /\ loop \in Sessions \cup {None}
    /\ channel \in [Sessions -> Channels]
    /\ callback \in [Sessions -> Events \cup {None}]
    /\ pressed \in [Events -> Presses \cup {None}]
    /\ keys \in SUBSET Events
    /\ served \in [Events -> Nat]
    /\ told \in [Actions -> SUBSET Outcomes]
    /\ overlapped \in SUBSET Actions

CardInit ==
    /\ Init
    /\ loop = None
    /\ channel = [s \in Sessions |-> "none"]
    /\ callback = [s \in Sessions |-> None]
    /\ pressed = [e \in Events |-> None]
    /\ keys = {}
    /\ served = [e \in Events |-> 0]
    /\ told = [a \in Actions |-> {}]
    /\ overlapped = {}

(* What the service answers, by the step that ends the request.            *)
AnswerAt ==
    [audit_executed |-> "executed", audit_expired  |-> "expired",
     audit_failed   |-> "failed",   audit_blocked  |-> "failed",
     audit_canceled |-> "canceled", read_confirm   |-> "refused",
     read_cancel    |-> "refused",  send_card      |-> "sent"]

ReleaseOnSuccess(s, answer) ==  \* mutant of Release: an exception is not passed on
    loop' = IF loop = s /\ answer # "error" THEN None ELSE loop

(* The thread's future has a result or an exception: the loop goes on.     *)
Release(s, answer) ==
    loop' = IF loop = s THEN None ELSE loop

(* The end of a request: a handler that still waits shows the answer.      *)
Done(s, answer) ==
    /\ Release(s, answer)
    /\ channel' = [channel EXCEPT ![s] = "none"]
    /\ callback' = [callback EXCEPT ![s] = None]
    /\ told' = IF channel[s] \in {"click", "callback"} /\ req[s].action # None
               THEN [told EXCEPT ![req[s].action] = @ \cup ({answer} \cap Outcomes)]
               ELSE told
-----------------------------------------------------------------------------
(* The long connection *)

(* A message or a menu entry becomes a task of the worker's loop.          *)
Message(s) ==
    /\ loop = None
    /\ channel[s] = "none"
    /\ channel' = [channel EXCEPT ![s] = "message"]
    /\ \E actor \in Actors :
           \/ \E a \in Actions, type \in ProposalTypes, oversize \in BOOLEAN :
                  Propose(s, actor, a, type, oversize)
           \/ RequestUndo(s, actor)
    /\ UNCHANGED <<loop, callback, pressed, keys, served, told, overlapped>>

WorkerClickUnblocked(s, actor, a, label) ==  \* mutant of WorkerClick: a task, not a wait
    /\ channel[s] = "none"
    /\ Click(s, actor, a, label)
    /\ channel' = [channel EXCEPT ![s] = "click"]
    /\ UNCHANGED <<loop, callback, pressed, keys, served, told, overlapped>>

WorkerClick(s, actor, a, label) ==
    /\ loop = None
    /\ channel[s] = "none"
    /\ Click(s, actor, a, label)
    /\ loop' = s
    /\ channel' = [channel EXCEPT ![s] = "click"]
    /\ UNCHANGED <<callback, pressed, keys, served, told, overlapped>>

(* Only confirm() has the timeout: "accepted" is shown, the thread goes on.*)
AckTimeout(s) ==
    /\ loop = s
    /\ pc[s] \notin {"read_cancel", "set_canceled", "audit_canceled"}
    /\ loop' = None
    /\ channel' = [channel EXCEPT ![s] = "background"]
    /\ overlapped' = overlapped \cup ({req[s].action} \ {None})
    /\ UNCHANGED <<vars, callback, pressed, keys, served, told>>
-----------------------------------------------------------------------------
(* The HTTP callback *)

Press(e, actor, a, label) ==
    /\ pressed[e] = None
    /\ a \in cards
    /\ pressed' = [pressed EXCEPT ![e] = [actor |-> actor, action |-> a, label |-> label]]
    /\ UNCHANGED <<vars, loop, channel, callback, keys, served, told, overlapped>>

(* Feishu delivers an event at least once, perhaps while an earlier        *)
(* delivery of it is still being handled.                                  *)
Deliver(s, e) ==
    /\ pressed[e] # None
    /\ channel[s] = "none"
    /\ channel' = [channel EXCEPT ![s] = "callback"]
    /\ callback' = [callback EXCEPT ![s] = e]
    /\ UNCHANGED <<vars, loop, pressed, keys, served, told, overlapped>>

(* remember_idempotency_key: a key that is there already ends the request. *)
Remember(s) ==
    LET e == callback[s] IN
    /\ channel[s] = "callback"
    /\ pc[s] = "idle"
    /\ \/ /\ e \in keys
          /\ Done(s, "refused")
          /\ UNCHANGED <<vars, pressed, keys, served, overlapped>>
       \/ /\ e \notin keys
          /\ keys' = keys \cup {e}
          /\ served' = [served EXCEPT ![e] = @ + 1]
          /\ Click(s, pressed[e].actor, pressed[e].action, pressed[e].label)
          /\ overlapped' = overlapped \cup {pressed[e].action}
          /\ UNCHANGED <<loop, channel, callback, pressed, told>>
-----------------------------------------------------------------------------
(* Any session *)

(* A task of the worker's loop stands still while the loop waits.          *)
Work(s) ==
    /\ channel[s] = "message" => loop = None
    /\ Proceed(s)
    /\ IF pc'[s] # "idle"
       THEN UNCHANGED <<loop, channel, callback, told>>
       ELSE Done(s, AnswerAt[pc[s]])
    /\ UNCHANGED <<pressed, keys, served, overlapped>>

(* A store call or the sending of a card raises.                           *)
Raise(s) ==
    /\ channel[s] # "none"
    /\ channel[s] = "message" => loop = None
    /\ IF pc[s] = "idle" THEN UNCHANGED vars ELSE Abort(s)
    /\ Done(s, "error")
    /\ UNCHANGED <<pressed, keys, served, overlapped>>

(* The process is stopped and started again: both loops and the daemon     *)
(* threads are gone, the database is not.                                  *)
Restart ==
    /\ \E s \in Sessions : channel[s] # "none"
    /\ pc' = [s \in Sessions |-> "idle"]
    /\ req' = [s \in Sessions |-> NoRequest]
    /\ loop' = None
    /\ channel' = [s \in Sessions |-> "none"]
    /\ callback' = [s \in Sessions |-> None]
    /\ UNCHANGED <<table, cards, writes, now, pressed, keys, served, told, overlapped>>

CardTick == Tick /\ UNCHANGED ingress

Step(s) == Remember(s) \/ Work(s)

CardNext ==
    \/ CardTick
    \/ Restart
    \/ \E e \in Events, actor \in Actors, a \in Actions,
          label \in {"read_confirm", "read_cancel"} : Press(e, actor, a, label)
    \/ \E s \in Sessions :
           \/ Message(s)
           \/ \E actor \in Actors, a \in Actions \cup {None},
                 label \in {"read_confirm", "read_cancel"} : WorkerClick(s, actor, a, label)
           \/ AckTimeout(s)
           \/ \E e \in Events : Deliver(s, e)
           \/ Step(s)
           \/ Raise(s)

(* Threads and loops run; nothing forces a click, a timeout or a restart.  *)
CardSpec == CardInit /\ [][CardNext]_cardVars /\ \A s \in Sessions : WF_cardVars(Step(s))
-----------------------------------------------------------------------------
(* An event is handed to the service at most once, however often Feishu    *)
(* delivers it and however the process is restarted.                       *)
ServedOnce == \A e \in Events : served[e] <= 1

(* One outcome for each action, as long as every request for it was one    *)
(* the worker's loop waited for: it is written at most once, a "canceled"  *)
(* toast is never followed by a write, and an "executed" one stands for a  *)
(* write.  Only an acknowledgement timeout or the HTTP callback puts this  *)
(* at risk, because confirm() itself does not check and update in one.     *)
OneOutcome ==
    \A a \in Actions \ overlapped :
        /\ writes[a] <= 1
        /\ "canceled" \in told[a] => writes[a] = 0
        /\ "executed" \in told[a] => writes[a] = 1

(* Whatever overlaps, a toast that announces an execution is backed by the *)
(* write, its row and its audit event, and one that announces an expiry or *)
(* a cancellation by the audit event.                                      *)
ToastsAreBacked ==
    \A a \in Actions :
        /\ "executed" \in told[a] => writes[a] > 0 /\ rows[a] # None
                                     /\ "write_executed" \in audit[a]
        /\ "expired"  \in told[a] => "action_expired"  \in audit[a]
        /\ "canceled" \in told[a] => "action_canceled" \in audit[a]

(* The worker's loop never stands still for good, so messages are handled  *)
(* again after every click, even a cancel, which has no timeout.           *)
LoopGoesOn == \A s \in Sessions : loop = s ~> loop # s
=============================================================================
