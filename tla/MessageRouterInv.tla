-------------------------- MODULE MessageRouterInv --------------------------
(***************************************************************************)
(* The inductive invariant behind the theorems of MessageRouterProofs, in  *)
(* a module of its own so that TLC can check it.                           *)
(***************************************************************************)
EXTENDS MessageRouter

QuestionLabels ==
    {"user_model", "conversation_model", "download", "read_name", "read_profile", "ask",
     "mode", "lookup", "save", "save_direct", "confirm", "execute"}

Proposing == {"lookup", "save", "save_direct", "confirm", "execute"}

(* What a task knows about its event, by the step it has reached.          *)
TaskKnows(t) ==
    /\ pc[t] = "idle" => req[t] = NoRequest
    /\ pc[t] # "idle" => req[t].event \in Events /\ sent[req[t].event] # None
    /\ pc[t] = "remember_key" => Keyed(Message(t))
    /\ pc[t] = "set_auto" => Message(t).kind \in AutoKinds
    /\ pc[t] = "set_persona" => Message(t).kind \in PersonaKinds
    /\ pc[t] \in QuestionLabels => Message(t).kind = "question"
    /\ pc[t] \in {"user_model", "read_name", "read_profile"} => Private(Message(t).conv)
    /\ req[t].card => pc[t] = "send" /\ Message(t).kind = "question"
    /\ pc[t] \in Proposing \cup {"mode"} =>
           settings.enabled /\ req[t].at \in 1..Len(req[t].proposals)

TasksInv == \A t \in Tasks : TaskKnows(t)

(* An event that has not arrived has left no trace; the key of one that    *)
(* has stands for one request.                                             *)
Untouched(e) == sent[e] = None => e \notin keys \cup done \cup lost

Accounted(e) ==
    sent[e] # None /\ Keyed(sent[e]) =>
        /\ e \in keys <=> e \in done \cup lost \/ \E t \in Tasks : Serving(t, e)
        /\ \A s, t \in Tasks : Serving(s, e) /\ Serving(t, e) => s = t
        /\ (\E t \in Tasks : Serving(t, e)) => e \notin done \cup lost
        /\ e \notin done \cap lost

KeysInv == \A e \in Events : Untouched(e) /\ Accounted(e)

(* A row for a card that has not appeared is on its way to it.              *)
OnItsWay(i) ==
    actions[i].how = "card" /\ i \notin carded /\ actions[i].event \notin lost =>
        \E t \in Tasks : /\ Serving(t, actions[i].event)
                         /\ pc[t] = "save" \/ (pc[t] = "send" /\ req[t].card)

OrphansInv == \A i \in DOMAIN actions : OnItsWay(i)

(* A card shows what was saved for a card.                                  *)
CardedInv == \A i \in carded : actions[i].how = "card"

(* A switch that is on, or becomes it, before the mode is read is noticed.  *)
Wishes(t) ==
    /\ pc[t] \in BeforeMode /\ Message(t).kind = "question" /\ Wanted(Sender(t), auto)
          => req[t].wished
    /\ pc[t] \in Proposing /\ req[t].direct => req[t].wished
    /\ pc[t] \in Direct => /\ req[t].direct
                           /\ \A i \in DOMAIN req[t].proposals : IsLowRisk(req[t].proposals[i])

WishesInv == \A t \in Tasks : Wishes(t)

Chosen == {"download", "read_name", "read_profile", "ask"}

(* What the model is chosen from, by the step of the choice.                *)
Chooses(t) ==
    /\ pc[t] \in BeforeModel /\ Message(t).kind = "question"
          => Resolved(Sender(t), Message(t).conv, model) \in req[t].resolved
    /\ pc[t] = "conversation_model"
          => model[<<"conversation", Message(t).conv>>] \in req[t].resolved
    /\ pc[t] \in Chosen => req[t].model \in req[t].resolved \cup {"vision", "media"}
    /\ pc[t] \in BeforeModel \cup Chosen /\ ~Private(Message(t).conv) => req[t].persona = {}

ChoicesInv == \A t \in Tasks : Chooses(t)

(* The row a direct write works on: the last one of its event.              *)
IsOwn(t, i) ==
    /\ actions[i].event = req[t].event
    /\ actions[i].how = "direct"
    /\ \A j \in DOMAIN actions : j > i => actions[j].event # req[t].event

(* What was executed before a message came stays so; the row a direct write *)
(* works on is another one.                                                 *)
Remembers(t) ==
    /\ pc[t] # "idle" => \A i \in req[t].before :
          i \in DOMAIN actions /\ actions[i].status = "executed"
    /\ pc[t] \in {"confirm", "execute"} => \E i \in DOMAIN actions :
          /\ IsOwn(t, i)
          /\ actions[i].status = IF pc[t] = "confirm" THEN "pending" ELSE "confirmed"

Repeats(t, i, k) ==
    /\ i >= fresh
    /\ actions[i].actor = Sender(t)
    /\ req[t].proposals[k] = actions[i].content

(* The proposals that were looked up: all of them, or those before this.    *)
LookedUp(t) ==
    IF pc[t] \in {"mode", "lookup"} THEN 1..req[t].at - 1
    ELSE IF pc[t] \in Direct \cup {"save"} \/ (pc[t] = "send" /\ req[t].card)
    THEN DOMAIN req[t].proposals ELSE {}

Noticing(t) ==
    /\ \A i \in req[t].before, k \in LookedUp(t) : Repeats(t, i, k) => req[t].duplicates > 0
    /\ pc[t] \in Direct => req[t].duplicates = 0

RepeatsInv == \A t \in Tasks : Remembers(t) /\ Noticing(t)

(* A direct write that is undecided is the last row of its event, and the  *)
(* task that saved it is about to decide it, unless it raised or died.     *)
Deciding(t) == pc[t] \in {"confirm", "execute"}

IsLast(i) == \A j \in DOMAIN actions : j > i => actions[j].event # actions[i].event

UndecidedInv ==
    \A i \in DOMAIN actions : Undecided(i) =>
        /\ IsLast(i)
        /\ \/ actions[i].event \in lost
           \/ \E t \in Tasks : Deciding(t) /\ req[t].event = actions[i].event

CoreInv ==
    /\ RouterTypeOK /\ TasksInv /\ KeysInv /\ OrphansInv /\ CardedInv
    /\ WishesInv /\ ChoicesInv /\ RepeatsInv

IInv == CoreInv /\ UndecidedInv
=============================================================================
