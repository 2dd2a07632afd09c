--------------------------- MODULE MessageRouter ---------------------------
(***************************************************************************)
(* What happens to a message or a menu event in Flago: which handler takes *)
(* it, what that one stores, with which model and persona the assistant is *)
(* asked, and whether the writes it proposes are dropped, shown as a draft,*)
(* offered on a card or carried out at once.                               *)
(*                                                                         *)
(* A task is one coroutine on the worker's loop; a step of it is one call  *)
(* of the store, of the assistant or of Feishu with the plain code up to   *)
(* the next await.  Contexts and memories are in ChatMemory, links in      *)
(* Authorization, cards and undo in Writeback; here a card that is         *)
(* confirmed writes in two steps.                                          *)
(***************************************************************************)
EXTENDS Integers, Sequences, FiniteSets

CONSTANTS
    Users, Groups,
    Events,         \* messages and clicks on the bot's menu
    Tasks,          \* coroutines that may be in flight at the same time
    Providers,      \* the configured model providers
    Contents,       \* what a write may say: type, target and payload, and if it
                    \* is beyond the limits of _validate_writeback_limits
    Responses,      \* the lists of writes the assistant may propose
    MaxActions,     \* bound on the rows of pending_actions
    MaxDeliveries,  \* bound on the deliveries of all events
    Attempts,       \* _SEND_MAX_ATTEMPTS
    Deployments,    \* what the environment file may say
    None            \* Python None

ASSUME RouterAssumption ==
    /\ None \notin Users \cup Groups \cup Events \cup Providers
    /\ Users \cap Groups = {}
    /\ {"vision", "media"} \cap (Providers \cup {None}) = {}
    /\ Contents \subseteq [type : {"doc.append", "doc.create", "sheet.write_range"},
                           place : {"head", "end", "inside"}, large : BOOLEAN]
    /\ Responses \subseteq Seq(Contents)
    /\ {MaxActions, MaxDeliveries} \subseteq Nat
    /\ Attempts \in Nat \ {0}
    /\ IsFiniteSet(Tasks)
    /\ Deployments \subseteq [enabled : BOOLEAN, autoAllowed : BOOLEAN,
                              mode : {"always", "low_risk_direct", "draft_only"}]

VARIABLES
    settings,   \* FLAGO_WRITEBACK_*, read at start-up
    sent,       \* the events that have reached the worker
    delivered,  \* how many deliveries there were
    keys,       \* idempotency_keys of messages and menu events
    auto,       \* writeback_preferences
    model,      \* model_preferences
    persona,    \* which of name and profile a user has set
    actions,    \* pending_actions
    carded,     \* the rows whose card has appeared in a chat
    fresh,      \* the rows from this one on are within the dedupe window
    pc,         \* the next step of each task
    req,        \* its local variables
    lost,       \* history: events whose request raised or died with the process
    done        \* history: events that were answered

prefs == <<auto, model, persona>>
rows  == <<actions, carded, fresh>>
feishu == <<sent, delivered>>
ends  == <<lost, done>>
vars  == <<settings, sent, delivered, keys, auto, model, persona, actions, carded,
           fresh, pc, req, lost, done>>
-----------------------------------------------------------------------------
Conversations == Users \cup Groups    \* a user's name stands for his private chat
Private(c)    == c \in Users
Scopes        == ({"user"} \X Users) \cup ({"conversation"} \X Conversations)

(* A command that only answers: administration, help, authorization,       *)
(* context, memory, history, a text that is too long, an unknown one.       *)
Notices == {"notice"}

(* _parse_writeback_command and the menu keys flago.writeback.auto.*        *)
AutoKinds == {"auto_on", "auto_off", "auto_clear"}

(* _parse_assistant_name_command, _parse_assistant_profile_command, reset   *)
PersonaKinds == {"name", "profile", "reset"}

(* The menu keys flago.model.use.* and flago.model.default.                 *)
ModelKinds == {"model_use", "model_default"}

MessageKinds == Notices \cup AutoKinds \cup PersonaKinds \cup {"status", "question"}
MenuKinds    == Notices \cup AutoKinds \cup ModelKinds \cup {"status"}

Event ==
    [user : Users, conv : Conversations, menu : BOOLEAN,
     kind : MessageKinds \cup MenuKinds, provider : Providers \cup {None}]

ASSUME NoneIsNoEvent == None \notin Event

Statuses == {"pending", "confirmed", "executed", "failed", "canceled"}

Action == [actor : Users, content : Contents, status : Statuses,
           how : {"card", "direct"}, event : Events]

Labels ==
    {"idle", "remember_key", "set_auto", "set_persona", "clear_profile", "set_model",
     "status_conversation", "status_user", "user_model", "conversation_model",
     "download", "read_name", "read_profile", "ask", "mode", "lookup", "save",
     "save_direct", "confirm", "execute", "send"}

Models == Providers \cup {None, "vision", "media"}

Request ==
    [event : Events \cup {None}, model : Models, persona : SUBSET {"name", "profile"},
     proposals : Seq(Contents), at : Nat, duplicates : Nat, direct : BOOLEAN,
     card : BOOLEAN, attempt : Nat,
     wished : BOOLEAN,                      \* history: direct writes were wanted
     resolved : SUBSET (Providers \cup {None}),  \* history: what was preferred
     before : SUBSET Nat]                   \* history: what was executed earlier

NoRequest ==
    [event |-> None, model |-> None, persona |-> {}, proposals |-> <<>>, at |-> 0,
     duplicates |-> 0, direct |-> FALSE, card |-> FALSE, attempt |-> 0,
     wished |-> FALSE, resolved |-> {}, before |-> {}]

RouterTypeOK ==
    /\ settings \in Deployments
    /\ sent \in [Events -> Event \cup {None}]
    /\ delivered \in Nat
    /\ keys \in SUBSET Events
    /\ auto \in [Users -> {"unset", "on", "off"}]
    /\ model \in [Scopes -> Providers \cup {None}]
    /\ persona \in [Users -> SUBSET {"name", "profile"}]
    /\ actions \in Seq(Action)
    /\ carded \subseteq DOMAIN actions
    /\ fresh \in 1..Len(actions) + 1
    /\ pc \in [Tasks -> Labels]
    /\ req \in [Tasks -> Request]
    /\ lost \in SUBSET Events
    /\ done \in SUBSET Events

(* Rows of an earlier run of the service are there at the start, those for *)
(* conversations among them: nothing writes these any more.                *)
Init ==
    /\ settings \in Deployments
    /\ sent = [e \in Events |-> None]
    /\ delivered = 0
    /\ keys = {}
    /\ auto \in [Users -> {"unset", "on", "off"}]
    /\ \E old \in Providers \cup {None} :
           model = [s \in Scopes |-> IF s[1] = "conversation" THEN old ELSE None]
    /\ persona = [u \in Users |-> {}]
    /\ actions = <<>>
    /\ carded = {}
    /\ fresh = 1
    /\ pc = [t \in Tasks |-> "idle"]
    /\ req = [t \in Tasks |-> NoRequest]
    /\ lost = {}
    /\ done = {}
-----------------------------------------------------------------------------
(* Helpers *)

Message(t) == sent[req[t].event]
Sender(t)  == Message(t).user

Keyed(m) == m.menu \/ m.kind = "question"

Know(t, label, request) ==
    /\ pc' = [pc EXCEPT ![t] = label]
    /\ req' = [req EXCEPT ![t] = request]

Goto(t, label) == Know(t, label, req[t])

Restarted(t) == [NoRequest EXCEPT !.event = req[t].event]

Answer(t) == Know(t, "send", Restarted(t))    \* with a text

(* The request is over.  Of commands that carry no key nothing is kept.    *)
Finish(t, how) ==
    /\ Know(t, "idle", NoRequest)
    /\ LET e == req[t].event
           ended == IF Keyed(sent[e]) /\ pc[t] # "remember_key" THEN {e} ELSE {} IN
       /\ done' = IF how = "done" THEN done \cup ended ELSE done
       /\ lost' = IF how = "lost" THEN lost \cup ended ELSE lost

(* _effective_writeback_confirmation_mode                                  *)
EffectiveMode(preference) ==
    IF settings.mode # "draft_only" /\ preference # "unset" /\ settings.autoAllowed
    THEN IF preference = "on" THEN "low_risk_direct" ELSE "always"
    ELSE settings.mode

(* What _resolve_model_preference returns for u in c with this table.       *)
Resolved(u, c, stored) ==
    IF Private(c) /\ stored[<<"user", u>>] # None THEN stored[<<"user", u>>]
    ELSE stored[<<"conversation", c>>]

(* _is_low_risk_direct_writeback: it only adds to the head or the end of a *)
(* document that is named.                                                 *)
IsLowRisk(content) == content.type = "doc.append" /\ content.place \in {"head", "end"}

Wanted(u, switches) ==
    settings.enabled /\ EffectiveMode(switches[u]) = "low_risk_direct"

(* Running requests notice, for the properties, what becomes of a switch.  *)
Noticed(t, u, labels) == pc[t] \in labels /\ Sender(t) = u

BeforeModel == {"remember_key", "status_conversation", "status_user", "user_model",
                "conversation_model"}
BeforeMode  == {"remember_key", "user_model", "conversation_model", "download",
                "read_name", "read_profile", "ask", "mode"}

Executed == {i \in DOMAIN actions : actions[i].status = "executed"}
-----------------------------------------------------------------------------
(* Events *)

(* A message of a group counts if it mentions the bot; others, and empty   *)
(* ones, are dropped before anything is stored.                            *)
Sendable ==
    {event \in Event :
        /\ event.conv \in Groups \cup {event.user}
        /\ event.menu => Private(event.conv)
        /\ event.kind \in (IF event.menu THEN MenuKinds ELSE MessageKinds)
        /\ event.kind # "model_use" => event.provider = None}

(* The first step of the handler of a command.                             *)
Handler(m) ==
    CASE m.kind \in Notices -> "send"
      [] m.kind = "auto_on" ->
             IF settings.enabled /\ settings.autoAllowed THEN "set_auto" ELSE "send"
      [] m.kind \in {"auto_off", "auto_clear"} -> "set_auto"
      [] m.kind \in PersonaKinds -> "set_persona"
      [] m.kind \in ModelKinds ->
             IF m.kind = "model_use" /\ m.provider = None THEN "send" ELSE "set_model"
      [] m.kind = "status" -> IF m.menu THEN "status_user" ELSE "status_conversation"
      [] m.kind = "question" ->
             IF Private(m.conv) THEN "user_model" ELSE "conversation_model"

(* An event is delivered, for the first time or again.  Commands run before *)
(* the key of a message is looked at.                                      *)
Deliver(t, e) ==
    /\ pc[t] = "idle"
    /\ delivered < MaxDeliveries
    /\ delivered' = delivered + 1
    /\ \E event \in IF sent[e] = None THEN Sendable ELSE {sent[e]} :
           /\ sent' = [sent EXCEPT ![e] = event]
           /\ Know(t, IF Keyed(event) THEN "remember_key" ELSE Handler(event),
                   IF event.kind \in {"question", "status"}
                   THEN [NoRequest EXCEPT !.event = e,
                                          !.wished = Wanted(event.user, auto),
                                          !.resolved = {Resolved(event.user, event.conv, model)},
                                          !.before = Executed]
                   ELSE [NoRequest EXCEPT !.event = e])
    /\ UNCHANGED <<settings, keys, prefs, rows, ends>>

(* mutant of RememberKey: the key is taken, but a taken key stops nobody    *)
RememberKeyOnly(t) ==
    /\ pc[t] = "remember_key"
    /\ keys' = keys \cup {req[t].event}
    /\ Goto(t, Handler(Message(t)))
    /\ UNCHANGED <<settings, feishu, prefs, rows, ends>>

RememberKey(t) ==
    /\ pc[t] = "remember_key"
    /\ keys' = keys \cup {req[t].event}
    /\ \/ req[t].event \notin keys /\ Goto(t, Handler(Message(t))) /\ UNCHANGED ends
       \/ req[t].event \in keys /\ Finish(t, "duplicate")
    /\ UNCHANGED <<settings, feishu, prefs, rows>>
-----------------------------------------------------------------------------
(* Preferences *)

SetAutoRaw(t) ==  \* mutant of SetAuto: the word of the command is stored
    /\ pc[t] = "set_auto"
    /\ auto' = [auto EXCEPT ![Sender(t)] = Message(t).kind]
    /\ Answer(t)
    /\ UNCHANGED <<settings, feishu, keys, model, persona, rows, ends>>

SetAuto(t) ==
    /\ pc[t] = "set_auto"
    /\ LET u == Sender(t) IN
       /\ auto' = [auto EXCEPT ![u] = CASE Message(t).kind = "auto_on"    -> "on"
                                        [] Message(t).kind = "auto_off"   -> "off"
                                        [] Message(t).kind = "auto_clear" -> "unset"]
       /\ pc' = [pc EXCEPT ![t] = "send"]
       /\ req' = [s \in Tasks |-> IF Noticed(s, u, BeforeMode)
                    THEN [req[s] EXCEPT !.wished = @ \/ Wanted(u, auto')] ELSE req[s]]
    /\ UNCHANGED <<settings, feishu, keys, model, persona, rows, ends>>

(* Name, profile, or the first of the two steps of a reset.                *)
SetPersona(t) ==
    /\ pc[t] = "set_persona"
    /\ LET kind == Message(t).kind IN
       /\ persona' = [persona EXCEPT ![Sender(t)] =
                         IF kind = "reset" THEN @ \ {"name"} ELSE @ \cup {kind}]
       /\ Goto(t, IF kind = "reset" THEN "clear_profile" ELSE "send")
    /\ UNCHANGED <<settings, feishu, keys, auto, model, rows, ends>>

ClearProfile(t) ==
    /\ pc[t] = "clear_profile"
    /\ persona' = [persona EXCEPT ![Sender(t)] = @ \ {"profile"}]
    /\ Answer(t)
    /\ UNCHANGED <<settings, feishu, keys, auto, model, rows, ends>>

SetModel(t) ==
    /\ pc[t] = "set_model"
    /\ LET u == Sender(t) IN
       /\ model' = [model EXCEPT ![<<"user", u>>] = Message(t).provider]
       /\ pc' = [pc EXCEPT ![t] = "send"]
       /\ req' = [s \in Tasks |-> IF Noticed(s, u, BeforeModel)
                    THEN [req[s] EXCEPT !.resolved =
                              @ \cup {Resolved(u, Message(s).conv, model')}]
                    ELSE req[s]]
    /\ UNCHANGED <<settings, feishu, keys, auto, persona, rows, ends>>

(* The status names the preference of the user, else the conversation's.   *)
StatusConversation(t) ==
    /\ pc[t] = "status_conversation"
    /\ Know(t, "status_user",
            [req[t] EXCEPT !.model = model[<<"conversation", Message(t).conv>>]])
    /\ UNCHANGED <<settings, feishu, keys, prefs, rows, ends>>

StatusUser(t) ==
    /\ pc[t] = "status_user"
    /\ LET own == model[<<"user", Sender(t)>>] IN
       Know(t, "send", [req[t] EXCEPT !.model = IF own # None THEN own ELSE @])
    /\ UNCHANGED <<settings, feishu, keys, prefs, rows, ends>>
-----------------------------------------------------------------------------
(* A question on its way to the assistant *)

AfterAttachments(t) == IF Private(Message(t).conv) THEN "read_name" ELSE "ask"

(* With attachments they are fetched first.                                *)
WithModel(t, name) ==
    \E next \in {"download", AfterAttachments(t)} :
        Know(t, next, [req[t] EXCEPT !.model = name])

UserModel(t) ==
    /\ pc[t] = "user_model"
    /\ LET own == model[<<"user", Sender(t)>>] IN
       IF own # None THEN WithModel(t, own) ELSE Goto(t, "conversation_model")
    /\ UNCHANGED <<settings, feishu, keys, prefs, rows, ends>>

(* mutant of ConversationModel: the group's question gets the user's model  *)
ConversationModelOfUser(t) ==
    /\ pc[t] = "conversation_model"
    /\ WithModel(t, model[<<"user", Sender(t)>>])
    /\ UNCHANGED <<settings, feishu, keys, prefs, rows, ends>>

ConversationModel(t) ==
    /\ pc[t] = "conversation_model"
    /\ WithModel(t, model[<<"conversation", Message(t).conv>>])
    /\ UNCHANGED <<settings, feishu, keys, prefs, rows, ends>>

(* Attachments that are switched off, too large or refused are left out;   *)
(* sound and video, then images, choose the provider that can take them.   *)
Download(t) ==
    /\ pc[t] = "download"
    /\ \E chosen \in {"media", "vision", req[t].model} :
           Know(t, AfterAttachments(t), [req[t] EXCEPT !.model = chosen])
    /\ UNCHANGED <<settings, feishu, keys, prefs, rows, ends>>

ReadName(t) ==
    /\ pc[t] = "read_name"
    /\ Know(t, "read_profile",
            [req[t] EXCEPT !.persona = persona[Sender(t)] \cap {"name"}])
    /\ UNCHANGED <<settings, feishu, keys, prefs, rows, ends>>

ReadProfile(t) ==
    /\ pc[t] = "read_profile"
    /\ Know(t, "ask",
            [req[t] EXCEPT !.persona = @ \cup (persona[Sender(t)] \cap {"profile"})])
    /\ UNCHANGED <<settings, feishu, keys, prefs, rows, ends>>

(* The assistant answers, with the writes it proposes, or raises.  While   *)
(* writing is switched off its proposals are dropped; a draft is text.     *)
Ask(t) ==
    /\ pc[t] = "ask"
    /\ \E proposals \in Responses :
           /\ Len(actions) + Len(proposals) <= MaxActions
           /\ IF proposals # <<>> /\ settings.enabled /\ settings.mode # "draft_only"
              THEN Know(t, "mode", [req[t] EXCEPT !.proposals = proposals, !.at = 1,
                                                  !.model = None, !.persona = {},
                                                  !.resolved = {}])
              ELSE Answer(t)
    /\ UNCHANGED <<settings, feishu, keys, prefs, rows, ends>>
-----------------------------------------------------------------------------
(* The proposals of an answer *)

(* mutant of Mode: a switched-off preference counts like none               *)
ModeIgnoringOff(t) ==
    /\ pc[t] = "mode"
    /\ LET m == EffectiveMode(IF auto[Sender(t)] = "on" THEN "on" ELSE "unset") IN
       Know(t, "lookup", [req[t] EXCEPT !.direct = m = "low_risk_direct"])
    /\ UNCHANGED <<settings, feishu, keys, prefs, rows, ends>>

Mode(t) ==
    /\ pc[t] = "mode"
    /\ LET m == EffectiveMode(auto[Sender(t)]) IN
       Know(t, "lookup", [req[t] EXCEPT !.direct = m = "low_risk_direct"])
    /\ UNCHANGED <<settings, feishu, keys, prefs, rows, ends>>

(* mutant of Matches: what has been executed is no longer looked at         *)
MatchesRunning(u, content) ==
    {i \in fresh..Len(actions) : /\ actions[i].actor = u
                                 /\ actions[i].content = content
                                 /\ actions[i].status = "confirmed"}

(* find_recent_matching_action                                             *)
Matches(u, content) ==
    {i \in fresh..Len(actions) : /\ actions[i].actor = u
                                 /\ actions[i].content = content
                                 /\ actions[i].status \in {"confirmed", "executed"}}

(* One proposal after the other; then all are carried out, or all are      *)
(* saved for one card.                                                     *)
Lookup(t) ==
    /\ pc[t] = "lookup"
    /\ LET r == req[t]
           found == Matches(Sender(t), r.proposals[r.at]) # {}
           duplicates == r.duplicates + (IF found THEN 1 ELSE 0)
           low == \A i \in DOMAIN r.proposals : IsLowRisk(r.proposals[i])
       IN  IF r.at < Len(r.proposals)
           THEN Know(t, "lookup", [r EXCEPT !.at = @ + 1, !.duplicates = duplicates])
           ELSE LET direct == r.direct /\ duplicates = 0 /\ low IN
                Know(t, IF direct THEN "save_direct" ELSE "save",
                     [r EXCEPT !.at = 1, !.duplicates = duplicates, !.direct = direct])
    /\ UNCHANGED <<settings, feishu, keys, prefs, rows, ends>>

Insert(t, how) ==
    /\ Len(actions) < MaxActions
    /\ actions' = Append(actions, [actor |-> Sender(t),
                                   content |-> req[t].proposals[req[t].at],
                                   status |-> "pending", how |-> how,
                                   event |-> req[t].event])
    /\ UNCHANGED <<carded, fresh>>

SaveForText(t) ==  \* mutant of Save: the answer goes out without its card
    /\ pc[t] = "save"
    /\ Insert(t, "card")
    /\ IF req[t].at < Len(req[t].proposals)
       THEN Know(t, "save", [req[t] EXCEPT !.at = @ + 1])
       ELSE Answer(t)
    /\ UNCHANGED <<settings, feishu, keys, prefs, ends>>

Save(t) ==
    /\ pc[t] = "save"
    /\ Insert(t, "card")
    /\ IF req[t].at < Len(req[t].proposals)
       THEN Know(t, "save", [req[t] EXCEPT !.at = @ + 1])
       ELSE Know(t, "send", [req[t] EXCEPT !.card = TRUE])
    /\ UNCHANGED <<settings, feishu, keys, prefs, ends>>

SaveDirect(t) ==
    /\ pc[t] = "save_direct"
    /\ Insert(t, "direct")
    /\ Goto(t, "confirm")
    /\ UNCHANGED <<settings, feishu, keys, prefs, ends>>

Own(t) == CHOOSE i \in DOMAIN actions :
              /\ actions[i].event = req[t].event /\ actions[i].how = "direct"
              /\ \A j \in DOMAIN actions : j > i => actions[j].event # req[t].event

SetStatus(i, status) ==
    /\ actions' = [actions EXCEPT ![i].status = status]
    /\ UNCHANGED <<carded, fresh>>

NextDirect(t) ==
    IF req[t].at < Len(req[t].proposals)
    THEN Know(t, "save_direct", [req[t] EXCEPT !.at = @ + 1])
    ELSE Answer(t)

(* WritebackService.confirm: a text or a table beyond the limits is        *)
(* refused, its row stays as it is.                                        *)
Confirm(t) ==
    /\ pc[t] = "confirm"
    /\ IF actions[Own(t)].content.large
       THEN UNCHANGED rows /\ NextDirect(t)
       ELSE SetStatus(Own(t), "confirmed") /\ Goto(t, "execute")
    /\ UNCHANGED <<settings, feishu, keys, prefs, ends>>

Execute(t) ==
    /\ pc[t] = "execute"
    /\ \E status \in {"executed", "failed"} : SetStatus(Own(t), status)
    /\ NextDirect(t)
    /\ UNCHANGED <<settings, feishu, keys, prefs, ends>>

(* FeishuClient tries again after an error of the transport, whether the   *)
(* message has got through or not; a refusal by Feishu is raised at once.  *)
CardOf(t) ==
    {i \in DOMAIN actions : actions[i].event = req[t].event /\ actions[i].how = "card"}

SendAnswer(t) ==
    /\ pc[t] = "send"
    /\ \E through \in BOOLEAN, answer \in {"ok", "refused", "error"} :
           /\ answer = "ok" => through
           /\ answer = "refused" => ~through
           /\ carded' = IF through /\ req[t].card THEN carded \cup CardOf(t) ELSE carded
           /\ CASE answer = "ok" -> Finish(t, "done")
                [] answer = "error" /\ req[t].attempt + 1 < Attempts ->
                       /\ Know(t, "send", [req[t] EXCEPT !.attempt = @ + 1])
                       /\ UNCHANGED ends
                [] OTHER -> Finish(t, "lost")
    /\ UNCHANGED <<settings, feishu, keys, prefs, actions, fresh>>

(* The assistant or the store raises, or the process stops.  An assistant  *)
(* that raises is answered for.                                            *)
Abort(t) ==
    /\ pc[t] # "idle"
    /\ Finish(t, "lost")
    /\ UNCHANGED <<settings, feishu, keys, prefs, rows>>
-----------------------------------------------------------------------------
(* Cards, and the time *)

Click(i) ==
    /\ i \in carded
    /\ actions[i].status = "pending"
    /\ \/ ~actions[i].content.large /\ SetStatus(i, "confirmed")
       \/ SetStatus(i, "canceled")
    /\ UNCHANGED <<settings, feishu, keys, prefs, pc, req, ends>>

FinishClick(i) ==
    /\ actions[i].status = "confirmed"
    /\ actions[i].how = "card"
    /\ \E status \in {"executed", "failed"} : SetStatus(i, status)
    /\ UNCHANGED <<settings, feishu, keys, prefs, pc, req, ends>>

(* The oldest row leaves the dedupe window.                                *)
Age ==
    /\ fresh <= Len(actions)
    /\ fresh' = fresh + 1
    /\ UNCHANGED <<settings, feishu, keys, prefs, actions, carded, pc, req, ends>>
-----------------------------------------------------------------------------
Preferences(t) ==
    SetAuto(t) \/ SetPersona(t) \/ ClearProfile(t) \/ SetModel(t)
    \/ StatusConversation(t) \/ StatusUser(t)

Question(t) ==
    UserModel(t) \/ ConversationModel(t) \/ Download(t) \/ ReadName(t)
    \/ ReadProfile(t) \/ Ask(t)

Proposals(t) ==
    Mode(t) \/ Lookup(t) \/ Save(t) \/ SaveDirect(t) \/ Confirm(t) \/ Execute(t)

Work(t) ==
    RememberKey(t) \/ Preferences(t) \/ Question(t) \/ Proposals(t) \/ SendAnswer(t)

Next ==
    \/ \E t \in Tasks :
           \/ \E e \in Events : Deliver(t, e)
           \/ Work(t) \/ Abort(t)
    \/ \E i \in DOMAIN actions : Click(i) \/ FinishClick(i)
    \/ Age

Spec == Init /\ [][Next]_vars
-----------------------------------------------------------------------------
(* Properties *)

(* Past its key: the request is the one that may answer the event.          *)
Serving(t, e) ==
    /\ req[t].event = e
    /\ pc[t] \notin {"idle", "remember_key"}

(* However often Feishu delivers a question or a menu click, and however   *)
(* the deliveries interleave: its key stands for exactly one request, and  *)
(* that one is at work, has answered, or has raised or died.  No key is    *)
(* taken for a request that is silently dropped.                           *)
KeysAreAccounted ==
    \A e \in Events : sent[e] # None /\ Keyed(sent[e]) =>
        LET at == {t \in Tasks : Serving(t, e)} IN
        /\ e \in keys <=> at # {} \/ e \in done \cup lost
        /\ Cardinality(at) <= 1
        /\ at # {} => e \notin done \cup lost
        /\ e \notin done \cap lost

Direct == {"save_direct", "confirm", "execute"}

(* Nothing is written without a click unless writing is on, drafts are not *)
(* demanded, every write of the answer is of low risk, and at some moment  *)
(* of this very request the sender's switch, or the default that no switch *)
(* of his overrides, asked for it.                                         *)
DirectIsWanted ==
    \A t \in Tasks : pc[t] \in Direct =>
        /\ req[t].wished
        /\ \A i \in DOMAIN req[t].proposals : IsLowRisk(req[t].proposals[i])

(* A write that the sender had got executed before his message arrived,    *)
(* and that is still within the window, is noticed when it is proposed     *)
(* again: it is never carried out without a click, and its card warns.     *)
RepeatsAreNoticed ==
    \A t \in Tasks : pc[t] \in Direct \cup {"save"} \/ (pc[t] = "send" /\ req[t].card) =>
        \A i \in req[t].before :
            /\ i >= fresh
            /\ actions[i].actor = Sender(t)
            /\ \E k \in DOMAIN req[t].proposals : req[t].proposals[k] = actions[i].content
            => pc[t] \notin Direct /\ req[t].duplicates > 0

(* The model a question is put to was, at some moment of this request, the *)
(* preference in force for this sender in this conversation, although it   *)
(* is read in two steps; and what a user has set for himself, his model    *)
(* or his persona, is not used in front of a group.                        *)
AskedAsPreferred ==
    \A t \in Tasks : pc[t] = "ask" =>
        /\ req[t].model \in req[t].resolved \cup {"vision", "media"}
        /\ ~Private(Message(t).conv) => req[t].persona = {}

(* A direct write that is neither carried out nor given up, nor refused for *)
(* its size.                                                               *)
Undecided(i) ==
    /\ actions[i].how = "direct"
    /\ actions[i].status \in {"pending", "confirmed"}
    /\ actions[i].status = "pending" => ~actions[i].content.large

InHand(i) == \E t \in Tasks : Serving(t, actions[i].event)

(* A row that waits for a decision nobody can take, as no card shows it,   *)
(* belongs to a request that is still at work or that raised or died, but   *)
(* for direct writes that were refused for their size: these wait for good. *)
(* And a request that raises or dies in the middle of direct writes         *)
(* (router.py:416) leaves no more than one of them undecided, the last one  *)
(* it saved: those before it are carried out, failed or refused.            *)
NoOrphans ==
    \A i \in DOMAIN actions :
        /\ actions[i].how = "card" /\ actions[i].status = "pending" /\ i \notin carded
              => InHand(i) \/ actions[i].event \in lost
        /\ Undecided(i)
              => /\ InHand(i) \/ actions[i].event \in lost
                 /\ \A j \in DOMAIN actions : j > i => actions[j].event # actions[i].event
=============================================================================
