------------------------- MODULE MessageRouterProofs -------------------------
(***************************************************************************)
(* What MessageRouter promises holds for all users, groups, events and     *)
(* tasks, however many deliveries and rows there are.                      *)
(***************************************************************************)
EXTENDS MessageRouterInv, FiniteSetTheorems, TLAPS

(* A step of a task leaves the others where they are.                      *)
LEMMA KnowFrame ==
    ASSUME RouterTypeOK, NEW t \in Tasks, NEW label, NEW request, Know(t, label, request)
    PROVE  /\ pc'[t] = label /\ req'[t] = request
           /\ \A s \in Tasks \ {t} : pc'[s] = pc[s] /\ req'[s] = req[s]
  BY DEF RouterTypeOK, Know

LEMMA KnowType ==
    ASSUME RouterTypeOK, NEW t \in Tasks, NEW label \in Labels, NEW request \in Request,
           Know(t, label, request)
    PROVE  pc' \in [Tasks -> Labels] /\ req' \in [Tasks -> Request]
  BY DEF RouterTypeOK, Know

LEMMA RequestTypes ==
    ASSUME RouterTypeOK, NEW t \in Tasks
    PROVE  NoRequest \in Request /\ req[t] \in Request /\ Restarted(t) \in Request
  <1>1. NoRequest \in Request
    BY DEF NoRequest, Request, Models
  <1>2. req[t] \in Request
    BY DEF RouterTypeOK
  <1>3. req[t].event \in Events \cup {None}
    BY <1>2 DEF Request
  <1>4. Restarted(t) \in Request
    BY <1>1, <1>3 DEF Restarted, Request, NoRequest
  <1>5. QED BY <1>1, <1>2, <1>4

LEMMA AnswerType ==
    ASSUME RouterTypeOK, NEW t \in Tasks, Answer(t)
    PROVE  pc' \in [Tasks -> Labels] /\ req' \in [Tasks -> Request]
  BY KnowType, RequestTypes DEF Answer, Labels

LEMMA FinishType ==
    ASSUME RouterTypeOK, NEW t \in Tasks, req[t].event \in Events, NEW how, Finish(t, how)
    PROVE  /\ pc' \in [Tasks -> Labels] /\ req' \in [Tasks -> Request]
           /\ done' \in SUBSET Events /\ lost' \in SUBSET Events
  <1>1. pc' \in [Tasks -> Labels] /\ req' \in [Tasks -> Request]
    BY KnowType, RequestTypes DEF Finish, Labels
  <1>2. done' \in SUBSET Events /\ lost' \in SUBSET Events
    BY DEF Finish, RouterTypeOK
  <1>3. QED BY <1>1, <1>2

(* The message of a task at work.                                           *)
LEMMA MessageType ==
    ASSUME RouterTypeOK, TasksInv, NEW t \in Tasks, pc[t] # "idle"
    PROVE  /\ req[t].event \in Events
           /\ Message(t) \in Event
           /\ Sender(t) \in Users
           /\ <<"user", Sender(t)>> \in Scopes
           /\ <<"conversation", Message(t).conv>> \in Scopes
  <1>1. req[t].event \in Events /\ sent[req[t].event] # None
    BY DEF TasksInv, TaskKnows
  <1>2. Message(t) \in Event
    BY <1>1 DEF RouterTypeOK, Message
  <1>3. Sender(t) \in Users /\ Message(t).conv \in Conversations
    BY <1>2 DEF Sender, Event
  <1>4. QED BY <1>1, <1>2, <1>3 DEF Scopes

LEMMA HandlerType ==
    ASSUME NEW m \in Event
    PROVE  Handler(m) \in Labels
  BY DEF Handler, Event, Labels, MessageKinds, MenuKinds, Notices, AutoKinds, PersonaKinds, ModelKinds

LEMMA ResolvedType ==
    ASSUME RouterTypeOK, NEW u \in Users, NEW c \in Conversations
    PROVE  Resolved(u, c, model) \in Providers \cup {None}
  <1>1. <<"user", u>> \in Scopes /\ <<"conversation", c>> \in Scopes
    BY DEF Scopes
  <1>2. QED BY <1>1 DEF RouterTypeOK, Resolved

-----------------------------------------------------------------------------
(* Types                                                                   *)

LEMMA DeliverType ==
    ASSUME RouterTypeOK, NEW t \in Tasks, NEW e \in Events, Deliver(t, e)
    PROVE  RouterTypeOK'
  <1>1. PICK event \in IF sent[e] = None THEN Sendable ELSE {sent[e]} :
           /\ sent' = [sent EXCEPT ![e] = event]
           /\ Know(t, IF Keyed(event) THEN "remember_key" ELSE Handler(event),
                   IF event.kind \in {"question", "status"}
                   THEN [NoRequest EXCEPT !.event = e,
                                          !.wished = Wanted(event.user, auto),
                                          !.resolved = {Resolved(event.user, event.conv, model)},
                                          !.before = Executed]
                   ELSE [NoRequest EXCEPT !.event = e])
    BY DEF Deliver
  <1>2. event \in Event
    BY <1>1 DEF RouterTypeOK, Sendable
  <1>3. event.user \in Users /\ event.conv \in Conversations
    BY <1>2 DEF Event
  <1> DEFINE asked == [NoRequest EXCEPT !.event = e,
                                        !.wished = Wanted(event.user, auto),
                                        !.resolved = {Resolved(event.user, event.conv, model)},
                                        !.before = Executed]
             told == [NoRequest EXCEPT !.event = e]
  <1>4. asked \in Request /\ told \in Request
    <2>1. Resolved(event.user, event.conv, model) \in Providers \cup {None}
      BY <1>3, ResolvedType
    <2>2. Executed \in SUBSET Nat
      BY DEF Executed, RouterTypeOK
    <2>3. Wanted(event.user, auto) \in BOOLEAN
      BY DEF Wanted, RouterTypeOK, RouterAssumption
    <2>4. NoRequest \in Request
      BY RequestTypes
    <2>5. QED BY <2>1, <2>2, <2>3, <2>4 DEF Request
  <1>5. (IF Keyed(event) THEN "remember_key" ELSE Handler(event)) \in Labels
    BY <1>2, HandlerType DEF Labels
  <1> HIDE DEF asked, told
  <1>6. pc' \in [Tasks -> Labels] /\ req' \in [Tasks -> Request]
    BY <1>1, <1>4, <1>5, KnowType DEF asked, told
  <1>7. sent' \in [Events -> Event \cup {None}] /\ delivered' \in Nat
    BY <1>1, <1>2 DEF Deliver, RouterTypeOK
  <1>8. QED BY <1>6, <1>7 DEF Deliver, RouterTypeOK, prefs, rows, ends

LEMMA RememberKeyType ==
    ASSUME RouterTypeOK, TasksInv, NEW t \in Tasks, RememberKey(t)
    PROVE  RouterTypeOK'
  <1>1. req[t].event \in Events /\ Message(t) \in Event
    BY MessageType DEF RememberKey
  <1>2. CASE req[t].event \notin keys /\ Goto(t, Handler(Message(t))) /\ UNCHANGED ends
    <2>1. pc' \in [Tasks -> Labels] /\ req' \in [Tasks -> Request]
      BY <1>1, <1>2, KnowType, HandlerType, RequestTypes DEF Goto
    <2>2. QED BY <1>1, <1>2, <2>1 DEF RememberKey, RouterTypeOK, feishu, prefs, rows, ends
  <1>3. CASE req[t].event \in keys /\ Finish(t, "duplicate")
    BY <1>1, <1>3, FinishType DEF RememberKey, RouterTypeOK, feishu, prefs, rows
  <1>4. QED BY <1>2, <1>3 DEF RememberKey

LEMMA SetAutoType ==
    ASSUME RouterTypeOK, TasksInv, NEW t \in Tasks, SetAuto(t)
    PROVE  RouterTypeOK'
  <1>1. Sender(t) \in Users /\ Message(t).kind \in AutoKinds
    BY MessageType DEF SetAuto, TasksInv, TaskKnows
  <1>2. auto' \in [Users -> {"unset", "on", "off"}]
    BY <1>1 DEF SetAuto, AutoKinds, RouterTypeOK
  <1>3. pc' \in [Tasks -> Labels]
    BY DEF SetAuto, RouterTypeOK, Labels
  <1>4. req' \in [Tasks -> Request]
    <2>1. ASSUME NEW s \in Tasks PROVE [req[s] EXCEPT !.wished = @ \/ Wanted(Sender(t), auto')] \in Request
      <3>1. Wanted(Sender(t), auto') \in BOOLEAN
        BY DEF Wanted, RouterTypeOK, RouterAssumption
      <3>2. QED BY <3>1, RequestTypes DEF Request
    <2>2. QED BY <2>1, RequestTypes DEF SetAuto
  <1>5. QED BY <1>2, <1>3, <1>4 DEF SetAuto, RouterTypeOK, feishu, rows, ends

LEMMA SetPersonaType ==
    ASSUME RouterTypeOK, TasksInv, NEW t \in Tasks, SetPersona(t) \/ ClearProfile(t)
    PROVE  RouterTypeOK'
  <1>1. CASE SetPersona(t)
    <2>1. Message(t).kind \in PersonaKinds
      BY <1>1 DEF SetPersona, TasksInv, TaskKnows
    <2>2. persona' \in [Users -> SUBSET {"name", "profile"}]
      BY <1>1, <2>1 DEF SetPersona, PersonaKinds, RouterTypeOK
    <2>3. (IF Message(t).kind = "reset" THEN "clear_profile" ELSE "send") \in Labels
      BY DEF Labels
    <2>4. pc' \in [Tasks -> Labels] /\ req' \in [Tasks -> Request]
      BY <1>1, <2>3, KnowType, RequestTypes DEF SetPersona, Goto
    <2>5. QED BY <1>1, <2>2, <2>4 DEF SetPersona, RouterTypeOK, feishu, rows, ends
  <1>2. CASE ClearProfile(t)
    <2>1. persona' \in [Users -> SUBSET {"name", "profile"}]
      BY <1>2 DEF ClearProfile, RouterTypeOK
    <2>2. QED BY <1>2, <2>1, AnswerType DEF ClearProfile, RouterTypeOK, feishu, rows, ends
  <1>3. QED BY <1>1, <1>2

LEMMA SetModelType ==
    ASSUME RouterTypeOK, TasksInv, NEW t \in Tasks, SetModel(t)
    PROVE  RouterTypeOK'
  <1>1. Sender(t) \in Users /\ Message(t) \in Event
    BY MessageType DEF SetModel
  <1>2. model' \in [Scopes -> Providers \cup {None}]
    BY <1>1 DEF SetModel, Event, RouterTypeOK
  <1>3. pc' \in [Tasks -> Labels]
    BY DEF SetModel, RouterTypeOK, Labels
  <1>4. req' \in [Tasks -> Request]
    <2>1. ASSUME NEW s \in Tasks, pc[s] \in BeforeModel
          PROVE  [req[s] EXCEPT !.resolved =
                     @ \cup {Resolved(Sender(t), Message(s).conv, model')}] \in Request
      <3>1. Message(s) \in Event /\ <<"conversation", Message(s).conv>> \in Scopes
        BY <2>1, MessageType DEF BeforeModel
      <3>2. <<"user", Sender(t)>> \in Scopes
        BY <1>1 DEF Scopes
      <3>3. Resolved(Sender(t), Message(s).conv, model') \in Providers \cup {None}
        BY <1>2, <3>1, <3>2 DEF Resolved
      <3>4. QED BY <3>3, RequestTypes DEF Request
    <2>2. QED BY <2>1, RequestTypes DEF SetModel, Noticed
  <1>5. QED BY <1>2, <1>3, <1>4 DEF SetModel, RouterTypeOK, feishu, rows, ends

(* The steps that only read.                                               *)
Reads(t) ==
    \/ StatusConversation(t) \/ StatusUser(t) \/ UserModel(t) \/ ConversationModel(t)
    \/ Download(t) \/ ReadName(t) \/ ReadProfile(t) \/ Ask(t) \/ Mode(t) \/ Lookup(t)

LEMMA ReadsFrame ==
    ASSUME NEW t, Reads(t)
    PROVE  UNCHANGED <<settings, sent, delivered, keys, auto, model, persona, actions, carded,
                       fresh, lost, done>>
  BY DEF Reads, StatusConversation, StatusUser, UserModel, ConversationModel, Download, ReadName,
     ReadProfile, Ask, Mode, Lookup, feishu, prefs, rows, ends

(* Where a step that only reads leads to, and what it leaves.               *)
LEMMA ReadsKnow ==
    ASSUME RouterTypeOK, TasksInv, NEW t \in Tasks, Reads(t)
    PROVE  \E label \in Labels, request \in Request : Know(t, label, request)
  <1>1. req[t] \in Request /\ Restarted(t) \in Request
    BY RequestTypes
  <1>2. pc[t] # "idle"
    BY DEF Reads, StatusConversation, StatusUser, UserModel, ConversationModel, Download, ReadName,
       ReadProfile, Ask, Mode, Lookup
  <1>3. /\ Sender(t) \in Users /\ Message(t) \in Event
        /\ model[<<"user", Sender(t)>>] \in Providers \cup {None}
        /\ model[<<"conversation", Message(t).conv>>] \in Providers \cup {None}
        /\ persona[Sender(t)] \in SUBSET {"name", "profile"}
    BY <1>2, MessageType DEF RouterTypeOK
  <1>4. ASSUME NEW name \in Models, WithModel(t, name)
        PROVE  \E label \in Labels, request \in Request : Know(t, label, request)
    <2>1. [req[t] EXCEPT !.model = name] \in Request
      BY <1>1 DEF Request
    <2>2. "download" \in Labels /\ AfterAttachments(t) \in Labels
      BY DEF AfterAttachments, Labels
    <2>3. QED BY <1>4, <2>1, <2>2 DEF WithModel
  <1>5. CASE StatusConversation(t)
    <2>1. [req[t] EXCEPT !.model = model[<<"conversation", Message(t).conv>>]] \in Request
      BY <1>1, <1>3 DEF Request, Models
    <2>2. QED BY <1>5, <2>1 DEF StatusConversation, Labels
  <1>6. CASE StatusUser(t)
    <2> DEFINE own == model[<<"user", Sender(t)>>]
    <2>1. [req[t] EXCEPT !.model = IF own # None THEN own ELSE @] \in Request
      BY <1>1, <1>3 DEF Request, Models
    <2>2. QED BY <1>6, <2>1 DEF StatusUser, Labels
  <1>7. CASE UserModel(t)
    BY <1>1, <1>3, <1>4, <1>7 DEF UserModel, Goto, Labels, Models
  <1>8. CASE ConversationModel(t)
    BY <1>3, <1>4, <1>8 DEF ConversationModel, Models
  <1>9. CASE Download(t)
    <2>1. PICK chosen \in {"media", "vision", req[t].model} :
              Know(t, AfterAttachments(t), [req[t] EXCEPT !.model = chosen])
      BY <1>9 DEF Download
    <2>2. [req[t] EXCEPT !.model = chosen] \in Request
      BY <1>1 DEF Request, Models
    <2>3. AfterAttachments(t) \in Labels
      BY DEF AfterAttachments, Labels
    <2>4. QED BY <2>1, <2>2, <2>3
  <1>10. CASE ReadName(t)
    <2>1. [req[t] EXCEPT !.persona = persona[Sender(t)] \cap {"name"}] \in Request
      BY <1>1, <1>3 DEF Request
    <2>2. QED BY <1>10, <2>1 DEF ReadName, Labels
  <1>11. CASE ReadProfile(t)
    <2>1. [req[t] EXCEPT !.persona = @ \cup (persona[Sender(t)] \cap {"profile"})] \in Request
      BY <1>1, <1>3 DEF Request
    <2>2. QED BY <1>11, <2>1 DEF ReadProfile, Labels
  <1>12. CASE Ask(t)
    <2>1. ASSUME NEW proposals \in Responses
          PROVE  [req[t] EXCEPT !.proposals = proposals, !.at = 1, !.model = None,
                                !.persona = {}, !.resolved = {}] \in Request
      <3>1. proposals \in Seq(Contents)
        BY RouterAssumption
      <3>2. QED BY <1>1, <3>1 DEF Request, Models
    <2>2. QED BY <1>1, <1>12, <2>1 DEF Ask, Answer, Labels
  <1>13. CASE Mode(t)
    <2>1. [req[t] EXCEPT !.direct = EffectiveMode(auto[Sender(t)]) = "low_risk_direct"] \in Request
      BY <1>1 DEF Request
    <2>2. QED BY <1>13, <2>1 DEF Mode, Labels
  <1>14. CASE Lookup(t)
    <2> DEFINE found == Matches(Sender(t), req[t].proposals[req[t].at]) # {}
               duplicates == req[t].duplicates + (IF found THEN 1 ELSE 0)
               low == \A i \in DOMAIN req[t].proposals : IsLowRisk(req[t].proposals[i])
               direct == req[t].direct /\ duplicates = 0 /\ low
    <2>1. duplicates \in Nat
      BY <1>1 DEF Request
    <2>2. direct \in BOOLEAN
      OBVIOUS
    <2>3. \/ Know(t, "lookup", [req[t] EXCEPT !.at = @ + 1, !.duplicates = duplicates])
          \/ Know(t, IF direct THEN "save_direct" ELSE "save",
                  [req[t] EXCEPT !.at = 1, !.duplicates = duplicates, !.direct = direct])
      BY <1>14 DEF Lookup
    <2> HIDE DEF duplicates, direct
    <2>4. req[t].at + 1 \in Nat
      BY <1>1 DEF Request
    <2>5. [req[t] EXCEPT !.at = req[t].at + 1, !.duplicates = duplicates] \in Request
      BY <1>1, <2>1, <2>4 DEF Request
    <2>6. [req[t] EXCEPT !.at = 1, !.duplicates = duplicates, !.direct = direct] \in Request
      BY <1>1, <2>1, <2>2 DEF Request
    <2>7. QED BY <2>3, <2>5, <2>6 DEF Labels
  <1>15. QED
    BY <1>5, <1>6, <1>7, <1>8, <1>9, <1>10, <1>11, <1>12, <1>13, <1>14 DEF Reads

LEMMA ReadsType ==
    ASSUME RouterTypeOK, TasksInv, NEW t \in Tasks, Reads(t)
    PROVE  RouterTypeOK'
  BY ReadsFrame, ReadsKnow, KnowType DEF RouterTypeOK

LEMMA InsertType ==
    ASSUME RouterTypeOK, TasksInv, NEW t \in Tasks, pc[t] \in {"save", "save_direct"},
           NEW how \in {"card", "direct"}, Insert(t, how)
    PROVE  actions' \in Seq(Action) /\ carded' \subseteq DOMAIN actions' /\ fresh' \in 1..Len(actions') + 1
  <1>1. /\ Sender(t) \in Users /\ req[t].event \in Events /\ req[t] \in Request
        /\ req[t].at \in 1..Len(req[t].proposals)
    BY MessageType, RequestTypes DEF TasksInv, TaskKnows, Proposing
  <1>2. req[t].proposals[req[t].at] \in Contents
    BY <1>1 DEF Request
  <1> DEFINE row == [actor |-> Sender(t), content |-> req[t].proposals[req[t].at],
                     status |-> "pending", how |-> how, event |-> req[t].event]
  <1>3. row \in Action
    BY <1>1, <1>2 DEF Action, Statuses
  <1>4. actions' = Append(actions, row) /\ carded' = carded /\ fresh' = fresh
    BY DEF Insert
  <1> HIDE DEF row
  <1>5. QED BY <1>3, <1>4 DEF RouterTypeOK

LEMMA SetStatusType ==
    ASSUME RouterTypeOK, NEW i, NEW status \in Statuses, SetStatus(i, status)
    PROVE  /\ actions' \in Seq(Action) /\ DOMAIN actions' = DOMAIN actions
           /\ carded' \subseteq DOMAIN actions' /\ fresh' \in 1..Len(actions') + 1
  <1>1. actions' = [actions EXCEPT ![i].status = status] /\ carded' = carded /\ fresh' = fresh
    BY DEF SetStatus
  <1>2. actions \in [1..Len(actions) -> Action] /\ Len(actions) \in Nat
    BY DEF RouterTypeOK
  <1>3. ASSUME NEW a \in Action PROVE [a EXCEPT !.status = status] \in Action
    BY DEF Action
  <1>4. actions' \in [1..Len(actions) -> Action]
    BY <1>1, <1>2, <1>3
  <1>5. actions' \in Seq(Action) /\ DOMAIN actions' = DOMAIN actions /\ Len(actions') = Len(actions)
    BY <1>2, <1>4
  <1>6. QED BY <1>1, <1>5 DEF RouterTypeOK

LEMMA NextRequestType ==
    ASSUME RouterTypeOK, NEW t \in Tasks
    PROVE  /\ [req[t] EXCEPT !.at = @ + 1] \in Request
           /\ [req[t] EXCEPT !.card = TRUE] \in Request
           /\ [req[t] EXCEPT !.attempt = @ + 1] \in Request
  <1>1. req[t] \in Request
    BY RequestTypes
  <1>2. req[t].at + 1 \in Nat /\ req[t].attempt + 1 \in Nat
    BY <1>1 DEF Request
  <1>3. QED BY <1>1, <1>2 DEF Request

LEMMA NextDirectType ==
    ASSUME RouterTypeOK, NEW t \in Tasks, NextDirect(t)
    PROVE  pc' \in [Tasks -> Labels] /\ req' \in [Tasks -> Request]
  BY KnowType, AnswerType, NextRequestType DEF NextDirect, Labels

LEMMA WritesType ==
    ASSUME RouterTypeOK, TasksInv, NEW t \in Tasks,
           Save(t) \/ SaveDirect(t) \/ Confirm(t) \/ Execute(t)
    PROVE  RouterTypeOK'
  <1>1. ASSUME actions' \in Seq(Action), carded' \subseteq DOMAIN actions', fresh' \in 1..Len(actions') + 1,
               pc' \in [Tasks -> Labels], req' \in [Tasks -> Request]
        PROVE  RouterTypeOK'
    BY <1>1 DEF Save, SaveDirect, Confirm, Execute, RouterTypeOK, feishu, prefs, ends
  <1>2. req[t] \in Request
    BY RequestTypes
  <1>3. CASE Save(t)
    <2>1. pc' \in [Tasks -> Labels] /\ req' \in [Tasks -> Request]
      BY <1>3, KnowType, NextRequestType DEF Save, Labels
    <2>2. QED BY <1>1, <1>3, <2>1, InsertType DEF Save
  <1>4. CASE SaveDirect(t)
    <2>1. pc' \in [Tasks -> Labels] /\ req' \in [Tasks -> Request]
      BY <1>2, <1>4, KnowType DEF SaveDirect, Goto, Labels
    <2>2. QED BY <1>1, <1>4, <2>1, InsertType DEF SaveDirect
  <1>5. CASE Confirm(t)
    <2>1. CASE SetStatus(Own(t), "confirmed") /\ Goto(t, "execute")
      <3>1. pc' \in [Tasks -> Labels] /\ req' \in [Tasks -> Request]
        BY <1>2, <2>1, KnowType DEF Goto, Labels
      <3>2. QED BY <1>1, <2>1, <3>1, SetStatusType DEF Statuses
    <2>2. CASE UNCHANGED rows /\ NextDirect(t)
      BY <1>1, <2>2, NextDirectType DEF rows, RouterTypeOK
    <2>3. QED BY <1>5, <2>1, <2>2 DEF Confirm
  <1>6. CASE Execute(t)
    BY <1>1, <1>6, SetStatusType, NextDirectType DEF Execute, Statuses
  <1>7. QED BY <1>3, <1>4, <1>5, <1>6

LEMMA SendAnswerType ==
    ASSUME RouterTypeOK, TasksInv, NEW t \in Tasks, SendAnswer(t)
    PROVE  RouterTypeOK'
  <1>1. req[t].event \in Events
    BY MessageType DEF SendAnswer
  <1>2. carded' \subseteq DOMAIN actions'
    BY DEF SendAnswer, CardOf, RouterTypeOK
  <1>3. /\ pc' \in [Tasks -> Labels] /\ req' \in [Tasks -> Request]
        /\ done' \in SUBSET Events /\ lost' \in SUBSET Events
    <2>1. CASE \E how : Finish(t, how)
      BY <1>1, <2>1, FinishType
    <2>2. CASE Know(t, "send", [req[t] EXCEPT !.attempt = @ + 1]) /\ UNCHANGED ends
      <3>1. pc' \in [Tasks -> Labels] /\ req' \in [Tasks -> Request]
        BY <2>2, KnowType, NextRequestType DEF Labels
      <3>2. QED BY <2>2, <3>1 DEF ends, RouterTypeOK
    <2>3. QED BY <2>1, <2>2 DEF SendAnswer
  <1>4. QED BY <1>2, <1>3 DEF SendAnswer, RouterTypeOK, feishu, prefs

LEMMA AbortType ==
    ASSUME RouterTypeOK, TasksInv, NEW t \in Tasks, Abort(t)
    PROVE  RouterTypeOK'
  BY MessageType, FinishType DEF Abort, RouterTypeOK, feishu, prefs, rows

LEMMA CardsType ==
    ASSUME RouterTypeOK,
           \/ \E i \in DOMAIN actions : Click(i) \/ FinishClick(i)
           \/ Age
           \/ UNCHANGED vars
    PROVE  RouterTypeOK'
  <1>1. ASSUME NEW i \in DOMAIN actions, Click(i) \/ FinishClick(i) PROVE RouterTypeOK'
    BY <1>1, SetStatusType DEF Click, FinishClick, Statuses, RouterTypeOK, feishu, prefs, ends
  <1>2. CASE Age
    <2>1. fresh' \in 1..Len(actions) + 1
      BY <1>2 DEF Age, RouterTypeOK
    <2>2. QED BY <1>2, <2>1 DEF Age, RouterTypeOK, feishu, prefs, ends
  <1>3. CASE UNCHANGED vars
    BY <1>3 DEF vars, RouterTypeOK
  <1>4. QED BY <1>1, <1>2, <1>3

-----------------------------------------------------------------------------
(* What a task knows                                                       *)

(* What a step must leave of another task.                                 *)
Left(s) ==
    /\ pc'[s] = pc[s]
    /\ pc[s] = "idle" => req'[s] = req[s]
    /\ req'[s].event = req[s].event
    /\ req'[s].card = req[s].card
    /\ req'[s].at = req[s].at
    /\ req'[s].proposals = req[s].proposals
    /\ pc[s] # "idle" => sent'[req[s].event] = sent[req[s].event]
    /\ settings' = settings

LEMMA LeftKnows ==
    ASSUME NEW s \in Tasks, TaskKnows(s), Left(s)
    PROVE  TaskKnows(s)'
  <1>1. pc[s] # "idle" => Message(s)' = Message(s)
    BY DEF Left, Message
  <1>2. QED
    BY <1>1 DEF TaskKnows, Left, QuestionLabels, Proposing

(* What must hold of the next step of a task.                              *)
Fits(t, label, request) ==
    /\ label \notin {"idle", "remember_key"}
    /\ request.event = req[t].event
    /\ label = "set_auto" => Message(t).kind \in AutoKinds
    /\ label = "set_persona" => Message(t).kind \in PersonaKinds
    /\ label \in QuestionLabels => Message(t).kind = "question"
    /\ label \in {"user_model", "read_name", "read_profile"} => Private(Message(t).conv)
    /\ request.card => label = "send" /\ Message(t).kind = "question"
    /\ label \in Proposing \cup {"mode"} =>
           settings.enabled /\ request.at \in 1..Len(request.proposals)

LEMMA StepKnows ==
    ASSUME RouterTypeOK, TasksInv, NEW t \in Tasks, pc[t] # "idle", NEW label, NEW request,
           Know(t, label, request), Fits(t, label, request), UNCHANGED <<settings, sent>>
    PROVE  TasksInv'
  <1>1. /\ pc'[t] = label /\ req'[t] = request
        /\ \A s \in Tasks \ {t} : pc'[s] = pc[s] /\ req'[s] = req[s]
    BY KnowFrame
  <1>2. ASSUME NEW s \in Tasks \ {t} PROVE TaskKnows(s)'
    BY <1>1, LeftKnows DEF Left, TasksInv
  <1>3. TaskKnows(t)'
    <2>1. Message(t)' = Message(t) /\ req[t].event \in Events /\ sent[req[t].event] # None
      BY <1>1 DEF Fits, Message, TasksInv, TaskKnows
    <2>2. QED BY <1>1, <2>1 DEF Fits, TaskKnows
  <1>4. QED BY <1>2, <1>3 DEF TasksInv

LEMMA AnswerKnows ==
    ASSUME RouterTypeOK, TasksInv, NEW t \in Tasks, pc[t] # "idle", Answer(t),
           UNCHANGED <<settings, sent>>
    PROVE  TasksInv'
  <1>1. Fits(t, "send", Restarted(t))
    <2>1. NoRequest.card = FALSE /\ NoRequest \in Request
      BY RequestTypes DEF NoRequest
    <2>2. Restarted(t).event = req[t].event /\ Restarted(t).card = FALSE
      BY <2>1 DEF Restarted, Request
    <2>3. QED BY <2>2 DEF Fits, QuestionLabels, Proposing
  <1>2. QED BY <1>1, StepKnows DEF Answer

LEMMA FinishKnows ==
    ASSUME RouterTypeOK, TasksInv, NEW t \in Tasks, NEW how, Finish(t, how),
           UNCHANGED <<settings, sent>>
    PROVE  TasksInv'
  <1>1. /\ pc'[t] = "idle" /\ req'[t] = NoRequest
        /\ \A s \in Tasks \ {t} : pc'[s] = pc[s] /\ req'[s] = req[s]
    BY KnowFrame DEF Finish
  <1>2. ASSUME NEW s \in Tasks \ {t} PROVE TaskKnows(s)'
    BY <1>1, LeftKnows DEF Left, TasksInv
  <1>3. TaskKnows(t)'
    BY <1>1 DEF TaskKnows, NoRequest, QuestionLabels, Proposing
  <1>4. QED BY <1>2, <1>3 DEF TasksInv

(* A step that keeps the request but for what no other task looks at.      *)
LEMMA Keeps ==
    ASSUME RouterTypeOK, TasksInv, NEW t \in Tasks, pc[t] \notin {"idle", "send"}
    PROVE  req[t].card = FALSE /\ req[t] \in Request
  BY RequestTypes DEF TasksInv, TaskKnows, Request

LEMMA HandlerFits ==
    ASSUME NEW m \in Event
    PROVE  /\ Handler(m) \notin {"idle", "remember_key"}
           /\ Handler(m) \in QuestionLabels => m.kind = "question"
           /\ Handler(m) = "set_auto" => m.kind \in AutoKinds
           /\ Handler(m) = "set_persona" => m.kind \in PersonaKinds
           /\ Handler(m) = "user_model" => Private(m.conv)
           /\ Handler(m) \notin Proposing \cup {"mode", "read_name", "read_profile"}
           /\ m.kind = "question" => Handler(m) \in {"user_model", "conversation_model"}
           /\ Handler(m) = "conversation_model" => ~Private(m.conv)
  BY DEF Handler, Event, QuestionLabels, MessageKinds, MenuKinds, Notices, AutoKinds, PersonaKinds,
     ModelKinds, Proposing

(* What a delivery does.                                                   *)
Delivered(t, e, event) ==
    /\ event \in Event /\ event # None
    /\ sent[e] \in {None, event} /\ sent'[e] = event
    /\ \A f \in Events \ {e} : sent'[f] = sent[f]
    /\ pc[t] = "idle"
    /\ pc'[t] = IF Keyed(event) THEN "remember_key" ELSE Handler(event)
    /\ req'[t].event = e /\ req'[t].card = FALSE /\ req'[t].persona = {}
    /\ req'[t].before \in {{}, Executed}
    /\ event.kind = "question" =>
           /\ req'[t].wished = Wanted(event.user, auto)
           /\ req'[t].resolved = {Resolved(event.user, event.conv, model)}
    /\ \A s \in Tasks \ {t} : pc'[s] = pc[s] /\ req'[s] = req[s]

LEMMA DeliverFacts ==
    ASSUME RouterTypeOK, NEW t \in Tasks, NEW e \in Events, Deliver(t, e)
    PROVE  /\ \E event : Delivered(t, e, event)
           /\ UNCHANGED <<settings, keys, prefs, rows, ends>>
  <1>1. PICK event \in IF sent[e] = None THEN Sendable ELSE {sent[e]} :
           /\ sent' = [sent EXCEPT ![e] = event]
           /\ Know(t, IF Keyed(event) THEN "remember_key" ELSE Handler(event),
                   IF event.kind \in {"question", "status"}
                   THEN [NoRequest EXCEPT !.event = e,
                                          !.wished = Wanted(event.user, auto),
                                          !.resolved = {Resolved(event.user, event.conv, model)},
                                          !.before = Executed]
                   ELSE [NoRequest EXCEPT !.event = e])
    BY DEF Deliver
  <1> DEFINE asked == [NoRequest EXCEPT !.event = e,
                                        !.wished = Wanted(event.user, auto),
                                        !.resolved = {Resolved(event.user, event.conv, model)},
                                        !.before = Executed]
             told == [NoRequest EXCEPT !.event = e]
             request == IF event.kind \in {"question", "status"} THEN asked ELSE told
  <1>2. event \in Event /\ event # None
    BY <1>1, NoneIsNoEvent DEF RouterTypeOK, Sendable
  <1>3. /\ asked.event = e /\ asked.card = FALSE /\ asked.persona = {}
        /\ asked.before = Executed /\ asked.wished = Wanted(event.user, auto)
        /\ asked.resolved = {Resolved(event.user, event.conv, model)}
    BY DEF NoRequest
  <1>4. told.event = e /\ told.card = FALSE /\ told.persona = {} /\ told.before = {}
    BY DEF NoRequest
  <1>5. Know(t, IF Keyed(event) THEN "remember_key" ELSE Handler(event), request)
    BY <1>1
  <1>6. /\ request.event = e /\ request.card = FALSE /\ request.persona = {}
        /\ request.before \in {{}, Executed}
        /\ event.kind = "question" =>
               /\ request.wished = Wanted(event.user, auto)
               /\ request.resolved = {Resolved(event.user, event.conv, model)}
    <2> HIDE DEF asked, told
    <2>1. QED BY <1>3, <1>4
  <1> HIDE DEF request, asked, told
  <1>7. /\ pc'[t] = IF Keyed(event) THEN "remember_key" ELSE Handler(event)
        /\ req'[t] = request
        /\ \A s \in Tasks \ {t} : pc'[s] = pc[s] /\ req'[s] = req[s]
    BY <1>5, KnowFrame
  <1>8. /\ sent[e] \in {None, event} /\ sent'[e] = event /\ pc[t] = "idle"
        /\ \A f \in Events \ {e} : sent'[f] = sent[f]
    BY <1>1 DEF Deliver, RouterTypeOK
  <1>9. QED BY <1>2, <1>6, <1>7, <1>8 DEF Delivered, Deliver

LEMMA DeliverKnows ==
    ASSUME RouterTypeOK, TasksInv, NEW t \in Tasks, NEW e \in Events, Deliver(t, e)
    PROVE  TasksInv'
  <1>1. PICK event : Delivered(t, e, event)
    BY DeliverFacts
  <1>2. \A f \in Events : sent[f] # None => sent'[f] = sent[f]
    BY <1>1 DEF Delivered
  <1>3. ASSUME NEW s \in Tasks \ {t} PROVE TaskKnows(s)'
    <2>1. Left(s)
      BY <1>1, <1>2 DEF Left, TasksInv, TaskKnows, Delivered, Deliver
    <2>2. QED BY <2>1, LeftKnows DEF TasksInv
  <1>4. TaskKnows(t)'
    <2>1. Message(t)' = event
      BY <1>1 DEF Message, Delivered
    <2>2. pc'[t] # "idle" /\ sent'[req'[t].event] # None
      BY <1>1, HandlerFits DEF Delivered
    <2>3. QED
      BY <1>1, <2>1, <2>2, HandlerFits DEF Delivered, TaskKnows, QuestionLabels, Proposing
  <1>5. QED BY <1>3, <1>4 DEF TasksInv

LEMMA RememberKeyKnows ==
    ASSUME RouterTypeOK, TasksInv, NEW t \in Tasks, RememberKey(t)
    PROVE  TasksInv'
  <1>1. pc[t] = "remember_key" /\ UNCHANGED <<settings, sent>>
    BY DEF RememberKey, feishu
  <1>2. CASE Goto(t, Handler(Message(t)))
    <2>1. Message(t) \in Event /\ req[t].card = FALSE
      BY <1>1, MessageType, Keeps
    <2>2. Fits(t, Handler(Message(t)), req[t])
      BY <2>1, HandlerFits DEF Fits
    <2>3. QED BY <1>1, <1>2, <2>2, StepKnows DEF Goto
  <1>3. CASE Finish(t, "duplicate")
    BY <1>1, <1>3, FinishKnows
  <1>4. QED BY <1>2, <1>3 DEF RememberKey

(* The steps that note something in running requests.                      *)
LEMMA NotingKnows ==
    ASSUME RouterTypeOK, TasksInv, NEW t \in Tasks, SetAuto(t) \/ SetModel(t)
    PROVE  TasksInv'
  <1>1. /\ pc'[t] = "send" /\ pc[t] \in {"set_auto", "set_model"}
        /\ \A s \in Tasks \ {t} : pc'[s] = pc[s]
        /\ UNCHANGED <<settings, sent>>
    BY DEF SetAuto, SetModel, RouterTypeOK, feishu
  <1>2. ASSUME NEW s \in Tasks
        PROVE  /\ req'[s].event = req[s].event /\ req'[s].card = req[s].card
               /\ req'[s].at = req[s].at /\ req'[s].proposals = req[s].proposals
               /\ pc[s] = "idle" => req'[s] = req[s]
    <2>1. req[s] \in Request
      BY RequestTypes
    <2>2. CASE SetAuto(t)
      BY <2>1, <2>2 DEF SetAuto, Request, Noticed, BeforeMode
    <2>3. CASE SetModel(t)
      BY <2>1, <2>3 DEF SetModel, Request, Noticed, BeforeModel
    <2>4. QED BY <2>2, <2>3
  <1>3. ASSUME NEW s \in Tasks \ {t} PROVE TaskKnows(s)'
    BY <1>1, <1>2, LeftKnows DEF Left, TasksInv
  <1>4. TaskKnows(t)'
    <2>1. req'[t].card = FALSE /\ Message(t)' = Message(t)
      BY <1>1, <1>2, Keeps DEF Message
    <2>2. req'[t].event \in Events /\ sent'[req'[t].event] # None
      BY <1>1, <1>2 DEF TasksInv, TaskKnows
    <2>3. QED BY <1>1, <2>1, <2>2 DEF TaskKnows, QuestionLabels, Proposing
  <1>5. QED BY <1>3, <1>4 DEF TasksInv

LEMMA PersonaKnows ==
    ASSUME RouterTypeOK, TasksInv, NEW t \in Tasks, SetPersona(t) \/ ClearProfile(t)
    PROVE  TasksInv'
  <1>1. CASE SetPersona(t)
    <2> DEFINE label == IF Message(t).kind = "reset" THEN "clear_profile" ELSE "send"
    <2>1. req[t].card = FALSE /\ pc[t] # "idle" /\ UNCHANGED <<settings, sent>>
      BY <1>1, Keeps DEF SetPersona, feishu
    <2>2. Fits(t, label, req[t])
      BY <2>1 DEF Fits, QuestionLabels, Proposing
    <2>3. Know(t, label, req[t])
      BY <1>1 DEF SetPersona, Goto
    <2>4. QED BY <2>1, <2>2, <2>3, StepKnows
  <1>2. CASE ClearProfile(t)
    BY <1>2, AnswerKnows DEF ClearProfile, feishu
  <1>3. QED BY <1>1, <1>2

LEMMA ReadsKnows ==
    ASSUME RouterTypeOK, TasksInv, NEW t \in Tasks, Reads(t)
    PROVE  TasksInv'
  <1>1. UNCHANGED <<settings, sent>>
    BY ReadsFrame
  <1>2. pc[t] \notin {"idle", "send"}
    BY DEF Reads, StatusConversation, StatusUser, UserModel, ConversationModel, Download, ReadName,
       ReadProfile, Ask, Mode, Lookup
  <1>3. req[t].card = FALSE /\ req[t] \in Request /\ TaskKnows(t)
    BY <1>2, Keeps DEF TasksInv
  <1>4. ASSUME NEW name, pc[t] \in QuestionLabels, WithModel(t, name) PROVE TasksInv'
    <2>1. PICK next \in {"download", AfterAttachments(t)} :
              Know(t, next, [req[t] EXCEPT !.model = name])
      BY <1>4 DEF WithModel
    <2> DEFINE r == [req[t] EXCEPT !.model = name]
    <2>2. r.event = req[t].event /\ r.card = FALSE
      BY <1>3 DEF Request
    <2>3. Fits(t, next, r)
      <3> HIDE DEF r
      <3>1. QED
        BY <1>3, <1>4, <2>1, <2>2 DEF Fits, AfterAttachments, TaskKnows, QuestionLabels, Proposing
    <2>4. QED BY <1>1, <1>2, <2>1, <2>3, StepKnows
  <1>5. CASE StatusConversation(t) \/ StatusUser(t)
    <2>1. PICK m \in {model[<<"conversation", Message(t).conv>>], model[<<"user", Sender(t)>>],
                      req[t].model}, label \in {"status_user", "send"} :
              Know(t, label, [req[t] EXCEPT !.model = m])
      BY <1>5 DEF StatusConversation, StatusUser
    <2> DEFINE r == [req[t] EXCEPT !.model = m]
    <2>2. r.event = req[t].event /\ r.card = FALSE
      BY <1>3 DEF Request
    <2>3. Fits(t, label, r)
      <3> HIDE DEF r
      <3>1. QED BY <2>2 DEF Fits, QuestionLabels, Proposing
    <2>4. QED BY <1>1, <1>2, <2>1, <2>3, StepKnows
  <1>6. CASE UserModel(t)
    <2>1. pc[t] \in QuestionLabels
      BY <1>6 DEF UserModel, QuestionLabels
    <2>2. CASE Goto(t, "conversation_model")
      <3>1. Fits(t, "conversation_model", req[t])
        BY <1>3, <2>1 DEF Fits, TaskKnows, QuestionLabels, Proposing
      <3>2. QED BY <1>1, <1>2, <2>2, <3>1, StepKnows DEF Goto
    <2>3. QED BY <1>4, <1>6, <2>1, <2>2 DEF UserModel
  <1>7. CASE ConversationModel(t)
    BY <1>4, <1>7 DEF ConversationModel, QuestionLabels
  <1>8. CASE Download(t)
    <2>1. PICK chosen \in {"media", "vision", req[t].model} :
              Know(t, AfterAttachments(t), [req[t] EXCEPT !.model = chosen])
      BY <1>8 DEF Download
    <2> DEFINE r == [req[t] EXCEPT !.model = chosen]
    <2>2. r.event = req[t].event /\ r.card = FALSE /\ pc[t] \in QuestionLabels
      BY <1>3, <1>8 DEF Request, Download, QuestionLabels
    <2>3. Fits(t, AfterAttachments(t), r)
      <3> HIDE DEF r
      <3>1. QED BY <1>3, <2>2 DEF Fits, AfterAttachments, TaskKnows, QuestionLabels, Proposing
    <2>4. QED BY <1>1, <1>2, <2>1, <2>3, StepKnows
  <1>9. CASE ReadName(t) \/ ReadProfile(t)
    <2>1. PICK p \in SUBSET UNION {persona[Sender(t)], req[t].persona}, label \in {"read_profile", "ask"} :
              /\ Know(t, label, [req[t] EXCEPT !.persona = p])
              /\ label = "read_profile" => pc[t] = "read_name"
      BY <1>9 DEF ReadName, ReadProfile
    <2> DEFINE r == [req[t] EXCEPT !.persona = p]
    <2>2. r.event = req[t].event /\ r.card = FALSE /\ pc[t] \in {"read_name", "read_profile"}
      BY <1>3, <1>9 DEF Request, ReadName, ReadProfile
    <2>3. Fits(t, label, r)
      <3> HIDE DEF r
      <3>1. QED BY <1>3, <2>1, <2>2 DEF Fits, TaskKnows, QuestionLabels, Proposing
    <2>4. QED BY <1>1, <1>2, <2>1, <2>3, StepKnows
  <1>10. CASE Ask(t)
    <2>1. PICK proposals \in Responses :
              IF proposals # <<>> /\ settings.enabled /\ settings.mode # "draft_only"
              THEN Know(t, "mode", [req[t] EXCEPT !.proposals = proposals, !.at = 1,
                                                  !.model = None, !.persona = {},
                                                  !.resolved = {}])
              ELSE Answer(t)
      BY <1>10 DEF Ask
    <2>2. CASE Answer(t)
      BY <1>1, <1>2, <2>2, AnswerKnows
    <2> DEFINE r == [req[t] EXCEPT !.proposals = proposals, !.at = 1, !.model = None,
                                   !.persona = {}, !.resolved = {}]
    <2>3. CASE Know(t, "mode", r) /\ settings.enabled /\ proposals # <<>>
      <3>1. /\ r.event = req[t].event /\ r.card = FALSE
            /\ r.at = 1 /\ r.proposals = proposals
        BY <1>3 DEF Request
      <3>2. 1 \in 1..Len(proposals)
        <4>1. proposals \in Seq(Contents)
          BY RouterAssumption
        <4>2. QED BY <2>3, <4>1
      <3>3. Fits(t, "mode", r)
        <4> HIDE DEF r
        <4>1. QED
          BY <1>3, <1>10, <2>3, <3>1, <3>2 DEF Ask, Fits, TaskKnows, QuestionLabels, Proposing
      <3>4. QED BY <1>1, <1>2, <2>3, <3>3, StepKnows
    <2>4. QED BY <2>1, <2>2, <2>3
  <1>11. CASE Mode(t)
    <2> DEFINE r == [req[t] EXCEPT !.direct = EffectiveMode(auto[Sender(t)]) = "low_risk_direct"]
    <2>1. Know(t, "lookup", r)
      BY <1>11 DEF Mode
    <2>2. r.event = req[t].event /\ r.card = FALSE /\ r.at = req[t].at /\ r.proposals = req[t].proposals
      BY <1>3 DEF Request
    <2>3. pc[t] = "mode"
      BY <1>11 DEF Mode
    <2>4. Fits(t, "lookup", r)
      <3> HIDE DEF r
      <3>1. QED BY <1>3, <2>2, <2>3 DEF Fits, TaskKnows, QuestionLabels, Proposing
    <2>5. QED BY <1>1, <1>2, <2>1, <2>4, StepKnows
  <1>12. CASE Lookup(t)
    <2> DEFINE found == Matches(Sender(t), req[t].proposals[req[t].at]) # {}
               duplicates == req[t].duplicates + (IF found THEN 1 ELSE 0)
               low == \A i \in DOMAIN req[t].proposals : IsLowRisk(req[t].proposals[i])
               direct == req[t].direct /\ duplicates = 0 /\ low
               label == IF direct THEN "save_direct" ELSE "save"
               on == [req[t] EXCEPT !.at = @ + 1, !.duplicates = duplicates]
               off == [req[t] EXCEPT !.at = 1, !.duplicates = duplicates, !.direct = direct]
    <2>1. IF req[t].at < Len(req[t].proposals) THEN Know(t, "lookup", on) ELSE Know(t, label, off)
      BY <1>12 DEF Lookup
    <2>2. pc[t] = "lookup"
      BY <1>12 DEF Lookup
    <2>3. req[t].at \in 1..Len(req[t].proposals) /\ Len(req[t].proposals) \in Nat
      BY <1>3, <2>2 DEF TaskKnows, Proposing, Request
    <2>4. /\ on.event = req[t].event /\ on.card = FALSE
          /\ on.at = req[t].at + 1 /\ on.proposals = req[t].proposals
      BY <1>3 DEF Request
    <2>5. /\ off.event = req[t].event /\ off.card = FALSE
          /\ off.at = 1 /\ off.proposals = req[t].proposals
      BY <1>3 DEF Request
    <2> HIDE DEF on, off
    <2>6. CASE req[t].at < Len(req[t].proposals)
      <3>1. Fits(t, "lookup", on)
        BY <1>3, <2>2, <2>3, <2>4, <2>6 DEF Fits, TaskKnows, QuestionLabels, Proposing
      <3>2. QED BY <1>1, <1>2, <2>1, <2>6, <3>1, StepKnows
    <2>7. CASE ~(req[t].at < Len(req[t].proposals))
      <3>1. label \in {"save", "save_direct"}
        OBVIOUS
      <3> HIDE DEF label
      <3>2. Fits(t, label, off)
        BY <1>3, <2>2, <2>3, <2>5, <3>1 DEF Fits, TaskKnows, QuestionLabels, Proposing
      <3>3. QED BY <1>1, <1>2, <2>1, <2>7, <3>2, StepKnows
    <2>8. QED BY <2>6, <2>7
  <1>13. QED
    BY <1>5, <1>6, <1>7, <1>8, <1>9, <1>10, <1>11, <1>12 DEF Reads

-----------------------------------------------------------------------------
(* What the steps do to a request                                          *)

Others(t) == \A s \in Tasks \ {t} : pc'[s] = pc[s] /\ req'[s] = req[s]

Alike(t) ==
    /\ req'[t].event = req[t].event
    /\ req'[t].card = req[t].card
    /\ req'[t].wished = req[t].wished
    /\ req'[t].before = req[t].before

(* The request is answered with a text.                                    *)
Told(t) ==
    /\ pc'[t] = "send"
    /\ req'[t].event = req[t].event
    /\ req'[t].card = FALSE
    /\ req'[t].before \in {{}, req[t].before}

LEMMA AnswerTold ==
    ASSUME RouterTypeOK, NEW t \in Tasks, Answer(t)
    PROVE  Told(t) /\ Others(t)
  <1>1. /\ Restarted(t).event = req[t].event
        /\ Restarted(t).card = FALSE /\ Restarted(t).before = {}
    BY DEF Restarted, NoRequest
  <1>2. pc'[t] = "send" /\ req'[t] = Restarted(t) /\ Others(t)
    BY KnowFrame DEF Answer, Others
  <1>3. QED BY <1>1, <1>2 DEF Told

(* The choice of the model and of the persona.                             *)
OwnModel(t)   == model[<<"user", Sender(t)>>]
GroupModel(t) == model[<<"conversation", Message(t).conv>>]

Chooses1(t) ==
    /\ pc[t] = "user_model" /\ OwnModel(t) = None
    /\ pc'[t] = "conversation_model" /\ req'[t] = req[t]

Chooses2(t) ==
    /\ \/ pc[t] = "user_model" /\ OwnModel(t) # None /\ req'[t].model = OwnModel(t)
       \/ pc[t] = "conversation_model" /\ req'[t].model = GroupModel(t)
       \/ pc[t] = "download" /\ req'[t].model \in {"media", "vision", req[t].model}
    /\ pc'[t] \in {"download", "read_name", "ask"}
    /\ req'[t].persona = req[t].persona
    /\ req'[t].resolved = req[t].resolved
    /\ Alike(t)

ReadsPersona(t) ==
    /\ \/ pc[t] = "read_name" /\ pc'[t] = "read_profile"
       \/ pc[t] = "read_profile" /\ pc'[t] = "ask"
    /\ req'[t].model = req[t].model
    /\ req'[t].resolved = req[t].resolved
    /\ Alike(t)

ReadsStatus(t) ==
    /\ pc[t] = "status_conversation" /\ pc'[t] = "status_user"
    /\ req'[t].persona = req[t].persona
    /\ req'[t].resolved = req[t].resolved
    /\ Alike(t)

Proposes(t) ==
    /\ pc[t] = "ask" /\ pc'[t] = "mode"
    /\ req'[t].at = 1
    /\ Alike(t)

ReadsMode(t) ==
    /\ pc[t] = "mode" /\ pc'[t] = "lookup"
    /\ req'[t].direct = (EffectiveMode(auto[Sender(t)]) = "low_risk_direct")
    /\ req'[t].at = req[t].at
    /\ req'[t].duplicates = req[t].duplicates
    /\ req'[t].proposals = req[t].proposals
    /\ Alike(t)

Found(t) == Matches(Sender(t), req[t].proposals[req[t].at]) # {}

LooksUp(t) ==
    /\ pc[t] = "lookup"
    /\ req'[t].proposals = req[t].proposals
    /\ req'[t].duplicates = req[t].duplicates + (IF Found(t) THEN 1 ELSE 0)
    /\ Alike(t)
    /\ \/ /\ pc'[t] = "lookup"
          /\ req'[t].at = req[t].at + 1
          /\ req'[t].direct = req[t].direct
       \/ /\ req[t].at >= Len(req[t].proposals)
          /\ req'[t].direct => req[t].direct
          /\ \/ pc'[t] = "save"
             \/ /\ pc'[t] = "save_direct"
                /\ req'[t].direct /\ req'[t].duplicates = 0
                /\ \A i \in DOMAIN req[t].proposals : IsLowRisk(req[t].proposals[i])

LEMMA WithModelFields ==
    ASSUME RouterTypeOK, NEW t \in Tasks, NEW name, WithModel(t, name)
    PROVE  /\ pc'[t] \in {"download", "read_name", "ask"}
           /\ req'[t].model = name
           /\ req'[t].persona = req[t].persona
           /\ req'[t].resolved = req[t].resolved
           /\ Alike(t) /\ Others(t)
  <1>1. PICK next \in {"download", AfterAttachments(t)} :
            Know(t, next, [req[t] EXCEPT !.model = name])
    BY DEF WithModel
  <1> DEFINE r == [req[t] EXCEPT !.model = name]
  <1>2. /\ r.event = req[t].event /\ r.card = req[t].card /\ r.wished = req[t].wished
        /\ r.before = req[t].before /\ r.persona = req[t].persona /\ r.model = name
        /\ r.resolved = req[t].resolved
    BY RequestTypes DEF Request
  <1> HIDE DEF r
  <1>3. pc'[t] = next /\ req'[t] = r /\ Others(t)
    BY <1>1, KnowFrame DEF r, Others
  <1>4. QED BY <1>2, <1>3 DEF Alike, AfterAttachments

LEMMA ChoicesFields ==
    ASSUME RouterTypeOK, NEW t \in Tasks, UserModel(t) \/ ConversationModel(t) \/ Download(t)
    PROVE  (Chooses1(t) \/ Chooses2(t)) /\ Others(t)
  <1>1. CASE UserModel(t)
    <2>1. CASE OwnModel(t) = None
      <3>1. Know(t, "conversation_model", req[t]) /\ pc[t] = "user_model"
        BY <1>1, <2>1 DEF UserModel, OwnModel, Goto
      <3>2. QED BY <2>1, <3>1, KnowFrame DEF Chooses1, Others
    <2>2. CASE OwnModel(t) # None
      <3>1. WithModel(t, OwnModel(t)) /\ pc[t] = "user_model"
        BY <1>1, <2>2 DEF UserModel, OwnModel
      <3>2. QED BY <2>2, <3>1, WithModelFields DEF Chooses2
    <2>3. QED BY <2>1, <2>2
  <1>2. CASE ConversationModel(t)
    <2>1. WithModel(t, GroupModel(t)) /\ pc[t] = "conversation_model"
      BY <1>2 DEF ConversationModel, GroupModel
    <2>2. QED BY <2>1, WithModelFields DEF Chooses2
  <1>3. CASE Download(t)
    <2>1. PICK chosen \in {"media", "vision", req[t].model} :
              Know(t, AfterAttachments(t), [req[t] EXCEPT !.model = chosen])
      BY <1>3 DEF Download
    <2>2. WithModel(t, chosen) /\ pc[t] = "download"
      BY <1>3, <2>1 DEF Download, WithModel
    <2>3. pc'[t] \in {"download", "read_name", "ask"} /\ req'[t].model = chosen
      BY <2>2, WithModelFields
    <2>4. QED BY <2>1, <2>2, <2>3, WithModelFields DEF Chooses2
  <1>4. QED BY <1>1, <1>2, <1>3

LEMMA PersonaFields ==
    ASSUME RouterTypeOK, NEW t \in Tasks, ReadName(t) \/ ReadProfile(t)
    PROVE  ReadsPersona(t) /\ Others(t)
  <1>1. PICK p, label :
            /\ Know(t, label, [req[t] EXCEPT !.persona = p])
            /\ \/ pc[t] = "read_name" /\ label = "read_profile"
               \/ pc[t] = "read_profile" /\ label = "ask"
    BY DEF ReadName, ReadProfile
  <1> DEFINE r == [req[t] EXCEPT !.persona = p]
  <1>2. /\ r.event = req[t].event /\ r.card = req[t].card /\ r.wished = req[t].wished
        /\ r.before = req[t].before /\ r.model = req[t].model /\ r.resolved = req[t].resolved
    BY RequestTypes DEF Request
  <1> HIDE DEF r
  <1>3. pc'[t] = label /\ req'[t] = r /\ Others(t)
    BY <1>1, KnowFrame DEF r, Others
  <1>4. QED BY <1>1, <1>2, <1>3 DEF Alike, ReadsPersona

LEMMA StatusFields ==
    ASSUME RouterTypeOK, TasksInv, NEW t \in Tasks, StatusConversation(t) \/ StatusUser(t)
    PROVE  (ReadsStatus(t) \/ Told(t)) /\ Others(t)
  <1>1. PICK m, label :
            /\ Know(t, label, [req[t] EXCEPT !.model = m])
            /\ \/ pc[t] = "status_conversation" /\ label = "status_user"
               \/ pc[t] = "status_user" /\ label = "send"
    BY DEF StatusConversation, StatusUser
  <1> DEFINE r == [req[t] EXCEPT !.model = m]
  <1>2. /\ r.event = req[t].event /\ r.card = req[t].card /\ r.wished = req[t].wished
        /\ r.before = req[t].before /\ r.persona = req[t].persona /\ r.resolved = req[t].resolved
    BY RequestTypes DEF Request
  <1> HIDE DEF r
  <1>3. pc'[t] = label /\ req'[t] = r /\ Others(t)
    BY <1>1, KnowFrame DEF r, Others
  <1>4. req[t].card = FALSE
    BY <1>1, Keeps
  <1>5. QED BY <1>1, <1>2, <1>3, <1>4 DEF Alike, ReadsStatus, Told

LEMMA AskFields ==
    ASSUME RouterTypeOK, NEW t \in Tasks, Ask(t)
    PROVE  (Proposes(t) \/ Told(t)) /\ Others(t)
  <1>1. PICK proposals \in Responses :
            \/ Know(t, "mode", [req[t] EXCEPT !.proposals = proposals, !.at = 1,
                                              !.model = None, !.persona = {}, !.resolved = {}])
            \/ Answer(t)
    BY DEF Ask
  <1> DEFINE r == [req[t] EXCEPT !.proposals = proposals, !.at = 1,
                                 !.model = None, !.persona = {}, !.resolved = {}]
  <1>2. CASE Answer(t)
    BY <1>2, AnswerTold
  <1>3. CASE Know(t, "mode", r)
    <2>1. /\ r.event = req[t].event /\ r.card = req[t].card /\ r.wished = req[t].wished
          /\ r.before = req[t].before /\ r.at = 1
      BY RequestTypes DEF Request
    <2>2. pc[t] = "ask"
      BY DEF Ask
    <2> HIDE DEF r
    <2>3. pc'[t] = "mode" /\ req'[t] = r /\ Others(t)
      BY <1>3, KnowFrame DEF Others
    <2>4. QED BY <2>1, <2>2, <2>3 DEF Alike, Proposes
  <1>4. QED BY <1>1, <1>2, <1>3

LEMMA ModeFields ==
    ASSUME RouterTypeOK, NEW t \in Tasks, Mode(t)
    PROVE  ReadsMode(t) /\ Others(t)
  <1> DEFINE w == EffectiveMode(auto[Sender(t)]) = "low_risk_direct"
             r == [req[t] EXCEPT !.direct = w]
  <1>1. Know(t, "lookup", r) /\ pc[t] = "mode"
    BY DEF Mode
  <1> HIDE DEF w
  <1>2. /\ r.event = req[t].event /\ r.card = req[t].card /\ r.wished = req[t].wished
        /\ r.before = req[t].before /\ r.at = req[t].at /\ r.proposals = req[t].proposals
        /\ r.direct = w /\ r.duplicates = req[t].duplicates
    BY RequestTypes DEF Request
  <1> HIDE DEF r
  <1>3. pc'[t] = "lookup" /\ req'[t] = r /\ Others(t)
    BY <1>1, KnowFrame DEF Others
  <1>4. QED BY <1>1, <1>2, <1>3 DEF Alike, ReadsMode, w

LEMMA LookupFields ==
    ASSUME RouterTypeOK, NEW t \in Tasks, Lookup(t)
    PROVE  LooksUp(t) /\ Others(t)
  <1> DEFINE duplicates == req[t].duplicates + (IF Found(t) THEN 1 ELSE 0)
             low == \A i \in DOMAIN req[t].proposals : IsLowRisk(req[t].proposals[i])
             direct == req[t].direct /\ duplicates = 0 /\ low
             label == IF direct THEN "save_direct" ELSE "save"
             on == [req[t] EXCEPT !.at = @ + 1, !.duplicates = duplicates]
             off == [req[t] EXCEPT !.at = 1, !.duplicates = duplicates, !.direct = direct]
  <1>1. IF req[t].at < Len(req[t].proposals) THEN Know(t, "lookup", on) ELSE Know(t, label, off)
    BY DEF Lookup, Found
  <1>2. pc[t] = "lookup" /\ req[t] \in Request /\ req[t].at \in Nat /\ Len(req[t].proposals) \in Nat
    BY RequestTypes DEF Lookup, Request
  <1> HIDE DEF duplicates, low
  <1>3. /\ on.event = req[t].event /\ on.card = req[t].card /\ on.wished = req[t].wished
        /\ on.before = req[t].before /\ on.at = req[t].at + 1
        /\ on.proposals = req[t].proposals /\ on.direct = req[t].direct
        /\ on.duplicates = duplicates
    BY <1>2 DEF Request
  <1> HIDE DEF direct
  <1>4. /\ off.event = req[t].event /\ off.card = req[t].card /\ off.wished = req[t].wished
        /\ off.before = req[t].before
        /\ off.proposals = req[t].proposals /\ off.direct = direct
        /\ off.duplicates = duplicates
    BY <1>2 DEF Request
  <1> HIDE DEF on, off
  <1>5. CASE req[t].at < Len(req[t].proposals)
    <2>1. pc'[t] = "lookup" /\ req'[t] = on /\ Others(t)
      BY <1>1, <1>5, KnowFrame DEF Others
    <2>2. QED BY <1>2, <1>3, <2>1 DEF LooksUp, Alike, duplicates
  <1>6. CASE ~(req[t].at < Len(req[t].proposals))
    <2>1. pc'[t] = label /\ req'[t] = off /\ Others(t)
      BY <1>1, <1>6, KnowFrame DEF Others
    <2>2. req[t].at >= Len(req[t].proposals)
      BY <1>2, <1>6
    <2>3. direct => req[t].direct /\ duplicates = 0 /\ low
      BY DEF direct
    <2>4. \/ pc'[t] = "save"
          \/ /\ pc'[t] = "save_direct" /\ req'[t].direct /\ req'[t].duplicates = 0
             /\ \A i \in DOMAIN req[t].proposals : IsLowRisk(req[t].proposals[i])
      BY <1>4, <2>1, <2>3 DEF low
    <2>5. QED BY <1>2, <1>4, <2>1, <2>2, <2>3, <2>4 DEF LooksUp, Alike, duplicates
  <1>7. QED BY <1>5, <1>6

LEMMA ReadsFields ==
    ASSUME RouterTypeOK, TasksInv, NEW t \in Tasks, Reads(t)
    PROVE  /\ Others(t)
           /\ \/ Told(t) \/ ReadsStatus(t)
              \/ Chooses1(t) \/ Chooses2(t) \/ ReadsPersona(t)
              \/ Proposes(t) \/ ReadsMode(t) \/ LooksUp(t)
  BY ChoicesFields, PersonaFields, StatusFields, AskFields, ModeFields, LookupFields DEF Reads

(* A proposal is saved for the card.                                       *)
Saves(t) ==
    /\ pc[t] = "save"
    /\ \/ pc'[t] = "save" /\ req'[t].card = FALSE
       \/ pc'[t] = "send" /\ req'[t].card = TRUE
    /\ req'[t].event = req[t].event
    /\ req'[t].wished = req[t].wished
    /\ req'[t].before = req[t].before
    /\ req'[t].duplicates = req[t].duplicates
    /\ req'[t].proposals = req[t].proposals
    /\ req'[t].direct = req[t].direct

(* The next direct write, if there is one.                                 *)
GoesOn(t) ==
    /\ pc'[t] = "save_direct"
    /\ req'[t].duplicates = req[t].duplicates
    /\ req'[t].proposals = req[t].proposals
    /\ req'[t].direct = req[t].direct
    /\ Alike(t)

SendsAgain(t) ==
    /\ pc[t] = "send" /\ pc'[t] = "send"
    /\ req'[t].duplicates = req[t].duplicates
    /\ req'[t].proposals = req[t].proposals
    /\ Alike(t)

LEMMA SaveFields ==
    ASSUME RouterTypeOK, TasksInv, NEW t \in Tasks, Save(t)
    PROVE  Saves(t) /\ Others(t) /\ TasksInv'
  <1>1. /\ pc[t] = "save" /\ UNCHANGED <<settings, sent>>
        /\ IF req[t].at < Len(req[t].proposals)
           THEN Know(t, "save", [req[t] EXCEPT !.at = @ + 1])
           ELSE Know(t, "send", [req[t] EXCEPT !.card = TRUE])
    BY DEF Save, feishu
  <1>2. req[t] \in Request /\ req[t].card = FALSE /\ TaskKnows(t)
    BY <1>1, Keeps DEF TasksInv
  <1> DEFINE on == [req[t] EXCEPT !.at = @ + 1]
             off == [req[t] EXCEPT !.card = TRUE]
  <1>3. /\ on.event = req[t].event /\ on.wished = req[t].wished /\ on.before = req[t].before
        /\ on.duplicates = req[t].duplicates /\ on.proposals = req[t].proposals
        /\ on.direct = req[t].direct /\ on.card = FALSE /\ on.at = req[t].at + 1
    BY <1>2 DEF Request
  <1>4. /\ off.event = req[t].event /\ off.wished = req[t].wished /\ off.before = req[t].before
        /\ off.duplicates = req[t].duplicates /\ off.proposals = req[t].proposals
        /\ off.direct = req[t].direct /\ off.card = TRUE
    BY <1>2 DEF Request
  <1> HIDE DEF on, off
  <1>5. Message(t).kind = "question"
    BY <1>1, <1>2 DEF TaskKnows, QuestionLabels
  <1>6. CASE req[t].at < Len(req[t].proposals)
    <2>1. Know(t, "save", on)
      BY <1>1, <1>6 DEF on
    <2>2. pc'[t] = "save" /\ req'[t] = on /\ Others(t)
      BY <2>1, KnowFrame DEF Others
    <2>3. on.at \in 1..Len(on.proposals)
      BY <1>1, <1>2, <1>3, <1>6 DEF TaskKnows, Proposing, Request
    <2>4. Fits(t, "save", on)
      BY <1>1, <1>2, <1>3, <1>5, <2>3 DEF Fits, TaskKnows, Proposing, QuestionLabels
    <2>5. TasksInv'
      BY <1>1, <2>1, <2>4, StepKnows
    <2>6. QED BY <1>1, <1>3, <2>2, <2>5 DEF Saves
  <1>7. CASE ~(req[t].at < Len(req[t].proposals))
    <2>1. Know(t, "send", off)
      BY <1>1, <1>7 DEF off
    <2>2. pc'[t] = "send" /\ req'[t] = off /\ Others(t)
      BY <2>1, KnowFrame DEF Others
    <2>3. Fits(t, "send", off)
      BY <1>1, <1>4, <1>5 DEF Fits, Proposing, QuestionLabels
    <2>4. TasksInv'
      BY <1>1, <2>1, <2>3, StepKnows
    <2>5. QED BY <1>1, <1>4, <2>2, <2>4 DEF Saves
  <1>8. QED BY <1>6, <1>7

LEMMA SaveDirectFields ==
    ASSUME RouterTypeOK, TasksInv, NEW t \in Tasks, SaveDirect(t)
    PROVE  /\ pc[t] = "save_direct" /\ pc'[t] = "confirm" /\ req'[t] = req[t]
           /\ Others(t) /\ TasksInv'
  <1>1. pc[t] = "save_direct" /\ Know(t, "confirm", req[t]) /\ UNCHANGED <<settings, sent>>
    BY DEF SaveDirect, Goto, feishu
  <1>2. Fits(t, "confirm", req[t])
    <2>1. req[t].card = FALSE
      BY <1>1, Keeps
    <2>2. QED BY <1>1, <2>1 DEF Fits, TasksInv, TaskKnows, QuestionLabels, Proposing
  <1>3. QED BY <1>1, <1>2, StepKnows, KnowFrame DEF Others

LEMMA NextDirectFields ==
    ASSUME RouterTypeOK, TasksInv, NEW t \in Tasks, pc[t] \in {"confirm", "execute"}, NextDirect(t),
           UNCHANGED <<settings, sent>>
    PROVE  (GoesOn(t) \/ Told(t)) /\ Others(t) /\ TasksInv'
  <1>1. CASE req[t].at < Len(req[t].proposals)
    <2> DEFINE on == [req[t] EXCEPT !.at = @ + 1]
    <2>1. Know(t, "save_direct", on)
      BY <1>1 DEF NextDirect
    <2>2. req[t] \in Request /\ req[t].card = FALSE /\ TaskKnows(t)
      BY Keeps DEF TasksInv
    <2>3. /\ on.event = req[t].event /\ on.wished = req[t].wished /\ on.before = req[t].before
          /\ on.duplicates = req[t].duplicates /\ on.proposals = req[t].proposals
          /\ on.direct = req[t].direct /\ on.card = req[t].card /\ on.at = req[t].at + 1
      BY <2>2 DEF Request
    <2> HIDE DEF on
    <2>4. pc'[t] = "save_direct" /\ req'[t] = on /\ Others(t)
      BY <2>1, KnowFrame DEF Others
    <2>5. on.at \in 1..Len(on.proposals)
      BY <1>1, <2>2, <2>3 DEF TaskKnows, Proposing, Request
    <2>6. Fits(t, "save_direct", on)
      BY <2>2, <2>3, <2>5 DEF Fits, TaskKnows, Proposing, QuestionLabels
    <2>7. TasksInv'
      BY <2>1, <2>6, StepKnows
    <2>8. QED BY <2>3, <2>4, <2>7 DEF GoesOn, Alike
  <1>2. CASE ~(req[t].at < Len(req[t].proposals))
    BY <1>2, AnswerTold, AnswerKnows DEF NextDirect
  <1>3. QED BY <1>1, <1>2

(* Confirm and Execute.                                                    *)
Confirms(t) ==
    /\ pc[t] = "confirm" /\ pc'[t] = "execute" /\ req'[t] = req[t]
    /\ SetStatus(Own(t), "confirmed")

Refuses(t) ==
    /\ pc[t] = "confirm" /\ (GoesOn(t) \/ Told(t))
    /\ UNCHANGED rows

Executes(t) ==
    /\ pc[t] = "execute" /\ (GoesOn(t) \/ Told(t))
    /\ \E status \in {"executed", "failed"} : SetStatus(Own(t), status)

LEMMA ConfirmFields ==
    ASSUME RouterTypeOK, TasksInv, NEW t \in Tasks, Confirm(t) \/ Execute(t)
    PROVE  (Confirms(t) \/ Refuses(t) \/ Executes(t)) /\ Others(t) /\ TasksInv'
  <1>1. CASE Confirm(t)
    <2>1. pc[t] = "confirm" /\ UNCHANGED <<settings, sent>>
      BY <1>1 DEF Confirm, feishu
    <2>2. CASE SetStatus(Own(t), "confirmed") /\ Goto(t, "execute")
      <3>1. Fits(t, "execute", req[t])
        <4>1. req[t].card = FALSE
          BY <2>1, Keeps
        <4>2. QED BY <2>1, <4>1 DEF Fits, TasksInv, TaskKnows, QuestionLabels, Proposing
      <3>2. Know(t, "execute", req[t])
        BY <2>2 DEF Goto
      <3>3. QED BY <2>1, <2>2, <3>1, <3>2, StepKnows, KnowFrame DEF Others, Confirms
    <2>3. CASE UNCHANGED rows /\ NextDirect(t)
      BY <2>1, <2>3, NextDirectFields DEF Refuses
    <2>4. QED BY <1>1, <2>2, <2>3 DEF Confirm
  <1>2. CASE Execute(t)
    <2>1. pc[t] = "execute" /\ UNCHANGED <<settings, sent>> /\ NextDirect(t)
      BY <1>2 DEF Execute, feishu
    <2>2. QED BY <1>2, <2>1, NextDirectFields DEF Execute, Executes
  <1>3. QED BY <1>1, <1>2

(* The end of a request.                                                   *)
Ends(t, how) ==
    /\ pc'[t] = "idle" /\ req'[t] = NoRequest
    /\ LET e == req[t].event
           ended == IF Keyed(sent[e]) /\ pc[t] # "remember_key" THEN {e} ELSE {} IN
       /\ done' = IF how = "done" THEN done \cup ended ELSE done
       /\ lost' = IF how = "lost" THEN lost \cup ended ELSE lost

LEMMA FinishFields ==
    ASSUME RouterTypeOK, NEW t \in Tasks, NEW how, Finish(t, how)
    PROVE  Ends(t, how) /\ Others(t)
  BY KnowFrame DEF Finish, Ends, Others

(* An answer is sent: it gets through or it does not, it may be sent again. *)
Sends(t) ==
    /\ pc[t] = "send"
    /\ \/ /\ carded' = IF req[t].card THEN carded \cup CardOf(t) ELSE carded
          /\ Ends(t, "done") \/ Ends(t, "lost") \/ (SendsAgain(t) /\ UNCHANGED ends)
       \/ /\ carded' = carded
          /\ Ends(t, "lost") \/ (SendsAgain(t) /\ UNCHANGED ends)

LEMMA SendFields ==
    ASSUME RouterTypeOK, TasksInv, NEW t \in Tasks, SendAnswer(t)
    PROVE  Sends(t) /\ Others(t) /\ TasksInv'
  <1>1. pc[t] = "send" /\ UNCHANGED <<settings, sent>>
    BY DEF SendAnswer, feishu
  <1> DEFINE again == [req[t] EXCEPT !.attempt = @ + 1]
  <1>2. PICK through \in BOOLEAN, answer \in {"ok", "refused", "error"} :
           /\ answer = "ok" => through
           /\ carded' = IF through /\ req[t].card THEN carded \cup CardOf(t) ELSE carded
           /\ \/ answer = "ok" /\ Finish(t, "done")
              \/ Know(t, "send", again) /\ UNCHANGED ends
              \/ Finish(t, "lost")
    BY DEF SendAnswer
  <1>3. /\ again.event = req[t].event /\ again.wished = req[t].wished
        /\ again.before = req[t].before /\ again.duplicates = req[t].duplicates
        /\ again.proposals = req[t].proposals /\ again.card = req[t].card
    BY RequestTypes DEF Request
  <1> HIDE DEF again
  <1>4. ASSUME Know(t, "send", again) PROVE SendsAgain(t) /\ Others(t) /\ TasksInv'
    <2>1. pc'[t] = "send" /\ req'[t] = again /\ Others(t)
      BY <1>4, KnowFrame DEF Others
    <2>2. Fits(t, "send", again)
      BY <1>1, <1>3 DEF Fits, TasksInv, TaskKnows, QuestionLabels, Proposing
    <2>3. TasksInv'
      BY <1>1, <1>4, <2>2, StepKnows
    <2>4. QED BY <1>1, <1>3, <2>1, <2>3 DEF SendsAgain, Alike
  <1>5. ASSUME NEW how, Finish(t, how) PROVE Ends(t, how) /\ Others(t) /\ TasksInv'
    BY <1>1, <1>5, FinishFields, FinishKnows
  <1>6. QED BY <1>1, <1>2, <1>4, <1>5 DEF Sends

LEMMA AbortFields ==
    ASSUME RouterTypeOK, TasksInv, NEW t \in Tasks, Abort(t)
    PROVE  pc[t] # "idle" /\ Ends(t, "lost") /\ Others(t) /\ TasksInv'
  BY FinishFields, FinishKnows DEF Abort, feishu

LEMMA IdleKnows ==
    ASSUME TasksInv, UNCHANGED <<pc, req, sent, settings>>
    PROVE  TasksInv'
  BY LeftKnows DEF Left, TasksInv
-----------------------------------------------------------------------------
(* Keys                                                                    *)

LEMMA KeysKept ==
    ASSUME KeysInv, UNCHANGED <<sent, keys, done, lost>>,
           \A s \in Tasks, e \in Events : Serving(s, e)' <=> Serving(s, e)
    PROVE  KeysInv'
  <1>1. ASSUME NEW e \in Events PROVE Untouched(e)' /\ Accounted(e)'
    BY DEF KeysInv, Untouched, Accounted, Keyed
  <1>2. QED BY <1>1 DEF KeysInv

(* A step that leaves its task at work on the same event.                  *)
Continues(t) ==
    /\ pc[t] \notin {"idle", "remember_key"} /\ pc'[t] \notin {"idle", "remember_key"}
    /\ req'[t].event = req[t].event
    /\ Others(t)

LEMMA ContinuesKeys ==
    ASSUME KeysInv, NEW t \in Tasks, Continues(t), UNCHANGED <<sent, keys, done, lost>>
    PROVE  KeysInv'
  <1>1. ASSUME NEW s \in Tasks, NEW e \in Events PROVE Serving(s, e)' <=> Serving(s, e)
    BY DEF Continues, Others, Serving
  <1>2. QED BY <1>1, KeysKept

LEMMA EndsKeys ==
    ASSUME TasksInv, KeysInv, NEW t \in Tasks, NEW how \in {"done", "lost"}, pc[t] # "idle",
           Ends(t, how), Others(t), UNCHANGED <<sent, keys>>
    PROVE  KeysInv'
  <1>1. PICK f \in Events : f = req[t].event /\ sent[f] # None
    BY DEF TasksInv, TaskKnows
  <1>2. \A s \in Tasks, e \in Events : Serving(s, e)' <=> s # t /\ Serving(s, e)
    BY DEF Ends, Others, Serving
  <1>3. CASE Keyed(sent[f]) /\ pc[t] # "remember_key"
    <2>1. Serving(t, f)
      BY <1>1, <1>3 DEF Serving
    <2>2. done' \cup lost' = done \cup lost \cup {f} /\ (done' \cap lost') \subseteq (done \cap lost) \cup {f}
      BY <1>1, <1>3 DEF Ends
    <2>3. f \notin done \cup lost /\ f \in keys
      BY <1>1, <1>3, <2>1 DEF KeysInv, Accounted
    <2>4. f \notin done' \cap lost'
      BY <1>1, <1>3, <2>3 DEF Ends
    <2>5. ASSUME NEW e \in Events PROVE Untouched(e)'
      BY <1>1, <2>2 DEF KeysInv, Untouched
    <2>6. ASSUME NEW e \in Events \ {f} PROVE Accounted(e)'
      <3>1. ~Serving(t, e)
        BY <1>1, <2>6 DEF Serving
      <3>2. QED BY <1>2, <2>2, <3>1 DEF KeysInv, Accounted, Keyed
    <2>7. Accounted(f)'
      <3>1. \A s \in Tasks : ~Serving(s, f)'
        BY <1>1, <1>2, <1>3, <2>1 DEF KeysInv, Accounted
      <3>2. QED BY <1>1, <2>2, <2>3, <2>4, <3>1 DEF Accounted
    <2>8. QED BY <2>5, <2>6, <2>7 DEF KeysInv
  <1>4. CASE ~(Keyed(sent[f]) /\ pc[t] # "remember_key")
    <2>1. UNCHANGED <<done, lost>>
      BY <1>1, <1>4 DEF Ends
    <2>2. ASSUME NEW e \in Events PROVE Untouched(e)'
      BY <2>1 DEF KeysInv, Untouched
    <2>3. ASSUME NEW e \in Events PROVE Accounted(e)'
      <3>1. Keyed(sent[e]) => ~Serving(t, e)
        BY <1>1, <1>4 DEF Serving
      <3>2. QED BY <1>2, <2>1, <3>1 DEF KeysInv, Accounted, Keyed
    <2>4. QED BY <2>2, <2>3 DEF KeysInv
  <1>5. QED BY <1>3, <1>4

LEMMA DeliverKeys ==
    ASSUME RouterTypeOK, TasksInv, KeysInv, NEW t \in Tasks, NEW f \in Events, Deliver(t, f)
    PROVE  KeysInv'
  <1>1. PICK event : Delivered(t, f, event)
    BY DeliverFacts
  <1>2. UNCHANGED <<keys, done, lost>>
    BY DeliverFacts DEF ends
  <1>3. \A s \in Tasks \ {t}, e \in Events : Serving(s, e)' <=> Serving(s, e)
    BY <1>1 DEF Delivered, Serving
  <1>4. \A e \in Events : ~Serving(t, e)
    BY <1>1 DEF Delivered, Serving
  <1>5. ASSUME NEW e \in Events \ {f} PROVE Untouched(e)' /\ Accounted(e)'
    <2>1. ~Serving(t, e)'
      BY <1>1 DEF Delivered, Serving
    <2>2. sent'[e] = sent[e]
      BY <1>1 DEF Delivered
    <2>3. QED BY <1>2, <1>3, <1>4, <2>1, <2>2 DEF KeysInv, Untouched, Accounted, Keyed
  <1>6. Untouched(f)'
    BY <1>1 DEF Delivered, Untouched
  <1>7. Accounted(f)'
    <2>1. CASE ~Keyed(event)
      BY <1>1, <2>1 DEF Delivered, Accounted, Keyed
    <2>2. CASE Keyed(event)
      <3>1. ~Serving(t, f)'
        BY <1>1, <2>2 DEF Delivered, Serving
      <3>2. CASE sent[f] = None
        <4>1. f \notin keys \cup done \cup lost
          BY <3>2 DEF KeysInv, Untouched
        <4>2. \A s \in Tasks : ~Serving(s, f)
          BY <3>2 DEF Serving, TasksInv, TaskKnows
        <4>3. QED BY <1>2, <1>3, <3>1, <4>1, <4>2 DEF Accounted
      <3>3. CASE sent[f] = event
        <4>1. sent[f] # None /\ Keyed(sent[f])
          BY <1>1, <2>2, <3>3 DEF Delivered
        <4>2. QED BY <1>2, <1>3, <1>4, <3>1, <4>1 DEF KeysInv, Accounted
      <3>4. QED BY <1>1, <3>2, <3>3 DEF Delivered
    <2>3. QED BY <2>1, <2>2
  <1>8. QED BY <1>5, <1>6, <1>7 DEF KeysInv

LEMMA RememberKeyFields ==
    ASSUME RouterTypeOK, TasksInv, NEW t \in Tasks, RememberKey(t)
    PROVE  /\ pc[t] = "remember_key" /\ keys' = keys \cup {req[t].event}
           /\ UNCHANGED <<settings, sent, auto, model, persona, actions, carded, fresh>>
           /\ Others(t)
           /\ \/ /\ req[t].event \notin keys /\ UNCHANGED <<done, lost>>
                 /\ pc'[t] = Handler(Message(t)) /\ req'[t] = req[t]
              \/ /\ req[t].event \in keys /\ UNCHANGED <<done, lost>>
                 /\ pc'[t] = "idle" /\ req'[t] = NoRequest
  <1>1. /\ pc[t] = "remember_key" /\ keys' = keys \cup {req[t].event}
        /\ UNCHANGED <<settings, sent, auto, model, persona, actions, carded, fresh>>
    BY DEF RememberKey, feishu, prefs, rows
  <1>2. CASE req[t].event \notin keys /\ Goto(t, Handler(Message(t))) /\ UNCHANGED ends
    BY <1>1, <1>2, KnowFrame DEF Goto, Others, ends
  <1>3. CASE req[t].event \in keys /\ Finish(t, "duplicate")
    BY <1>1, <1>3, FinishFields DEF Ends
  <1>4. QED BY <1>2, <1>3 DEF RememberKey

LEMMA RememberKeyKeys ==
    ASSUME RouterTypeOK, TasksInv, KeysInv, NEW t \in Tasks, RememberKey(t)
    PROVE  KeysInv'
  <1>1. PICK f \in Events :
            f = req[t].event /\ sent[f] # None /\ Keyed(sent[f]) /\ Message(t) \in Event
    BY MessageType, RememberKeyFields DEF TasksInv, TaskKnows, Message
  <1>2. /\ pc[t] = "remember_key" /\ keys' = keys \cup {f}
        /\ UNCHANGED <<sent, done, lost>> /\ Others(t)
    BY <1>1, RememberKeyFields
  <1>3. \A s \in Tasks \ {t}, e \in Events : Serving(s, e)' <=> Serving(s, e)
    BY <1>2 DEF Others, Serving
  <1>4. \A e \in Events : ~Serving(t, e)
    BY <1>2 DEF Serving
  <1>5. CASE f \in keys /\ pc'[t] = "idle"
    <2>1. \A s \in Tasks, e \in Events : Serving(s, e)' <=> Serving(s, e)
      BY <1>3, <1>4, <1>5 DEF Serving
    <2>2. keys' = keys
      BY <1>2, <1>5
    <2>3. QED BY <1>2, <2>1, <2>2, KeysKept
  <1>6. CASE f \notin keys /\ pc'[t] = Handler(Message(t)) /\ req'[t] = req[t]
    <2>1. \A e \in Events : Serving(t, e)' <=> e = f
      BY <1>1, <1>6, HandlerFits DEF Serving
    <2>2. /\ \A s \in Tasks : ~Serving(s, f)
          /\ f \notin done \cup lost
      BY <1>1, <1>6 DEF KeysInv, Accounted
    <2>3. ASSUME NEW e \in Events PROVE Untouched(e)'
      BY <1>1, <1>2 DEF KeysInv, Untouched
    <2>4. ASSUME NEW e \in Events \ {f} PROVE Accounted(e)'
      <3>1. \A s \in Tasks : Serving(s, e)' <=> Serving(s, e)
        BY <1>3, <1>4, <2>1, <2>4
      <3>2. QED BY <1>2, <2>4, <3>1 DEF KeysInv, Accounted, Keyed
    <2>5. Accounted(f)'
      <3>1. \A s \in Tasks : Serving(s, f)' <=> s = t
        BY <1>1, <1>3, <2>1, <2>2
      <3>2. QED BY <1>1, <1>2, <2>2, <3>1 DEF Accounted
    <2>6. QED BY <2>3, <2>4, <2>5 DEF KeysInv
  <1>7. QED BY <1>1, <1>5, <1>6, RememberKeyFields
-----------------------------------------------------------------------------
(* Rows                                                                    *)

SameRow(i) ==
    /\ actions'[i].event = actions[i].event
    /\ actions'[i].how = actions[i].how
    /\ actions'[i].actor = actions[i].actor
    /\ actions'[i].content = actions[i].content

(* No row disappears or says something else, and what is executed stays so. *)
RowsKept ==
    /\ DOMAIN actions \subseteq DOMAIN actions'
    /\ \A i \in DOMAIN actions :
           /\ SameRow(i)
           /\ actions[i].status = "executed" => actions'[i].status = "executed"
    /\ fresh' >= fresh
    /\ carded \subseteq carded'

LEMMA RowTypes ==
    ASSUME RouterTypeOK
    PROVE  /\ DOMAIN actions = 1..Len(actions) /\ Len(actions) \in Nat /\ fresh \in Nat
           /\ carded \subseteq DOMAIN actions
           /\ \A i \in DOMAIN actions : actions[i] \in Action
  BY DEF RouterTypeOK

LEMMA SameRows ==
    ASSUME RouterTypeOK, UNCHANGED <<actions, carded>>, fresh' \in {fresh, fresh + 1}
    PROVE  RowsKept
  BY RowTypes DEF RowsKept, SameRow

Inserted(t, how, n) ==
    /\ n = Len(actions) + 1
    /\ DOMAIN actions' = DOMAIN actions \cup {n}
    /\ \A i \in DOMAIN actions : actions'[i] = actions[i]
    /\ actions'[n].event = req[t].event
    /\ actions'[n].how = how
    /\ actions'[n].status = "pending"
    /\ UNCHANGED <<carded, fresh>>

LEMMA InsertRows ==
    ASSUME RouterTypeOK, NEW t, NEW how, Insert(t, how)
    PROVE  RowsKept /\ Inserted(t, how, Len(actions) + 1)
  <1> DEFINE row == [actor |-> Sender(t), content |-> req[t].proposals[req[t].at],
                     status |-> "pending", how |-> how, event |-> req[t].event]
             n == Len(actions) + 1
  <1>1. actions' = Append(actions, row) /\ UNCHANGED <<carded, fresh>>
    BY DEF Insert
  <1>2. row.event = req[t].event /\ row.how = how /\ row.status = "pending"
    OBVIOUS
  <1> HIDE DEF row
  <1>3. /\ DOMAIN actions' = DOMAIN actions \cup {n} /\ actions'[n] = row
        /\ \A i \in DOMAIN actions : actions'[i] = actions[i]
    BY <1>1 DEF RouterTypeOK
  <1>4. Inserted(t, how, n)
    BY <1>1, <1>2, <1>3 DEF Inserted
  <1>5. RowsKept
    BY <1>1, <1>3, RowTypes DEF RowsKept, SameRow
  <1>6. QED BY <1>4, <1>5

(* The status of row i is set.                                             *)
Stated(i, status) ==
    /\ DOMAIN actions' = DOMAIN actions
    /\ \A j \in DOMAIN actions : SameRow(j)
    /\ \A j \in DOMAIN actions : j # i => actions'[j].status = actions[j].status
    /\ actions'[i].status = status
    /\ UNCHANGED <<carded, fresh>>

LEMMA SetStatusRows ==
    ASSUME RouterTypeOK, NEW i \in DOMAIN actions, NEW status, SetStatus(i, status)
    PROVE  /\ Stated(i, status)
           /\ actions[i].status # "executed" => RowsKept
  <1>1. actions' = [actions EXCEPT ![i].status = status] /\ UNCHANGED <<carded, fresh>>
    BY DEF SetStatus
  <1>2. DOMAIN actions' = DOMAIN actions
    BY <1>1 DEF RouterTypeOK
  <1>3. ASSUME NEW j \in DOMAIN actions
        PROVE  SameRow(j) /\ actions'[j].status = IF j = i THEN status ELSE actions[j].status
    <2>1. actions[j] \in Action /\ actions'[j] = IF j = i THEN [actions[j] EXCEPT !.status = status] ELSE actions[j]
      BY <1>1 DEF RouterTypeOK
    <2>2. QED BY <2>1 DEF Action, SameRow
  <1>4. Stated(i, status)
    BY <1>1, <1>2, <1>3 DEF Stated
  <1>5. ASSUME actions[i].status # "executed" PROVE RowsKept
    BY <1>1, <1>2, <1>3, <1>5, RowTypes DEF RowsKept
  <1>6. QED BY <1>4, <1>5

LEMMA OwnIs ==
    ASSUME RouterTypeOK, NEW t, NEW i \in DOMAIN actions, IsOwn(t, i)
    PROVE  Own(t) = i
  <1> DEFINE P(k) == /\ actions[k].event = req[t].event /\ actions[k].how = "direct"
                     /\ \A j \in DOMAIN actions : j > k => actions[j].event # req[t].event
  <1>1. P(i)
    BY DEF IsOwn
  <1>2. \A k \in DOMAIN actions : P(k) => k = i
    <2>1. ASSUME NEW k \in DOMAIN actions, P(k) PROVE k = i
      <3>1. i \in Nat /\ k \in Nat
        BY RowTypes
      <3>2. ~(i > k) /\ ~(k > i)
        BY <1>1, <2>1
      <3>3. QED BY <3>1, <3>2
    <2>2. QED BY <2>1
  <1>3. Own(t) = CHOOSE k \in DOMAIN actions : P(k)
    BY DEF Own
  <1> HIDE DEF P
  <1>4. QED BY <1>1, <1>2, <1>3

-----------------------------------------------------------------------------
(* Rows without a card                                                     *)

Witness(t, e) == Serving(t, e) /\ (pc[t] = "save" \/ (pc[t] = "send" /\ req[t].card))

(* Whoever is on the way to a card stays so.                               *)
LEMMA OrphansKept ==
    ASSUME OrphansInv, RowsKept, DOMAIN actions' = DOMAIN actions, lost \subseteq lost',
           \A t \in Tasks, e \in Events : Witness(t, e) => Witness(t, e)',
           RouterTypeOK
    PROVE  OrphansInv'
  <1>1. ASSUME NEW i \in DOMAIN actions PROVE OnItsWay(i)'
    <2>1. PICK e \in Events : e = actions[i].event /\ e = actions'[i].event
      BY RowTypes DEF Action, RowsKept, SameRow
    <2>2. SUFFICES ASSUME actions'[i].how = "card", i \notin carded', e \notin lost'
                   PROVE  \E t \in Tasks : Witness(t, e)'
      BY <2>1 DEF OnItsWay, Witness, Serving
    <2>3. actions[i].how = "card" /\ i \notin carded /\ e \notin lost
      BY <2>2 DEF RowsKept, SameRow
    <2>4. PICK t \in Tasks : Witness(t, e)
      BY <2>1, <2>3 DEF OrphansInv, OnItsWay, Witness
    <2>5. QED BY <2>4
  <1>2. QED BY <1>1 DEF OrphansInv

(* A step of a task that is on no way to a card.                           *)
LEMMA OrphansPassed ==
    ASSUME RouterTypeOK, OrphansInv, NEW t \in Tasks, Others(t), RowsKept,
           DOMAIN actions' = DOMAIN actions, lost \subseteq lost',
           pc[t] # "save", pc[t] = "send" => ~req[t].card
    PROVE  OrphansInv'
  <1>1. ASSUME NEW s \in Tasks, NEW e \in Events, Witness(s, e) PROVE Witness(s, e)'
    <2>1. s # t
      BY <1>1 DEF Witness
    <2>2. QED BY <1>1, <2>1 DEF Others, Witness, Serving
  <1>2. QED BY <1>1, OrphansKept

LEMMA SaveOrphans ==
    ASSUME RouterTypeOK, TasksInv, OrphansInv, NEW t \in Tasks, Save(t)
    PROVE  OrphansInv'
  <1>1. Insert(t, "card") /\ UNCHANGED lost /\ Saves(t) /\ Others(t)
    BY SaveFields DEF Save, ends
  <1>2. PICK n \in Nat : Inserted(t, "card", n) /\ RowsKept
    BY <1>1, InsertRows, RowTypes
  <1>3. PICK f \in Events : f = req[t].event
    BY <1>1, MessageType DEF Saves
  <1>4. Witness(t, f)'
    BY <1>1, <1>3 DEF Saves, Witness, Serving
  <1>5. ASSUME NEW s \in Tasks, NEW e \in Events, Witness(s, e) PROVE Witness(s, e)'
    <2>1. CASE s = t
      BY <1>3, <1>4, <1>5, <2>1 DEF Witness, Serving
    <2>2. CASE s # t
      BY <1>1, <1>5, <2>2 DEF Others, Witness, Serving
    <2>3. QED BY <2>1, <2>2
  <1>6. ASSUME NEW i \in DOMAIN actions PROVE OnItsWay(i)'
    <2>1. PICK e \in Events : e = actions[i].event /\ e = actions'[i].event
      BY <1>2, RowTypes DEF Action, RowsKept, SameRow
    <2>2. SUFFICES ASSUME actions'[i].how = "card", i \notin carded', e \notin lost'
                   PROVE  \E s \in Tasks : Witness(s, e)'
      BY <2>1 DEF OnItsWay, Witness, Serving
    <2>3. actions[i].how = "card" /\ i \notin carded /\ e \notin lost
      BY <1>1, <1>2, <2>2 DEF RowsKept, SameRow
    <2>4. PICK s \in Tasks : Witness(s, e)
      BY <2>1, <2>3 DEF OrphansInv, OnItsWay, Witness
    <2>5. QED BY <1>5, <2>4
  <1>7. OnItsWay(n)'
    <2>1. actions'[n].event = f
      BY <1>2, <1>3 DEF Inserted
    <2>2. QED BY <1>4, <2>1 DEF OnItsWay, Witness, Serving
  <1>8. QED BY <1>2, <1>6, <1>7 DEF OrphansInv, Inserted

LEMMA SaveDirectOrphans ==
    ASSUME RouterTypeOK, TasksInv, OrphansInv, NEW t \in Tasks, SaveDirect(t)
    PROVE  OrphansInv'
  <1>1. /\ Insert(t, "direct") /\ UNCHANGED lost /\ Others(t) /\ pc[t] = "save_direct"
    BY SaveDirectFields DEF SaveDirect, ends
  <1>2. PICK n \in Nat : Inserted(t, "direct", n) /\ RowsKept
    BY <1>1, InsertRows, RowTypes
  <1>3. ASSUME NEW s \in Tasks, NEW e \in Events, Witness(s, e) PROVE Witness(s, e)'
    <2>1. s # t
      BY <1>1, <1>3 DEF Witness
    <2>2. QED BY <1>1, <1>3, <2>1 DEF Others, Witness, Serving
  <1>4. ASSUME NEW i \in DOMAIN actions PROVE OnItsWay(i)'
    <2>1. PICK e \in Events : e = actions[i].event /\ e = actions'[i].event
      BY <1>2, RowTypes DEF Action, RowsKept, SameRow
    <2>2. SUFFICES ASSUME actions'[i].how = "card", i \notin carded', e \notin lost'
                   PROVE  \E s \in Tasks : Witness(s, e)'
      BY <2>1 DEF OnItsWay, Witness, Serving
    <2>3. actions[i].how = "card" /\ i \notin carded /\ e \notin lost
      BY <1>1, <1>2, <2>2 DEF RowsKept, SameRow
    <2>4. PICK s \in Tasks : Witness(s, e)
      BY <2>1, <2>3 DEF OrphansInv, OnItsWay, Witness
    <2>5. QED BY <1>3, <2>4
  <1>5. OnItsWay(n)'
    BY <1>2 DEF OnItsWay, Inserted
  <1>6. QED BY <1>2, <1>4, <1>5 DEF OrphansInv, Inserted

(* The request that ends was to show these rows, and has done so or raised. *)
LEMMA EndsOrphans ==
    ASSUME RouterTypeOK, TasksInv, OrphansInv, NEW t \in Tasks, Others(t), UNCHANGED actions,
           pc[t] # "idle", carded \subseteq carded', lost \subseteq lost',
           pc[t] = "save" \/ (pc[t] = "send" /\ req[t].card) =>
               req[t].event \in lost' \/ CardOf(t) \subseteq carded'
    PROVE  OrphansInv'
  <1>1. ASSUME NEW i \in DOMAIN actions PROVE OnItsWay(i)'
    <2>1. PICK e \in Events : e = actions[i].event /\ e = actions'[i].event
      BY RowTypes DEF Action
    <2>2. SUFFICES ASSUME actions[i].how = "card", i \notin carded', e \notin lost'
                   PROVE  \E s \in Tasks : Witness(s, e)'
      BY <2>1 DEF OnItsWay, Witness, Serving
    <2>3. PICK s \in Tasks : Witness(s, e)
      BY <2>1, <2>2 DEF OrphansInv, OnItsWay, Witness
    <2>4. s # t
      <3>1. SUFFICES ASSUME s = t PROVE FALSE
        OBVIOUS
      <3>2. i \in CardOf(t) /\ e = req[t].event
        BY <2>1, <2>2, <2>3, <3>1 DEF CardOf, Witness, Serving
      <3>3. QED BY <2>2, <2>3, <3>1, <3>2 DEF Witness
    <2>5. Witness(s, e)'
      BY <2>3, <2>4 DEF Others, Witness, Serving
    <2>6. QED BY <2>5
  <1>2. QED BY <1>1 DEF OrphansInv

LEMMA AbortOrphans ==
    ASSUME RouterTypeOK, TasksInv, OrphansInv, NEW t \in Tasks, Abort(t)
    PROVE  OrphansInv'
  <1>1. /\ pc[t] # "idle" /\ Ends(t, "lost") /\ Others(t)
        /\ UNCHANGED <<actions, carded>>
    BY AbortFields DEF Abort, rows
  <1>2. lost \subseteq lost'
    BY <1>1 DEF Ends
  <1>3. ASSUME pc[t] = "save" \/ (pc[t] = "send" /\ req[t].card)
        PROVE  req[t].event \in lost'
    <2>1. Keyed(Message(t))
      BY <1>3 DEF TasksInv, TaskKnows, QuestionLabels, Keyed
    <2>2. QED BY <1>1, <1>3, <2>1 DEF Ends, Message
  <1>4. QED BY <1>1, <1>2, <1>3, EndsOrphans

LEMMA SendOrphans ==
    ASSUME RouterTypeOK, TasksInv, OrphansInv, NEW t \in Tasks, SendAnswer(t)
    PROVE  OrphansInv'
  <1>1. /\ Sends(t) /\ Others(t) /\ UNCHANGED <<actions, fresh>>
    BY SendFields DEF SendAnswer
  <1>2. pc[t] = "send" /\ carded \subseteq carded'
    BY <1>1 DEF Sends
  <1>3. CASE SendsAgain(t) /\ UNCHANGED ends
    <2>1. ASSUME NEW s \in Tasks, NEW e \in Events, Witness(s, e) PROVE Witness(s, e)'
      BY <1>1, <1>2, <1>3, <2>1 DEF Others, Witness, Serving, SendsAgain, Alike
    <2>2. RowsKept
      BY <1>1, <1>2, RowTypes DEF RowsKept, SameRow
    <2>3. QED BY <1>1, <1>3, <2>1, <2>2, OrphansKept DEF ends
  <1>4. CASE Ends(t, "done") \/ Ends(t, "lost")
    <2>1. lost \subseteq lost'
      BY <1>4 DEF Ends
    <2>2. ASSUME req[t].card PROVE req[t].event \in lost' \/ CardOf(t) \subseteq carded'
      <3>1. Keyed(Message(t))
        BY <2>2 DEF TasksInv, TaskKnows, Keyed
      <3>2. CASE carded' = IF req[t].card THEN carded \cup CardOf(t) ELSE carded
        BY <2>2, <3>2
      <3>3. CASE Ends(t, "lost")
        BY <1>2, <3>1, <3>3 DEF Ends, Message
      <3>4. CASE carded' = carded /\ SendsAgain(t)
        BY <1>4, <3>4 DEF Ends, SendsAgain
      <3>5. QED BY <1>1, <3>2, <3>3, <3>4 DEF Sends
    <2>3. QED BY <1>1, <1>2, <2>1, <2>2, EndsOrphans
  <1>5. QED BY <1>1, <1>3, <1>4 DEF Sends
-----------------------------------------------------------------------------
(* Wishes and choices                                                      *)

LEMMA OtherWishes ==
    ASSUME NEW s \in Tasks, TaskKnows(s), Wishes(s), pc'[s] = pc[s], req'[s] = req[s],
           pc[s] # "idle" => sent'[req[s].event] = sent[req[s].event],
           UNCHANGED <<settings, auto>>
    PROVE  Wishes(s)'
  <1>1. CASE pc[s] = "idle"
    BY <1>1 DEF Wishes, BeforeMode, Proposing, Direct
  <1>2. CASE pc[s] # "idle"
    <2>1. Message(s)' = Message(s) /\ Sender(s)' = Sender(s)
      BY <1>2 DEF Message, Sender
    <2>2. Wanted(Sender(s), auto)' = Wanted(Sender(s), auto)
      BY <2>1 DEF Wanted, EffectiveMode
    <2>3. QED BY <2>1, <2>2 DEF Wishes
  <1>3. QED BY <1>1, <1>2

LEMMA OtherChooses ==
    ASSUME NEW s \in Tasks, TaskKnows(s), Chooses(s), pc'[s] = pc[s], req'[s] = req[s],
           pc[s] # "idle" => sent'[req[s].event] = sent[req[s].event],
           UNCHANGED model
    PROVE  Chooses(s)'
  <1>1. CASE pc[s] = "idle"
    BY <1>1 DEF Chooses, BeforeModel, Chosen
  <1>2. CASE pc[s] # "idle"
    <2>1. Message(s)' = Message(s) /\ Sender(s)' = Sender(s)
      BY <1>2 DEF Message, Sender
    <2>2. Resolved(Sender(s), Message(s).conv, model)' = Resolved(Sender(s), Message(s).conv, model)
      BY <2>1 DEF Resolved
    <2>3. QED BY <2>1, <2>2 DEF Chooses
  <1>3. QED BY <1>1, <1>2

(* Past the proposals, or where there are none, nothing is claimed.         *)
LEMMA SilentStep ==
    ASSUME NEW t, pc'[t] \in {"idle", "send", "set_auto", "set_persona", "clear_profile", "set_model"}
    PROVE  Wishes(t)' /\ Chooses(t)'
  BY DEF Wishes, Chooses, BeforeMode, BeforeModel, Chosen, Proposing, Direct

(* A step of one task that changes no preference.                          *)
LEMMA WishesByOne ==
    ASSUME TasksInv, WishesInv, ChoicesInv, NEW t \in Tasks, Others(t), Wishes(t)', Chooses(t)',
           UNCHANGED <<settings, sent, auto, model>>
    PROVE  WishesInv' /\ ChoicesInv'
  <1>1. ASSUME NEW s \in Tasks \ {t} PROVE Wishes(s)' /\ Chooses(s)'
    BY OtherWishes, OtherChooses DEF Others, TasksInv, WishesInv, ChoicesInv
  <1>2. QED BY <1>1 DEF WishesInv, ChoicesInv

LEMMA ReadsWishes ==
    ASSUME RouterTypeOK, TasksInv, WishesInv, ChoicesInv, NEW t \in Tasks, Reads(t)
    PROVE  WishesInv' /\ ChoicesInv'
  <1>1. Others(t) /\ UNCHANGED <<settings, sent, auto, model>> /\ TaskKnows(t)
        /\ Wishes(t) /\ Chooses(t)
    BY ReadsFields, ReadsFrame DEF TasksInv, WishesInv, ChoicesInv
  <1>2. ASSUME req'[t].event = req[t].event
        PROVE  /\ Message(t)' = Message(t) /\ Sender(t)' = Sender(t)
               /\ Wanted(Sender(t), auto)' = Wanted(Sender(t), auto)
               /\ Resolved(Sender(t), Message(t).conv, model)'
                      = Resolved(Sender(t), Message(t).conv, model)
    <2>1. Message(t)' = Message(t) /\ Sender(t)' = Sender(t)
      BY <1>1, <1>2 DEF Message, Sender
    <2>2. QED BY <1>1, <2>1 DEF Wanted, EffectiveMode, Resolved
  <1>3. ASSUME Told(t) PROVE Wishes(t)' /\ Chooses(t)'
    BY <1>3, SilentStep DEF Told
  <1>4. ASSUME ReadsStatus(t) PROVE Wishes(t)' /\ Chooses(t)'
    <2>1. Wishes(t)'
      BY <1>4 DEF ReadsStatus, Wishes, BeforeMode, Proposing, Direct
    <2>2. Chooses(t)'
      BY <1>1, <1>2, <1>4 DEF ReadsStatus, Alike, Chooses, BeforeModel, Chosen
    <2>3. QED BY <2>1, <2>2
  <1>5. ASSUME Chooses1(t) PROVE Wishes(t)' /\ Chooses(t)'
    <2>1. Message(t).kind = "question" /\ Private(Message(t).conv)
      BY <1>1, <1>5 DEF Chooses1, TaskKnows, QuestionLabels
    <2>2. Resolved(Sender(t), Message(t).conv, model) = GroupModel(t)
      BY <1>5 DEF Chooses1, Resolved, OwnModel, GroupModel
    <2>3. Wishes(t)'
      BY <1>1, <1>2, <1>5 DEF Chooses1, Wishes, BeforeMode, Proposing, Direct
    <2>4. Chooses(t)'
      <3>1. Message(t)' = Message(t) /\ Sender(t)' = Sender(t)
        BY <1>2, <1>5 DEF Chooses1
      <3>2. model'[<<"conversation", Message(t)'.conv>>] \in req'[t].resolved
        BY <1>1, <1>5, <2>1, <2>2, <3>1 DEF Chooses1, Chooses, BeforeModel, GroupModel
      <3>3. QED BY <1>1, <1>2, <1>5, <3>1, <3>2 DEF Chooses1, Chooses, BeforeModel, Chosen
    <2>5. QED BY <2>3, <2>4
  <1>6. ASSUME Chooses2(t) PROVE Wishes(t)' /\ Chooses(t)'
    <2>1. Message(t).kind = "question"
      BY <1>1, <1>6 DEF Chooses2, TaskKnows, QuestionLabels
    <2>2. Wishes(t)'
      BY <1>1, <1>2, <1>6 DEF Chooses2, Alike, Wishes, BeforeMode, Proposing, Direct
    <2>3. req'[t].model \in req'[t].resolved \cup {"vision", "media"}
      <3>1. CASE pc[t] = "user_model" /\ OwnModel(t) # None /\ req'[t].model = OwnModel(t)
        <4>1. Private(Message(t).conv)
          BY <1>1, <3>1 DEF TaskKnows
        <4>2. Resolved(Sender(t), Message(t).conv, model) = OwnModel(t)
          BY <3>1, <4>1 DEF Resolved, OwnModel
        <4>3. QED BY <1>1, <1>6, <2>1, <3>1, <4>2 DEF Chooses2, Chooses, BeforeModel
      <3>2. CASE pc[t] = "conversation_model" /\ req'[t].model = GroupModel(t)
        BY <1>1, <1>6, <3>2 DEF Chooses2, Chooses, GroupModel
      <3>3. CASE pc[t] = "download" /\ req'[t].model \in {"media", "vision", req[t].model}
        BY <1>1, <1>6, <3>3 DEF Chooses2, Chooses, Chosen
      <3>4. QED BY <1>6, <3>1, <3>2, <3>3 DEF Chooses2
    <2>4. Chooses(t)'
      BY <1>1, <1>2, <1>6, <2>3 DEF Chooses2, Alike, Chooses, BeforeModel, Chosen
    <2>5. QED BY <2>2, <2>4
  <1>7. ASSUME ReadsPersona(t) PROVE Wishes(t)' /\ Chooses(t)'
    <2>1. Message(t).kind = "question" /\ Private(Message(t).conv)
      BY <1>1, <1>7 DEF ReadsPersona, TaskKnows, QuestionLabels
    <2>2. Wishes(t)'
      BY <1>1, <1>2, <1>7 DEF ReadsPersona, Alike, Wishes, BeforeMode, Proposing, Direct
    <2>3. Private(Message(t).conv)'
      BY <1>2, <1>7, <2>1 DEF ReadsPersona, Alike, Private
    <2>4. Chooses(t)'
      BY <1>1, <1>2, <1>7, <2>3 DEF ReadsPersona, Alike, Chooses, BeforeModel, Chosen
    <2>5. QED BY <2>2, <2>4
  <1>8. ASSUME Proposes(t) PROVE Wishes(t)' /\ Chooses(t)'
    <2>1. Wishes(t)'
      BY <1>1, <1>2, <1>8 DEF Proposes, Alike, Wishes, BeforeMode, Proposing, Direct
    <2>2. Chooses(t)'
      BY <1>8 DEF Proposes, Chooses, BeforeModel, Chosen
    <2>3. QED BY <2>1, <2>2
  <1>9. ASSUME ReadsMode(t) PROVE Wishes(t)' /\ Chooses(t)'
    <2>1. Message(t).kind = "question" /\ settings.enabled
      BY <1>1, <1>9 DEF ReadsMode, TaskKnows, QuestionLabels
    <2>2. req'[t].direct => req[t].wished
      BY <1>1, <1>9, <2>1 DEF ReadsMode, Wishes, BeforeMode, Wanted
    <2>3. Wishes(t)'
      BY <1>9, <2>2 DEF ReadsMode, Alike, Wishes, BeforeMode, Proposing, Direct
    <2>4. Chooses(t)'
      BY <1>9 DEF ReadsMode, Chooses, BeforeModel, Chosen
    <2>5. QED BY <2>3, <2>4
  <1>10. ASSUME LooksUp(t) PROVE Wishes(t)' /\ Chooses(t)'
    <2>1. req'[t].direct => req[t].wished
      BY <1>1, <1>10 DEF LooksUp, Wishes, Proposing
    <2>2. Wishes(t)'
      BY <1>10, <2>1 DEF LooksUp, Alike, Wishes, BeforeMode, Proposing, Direct
    <2>3. Chooses(t)'
      BY <1>10 DEF LooksUp, Chooses, BeforeModel, Chosen
    <2>4. QED BY <2>2, <2>3
  <1>11. Wishes(t)' /\ Chooses(t)'
    BY <1>3, <1>4, <1>5, <1>6, <1>7, <1>8, <1>9, <1>10, ReadsFields
  <1>12. QED BY <1>1, <1>11, WishesByOne

LEMMA DeliverWishes ==
    ASSUME RouterTypeOK, TasksInv, WishesInv, ChoicesInv, NEW t \in Tasks, NEW e \in Events,
           Deliver(t, e)
    PROVE  WishesInv' /\ ChoicesInv'
  <1>1. PICK event : Delivered(t, e, event)
    BY DeliverFacts
  <1>2. UNCHANGED <<settings, auto, model>>
    BY DeliverFacts DEF prefs
  <1>3. \A f \in Events : sent[f] # None => sent'[f] = sent[f]
    BY <1>1 DEF Delivered
  <1>4. ASSUME NEW s \in Tasks \ {t} PROVE Wishes(s)' /\ Chooses(s)'
    <2>1. pc[s] # "idle" => sent'[req[s].event] = sent[req[s].event]
      BY <1>3 DEF TasksInv, TaskKnows
    <2>2. QED
      BY <1>1, <1>2, <2>1, OtherWishes, OtherChooses DEF Delivered, TasksInv, WishesInv, ChoicesInv
  <1>5. Message(t)' = event /\ Sender(t)' = event.user
    BY <1>1 DEF Message, Sender, Delivered
  <1>6. CASE ~Keyed(event)
    <2>1. event.kind # "question" /\ pc'[t] = Handler(event) /\ pc'[t] \notin QuestionLabels
      BY <1>1, <1>6, HandlerFits DEF Delivered, Keyed
    <2>2. Wishes(t)'
      BY <1>5, <2>1 DEF Wishes, QuestionLabels, Proposing, Direct
    <2>3. Chooses(t)'
      BY <1>1, <1>5, <2>1 DEF Delivered, Chooses, QuestionLabels, Chosen
    <2>4. QED BY <1>4, <2>2, <2>3 DEF WishesInv, ChoicesInv
  <1>7. CASE Keyed(event)
    <2>1. pc'[t] = "remember_key"
      BY <1>1, <1>7 DEF Delivered
    <2>2. Wanted(Sender(t), auto)' = Wanted(event.user, auto)
      BY <1>2, <1>5 DEF Wanted, EffectiveMode
    <2>3. Resolved(Sender(t), Message(t).conv, model)' = Resolved(event.user, event.conv, model)
      BY <1>2, <1>5 DEF Resolved
    <2>4. Wishes(t)'
      BY <1>1, <1>5, <2>1, <2>2 DEF Delivered, Wishes, BeforeMode, Proposing, Direct
    <2>5. Chooses(t)'
      BY <1>1, <1>5, <2>1, <2>3 DEF Delivered, Chooses, BeforeModel, Chosen
    <2>6. QED BY <1>4, <2>4, <2>5 DEF WishesInv, ChoicesInv
  <1>8. QED BY <1>6, <1>7

LEMMA RememberKeyWishes ==
    ASSUME RouterTypeOK, TasksInv, WishesInv, ChoicesInv, NEW t \in Tasks, RememberKey(t)
    PROVE  WishesInv' /\ ChoicesInv'
  <1>1. /\ pc[t] = "remember_key" /\ Others(t)
        /\ UNCHANGED <<settings, sent, auto, model>>
        /\ \/ pc'[t] = Handler(Message(t)) /\ req'[t] = req[t]
           \/ pc'[t] = "idle" /\ req'[t] = NoRequest
    BY RememberKeyFields
  <1>2. CASE pc'[t] = "idle"
    BY <1>1, <1>2, SilentStep, WishesByOne
  <1>3. CASE pc'[t] = Handler(Message(t)) /\ req'[t] = req[t]
    <2>1. Message(t) \in Event /\ Message(t)' = Message(t) /\ Sender(t)' = Sender(t)
      BY <1>1, <1>3, MessageType DEF Message, Sender
    <2>2. /\ Wanted(Sender(t), auto)' = Wanted(Sender(t), auto)
          /\ Resolved(Sender(t), Message(t).conv, model)'
                 = Resolved(Sender(t), Message(t).conv, model)
      BY <1>1, <2>1 DEF Wanted, EffectiveMode, Resolved
    <2>3. Wishes(t) /\ Chooses(t)
      BY DEF WishesInv, ChoicesInv
    <2>4. Wishes(t)'
      <3>1. pc'[t] \notin Proposing
        BY <1>3, <2>1, HandlerFits
      <3>2. QED
        BY <1>1, <1>3, <2>1, <2>2, <2>3, <3>1 DEF Wishes, BeforeMode, Proposing, Direct
    <2>5. Chooses(t)'
      <3>1. pc'[t] \notin Chosen
        <4>1. pc'[t] \in QuestionLabels => pc'[t] \in {"user_model", "conversation_model"}
          BY <1>3, <2>1, HandlerFits
        <4>2. QED BY <4>1 DEF QuestionLabels, Chosen
      <3>2. pc'[t] = "conversation_model" =>
                model'[<<"conversation", Message(t)'.conv>>] \in req'[t].resolved
        <4>1. SUFFICES ASSUME pc'[t] = "conversation_model"
                       PROVE  model[<<"conversation", Message(t).conv>>] \in req[t].resolved
          BY <1>1, <1>3, <2>1
        <4>2. Message(t).kind = "question" /\ ~Private(Message(t).conv)
          BY <1>3, <2>1, <4>1, HandlerFits DEF QuestionLabels
        <4>3. QED BY <1>1, <2>3, <4>2 DEF Chooses, BeforeModel, Resolved
      <3>3. pc[t] \in BeforeModel
        BY <1>1 DEF BeforeModel
      <3>4. QED BY <1>1, <1>3, <2>1, <2>2, <2>3, <3>1, <3>2, <3>3 DEF Chooses
    <2>6. QED BY <1>1, <2>4, <2>5, WishesByOne
  <1>4. QED BY <1>1, <1>2, <1>3

LEMMA SetAutoWishes ==
    ASSUME RouterTypeOK, TasksInv, WishesInv, ChoicesInv, NEW t \in Tasks, SetAuto(t)
    PROVE  WishesInv' /\ ChoicesInv'
  <1> DEFINE u == Sender(t)
  <1>1. /\ pc[t] = "set_auto" /\ pc'[t] = "send"
        /\ \A s \in Tasks \ {t} : pc'[s] = pc[s]
        /\ \A v \in Users : v # u => auto'[v] = auto[v]
        /\ UNCHANGED <<settings, sent, model>>
    BY DEF SetAuto, RouterTypeOK, feishu
  <1>2. ASSUME NEW s \in Tasks
        PROVE  /\ req'[s].event = req[s].event /\ req'[s].proposals = req[s].proposals
               /\ req'[s].direct = req[s].direct /\ req'[s].resolved = req[s].resolved
               /\ req'[s].model = req[s].model /\ req'[s].persona = req[s].persona
               /\ req'[s].wished = (req[s].wished \/ (Noticed(s, u, BeforeMode) /\ Wanted(u, auto')))
    <2>1. req[s] \in Request
      BY RequestTypes
    <2> HIDE DEF u
    <2>2. req'[s] = IF Noticed(s, u, BeforeMode)
                    THEN [req[s] EXCEPT !.wished = req[s].wished \/ Wanted(u, auto')] ELSE req[s]
      BY DEF SetAuto, u
    <2>3. req[s].wished \in BOOLEAN
      BY <2>1 DEF Request
    <2>4. QED BY <2>1, <2>2, <2>3 DEF Request
  <1>3. ASSUME NEW s \in Tasks \ {t} PROVE Wishes(s)' /\ Chooses(s)'
    <2>1. Message(s)' = Message(s) /\ Sender(s)' = Sender(s) /\ pc'[s] = pc[s] /\ TaskKnows(s)
          /\ Wishes(s) /\ Chooses(s)
      BY <1>1, <1>2 DEF Message, Sender, TasksInv, WishesInv, ChoicesInv
    <2>2. Resolved(Sender(s), Message(s).conv, model)' = Resolved(Sender(s), Message(s).conv, model)
      BY <1>1, <2>1 DEF Resolved
    <2>3. Chooses(s)'
      BY <1>1, <1>2, <2>1, <2>2 DEF Chooses
    <2>4. ASSUME pc[s] \in BeforeMode, Message(s).kind = "question", Wanted(Sender(s), auto)'
          PROVE  req'[s].wished
      <3>1. Wanted(Sender(s), auto') \/ ~Wanted(Sender(s), auto')
        OBVIOUS
      <3>2. settings.enabled /\ EffectiveMode(auto'[Sender(s)]) = "low_risk_direct"
        BY <1>1, <2>1, <2>4 DEF Wanted, EffectiveMode
      <3>3. CASE Sender(s) = u
        BY <1>2, <2>4, <3>2, <3>3 DEF Noticed, Wanted
      <3>4. CASE Sender(s) # u
        <4>1. Sender(s) \in Users
          BY <2>4, MessageType DEF BeforeMode
        <4>2. Wanted(Sender(s), auto)
          BY <1>1, <3>2, <3>4, <4>1 DEF Wanted
        <4>3. QED BY <1>2, <2>1, <2>4, <4>2 DEF Wishes
      <3>5. QED BY <3>3, <3>4
    <2>5. Wishes(s)'
      BY <1>2, <2>1, <2>4 DEF Wishes
    <2>6. QED BY <2>3, <2>5
  <1>4. QED BY <1>1, <1>3, SilentStep DEF WishesInv, ChoicesInv

LEMMA SetModelWishes ==
    ASSUME RouterTypeOK, TasksInv, WishesInv, ChoicesInv, NEW t \in Tasks, SetModel(t)
    PROVE  WishesInv' /\ ChoicesInv'
  <1> DEFINE u == Sender(t)
  <1>1. /\ pc[t] = "set_model" /\ pc'[t] = "send"
        /\ \A s \in Tasks \ {t} : pc'[s] = pc[s]
        /\ UNCHANGED <<settings, sent, auto>>
        /\ u \in Users
    BY MessageType DEF SetModel, RouterTypeOK, feishu
  <1>2. \A c \in Scopes : c # <<"user", u>> => model'[c] = model[c]
    BY DEF SetModel, RouterTypeOK
  <1>3. ASSUME NEW s \in Tasks
        PROVE  /\ req'[s].event = req[s].event /\ req'[s].proposals = req[s].proposals
               /\ req'[s].direct = req[s].direct /\ req'[s].wished = req[s].wished
               /\ req'[s].model = req[s].model /\ req'[s].persona = req[s].persona
               /\ req'[s].resolved = req[s].resolved \cup
                      (IF Noticed(s, u, BeforeModel) THEN {Resolved(u, Message(s).conv, model')}
                                                     ELSE {})
    <2>1. req[s] \in Request
      BY RequestTypes
    <2> HIDE DEF u
    <2>2. req'[s] = IF Noticed(s, u, BeforeModel)
                    THEN [req[s] EXCEPT !.resolved = req[s].resolved
                              \cup {Resolved(u, Message(s).conv, model')}] ELSE req[s]
      BY DEF SetModel, u
    <2>3. QED BY <2>1, <2>2 DEF Request
  <1>4. ASSUME NEW s \in Tasks \ {t} PROVE Wishes(s)' /\ Chooses(s)'
    <2>1. Message(s)' = Message(s) /\ Sender(s)' = Sender(s) /\ pc'[s] = pc[s] /\ TaskKnows(s)
          /\ Wishes(s) /\ Chooses(s)
      BY <1>1, <1>3 DEF Message, Sender, TasksInv, WishesInv, ChoicesInv
    <2>2. Wanted(Sender(s), auto)' = Wanted(Sender(s), auto)
      BY <1>1, <2>1 DEF Wanted, EffectiveMode
    <2>3. Wishes(s)'
      BY <1>3, <2>1, <2>2 DEF Wishes
    <2>4. ASSUME pc[s] # "idle"
          PROVE  /\ model'[<<"conversation", Message(s).conv>>] = model[<<"conversation", Message(s).conv>>]
                 /\ Sender(s) # u => Resolved(Sender(s), Message(s).conv, model')
                                       = Resolved(Sender(s), Message(s).conv, model)
      <3>1. <<"user", Sender(s)>> \in Scopes /\ <<"conversation", Message(s).conv>> \in Scopes
        BY <2>4, MessageType
      <3>2. "conversation" # "user"
        OBVIOUS
      <3>3. QED BY <1>2, <3>1, <3>2 DEF Resolved
    <2>5. ASSUME pc[s] \in BeforeModel, Message(s).kind = "question"
          PROVE  Resolved(Sender(s), Message(s).conv, model') \in req'[s].resolved
      <3>1. CASE Sender(s) = u
        BY <1>3, <2>5, <3>1 DEF Noticed
      <3>2. CASE Sender(s) # u
        BY <1>3, <2>1, <2>4, <2>5, <3>2 DEF Chooses, BeforeModel
      <3>3. QED BY <3>1, <3>2
    <2>6. Resolved(Sender(s), Message(s).conv, model)' = Resolved(Sender(s), Message(s).conv, model')
      BY <2>1 DEF Resolved
    <2>7. Chooses(s)'
      BY <1>3, <2>1, <2>4, <2>5, <2>6 DEF Chooses, BeforeModel
    <2>8. QED BY <2>3, <2>7
  <1>5. QED BY <1>1, <1>4, SilentStep DEF WishesInv, ChoicesInv

LEMMA PersonaFields2 ==
    ASSUME RouterTypeOK, TasksInv, NEW t \in Tasks, SetPersona(t) \/ ClearProfile(t)
    PROVE  /\ pc[t] \in {"set_persona", "clear_profile"} /\ pc'[t] \in {"clear_profile", "send"}
           /\ req'[t].event = req[t].event /\ req'[t].before \in {{}, req[t].before}
           /\ req'[t].card = FALSE
           /\ Others(t)
           /\ UNCHANGED <<settings, sent, keys, auto, model, actions, carded, fresh, done, lost>>
  <1>1. /\ pc[t] \in {"set_persona", "clear_profile"}
        /\ UNCHANGED <<settings, sent, keys, auto, model, actions, carded, fresh, done, lost>>
    BY DEF SetPersona, ClearProfile, feishu, rows, ends
  <1>2. CASE SetPersona(t)
    <2>1. Know(t, IF Message(t).kind = "reset" THEN "clear_profile" ELSE "send", req[t])
      BY <1>2 DEF SetPersona, Goto
    <2>2. QED BY <1>1, <2>1, KnowFrame, Keeps DEF Others
  <1>3. CASE ClearProfile(t)
    BY <1>1, <1>3, AnswerTold DEF ClearProfile, Told
  <1>4. QED BY <1>2, <1>3

LEMMA WritesWishes ==
    ASSUME RouterTypeOK, TasksInv, WishesInv, ChoicesInv, NEW t \in Tasks,
           \/ Save(t) \/ SaveDirect(t) \/ Confirm(t) \/ Execute(t) \/ SendAnswer(t) \/ Abort(t)
           \/ SetPersona(t) \/ ClearProfile(t)
    PROVE  WishesInv' /\ ChoicesInv'
  <1>1. Wishes(t)
    BY DEF WishesInv
  <1>2. UNCHANGED <<settings, sent, auto, model>>
    BY PersonaFields2
       DEF Save, SaveDirect, Confirm, Execute, SendAnswer, Abort, feishu, prefs
  <1>3. Others(t) /\ Wishes(t)' /\ Chooses(t)'
    <2>1. CASE Save(t)
      BY <1>1, <2>1, SaveFields
         DEF Saves, Wishes, Chooses, BeforeMode, BeforeModel, Chosen, Proposing, Direct
    <2>2. CASE SaveDirect(t)
      BY <1>1, <2>2, SaveDirectFields
         DEF Wishes, Chooses, BeforeMode, BeforeModel, Chosen, Proposing, Direct
    <2>3. CASE Confirm(t) \/ Execute(t)
      <3>1. Others(t) /\ pc[t] \in {"confirm", "execute"}
            /\ ((pc'[t] = "execute" /\ req'[t] = req[t]) \/ GoesOn(t) \/ Told(t))
        BY <2>3, ConfirmFields DEF Confirms, Refuses, Executes
      <3>2. CASE Told(t)
        BY <3>1, <3>2, SilentStep DEF Told
      <3>3. CASE GoesOn(t)
        BY <1>1, <3>1, <3>3
           DEF GoesOn, Alike, Wishes, Chooses, BeforeMode, BeforeModel, Chosen, Proposing, Direct
      <3>4. CASE pc'[t] = "execute" /\ req'[t] = req[t]
        BY <1>1, <3>1, <3>4
           DEF Wishes, Chooses, BeforeMode, BeforeModel, Chosen, Proposing, Direct
      <3>5. QED BY <3>1, <3>2, <3>3, <3>4
    <2>4. CASE SendAnswer(t)
      <3>1. Sends(t) /\ Others(t)
        BY <2>4, SendFields
      <3>2. pc'[t] \in {"idle", "send"}
        BY <3>1 DEF Sends, Ends, SendsAgain
      <3>3. QED BY <3>1, <3>2, SilentStep
    <2>5. CASE Abort(t)
      <3>1. pc'[t] = "idle" /\ Others(t)
        BY <2>5, AbortFields DEF Ends
      <3>2. QED BY <3>1, SilentStep
    <2>6. CASE SetPersona(t) \/ ClearProfile(t)
      <3>1. pc'[t] \in {"clear_profile", "send"} /\ Others(t)
        BY <2>6, PersonaFields2
      <3>2. QED BY <3>1, SilentStep
    <2>7. QED BY <2>1, <2>2, <2>3, <2>4, <2>5, <2>6
  <1>4. QED BY <1>2, <1>3, WishesByOne

LEMMA IdleWishes ==
    ASSUME TasksInv, WishesInv, ChoicesInv, UNCHANGED <<pc, req, sent, settings, auto, model>>
    PROVE  WishesInv' /\ ChoicesInv'
  <1>1. ASSUME NEW s \in Tasks PROVE Wishes(s)' /\ Chooses(s)'
    BY OtherWishes, OtherChooses DEF TasksInv, WishesInv, ChoicesInv
  <1>2. QED BY <1>1 DEF WishesInv, ChoicesInv
-----------------------------------------------------------------------------
(* Repetitions                                                             *)

(* The row that s is at work on stays as it is.                             *)
OwnKept(s) ==
    pc[s] \in {"confirm", "execute"} =>
        \A i \in DOMAIN actions : IsOwn(s, i) =>
            IsOwn(s, i)' /\ actions'[i].status = actions[i].status

(* A step that only notes wishes and choices.                              *)
Unmoved(s) ==
    /\ pc'[s] = pc[s]
    /\ pc[s] = "idle" => req'[s] = req[s]
    /\ pc[s] # "idle" => sent'[req[s].event] = sent[req[s].event]
    /\ req'[s].event = req[s].event /\ req'[s].before = req[s].before
    /\ req'[s].proposals = req[s].proposals /\ req'[s].at = req[s].at
    /\ req'[s].duplicates = req[s].duplicates /\ req'[s].card = req[s].card

LEMMA OtherRepeats ==
    ASSUME RouterTypeOK, NEW s \in Tasks, TaskKnows(s), Remembers(s), Noticing(s), Unmoved(s),
           RowsKept, OwnKept(s), RouterTypeOK'
    PROVE  Remembers(s)' /\ Noticing(s)'
  <1>1. CASE pc[s] = "idle"
    <2>1. req'[s].before = {} /\ pc'[s] = "idle"
      BY <1>1 DEF TaskKnows, NoRequest, Unmoved
    <2>2. QED BY <2>1 DEF Remembers, Noticing, Direct
  <1>2. CASE pc[s] # "idle"
    <2>1. Sender(s)' = Sender(s)
      BY <1>2 DEF Unmoved, Sender, Message
    <2>2. \A i \in req[s].before : i \in DOMAIN actions /\ actions[i].status = "executed"
      BY <1>2 DEF Remembers
    <2>3. Remembers(s)'
      <3>1. \A i \in req'[s].before : i \in DOMAIN actions' /\ actions'[i].status = "executed"
        BY <2>2 DEF Unmoved, RowsKept
      <3>2. ASSUME pc[s] \in {"confirm", "execute"}
            PROVE  \E i \in DOMAIN actions' :
                       IsOwn(s, i)' /\ actions'[i].status = IF pc[s] = "confirm" THEN "pending" ELSE "confirmed"
        BY <3>2 DEF Remembers, OwnKept, RowsKept
      <3>3. QED BY <3>1, <3>2 DEF Remembers, Unmoved
    <2>4. LookedUp(s)' = LookedUp(s)
      BY DEF LookedUp, Unmoved
    <2>5. ASSUME NEW i \in req[s].before, NEW k \in LookedUp(s), Repeats(s, i, k)'
          PROVE  req'[s].duplicates > 0
      <3>1. SameRow(i) /\ fresh' >= fresh /\ i \in DOMAIN actions
        BY <2>2 DEF RowsKept
      <3>2. i \in Nat /\ fresh \in Nat /\ fresh' \in Nat
        BY <3>1, RowTypes DEF RouterTypeOK
      <3>3. Repeats(s, i, k)
        BY <2>1, <2>5, <3>1, <3>2 DEF Repeats, SameRow, Unmoved
      <3>4. QED BY <2>5, <3>3 DEF Noticing, Unmoved
    <2>6. Noticing(s)'
      BY <2>4, <2>5 DEF Noticing, Unmoved
    <2>7. QED BY <2>3, <2>6
  <1>3. QED BY <1>1, <1>2

(* Two tasks at work on questions are at work on two of them.               *)
LEMMA Apart ==
    ASSUME TasksInv, KeysInv, NEW s \in Tasks, NEW t \in Tasks, s # t,
           pc[s] \in QuestionLabels, pc[t] \in QuestionLabels
    PROVE  req[s].event # req[t].event
  <1>1. /\ Serving(s, req[s].event) /\ Serving(t, req[t].event)
        /\ req[s].event \in Events /\ sent[req[s].event] # None /\ Keyed(sent[req[s].event])
    BY DEF Serving, QuestionLabels, TasksInv, TaskKnows, Keyed, Message
  <1>2. QED BY <1>1 DEF KeysInv, Accounted

LEMMA RepeatsByOne ==
    ASSUME RouterTypeOK, TasksInv, RepeatsInv, RowsKept, RouterTypeOK', NEW t \in Tasks,
           \A s \in Tasks \ {t} : Unmoved(s) /\ OwnKept(s),
           Remembers(t)' /\ Noticing(t)'
    PROVE  RepeatsInv'
  <1>1. ASSUME NEW s \in Tasks \ {t} PROVE Remembers(s)' /\ Noticing(s)'
    BY OtherRepeats DEF TasksInv, RepeatsInv
  <1>2. QED BY <1>1 DEF RepeatsInv

LEMMA OthersUnmoved ==
    ASSUME NEW t, Others(t), UNCHANGED sent
    PROVE  \A s \in Tasks \ {t} : Unmoved(s)
  BY DEF Others, Unmoved

LEMMA SameOwn ==
    ASSUME NEW s \in Tasks, UNCHANGED actions, req'[s].event = req[s].event
    PROVE  OwnKept(s)
  BY DEF OwnKept, IsOwn

LEMMA SameOwns ==
    ASSUME NEW t, Others(t), UNCHANGED actions
    PROVE  \A s \in Tasks \ {t} : OwnKept(s)
  BY SameOwn DEF Others

(* A step of a task that leaves the rows alone.                            *)
LEMMA QuietRepeats ==
    ASSUME RouterTypeOK, TasksInv, RepeatsInv, RouterTypeOK', NEW t \in Tasks, Others(t),
           UNCHANGED <<sent, actions, carded, fresh>>,
           Remembers(t)' /\ Noticing(t)'
    PROVE  RepeatsInv'
  <1>1. RowsKept
    BY SameRows
  <1>2. QED BY <1>1, OthersUnmoved, SameOwns, RepeatsByOne

(* Before the proposals, or where the answer is a text, there is nothing   *)
(* to notice.                                                              *)
LEMMA NothingToNotice ==
    ASSUME RouterTypeOK, RepeatsInv, NEW t \in Tasks, RowsKept,
           req'[t].before = {} \/ (pc[t] # "idle" /\ req'[t].before = req[t].before),
           pc'[t] \notin Proposing \cup {"mode"}, pc'[t] = "send" => req'[t].card = FALSE
    PROVE  Remembers(t)' /\ Noticing(t)'
  <1>1. \A i \in req'[t].before : i \in DOMAIN actions' /\ actions'[i].status = "executed"
    BY DEF RepeatsInv, Remembers, RowsKept
  <1>2. LookedUp(t)' = {}
    BY DEF LookedUp, Proposing, Direct
  <1>3. QED BY <1>1, <1>2 DEF Remembers, Noticing, Proposing, Direct

LEMMA LookupNotices ==
    ASSUME RouterTypeOK, TasksInv, RepeatsInv, NEW t \in Tasks, LooksUp(t),
           UNCHANGED <<sent, actions, fresh>>
    PROVE  Remembers(t)' /\ Noticing(t)'
  <1>1. /\ pc[t] = "lookup" /\ req'[t].proposals = req[t].proposals /\ Alike(t)
        /\ req'[t].duplicates = req[t].duplicates + (IF Found(t) THEN 1 ELSE 0)
        /\ TaskKnows(t) /\ Remembers(t) /\ Noticing(t) /\ req[t] \in Request
    BY RequestTypes DEF LooksUp, TasksInv, RepeatsInv
  <1>2. req[t].duplicates \in Nat /\ req[t].at \in Nat /\ Len(req[t].proposals) \in Nat
        /\ DOMAIN req[t].proposals = 1..Len(req[t].proposals)
    BY <1>1 DEF Request
  <1>3. \A i \in req[t].before : i \in DOMAIN actions /\ actions[i].status = "executed"
    BY <1>1 DEF Remembers
  <1>4. Sender(t)' = Sender(t)
    BY <1>1 DEF Sender, Message, Alike
  <1>5. ASSUME NEW i \in req[t].before, NEW k \in 1..req[t].at, Repeats(t, i, k)
        PROVE  req'[t].duplicates > 0
    <2>1. CASE k = req[t].at
      <3>1. i \in fresh..Len(actions)
        BY <1>3, <1>5, RowTypes DEF Repeats
      <3>2. i \in Matches(Sender(t), req[t].proposals[req[t].at])
        BY <1>3, <1>5, <2>1, <3>1 DEF Matches, Repeats
      <3>3. Found(t)
        BY <3>2 DEF Found
      <3>4. QED BY <1>1, <1>2, <3>3
    <2>2. CASE k # req[t].at
      <3>1. k \in LookedUp(t)
        BY <1>1, <1>2, <2>2 DEF LookedUp
      <3>2. req[t].duplicates > 0
        BY <1>1, <1>5, <3>1 DEF Noticing
      <3>3. QED BY <1>1, <1>2, <3>2
    <2>3. QED BY <2>1, <2>2
  <1>6. LookedUp(t)' \subseteq 1..req[t].at
    <2>1. CASE pc'[t] = "lookup"
      <3>1. req'[t].at = req[t].at + 1
        BY <2>1 DEF LooksUp
      <3>2. LookedUp(t)' = 1..req'[t].at - 1
        BY <2>1 DEF LookedUp
      <3>3. QED BY <1>2, <3>1, <3>2
    <2>2. CASE pc'[t] \in {"save", "save_direct"}
      <3>1. req[t].at >= Len(req[t].proposals)
        BY <2>2 DEF LooksUp
      <3>2. LookedUp(t)' = DOMAIN req[t].proposals
        BY <1>1, <2>2 DEF LookedUp, Direct
      <3>3. QED BY <1>2, <3>1, <3>2
    <2>3. QED BY <2>1, <2>2 DEF LooksUp
  <1>7. Remembers(t)'
    <2>1. pc'[t] \in {"lookup", "save", "save_direct"}
      BY DEF LooksUp
    <2>2. QED BY <1>1, <1>3, <2>1 DEF Alike, Remembers
  <1>8. Noticing(t)'
    <2>1. ASSUME NEW i \in req'[t].before, NEW k \in LookedUp(t)', Repeats(t, i, k)'
          PROVE  req'[t].duplicates > 0
      <3>1. Repeats(t, i, k) /\ i \in req[t].before
        BY <1>1, <1>4, <2>1 DEF Repeats, Alike
      <3>2. QED BY <1>5, <1>6, <2>1, <3>1
    <2>2. pc'[t] \in Direct => req'[t].duplicates = 0
      BY DEF LooksUp, Direct
    <2>3. QED BY <2>1, <2>2 DEF Noticing
  <1>9. QED BY <1>7, <1>8

LEMMA ReadsRepeats ==
    ASSUME RouterTypeOK, TasksInv, RepeatsInv, RouterTypeOK', NEW t \in Tasks, Reads(t)
    PROVE  RepeatsInv'
  <1>1. Others(t) /\ UNCHANGED <<settings, sent, actions, carded, fresh>> /\ RowsKept
    BY ReadsFields, ReadsFrame, SameRows
  <1>2. ASSUME Told(t) PROVE Remembers(t)' /\ Noticing(t)'
    <2>1. pc[t] # "idle"
      BY DEF Reads, StatusConversation, StatusUser, UserModel, ConversationModel, Download,
         ReadName, ReadProfile, Ask, Mode, Lookup
    <2>2. QED BY <1>1, <1>2, <2>1, NothingToNotice DEF Told, Proposing
  <1>3. ASSUME ReadsStatus(t) \/ Chooses1(t) \/ Chooses2(t) \/ ReadsPersona(t)
        PROVE  Remembers(t)' /\ Noticing(t)'
    <2>1. pc[t] # "idle" /\ req'[t].before = req[t].before
      BY <1>3 DEF ReadsStatus, Chooses1, Chooses2, ReadsPersona, Alike
    <2>2. pc'[t] \notin Proposing \cup {"mode", "send"}
      BY <1>3 DEF ReadsStatus, Chooses1, Chooses2, ReadsPersona, Proposing
    <2>3. QED BY <1>1, <2>1, <2>2, NothingToNotice
  <1>4. ASSUME Proposes(t) PROVE Remembers(t)' /\ Noticing(t)'
    <2>1. \A i \in req'[t].before : i \in DOMAIN actions' /\ actions'[i].status = "executed"
      BY <1>1, <1>4 DEF Proposes, Alike, RepeatsInv, Remembers
    <2>2. LookedUp(t)' = {}
      BY <1>4 DEF Proposes, LookedUp
    <2>3. QED BY <1>4, <2>1, <2>2 DEF Proposes, Remembers, Noticing, Direct
  <1>5. ASSUME ReadsMode(t) PROVE Remembers(t)' /\ Noticing(t)'
    <2>1. \A i \in req'[t].before : i \in DOMAIN actions' /\ actions'[i].status = "executed"
      BY <1>1, <1>5 DEF ReadsMode, Alike, RepeatsInv, Remembers
    <2>2. LookedUp(t)' = LookedUp(t) /\ Sender(t)' = Sender(t)
      BY <1>1, <1>5 DEF ReadsMode, Alike, LookedUp, Sender, Message
    <2>3. ASSUME NEW i, NEW k, Repeats(t, i, k)' PROVE Repeats(t, i, k)
      BY <1>1, <1>5, <2>2, <2>3 DEF ReadsMode, Repeats
    <2>4. Noticing(t)'
      BY <1>5, <2>2, <2>3 DEF ReadsMode, Alike, RepeatsInv, Noticing, Direct
    <2>5. QED BY <1>5, <2>1, <2>4 DEF ReadsMode, Remembers
  <1>6. ASSUME LooksUp(t) PROVE Remembers(t)' /\ Noticing(t)'
    BY <1>1, <1>6, LookupNotices
  <1>7. Remembers(t)' /\ Noticing(t)'
    BY <1>2, <1>3, <1>4, <1>5, <1>6, ReadsFields
  <1>8. QED BY <1>1, <1>7, QuietRepeats

LEMMA DeliverRepeats ==
    ASSUME RouterTypeOK, TasksInv, RepeatsInv, RouterTypeOK', NEW t \in Tasks, NEW e \in Events,
           Deliver(t, e)
    PROVE  RepeatsInv'
  <1>1. PICK event : Delivered(t, e, event)
    BY DeliverFacts
  <1>2. UNCHANGED <<actions, carded, fresh>>
    BY DeliverFacts DEF rows
  <1>3. RowsKept
    BY <1>2, SameRows
  <1>4. \A f \in Events : sent[f] # None => sent'[f] = sent[f]
    BY <1>1 DEF Delivered
  <1>5. ASSUME NEW s \in Tasks \ {t} PROVE Unmoved(s) /\ OwnKept(s)
    BY <1>1, <1>2, <1>4, SameOwn DEF Delivered, Unmoved, TasksInv, TaskKnows
  <1>6. pc'[t] \notin Proposing \cup {"mode"} /\ pc'[t] # "idle"
    BY <1>1, HandlerFits DEF Delivered, Proposing
  <1>7. \A i \in req'[t].before : i \in DOMAIN actions' /\ actions'[i].status = "executed"
    BY <1>1, <1>2 DEF Delivered, Executed
  <1>8. LookedUp(t)' = {}
    BY <1>1, <1>6 DEF Delivered, LookedUp, Proposing, Direct
  <1>9. Remembers(t)' /\ Noticing(t)'
    BY <1>6, <1>7, <1>8 DEF Remembers, Noticing, Proposing, Direct
  <1>10. QED BY <1>3, <1>5, <1>9, RepeatsByOne

LEMMA RememberKeyRepeats ==
    ASSUME RouterTypeOK, TasksInv, RepeatsInv, RouterTypeOK', NEW t \in Tasks, RememberKey(t)
    PROVE  RepeatsInv'
  <1>1. /\ pc[t] = "remember_key" /\ Others(t) /\ UNCHANGED <<sent, actions, carded, fresh>>
        /\ \/ pc'[t] = Handler(Message(t)) /\ req'[t] = req[t]
           \/ pc'[t] = "idle" /\ req'[t] = NoRequest
    BY RememberKeyFields
  <1>2. RowsKept
    BY <1>1, SameRows
  <1>3. Remembers(t)' /\ Noticing(t)'
    <2>1. CASE pc'[t] = "idle" /\ req'[t] = NoRequest
      <3>1. req'[t].before = {} /\ pc'[t] \notin Proposing \cup {"mode", "send"}
        BY <2>1 DEF NoRequest, Proposing
      <3>2. QED BY <1>2, <3>1, NothingToNotice
    <2>2. CASE pc'[t] = Handler(Message(t)) /\ req'[t] = req[t]
      <3>1. Message(t) \in Event /\ req[t].card = FALSE
        BY <1>1, MessageType, Keeps
      <3>2. pc'[t] \notin Proposing \cup {"mode"}
        BY <2>2, <3>1, HandlerFits
      <3>3. QED BY <1>1, <1>2, <2>2, <3>1, <3>2, NothingToNotice
    <2>3. QED BY <1>1, <2>1, <2>2
  <1>4. QED BY <1>1, <1>3, QuietRepeats

LEMMA PreferencesRepeats ==
    ASSUME RouterTypeOK, TasksInv, RepeatsInv, RouterTypeOK', NEW t \in Tasks,
           SetAuto(t) \/ SetModel(t) \/ SetPersona(t) \/ ClearProfile(t)
    PROVE  RepeatsInv'
  <1>1. UNCHANGED <<sent, actions, carded, fresh>>
    BY DEF SetAuto, SetModel, SetPersona, ClearProfile, feishu, rows
  <1>2. RowsKept
    BY <1>1, SameRows
  <1>3. CASE SetPersona(t) \/ ClearProfile(t)
    <2>1. /\ pc[t] \in {"set_persona", "clear_profile"} /\ pc'[t] \in {"clear_profile", "send"}
          /\ req'[t].before \in {{}, req[t].before} /\ req'[t].card = FALSE /\ Others(t)
      BY <1>3, PersonaFields2
    <2>2. Remembers(t)' /\ Noticing(t)'
      BY <1>2, <2>1, NothingToNotice DEF Proposing
    <2>3. QED BY <1>1, <2>1, <2>2, QuietRepeats
  <1>4. CASE SetAuto(t) \/ SetModel(t)
    <2>1. /\ pc[t] \in {"set_auto", "set_model"} /\ pc'[t] = "send"
          /\ \A s \in Tasks \ {t} : pc'[s] = pc[s]
      BY <1>4 DEF SetAuto, SetModel, RouterTypeOK
    <2>2. ASSUME NEW s \in Tasks
          PROVE  /\ req'[s].event = req[s].event /\ req'[s].before = req[s].before
                 /\ req'[s].proposals = req[s].proposals /\ req'[s].at = req[s].at
                 /\ req'[s].duplicates = req[s].duplicates /\ req'[s].card = req[s].card
                 /\ pc[s] = "idle" => req'[s] = req[s]
      <3>1. req[s] \in Request
        BY RequestTypes
      <3>2. CASE SetAuto(t)
        BY <3>1, <3>2 DEF SetAuto, Request, Noticed, BeforeMode
      <3>3. CASE SetModel(t)
        BY <3>1, <3>3 DEF SetModel, Request, Noticed, BeforeModel
      <3>4. QED BY <1>4, <3>2, <3>3
    <2>3. \A s \in Tasks \ {t} : Unmoved(s) /\ OwnKept(s)
      BY <1>1, <2>1, <2>2, SameOwn DEF Unmoved
    <2>4. req[t].card = FALSE
      BY <2>1, Keeps
    <2>5. Remembers(t)' /\ Noticing(t)'
      BY <1>2, <2>1, <2>2, <2>4, NothingToNotice DEF Proposing
    <2>6. QED BY <1>2, <2>3, <2>5, RepeatsByOne
  <1>5. QED BY <1>3, <1>4

LEMMA EndsRepeats ==
    ASSUME RouterTypeOK, TasksInv, RepeatsInv, RouterTypeOK', NEW t \in Tasks,
           SendAnswer(t) \/ Abort(t)
    PROVE  RepeatsInv'
  <1>1. UNCHANGED <<sent, actions, fresh>>
    BY DEF SendAnswer, Abort, feishu, rows
  <1>2. Others(t) /\ carded \subseteq carded' /\ (SendsAgain(t) \/ (pc'[t] = "idle" /\ req'[t] = NoRequest))
    <2>1. CASE SendAnswer(t)
      BY <2>1, SendFields DEF Sends, Ends
    <2>2. CASE Abort(t)
      BY <2>2, AbortFields DEF Ends, Abort, rows
    <2>3. QED BY <2>1, <2>2
  <1>3. RowsKept
    BY <1>1, <1>2, RowTypes DEF RowsKept, SameRow
  <1>4. Remembers(t)' /\ Noticing(t)'
    <2>1. CASE pc'[t] = "idle" /\ req'[t] = NoRequest
      <3>1. req'[t].before = {} /\ pc'[t] \notin Proposing \cup {"mode", "send"}
        BY <2>1 DEF NoRequest, Proposing
      <3>2. QED BY <1>3, <3>1, NothingToNotice
    <2>2. CASE SendsAgain(t)
      <3>1. /\ LookedUp(t)' = LookedUp(t) /\ Sender(t)' = Sender(t) /\ pc'[t] = "send"
            /\ req'[t].before = req[t].before /\ req'[t].duplicates = req[t].duplicates
            /\ req'[t].proposals = req[t].proposals /\ pc[t] = "send"
        BY <1>1, <2>2 DEF SendsAgain, Alike, LookedUp, Sender, Message, Direct
      <3>2. ASSUME NEW i, NEW k, Repeats(t, i, k)' PROVE Repeats(t, i, k)
        BY <1>1, <3>1, <3>2 DEF Repeats
      <3>3. Noticing(t)'
        BY <3>1, <3>2 DEF RepeatsInv, Noticing, Direct
      <3>4. Remembers(t)'
        BY <1>1, <3>1 DEF RepeatsInv, Remembers
      <3>5. QED BY <3>3, <3>4
    <2>3. QED BY <1>2, <2>1, <2>2
  <1>5. QED BY <1>1, <1>2, <1>3, <1>4, OthersUnmoved, SameOwns, RepeatsByOne

(* A step at a question writes rows of its own event only.                 *)
LEMMA InsertKeepsOwn ==
    ASSUME RouterTypeOK, TasksInv, KeysInv, NEW t \in Tasks, Others(t),
           pc[t] \in QuestionLabels, NEW how, NEW n, Inserted(t, how, n)
    PROVE  \A s \in Tasks \ {t} : OwnKept(s)
  <1>1. SUFFICES ASSUME NEW s \in Tasks \ {t}, pc[s] \in {"confirm", "execute"},
                        NEW i \in DOMAIN actions, IsOwn(s, i)
                 PROVE  IsOwn(s, i)' /\ actions'[i].status = actions[i].status
    BY DEF OwnKept
  <1>2. req[s].event # req[t].event
    BY <1>1, Apart DEF QuestionLabels
  <1>3. /\ req'[s] = req[s] /\ actions'[i] = actions[i]
        /\ \A j \in DOMAIN actions' : j \in DOMAIN actions \/ j = n
    BY DEF Others, Inserted
  <1>4. actions'[n].event # req[s].event /\ \A j \in DOMAIN actions : actions'[j] = actions[j]
    BY <1>2 DEF Inserted
  <1>5. QED BY <1>1, <1>3, <1>4 DEF IsOwn

LEMMA StatusKeepsOwn ==
    ASSUME NEW s \in Tasks, req'[s].event = req[s].event, NEW k \in DOMAIN actions, NEW status,
           Stated(k, status), pc[s] \in {"confirm", "execute"} => ~IsOwn(s, k)
    PROVE  OwnKept(s)
  <1>1. SUFFICES ASSUME pc[s] \in {"confirm", "execute"}, NEW i \in DOMAIN actions, IsOwn(s, i)
                 PROVE  IsOwn(s, i)' /\ actions'[i].status = actions[i].status
    BY DEF OwnKept
  <1>2. i # k
    BY <1>1
  <1>3. IsOwn(s, i)'
    BY <1>1 DEF IsOwn, Stated, SameRow
  <1>4. QED BY <1>2, <1>3 DEF Stated

LEMMA SaveRepeats ==
    ASSUME RouterTypeOK, TasksInv, KeysInv, RepeatsInv, RouterTypeOK', NEW t \in Tasks,
           Save(t) \/ SaveDirect(t)
    PROVE  RepeatsInv'
  <1>1. /\ \/ Saves(t) \/ (pc[t] = "save_direct" /\ pc'[t] = "confirm" /\ req'[t] = req[t])
        /\ Others(t) /\ UNCHANGED sent
    BY SaveFields, SaveDirectFields DEF Save, SaveDirect, feishu
  <1>2. PICK how \in {"card", "direct"} : Insert(t, how) /\ (pc[t] = "save_direct" => how = "direct")
    BY DEF Save, SaveDirect
  <1>3. PICK n \in Nat : Inserted(t, how, n) /\ RowsKept /\ n \notin DOMAIN actions
        /\ \A j \in DOMAIN actions : j < n
    <2>1. \A j \in DOMAIN actions : j < Len(actions) + 1
      BY RowTypes
    <2>2. Len(actions) + 1 \notin DOMAIN actions
      BY <2>1, RowTypes
    <2>3. QED BY <1>2, <2>1, <2>2, InsertRows, RowTypes
  <1>4. pc[t] \in {"save", "save_direct"} /\ pc[t] \in QuestionLabels
    BY <1>1 DEF Saves, QuestionLabels
  <1>5. \A s \in Tasks \ {t} : Unmoved(s) /\ OwnKept(s)
    BY <1>1, <1>3, <1>4, OthersUnmoved, InsertKeepsOwn
  <1>6. /\ req'[t].event = req[t].event /\ req'[t].before = req[t].before
        /\ req'[t].proposals = req[t].proposals /\ req'[t].duplicates = req[t].duplicates
        /\ Remembers(t) /\ Noticing(t)
    BY <1>1 DEF Saves, RepeatsInv
  <1>7. \A i \in req'[t].before : /\ i \in DOMAIN actions /\ i \in DOMAIN actions'
                                  /\ actions'[i].status = "executed"
    BY <1>3, <1>4, <1>6 DEF Remembers, RowsKept
  <1>8. Remembers(t)'
    <2>1. CASE Saves(t)
      BY <1>7, <2>1 DEF Saves, Remembers
    <2>2. CASE pc[t] = "save_direct" /\ pc'[t] = "confirm" /\ req'[t] = req[t]
      <3>1. IsOwn(t, n)' /\ actions'[n].status = "pending" /\ n \in DOMAIN actions'
        <4>1. \A j \in DOMAIN actions' : ~(j > n)
          BY <1>3, RowTypes DEF Inserted
        <4>2. QED BY <1>2, <1>3, <2>2, <4>1 DEF Inserted, IsOwn
      <3>2. QED BY <1>7, <2>2, <3>1 DEF Remembers
    <2>3. QED BY <1>1, <2>1, <2>2
  <1>9. Noticing(t)'
    <2>1. LookedUp(t)' = LookedUp(t)
      BY <1>1, <1>6 DEF Saves, LookedUp, Direct
    <2>2. Sender(t)' = Sender(t)
      BY <1>1, <1>6 DEF Sender, Message
    <2>3. ASSUME NEW i \in req[t].before, NEW k, Repeats(t, i, k)' PROVE Repeats(t, i, k)
      BY <1>3, <1>6, <1>7, <2>2, <2>3 DEF Repeats, Inserted
    <2>4. pc'[t] \in Direct => pc[t] \in Direct
      BY <1>1 DEF Saves, Direct
    <2>5. QED BY <1>6, <2>1, <2>3, <2>4 DEF Noticing
  <1>10. QED BY <1>3, <1>5, <1>8, <1>9, RepeatsByOne

LEMMA ConfirmRepeats ==
    ASSUME RouterTypeOK, TasksInv, KeysInv, RepeatsInv, RouterTypeOK', NEW t \in Tasks,
           Confirm(t) \/ Execute(t)
    PROVE  RepeatsInv' /\ RowsKept /\ DOMAIN actions' = DOMAIN actions /\ UNCHANGED carded
  <1>1. /\ Confirms(t) \/ Refuses(t) \/ Executes(t)
        /\ Others(t) /\ UNCHANGED sent
        /\ pc[t] \in {"confirm", "execute"} /\ Remembers(t) /\ Noticing(t)
    BY ConfirmFields DEF Confirm, Execute, feishu, RepeatsInv
  <1>2. PICK own \in DOMAIN actions :
            /\ IsOwn(t, own) /\ own = Own(t)
            /\ actions[own].status = IF pc[t] = "confirm" THEN "pending" ELSE "confirmed"
    BY <1>1, OwnIs DEF Remembers
  <1>3. /\ UNCHANGED <<actions, carded, fresh>> \/ \E status : Stated(own, status)
        /\ RowsKept
        /\ Confirms(t) => Stated(own, "confirmed")
    <2>1. actions[own].status # "executed"
      BY <1>2
    <2>2. CASE Refuses(t) /\ ~Confirms(t)
      BY <2>2, SameRows DEF Refuses, rows
    <2>3. CASE Confirms(t) \/ Executes(t)
      <3>1. PICK status : SetStatus(own, status) /\ (Confirms(t) => status = "confirmed")
        <4>1. Confirms(t) => pc[t] = "confirm" /\ SetStatus(own, "confirmed")
          BY <1>2 DEF Confirms
        <4>2. Executes(t) => pc[t] = "execute" /\ \E status : SetStatus(own, status)
          BY <1>2 DEF Executes
        <4>3. QED BY <2>3, <4>1, <4>2
      <3>2. QED BY <2>1, <3>1, SetStatusRows
    <2>4. QED BY <1>1, <2>2, <2>3
  <1>4. \A s \in Tasks \ {t} : Unmoved(s) /\ OwnKept(s)
    <2>1. ASSUME NEW s \in Tasks \ {t}, pc[s] \in {"confirm", "execute"} PROVE ~IsOwn(s, own)
      <3>1. req[s].event # req[t].event
        BY <1>1, <2>1, Apart DEF QuestionLabels
      <3>2. QED BY <1>2, <3>1 DEF IsOwn
    <2>2. ASSUME NEW s \in Tasks \ {t} PROVE OwnKept(s)
      <3>1. req'[s].event = req[s].event
        BY <1>1 DEF Others
      <3>2. QED BY <1>3, <2>1, <3>1, SameOwn, StatusKeepsOwn
    <2>3. QED BY <1>1, <2>2, OthersUnmoved
  <1>5. Remembers(t)' /\ Noticing(t)'
    <2>1. ASSUME Told(t) PROVE Remembers(t)' /\ Noticing(t)'
      <3>1. /\ req'[t].before = {} \/ (pc[t] # "idle" /\ req'[t].before = req[t].before)
            /\ pc'[t] = "send" /\ req'[t].card = FALSE
        BY <1>1, <2>1 DEF Told
      <3>2. pc'[t] \notin Proposing \cup {"mode"}
        BY <3>1 DEF Proposing
      <3>3. QED BY <1>3, <3>1, <3>2, NothingToNotice
    <2>2. ASSUME \/ GoesOn(t)
                 \/ pc'[t] = "execute" /\ req'[t] = req[t] /\ Confirms(t)
          PROVE  Remembers(t)' /\ Noticing(t)'
      <3>1. /\ req'[t].event = req[t].event /\ req'[t].before = req[t].before
            /\ req'[t].proposals = req[t].proposals /\ req'[t].duplicates = req[t].duplicates
            /\ pc'[t] \in {"save_direct", "execute"}
        BY <2>2 DEF GoesOn, Alike
      <3>2. LookedUp(t)' = LookedUp(t) /\ Sender(t)' = Sender(t)
        BY <1>1, <3>1 DEF LookedUp, Direct, Sender, Message
      <3>3. \A i \in req'[t].before : i \in DOMAIN actions' /\ actions'[i].status = "executed"
        BY <1>1, <1>3, <3>1 DEF Remembers, RowsKept
      <3>4. ASSUME NEW i \in req[t].before, NEW k, Repeats(t, i, k)' PROVE Repeats(t, i, k)
        <4>1. SameRow(i) /\ fresh' >= fresh /\ i \in DOMAIN actions
          BY <1>1, <1>3, <3>4 DEF Remembers, RowsKept
        <4>2. i \in Nat /\ fresh \in Nat /\ fresh' \in Nat
          BY <4>1, RowTypes DEF RouterTypeOK
        <4>3. QED BY <3>1, <3>2, <3>4, <4>1, <4>2 DEF Repeats, SameRow
      <3>5. Noticing(t)'
        BY <1>1, <3>1, <3>2, <3>4 DEF Noticing, Direct
      <3>6. Remembers(t)'
        <4>1. CASE GoesOn(t)
          BY <3>3, <4>1 DEF GoesOn, Remembers
        <4>2. CASE pc'[t] = "execute" /\ req'[t] = req[t] /\ Confirms(t)
          <5>1. Stated(own, "confirmed")
            BY <1>3, <4>2
          <5>2. IsOwn(t, own)' /\ actions'[own].status = "confirmed" /\ own \in DOMAIN actions'
            BY <1>2, <4>2, <5>1 DEF Stated, SameRow, IsOwn
          <5>3. QED BY <3>3, <4>2, <5>2 DEF Remembers
        <4>3. QED BY <2>2, <4>1, <4>2
      <3>7. QED BY <3>5, <3>6
    <2>3. QED BY <1>1, <2>1, <2>2 DEF Confirms, Refuses, Executes
  <1>6. DOMAIN actions' = DOMAIN actions /\ UNCHANGED carded
    BY <1>3 DEF Stated
  <1>7. QED BY <1>3, <1>4, <1>5, <1>6, RepeatsByOne

(* The clicks on cards, and the time.                                      *)
LEMMA CardsRepeats ==
    ASSUME RouterTypeOK, TasksInv, CardedInv, RepeatsInv, RouterTypeOK',
           \/ \E i \in DOMAIN actions : Click(i) \/ FinishClick(i)
           \/ Age
           \/ UNCHANGED vars
    PROVE  RepeatsInv' /\ RowsKept /\ DOMAIN actions' = DOMAIN actions
  <1>1. UNCHANGED <<pc, req, sent>>
    BY DEF Click, FinishClick, Age, vars, feishu
  <1>2. RowsKept /\ (\A s \in Tasks : OwnKept(s)) /\ DOMAIN actions' = DOMAIN actions
    <2>1. CASE Age \/ UNCHANGED vars
      <3>1. UNCHANGED <<actions, carded>> /\ fresh' \in {fresh, fresh + 1}
        BY <2>1 DEF Age, vars
      <3>2. QED BY <1>1, <3>1, SameRows, SameOwn
    <2>2. ASSUME NEW i \in DOMAIN actions, Click(i) \/ FinishClick(i)
          PROVE  RowsKept /\ (\A s \in Tasks : OwnKept(s)) /\ DOMAIN actions' = DOMAIN actions
      <3>1. PICK status : SetStatus(i, status)
        BY <2>2 DEF Click, FinishClick
      <3>2. actions[i].status \in {"pending", "confirmed"}
        BY <2>2 DEF Click, FinishClick
      <3>3. Stated(i, status) /\ RowsKept
        BY <3>1, <3>2, SetStatusRows
      <3>4. actions[i].how = "card"
        BY <2>2 DEF Click, FinishClick, CardedInv
      <3>5. \A s \in Tasks : ~IsOwn(s, i)
        BY <3>4 DEF IsOwn
      <3>6. QED BY <1>1, <3>3, <3>5, StatusKeepsOwn DEF Stated
    <2>3. QED BY <2>1, <2>2
  <1>3. \A s \in Tasks : Unmoved(s)
    BY <1>1 DEF Unmoved
  <1>4. ASSUME NEW s \in Tasks PROVE Remembers(s)' /\ Noticing(s)'
    BY <1>2, <1>3, OtherRepeats DEF TasksInv, RepeatsInv
  <1>5. QED BY <1>2, <1>4 DEF RepeatsInv
-----------------------------------------------------------------------------
(* The invariant is inductive                                              *)

LEMMA CardedKept ==
    ASSUME RouterTypeOK, CardedInv, RowsKept, carded' \subseteq carded
    PROVE  CardedInv'
  BY RowTypes DEF CardedInv, RowsKept, SameRow

(* A step that only reads.                                                 *)
LEMMA ReadsInv ==
    ASSUME CoreInv, NEW t \in Tasks, Reads(t)
    PROVE  CoreInv'
  <1>1. /\ RouterTypeOK /\ TasksInv /\ KeysInv /\ OrphansInv /\ CardedInv
        /\ WishesInv /\ ChoicesInv /\ RepeatsInv
    BY DEF CoreInv
  <1>2. /\ UNCHANGED <<sent, keys, actions, carded, fresh, lost, done>>
        /\ Others(t) /\ RouterTypeOK'
    BY <1>1, ReadsFrame, ReadsFields, ReadsType
  <1>3. /\ pc[t] \notin {"idle", "remember_key", "save", "send"}
        /\ pc'[t] \notin {"idle", "remember_key"}
        /\ req'[t].event = req[t].event
    BY <1>1, ReadsFields
       DEF Reads, StatusConversation, StatusUser, UserModel, ConversationModel, Download,
           ReadName, ReadProfile, Ask, Mode, Lookup, Told, ReadsStatus, Chooses1, Chooses2,
           ReadsPersona, Proposes, ReadsMode, LooksUp, Alike
  <1>4. KeysInv'
    BY <1>1, <1>2, <1>3, ContinuesKeys DEF Continues
  <1>5. OrphansInv' /\ CardedInv'
    BY <1>1, <1>2, <1>3, SameRows, OrphansPassed, CardedKept
  <1>6. TasksInv'
    BY <1>1, ReadsKnows
  <1>7. RepeatsInv'
    BY <1>1, <1>2, ReadsRepeats
  <1>8. WishesInv' /\ ChoicesInv'
    BY <1>1, ReadsWishes
  <1>9. QED BY <1>2, <1>4, <1>5, <1>6, <1>7, <1>8 DEF CoreInv

(* An event is delivered, its key is looked at.                            *)
LEMMA ArrivalInv ==
    ASSUME CoreInv, NEW t \in Tasks, RememberKey(t) \/ (\E e \in Events : Deliver(t, e))
    PROVE  CoreInv'
  <1>1. /\ RouterTypeOK /\ TasksInv /\ KeysInv /\ OrphansInv /\ CardedInv
        /\ WishesInv /\ ChoicesInv /\ RepeatsInv
    BY DEF CoreInv
  <1>2. CASE RememberKey(t)
    <2>1. /\ pc[t] = "remember_key" /\ Others(t)
          /\ UNCHANGED <<actions, carded, fresh, done, lost>>
      BY <1>1, <1>2, RememberKeyFields
    <2>2. OrphansInv' /\ CardedInv'
      BY <1>1, <2>1, SameRows, OrphansPassed, CardedKept
    <2>3. RouterTypeOK'
      BY <1>1, <1>2, RememberKeyType
    <2>4. QED
      BY <1>1, <1>2, <2>2, <2>3, RememberKeyKnows, RememberKeyKeys, RememberKeyWishes,
         RememberKeyRepeats DEF CoreInv
  <1>3. CASE \E e \in Events : Deliver(t, e)
    <2>1. PICK e \in Events : Deliver(t, e)
      BY <1>3
    <2>2. /\ pc[t] = "idle" /\ Others(t)
          /\ UNCHANGED <<actions, carded, fresh, done, lost>>
      <3>1. pc[t] = "idle" /\ UNCHANGED <<actions, carded, fresh, done, lost>>
        BY <2>1 DEF Deliver, rows, ends
      <3>2. Others(t)
        BY <1>1, <2>1, DeliverFacts DEF Delivered, Others
      <3>3. QED BY <3>1, <3>2
    <2>3. OrphansInv' /\ CardedInv'
      BY <1>1, <2>2, SameRows, OrphansPassed, CardedKept
    <2>4. RouterTypeOK'
      BY <1>1, <2>1, DeliverType
    <2>5. WishesInv' /\ ChoicesInv'
      BY <1>1, <2>1, DeliverWishes
    <2>6. QED
      BY <1>1, <2>1, <2>3, <2>4, <2>5, DeliverKnows, DeliverKeys, DeliverRepeats DEF CoreInv
  <1>4. QED BY <1>2, <1>3

(* A preference is stored.                                                 *)
LEMMA PreferencesInv ==
    ASSUME CoreInv, NEW t \in Tasks,
           SetAuto(t) \/ SetModel(t) \/ SetPersona(t) \/ ClearProfile(t)
    PROVE  CoreInv'
  <1>1. /\ RouterTypeOK /\ TasksInv /\ KeysInv /\ OrphansInv /\ CardedInv
        /\ WishesInv /\ ChoicesInv /\ RepeatsInv
    BY DEF CoreInv
  <1>2. RouterTypeOK' /\ TasksInv'
    BY <1>1, SetAutoType, SetModelType, SetPersonaType, NotingKnows, PersonaKnows
  <1>3. RepeatsInv'
    BY <1>1, <1>2, PreferencesRepeats
  <1>4. WishesInv' /\ ChoicesInv'
    BY <1>1, SetAutoWishes, SetModelWishes, WritesWishes
  <1>5. UNCHANGED <<sent, keys, actions, carded, fresh, done, lost>>
    BY DEF SetAuto, SetModel, SetPersona, ClearProfile, feishu, rows, ends
  <1>6. \A s \in Tasks, e \in Events :
            /\ Serving(s, e)' <=> Serving(s, e)
            /\ Witness(s, e) => Witness(s, e)'
    <2>1. CASE SetPersona(t) \/ ClearProfile(t)
      BY <1>1, <2>1, PersonaFields2 DEF Serving, Witness, Others
    <2>2. CASE SetAuto(t) \/ SetModel(t)
      <3>1. /\ pc[t] \in {"set_auto", "set_model"} /\ pc'[t] = "send"
            /\ \A s \in Tasks \ {t} : pc'[s] = pc[s]
        BY <1>1, <2>2 DEF SetAuto, SetModel, RouterTypeOK
      <3>2. ASSUME NEW s \in Tasks
            PROVE  req'[s].event = req[s].event /\ req'[s].card = req[s].card
        <4>1. req[s] \in Request
          BY <1>1, RequestTypes
        <4>2. PICK w, x : req'[s] \in {req[s], [req[s] EXCEPT !.wished = w],
                                       [req[s] EXCEPT !.resolved = x]}
          BY <2>2 DEF SetAuto, SetModel
        <4>3. QED BY <4>1, <4>2 DEF Request
      <3>3. QED BY <3>1, <3>2 DEF Serving, Witness
    <2>3. QED BY <2>1, <2>2
  <1>7. KeysInv'
    BY <1>1, <1>5, <1>6, KeysKept
  <1>8. OrphansInv' /\ CardedInv'
    BY <1>1, <1>5, <1>6, SameRows, OrphansKept, CardedKept
  <1>9. QED BY <1>2, <1>3, <1>4, <1>7, <1>8 DEF CoreInv

(* A proposal is saved, confirmed or carried out.                          *)
LEMMA WritesInv ==
    ASSUME CoreInv, NEW t \in Tasks, Save(t) \/ SaveDirect(t) \/ Confirm(t) \/ Execute(t)
    PROVE  CoreInv'
  <1>1. /\ RouterTypeOK /\ TasksInv /\ KeysInv /\ OrphansInv /\ CardedInv
        /\ WishesInv /\ ChoicesInv /\ RepeatsInv
    BY DEF CoreInv
  <1>2. RouterTypeOK'
    BY <1>1, WritesType
  <1>3. WishesInv' /\ ChoicesInv'
    BY <1>1, WritesWishes
  <1>4. UNCHANGED <<sent, keys, done, lost>>
    BY DEF Save, SaveDirect, Confirm, Execute, feishu, ends
  <1>5. TasksInv' /\ Others(t)
    BY <1>1, SaveFields, SaveDirectFields, ConfirmFields
  <1>6. /\ pc[t] \in {"save", "save_direct", "confirm", "execute"}
        /\ pc'[t] \notin {"idle", "remember_key"}
        /\ req'[t].event = req[t].event
    BY <1>1, SaveFields, SaveDirectFields, ConfirmFields
       DEF Saves, Confirms, Refuses, Executes, GoesOn, Told, Alike
  <1>7. KeysInv'
    BY <1>1, <1>4, <1>5, <1>6, ContinuesKeys DEF Continues
  <1>8. OrphansInv' /\ CardedInv' /\ RepeatsInv'
    <2>1. CASE Save(t) \/ SaveDirect(t)
      <3>1. RowsKept /\ UNCHANGED carded
        BY <1>1, <2>1, InsertRows DEF Save, SaveDirect, Inserted
      <3>2. CardedInv'
        BY <1>1, <3>1, CardedKept
      <3>3. RepeatsInv'
        BY <1>1, <1>2, <2>1, SaveRepeats
      <3>4. OrphansInv'
        BY <1>1, <2>1, SaveOrphans, SaveDirectOrphans
      <3>5. QED BY <3>2, <3>3, <3>4
    <2>2. CASE Confirm(t) \/ Execute(t)
      <3>1. RepeatsInv' /\ RowsKept /\ DOMAIN actions' = DOMAIN actions /\ UNCHANGED carded
        BY <1>1, <1>2, <2>2, ConfirmRepeats
      <3>2. pc[t] \in {"confirm", "execute"}
        BY <2>2 DEF Confirm, Execute
      <3>3. OrphansInv'
        BY <1>1, <1>4, <1>5, <3>1, <3>2, OrphansPassed
      <3>4. QED BY <1>1, <3>1, <3>3, CardedKept
    <2>3. QED BY <2>1, <2>2
  <1>9. QED BY <1>2, <1>3, <1>5, <1>7, <1>8 DEF CoreInv

(* The answer is sent, or the request raises or dies with the process.     *)
LEMMA EndsInv ==
    ASSUME CoreInv, NEW t \in Tasks, SendAnswer(t) \/ Abort(t)
    PROVE  CoreInv'
  <1>1. /\ RouterTypeOK /\ TasksInv /\ KeysInv /\ OrphansInv /\ CardedInv
        /\ WishesInv /\ ChoicesInv /\ RepeatsInv
    BY DEF CoreInv
  <1>2. RouterTypeOK'
    BY <1>1, SendAnswerType, AbortType
  <1>3. TasksInv' /\ Others(t)
    BY <1>1, SendFields, AbortFields
  <1>4. WishesInv' /\ ChoicesInv'
    BY <1>1, WritesWishes
  <1>5. RepeatsInv'
    BY <1>1, <1>2, EndsRepeats
  <1>6. OrphansInv'
    BY <1>1, AbortOrphans, SendOrphans
  <1>7. UNCHANGED <<sent, keys, actions>>
    BY DEF SendAnswer, Abort, feishu, rows
  <1>8. carded' \subseteq carded \cup CardOf(t)
    BY <1>1, SendFields DEF Abort, Sends, rows
  <1>9. CardedInv'
    BY <1>1, <1>7, <1>8 DEF CardedInv, CardOf
  <1>10. KeysInv'
    <2>1. /\ pc[t] # "idle"
          /\ \/ Ends(t, "done") \/ Ends(t, "lost")
             \/ SendsAgain(t) /\ UNCHANGED <<done, lost>>
      BY <1>1, SendFields, AbortFields DEF Sends, ends
    <2>2. CASE SendsAgain(t) /\ UNCHANGED <<done, lost>>
      <3>1. Continues(t)
        BY <1>3, <2>2 DEF Continues, SendsAgain, Alike
      <3>2. QED BY <1>1, <1>7, <2>2, <3>1, ContinuesKeys
    <2>3. CASE Ends(t, "done") \/ Ends(t, "lost")
      BY <1>1, <1>3, <1>7, <2>1, <2>3, EndsKeys
    <2>4. QED BY <2>1, <2>2, <2>3
  <1>11. QED BY <1>2, <1>3, <1>4, <1>5, <1>6, <1>9, <1>10 DEF CoreInv

(* A card is clicked on, or time passes.                                   *)
LEMMA CardsInv ==
    ASSUME CoreInv,
           \/ \E i \in DOMAIN actions : Click(i) \/ FinishClick(i)
           \/ Age
           \/ UNCHANGED vars
    PROVE  CoreInv'
  <1>1. /\ RouterTypeOK /\ TasksInv /\ KeysInv /\ OrphansInv /\ CardedInv
        /\ WishesInv /\ ChoicesInv /\ RepeatsInv
    BY DEF CoreInv
  <1>2. RouterTypeOK'
    BY <1>1, CardsType
  <1>3. RepeatsInv' /\ RowsKept /\ DOMAIN actions' = DOMAIN actions
    BY <1>1, <1>2, CardsRepeats
  <1>4. UNCHANGED <<settings, sent, keys, auto, model, carded, pc, req, done, lost>>
    BY DEF Click, FinishClick, Age, SetStatus, vars, feishu, prefs, ends
  <1>5. TasksInv' /\ WishesInv' /\ ChoicesInv'
    BY <1>1, <1>4, IdleKnows, IdleWishes
  <1>6. \A s \in Tasks, e \in Events :
            /\ Serving(s, e)' <=> Serving(s, e)
            /\ Witness(s, e) => Witness(s, e)'
    BY <1>4 DEF Serving, Witness
  <1>7. KeysInv' /\ OrphansInv' /\ CardedInv'
    BY <1>1, <1>3, <1>4, <1>6, KeysKept, OrphansKept, CardedKept
  <1>8. QED BY <1>2, <1>3, <1>5, <1>7 DEF CoreInv

LEMMA InitInv ==
    ASSUME Init
    PROVE  CoreInv
  <1>1. RouterTypeOK
    <2>1. NoRequest \in Request
      BY DEF NoRequest, Request, Models
    <2>2. model \in [Scopes -> Providers \cup {None}]
      BY DEF Init
    <2>3. QED BY <2>1, <2>2 DEF Init, RouterTypeOK, Labels
  <1>2. TasksInv
    <2>1. NoRequest.card = FALSE
      BY DEF NoRequest
    <2>2. QED BY <2>1 DEF Init, TasksInv, TaskKnows, QuestionLabels, Proposing
  <1>3. KeysInv /\ OrphansInv /\ CardedInv
    BY DEF Init, KeysInv, Untouched, Accounted, OrphansInv, CardedInv
  <1>4. WishesInv /\ ChoicesInv
    BY DEF Init, WishesInv, Wishes, ChoicesInv, Chooses, BeforeMode, BeforeModel, Proposing, Direct,
           Chosen
  <1>5. RepeatsInv
    <2>1. NoRequest.before = {}
      BY DEF NoRequest
    <2>2. QED BY <2>1 DEF Init, RepeatsInv, Remembers, Noticing, LookedUp, Direct
  <1>6. QED BY <1>1, <1>2, <1>3, <1>4, <1>5 DEF CoreInv

LEMMA StepInv ==
    ASSUME CoreInv, [Next]_vars
    PROVE  CoreInv'
  <1>1. ASSUME NEW t \in Tasks, Work(t) PROVE CoreInv'
    <2>1. \/ RememberKey(t) \/ Reads(t) \/ SendAnswer(t)
          \/ SetAuto(t) \/ SetModel(t) \/ SetPersona(t) \/ ClearProfile(t)
          \/ Save(t) \/ SaveDirect(t) \/ Confirm(t) \/ Execute(t)
      BY <1>1 DEF Work, Preferences, Question, Proposals, Reads
    <2>2. QED BY <2>1, ArrivalInv, PreferencesInv, ReadsInv, WritesInv, EndsInv
  <1>2. ASSUME NEW t \in Tasks, NEW e \in Events, Deliver(t, e) PROVE CoreInv'
    BY <1>2, ArrivalInv
  <1>3. ASSUME NEW t \in Tasks, Abort(t) PROVE CoreInv'
    BY <1>3, EndsInv
  <1>4. QED BY <1>1, <1>2, <1>3, CardsInv DEF Next

-----------------------------------------------------------------------------
(* Direct writes                                                           *)

LEMMA InitUndecided ==
    ASSUME Init
    PROVE  UndecidedInv
  BY DEF Init, UndecidedInv

(* What one undecided row says, with the event named.                      *)
LEMMA UndecidedRow ==
    ASSUME RouterTypeOK, UndecidedInv, NEW i \in DOMAIN actions, Undecided(i)
    PROVE  \E e \in Events :
              /\ e = actions[i].event
              /\ IsLast(i)
              /\ e \in lost \/ \E t \in Tasks : Deciding(t) /\ req[t].event = e
  BY RowTypes DEF UndecidedInv, Action

(* No direct row changes, no row is added, and whoever is about to decide  *)
(* stays so or ends as lost.                                               *)
LEMMA UndecidedKept ==
    ASSUME RouterTypeOK, UndecidedInv, DOMAIN actions' = DOMAIN actions, lost \subseteq lost',
           \A i \in DOMAIN actions : SameRow(i) /\ (Undecided(i)' => Undecided(i)),
           \A t \in Tasks : Deciding(t) =>
               (Deciding(t)' /\ req'[t].event = req[t].event) \/ req[t].event \in lost'
    PROVE  UndecidedInv'
  <1>1. ASSUME NEW i \in DOMAIN actions, Undecided(i)'
        PROVE  /\ IsLast(i)'
               /\ \/ actions'[i].event \in lost'
                  \/ \E t \in Tasks : Deciding(t)' /\ req'[t].event = actions'[i].event
    <2>1. Undecided(i) /\ actions'[i].event = actions[i].event
      BY <1>1 DEF SameRow
    <2>2. PICK e \in Events : /\ e = actions[i].event
                              /\ IsLast(i)
                              /\ e \in lost \/ \E t \in Tasks : Deciding(t) /\ req[t].event = e
      BY <2>1, UndecidedRow
    <2>3. IsLast(i)'
      BY <2>2 DEF IsLast, SameRow
    <2>4. QED BY <2>1, <2>2, <2>3
  <1>2. QED BY <1>1 DEF UndecidedInv

(* A row that stays as it is.                                              *)
LEMMA SameUndecided ==
    ASSUME NEW i, actions'[i] = actions[i]
    PROVE  SameRow(i) /\ (Undecided(i)' <=> Undecided(i))
  BY DEF SameRow, Undecided

(* While a task is at a question, what is undecided of its event is in its *)
(* own hands.                                                              *)
LEMMA OwnUndecided ==
    ASSUME RouterTypeOK, TasksInv, KeysInv, UndecidedInv, NEW t \in Tasks,
           pc[t] \in QuestionLabels, NEW i \in DOMAIN actions, Undecided(i),
           actions[i].event = req[t].event
    PROVE  Deciding(t) /\ IsOwn(t, i)
  <1>1. PICK e \in Events : /\ e = actions[i].event
                            /\ IsLast(i)
                            /\ e \in lost \/ \E s \in Tasks : Deciding(s) /\ req[s].event = e
    BY UndecidedRow
  <1>2. Serving(t, e) /\ sent[e] # None /\ Keyed(sent[e])
    BY <1>1 DEF TasksInv, TaskKnows, Serving, QuestionLabels, Keyed, Message
  <1>3. e \notin lost
    BY <1>2 DEF KeysInv, Accounted
  <1>4. PICK s \in Tasks : Deciding(s) /\ req[s].event = e
    BY <1>1, <1>3
  <1>5. Serving(s, e)
    BY <1>4 DEF Serving, Deciding
  <1>6. s = t
    BY <1>2, <1>5 DEF KeysInv, Accounted
  <1>7. QED BY <1>1, <1>4, <1>6 DEF IsOwn, IsLast, Undecided

(* The rows and the tasks that are deciding are left alone.                *)
LEMMA UndecidedPassed ==
    ASSUME RouterTypeOK, UndecidedInv, NEW t \in Tasks, Others(t), UNCHANGED actions,
           lost \subseteq lost', Deciding(t) => req[t].event \in lost'
    PROVE  UndecidedInv'
  <1>1. \A s \in Tasks : Deciding(s) =>
            (Deciding(s)' /\ req'[s].event = req[s].event) \/ req[s].event \in lost'
    BY DEF Others, Deciding
  <1>2. QED BY <1>1, UndecidedKept, SameUndecided

LEMMA InsertUndecided ==
    ASSUME CoreInv, UndecidedInv, NEW t \in Tasks, Save(t) \/ SaveDirect(t)
    PROVE  UndecidedInv'
  <1>1. /\ RouterTypeOK /\ TasksInv /\ KeysInv
    BY DEF CoreInv
  <1>2. PICK how \in {"card", "direct"} :
            /\ Insert(t, how) /\ Others(t) /\ UNCHANGED lost
            /\ pc[t] \in {"save", "save_direct"}
            /\ how = "direct" => pc'[t] = "confirm" /\ req'[t] = req[t]
    BY <1>1, SaveFields, SaveDirectFields DEF Save, SaveDirect, ends
  <1>3. PICK n : n = Len(actions) + 1 /\ Inserted(t, how, n)
    BY <1>1, <1>2, InsertRows
  <1>4. ASSUME NEW i \in DOMAIN actions, Undecided(i)'
        PROVE  /\ IsLast(i)'
               /\ \/ actions'[i].event \in lost'
                  \/ \E s \in Tasks : Deciding(s)' /\ req'[s].event = actions'[i].event
    <2>1. Undecided(i) /\ actions'[i] = actions[i]
      BY <1>3, <1>4, SameUndecided DEF Inserted
    <2>2. PICK e \in Events : /\ e = actions[i].event
                              /\ IsLast(i)
                              /\ e \in lost \/ \E s \in Tasks : Deciding(s) /\ req[s].event = e
      BY <1>1, <2>1, UndecidedRow
    <2>3. e # req[t].event
      BY <1>1, <1>2, <2>1, <2>2, OwnUndecided DEF QuestionLabels, Deciding
    <2>4. IsLast(i)'
      BY <1>3, <2>1, <2>2, <2>3 DEF IsLast, Inserted
    <2>5. ASSUME NEW s \in Tasks, Deciding(s), req[s].event = e
          PROVE  Deciding(s)' /\ req'[s].event = e
      BY <1>2, <2>3, <2>5 DEF Others, Deciding
    <2>6. QED BY <1>2, <2>1, <2>2, <2>4, <2>5
  <1>5. ASSUME Undecided(n)'
        PROVE  IsLast(n)' /\ \E s \in Tasks : Deciding(s)' /\ req'[s].event = actions'[n].event
    <2>1. how = "direct" /\ actions'[n].event = req[t].event
      BY <1>3, <1>5 DEF Inserted, Undecided
    <2>2. \A j \in DOMAIN actions' : ~(j > n)
      BY <1>1, <1>3, RowTypes DEF Inserted
    <2>3. QED BY <1>2, <2>1, <2>2 DEF IsLast, Deciding
  <1>6. DOMAIN actions' = DOMAIN actions \cup {n}
    BY <1>3 DEF Inserted
  <1>7. QED BY <1>4, <1>5, <1>6 DEF UndecidedInv

LEMMA DecideUndecided ==
    ASSUME CoreInv, UndecidedInv, NEW t \in Tasks, Confirm(t) \/ Execute(t)
    PROVE  UndecidedInv'
  <1>1. /\ RouterTypeOK /\ TasksInv /\ KeysInv /\ RepeatsInv
    BY DEF CoreInv
  <1>2. /\ Confirms(t) \/ Refuses(t) \/ Executes(t)
        /\ Others(t) /\ UNCHANGED lost /\ Deciding(t) /\ Remembers(t)
    BY <1>1, ConfirmFields DEF Confirm, Execute, ends, RepeatsInv, Deciding
  <1>3. PICK own \in DOMAIN actions :
            /\ IsOwn(t, own) /\ own = Own(t)
            /\ actions[own].status = IF pc[t] = "confirm" THEN "pending" ELSE "confirmed"
    BY <1>1, <1>2, OwnIs DEF Remembers, Deciding
  <1>4. \A i \in DOMAIN actions :
            Undecided(i) /\ actions[i].event = req[t].event => i = own
    <2>1. ASSUME NEW i \in DOMAIN actions, Undecided(i), actions[i].event = req[t].event
          PROVE  i = own
      <3>1. IsOwn(t, i)
        BY <1>1, <1>2, <2>1, OwnUndecided DEF Deciding, QuestionLabels
      <3>2. QED BY <1>1, <1>3, <3>1, OwnIs
    <2>2. QED BY <2>1
  <1>5. CASE Confirms(t)
    <2>1. Stated(own, "confirmed") /\ ~actions[own].content.large
      <3>1. pc[t] = "confirm" /\ SetStatus(own, "confirmed")
        BY <1>3, <1>5 DEF Confirms
      <3>2. Stated(own, "confirmed")
        BY <1>1, <3>1, SetStatusRows
      <3>3. Confirm(t)
        BY <3>1 DEF Execute
      <3>4. actions[own].content.large => actions' = actions
        BY <1>3, <3>3 DEF Confirm, rows
      <3>5. actions'[own].status # actions[own].status
        BY <1>3, <3>1, <3>2 DEF Stated
      <3>6. QED BY <3>2, <3>4, <3>5
    <2>2. \A i \in DOMAIN actions : SameRow(i) /\ (Undecided(i)' => Undecided(i))
      <3>1. ASSUME NEW i \in DOMAIN actions PROVE SameRow(i) /\ (Undecided(i)' => Undecided(i))
        <4>1. SameRow(i) /\ (i # own => actions'[i].status = actions[i].status)
          BY <2>1 DEF Stated
        <4>2. CASE i # own
          BY <4>1, <4>2 DEF SameRow, Undecided
        <4>3. Undecided(own)
          BY <1>3, <2>1 DEF IsOwn, Undecided
        <4>4. QED BY <4>1, <4>2, <4>3
      <3>2. QED BY <3>1
    <2>3. \A s \in Tasks : Deciding(s) => Deciding(s)' /\ req'[s].event = req[s].event
      BY <1>2, <1>5 DEF Confirms, Others, Deciding
    <2>4. DOMAIN actions' = DOMAIN actions
      BY <2>1 DEF Stated
    <2>5. QED BY <1>1, <1>2, <2>2, <2>3, <2>4, UndecidedKept
  <1>6. CASE Refuses(t) \/ Executes(t)
    <2>1. /\ DOMAIN actions' = DOMAIN actions
          /\ \A i \in DOMAIN actions : SameRow(i)
          /\ \A i \in DOMAIN actions : i # own => actions'[i].status = actions[i].status
          /\ ~Undecided(own)'
      <3>1. CASE Refuses(t)
        <4>1. Confirm(t) /\ actions' = actions
          BY <3>1 DEF Refuses, rows, Execute
        <4>2. actions[own].content.large
          <5>1. ASSUME ~actions[own].content.large PROVE FALSE
            <6>1. SetStatus(own, "confirmed") /\ actions[own].status = "pending"
              BY <1>3, <4>1, <5>1 DEF Confirm
            <6>2. Stated(own, "confirmed")
              BY <1>1, <6>1, SetStatusRows
            <6>3. QED BY <4>1, <6>1, <6>2 DEF Stated
          <5>2. QED BY <5>1
        <4>3. actions[own].status = "pending"
          BY <1>3, <3>1 DEF Refuses
        <4>4. QED BY <4>1, <4>2, <4>3 DEF SameRow, Undecided
      <3>2. CASE Executes(t)
        <4>1. PICK status \in {"executed", "failed"} : SetStatus(own, status)
          BY <1>3, <3>2 DEF Executes
        <4>2. Stated(own, status)
          BY <1>1, <4>1, SetStatusRows
        <4>3. QED BY <4>2 DEF Stated, Undecided
      <3>3. QED BY <1>6, <3>1, <3>2
    <2>2. ASSUME NEW i \in DOMAIN actions, Undecided(i)'
          PROVE  /\ IsLast(i)'
                 /\ \/ actions'[i].event \in lost'
                    \/ \E s \in Tasks : Deciding(s)' /\ req'[s].event = actions'[i].event
      <3>1. i # own /\ actions'[i].event = actions[i].event
        BY <2>1, <2>2 DEF SameRow
      <3>2. Undecided(i)
        BY <2>1, <2>2, <3>1 DEF SameRow, Undecided
      <3>3. PICK e \in Events : /\ e = actions[i].event
                                /\ IsLast(i)
                                /\ e \in lost \/ \E s \in Tasks : Deciding(s) /\ req[s].event = e
        BY <1>1, <3>2, UndecidedRow
      <3>4. e # req[t].event
        BY <1>4, <3>1, <3>2, <3>3
      <3>5. IsLast(i)'
        BY <2>1, <3>3 DEF IsLast, SameRow
      <3>6. ASSUME NEW s \in Tasks, Deciding(s), req[s].event = e
            PROVE  Deciding(s)' /\ req'[s].event = e
        BY <1>2, <3>4, <3>6 DEF Others, Deciding
      <3>7. QED BY <1>2, <3>1, <3>3, <3>5, <3>6
    <2>3. QED BY <2>1, <2>2 DEF UndecidedInv
  <1>7. QED BY <1>2, <1>5, <1>6

(* Steps that write no row and no status.                                  *)
LEMMA QuietUndecided ==
    ASSUME CoreInv, UndecidedInv, NEW t \in Tasks,
           \/ RememberKey(t) \/ Reads(t) \/ SendAnswer(t) \/ Abort(t)
           \/ SetAuto(t) \/ SetModel(t) \/ SetPersona(t) \/ ClearProfile(t)
           \/ \E e \in Events : Deliver(t, e)
    PROVE  UndecidedInv'
  <1>1. /\ RouterTypeOK /\ TasksInv /\ KeysInv
    BY DEF CoreInv
  <1>2. CASE SetAuto(t) \/ SetModel(t)
    <2>1. /\ pc[t] \in {"set_auto", "set_model"} /\ UNCHANGED <<actions, lost>>
          /\ \A s \in Tasks \ {t} : pc'[s] = pc[s]
      BY <1>1, <1>2 DEF SetAuto, SetModel, RouterTypeOK, rows, ends
    <2>2. ASSUME NEW s \in Tasks PROVE req'[s].event = req[s].event
      <3>1. req[s] \in Request
        BY <1>1, RequestTypes
      <3>2. PICK w, x : req'[s] \in {req[s], [req[s] EXCEPT !.wished = w],
                                     [req[s] EXCEPT !.resolved = x]}
        BY <1>2 DEF SetAuto, SetModel
      <3>3. QED BY <3>1, <3>2 DEF Request
    <2>3. \A s \in Tasks : Deciding(s) => Deciding(s)' /\ req'[s].event = req[s].event
      BY <2>1, <2>2 DEF Deciding
    <2>4. QED BY <1>1, <2>1, <2>3, UndecidedKept, SameUndecided
  <1>3. CASE \/ RememberKey(t) \/ Reads(t) \/ SetPersona(t) \/ ClearProfile(t)
             \/ \E e \in Events : Deliver(t, e)
    <2>1. Others(t) /\ UNCHANGED <<actions, lost>> /\ ~Deciding(t)
      <3>1. CASE RememberKey(t)
        BY <1>1, <3>1, RememberKeyFields DEF Deciding
      <3>2. CASE Reads(t)
        <4>1. ~Deciding(t)
          BY <3>2
             DEF Reads, StatusConversation, StatusUser, UserModel, ConversationModel, Download,
                 ReadName, ReadProfile, Ask, Mode, Lookup, Deciding
        <4>2. QED BY <1>1, <3>2, <4>1, ReadsFrame, ReadsFields
      <3>3. CASE SetPersona(t) \/ ClearProfile(t)
        BY <1>1, <3>3, PersonaFields2 DEF SetPersona, ClearProfile, rows, ends, Deciding
      <3>4. CASE \E e \in Events : Deliver(t, e)
        <4>1. PICK e \in Events : Deliver(t, e)
          BY <3>4
        <4>2. Others(t)
          BY <1>1, <4>1, DeliverFacts DEF Delivered, Others
        <4>3. QED BY <4>1, <4>2 DEF Deliver, rows, ends, Deciding
      <3>5. QED BY <1>3, <3>1, <3>2, <3>3, <3>4
    <2>2. QED BY <1>1, <2>1, UndecidedPassed
  <1>4. CASE SendAnswer(t)
    <2>1. Others(t) /\ UNCHANGED actions /\ lost \subseteq lost' /\ ~Deciding(t)
      BY <1>1, <1>4, SendFields DEF SendAnswer, Sends, Ends, ends, Deciding
    <2>2. QED BY <1>1, <2>1, UndecidedPassed
  <1>5. CASE Abort(t)
    <2>1. Others(t) /\ UNCHANGED actions /\ Ends(t, "lost") /\ lost \subseteq lost'
      BY <1>1, <1>5, AbortFields DEF Abort, Ends, rows
    <2>2. ASSUME Deciding(t) PROVE req[t].event \in lost'
      <3>1. Keyed(Message(t))
        BY <1>1, <2>2 DEF TasksInv, TaskKnows, QuestionLabels, Keyed, Deciding
      <3>2. QED BY <2>1, <2>2, <3>1 DEF Ends, Message, Deciding
    <2>3. QED BY <1>1, <2>1, <2>2, UndecidedPassed
  <1>6. QED BY <1>2, <1>3, <1>4, <1>5

(* Clicks are on cards, and cards are of rows that were saved for one.      *)
LEMMA CardsUndecided ==
    ASSUME CoreInv, UndecidedInv,
           \/ \E i \in DOMAIN actions : Click(i) \/ FinishClick(i)
           \/ Age
           \/ UNCHANGED vars
    PROVE  UndecidedInv'
  <1>1. RouterTypeOK /\ CardedInv
    BY DEF CoreInv
  <1>2. UNCHANGED <<pc, req, lost>>
    BY DEF Click, FinishClick, Age, vars, ends
  <1>3. \A s \in Tasks : Deciding(s) => Deciding(s)' /\ req'[s].event = req[s].event
    BY <1>2 DEF Deciding
  <1>4. CASE Age \/ UNCHANGED vars
    <2>1. UNCHANGED actions
      BY <1>4 DEF Age, vars
    <2>2. QED BY <1>1, <1>2, <1>3, <2>1, UndecidedKept, SameUndecided
  <1>5. ASSUME NEW i \in DOMAIN actions, Click(i) \/ FinishClick(i) PROVE UndecidedInv'
    <2>1. PICK status : SetStatus(i, status)
      BY <1>5 DEF Click, FinishClick
    <2>2. actions[i].how = "card"
      BY <1>1, <1>5 DEF Click, FinishClick, CardedInv
    <2>3. Stated(i, status)
      BY <1>1, <2>1, SetStatusRows
    <2>4. ASSUME NEW j \in DOMAIN actions PROVE SameRow(j) /\ (Undecided(j)' => Undecided(j))
      <3>1. SameRow(j) /\ (j # i => actions'[j].status = actions[j].status)
        BY <2>3 DEF Stated
      <3>2. QED BY <2>2, <3>1 DEF SameRow, Undecided
    <2>5. DOMAIN actions' = DOMAIN actions
      BY <2>3 DEF Stated
    <2>6. QED BY <1>1, <1>2, <1>3, <2>4, <2>5, UndecidedKept
  <1>6. QED BY <1>4, <1>5

LEMMA StepUndecided ==
    ASSUME CoreInv, UndecidedInv, [Next]_vars
    PROVE  UndecidedInv'
  <1>1. ASSUME NEW t \in Tasks, Work(t) PROVE UndecidedInv'
    <2>1. \/ RememberKey(t) \/ Reads(t) \/ SendAnswer(t)
          \/ SetAuto(t) \/ SetModel(t) \/ SetPersona(t) \/ ClearProfile(t)
          \/ Save(t) \/ SaveDirect(t) \/ Confirm(t) \/ Execute(t)
      BY <1>1 DEF Work, Preferences, Question, Proposals, Reads
    <2>2. QED BY <2>1, QuietUndecided, InsertUndecided, DecideUndecided
  <1>2. ASSUME NEW t \in Tasks, NEW e \in Events, Deliver(t, e) PROVE UndecidedInv'
    BY <1>2, QuietUndecided
  <1>3. ASSUME NEW t \in Tasks, Abort(t) PROVE UndecidedInv'
    BY <1>3, QuietUndecided
  <1>4. QED BY <1>1, <1>2, <1>3, CardsUndecided DEF Next

(* The invariant the theorems below follow from: what a task knows of its  *)
(* event at each step, which task a key stands for, what a switch, a model *)
(* and an earlier write have left behind in the requests at work.          *)
THEOREM Inductive == Spec => []IInv
  <1>1. Init => IInv
    BY InitInv, InitUndecided DEF IInv
  <1>2. IInv /\ [Next]_vars => IInv'
    BY StepInv, StepUndecided DEF IInv
  <1>3. QED BY <1>1, <1>2, PTL DEF Spec
-----------------------------------------------------------------------------
(* What the runs check                                                     *)

(* The tables and the local variables of the tasks keep their types.       *)
THEOREM RouterTypes == Spec => []RouterTypeOK
  <1>1. IInv => RouterTypeOK
    BY DEF IInv, CoreInv
  <1>2. QED BY <1>1, Inductive, PTL

(* However often and in whatever order events are delivered, the key of one *)
(* stands for exactly one request, at work, answered or failed.            *)
THEOREM KeysAreAlwaysAccounted == Spec => []KeysAreAccounted
  <1>1. ASSUME IInv PROVE KeysAreAccounted
    <2>1. SUFFICES ASSUME NEW e \in Events, sent[e] # None, Keyed(sent[e])
                   PROVE  LET at == {t \in Tasks : Serving(t, e)} IN
                          /\ e \in keys <=> at # {} \/ e \in done \cup lost
                          /\ Cardinality(at) <= 1
                          /\ at # {} => e \notin done \cup lost
                          /\ e \notin done \cap lost
      BY DEF KeysAreAccounted
    <2> DEFINE at == {t \in Tasks : Serving(t, e)}
    <2>2. Accounted(e)
      BY <1>1 DEF IInv, CoreInv, KeysInv
    <2>3. \A s, t \in at : s = t
      BY <2>1, <2>2 DEF Accounted
    <2>4. Cardinality(at) <= 1
      <3> HIDE DEF at
      <3>1. CASE at = {}
        BY <3>1, FS_EmptySet
      <3>2. CASE at # {}
        <4>1. PICK t : at = {t}
          BY <2>3, <3>2
        <4>2. QED BY <4>1, FS_Singleton
      <3>3. QED BY <3>1, <3>2
    <2>5. QED BY <2>1, <2>2, <2>4 DEF Accounted
  <1>2. QED BY <1>1, Inductive, PTL

(* A write that nobody clicked on was wanted by its sender's switch at some *)
(* moment of the request, and adds to the head or the end of a document.   *)
THEOREM DirectIsAlwaysWanted == Spec => []DirectIsWanted
  <1>1. ASSUME IInv PROVE DirectIsWanted
    BY <1>1 DEF IInv, CoreInv, WishesInv, Wishes, DirectIsWanted, Direct, Proposing
  <1>2. QED BY <1>1, Inductive, PTL

(* What was executed before a message came is noticed when it is proposed  *)
(* again, however the lookups, saves and other requests interleave.        *)
THEOREM RepeatsAreAlwaysNoticed == Spec => []RepeatsAreNoticed
  <1>1. ASSUME IInv PROVE RepeatsAreNoticed
    <2>1. SUFFICES ASSUME NEW t \in Tasks,
                          pc[t] \in Direct \cup {"save"} \/ (pc[t] = "send" /\ req[t].card),
                          NEW i \in req[t].before, i >= fresh, actions[i].actor = Sender(t),
                          NEW k \in DOMAIN req[t].proposals,
                          req[t].proposals[k] = actions[i].content
                   PROVE  pc[t] \notin Direct /\ req[t].duplicates > 0
      BY DEF RepeatsAreNoticed
    <2>2. Noticing(t)
      BY <1>1 DEF IInv, CoreInv, RepeatsInv
    <2>3. k \in LookedUp(t) /\ Repeats(t, i, k)
      BY <2>1 DEF LookedUp, Repeats, Direct
    <2>4. req[t].duplicates > 0
      BY <2>2, <2>3 DEF Noticing
    <2>5. pc[t] \notin Direct
      BY <2>2, <2>4 DEF Noticing
    <2>6. QED BY <2>4, <2>5
  <1>2. QED BY <1>1, Inductive, PTL

(* A question is put to a model that was in force for its sender and its   *)
(* conversation; a user's own model and persona stay out of groups.        *)
THEOREM AlwaysAskedAsPreferred == Spec => []AskedAsPreferred
  <1>1. ASSUME IInv PROVE AskedAsPreferred
    BY <1>1 DEF IInv, CoreInv, ChoicesInv, Chooses, AskedAsPreferred, Chosen
  <1>2. QED BY <1>1, Inductive, PTL

(* A row that waits for a click no card offers belongs to a request that is *)
(* at work, raised or died; a request leaves no more than one direct write *)
(* undecided, the last it saved (_execute_low_risk_writebacks), but for    *)
(* those that were refused for their size.                                 *)
THEOREM NeverOrphans == Spec => []NoOrphans
  <1>1. ASSUME IInv PROVE NoOrphans
    <2>1. ASSUME NEW i \in DOMAIN actions, actions[i].status = "pending", i \notin carded,
                 actions[i].how = "card"
          PROVE  InHand(i) \/ actions[i].event \in lost
      BY <1>1, <2>1 DEF IInv, CoreInv, OrphansInv, OnItsWay, InHand
    <2>2. ASSUME NEW i \in DOMAIN actions, Undecided(i)
          PROVE  IsLast(i) /\ (InHand(i) \/ actions[i].event \in lost)
      <3>1. /\ IsLast(i)
            /\ \/ actions[i].event \in lost
               \/ \E t \in Tasks : Deciding(t) /\ req[t].event = actions[i].event
        BY <1>1, <2>2 DEF IInv, UndecidedInv
      <3>2. QED BY <3>1 DEF InHand, Serving, Deciding
    <2>3. QED BY <2>1, <2>2 DEF NoOrphans, IsLast
  <1>2. QED BY <1>1, Inductive, PTL
==============================================================================
