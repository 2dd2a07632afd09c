-------------------------- MODULE CardIngressProofs --------------------------
(***************************************************************************)
(* The guarantees of Writeback carry over to the process that receives     *)
(* the clicks, restarts included, and an HTTP event is served only once.   *)
(***************************************************************************)
EXTENDS CardIngressInv, WritebackProofs

LEMMA PressType ==
    ASSUME CardTypeOK, NEW e \in Events, pressed[e] # None
    PROVE  /\ pressed[e].actor \in Actors
           /\ pressed[e].action \in Actions
           /\ pressed[e].label \in {"read_confirm", "read_cancel"}
  BY DEF CardTypeOK, Presses

-----------------------------------------------------------------------------
(* A restart forgets what the requests were doing; the tables stand.       *)
LEMMA RestartStep ==
    ASSUME IInv, Restart
    PROVE  IInv'
  <1>1. TypeOK'
    BY DEF IInv, TypeOK, Restart, table, Labels, NoRequest, Request
  <1>2. SessionInv'
    BY DEF IInv, SessionInv, HoldsAction, HoldsOriginal, Progressed, Restart, Holding,
           Settling, Audited, Written, Recorded, Undoing
  <1>3. (TableInv /\ WriteIsDecided /\ ReportedMeansWritten)'
    BY DEF IInv, TableInv, RowInv, WriteIsDecided, ReportedMeansWritten, Restart, table
  <1>4. QED BY <1>1, <1>2, <1>3 DEF IInv

(* Every other step is a step of Writeback or leaves it as it is.          *)
LEMMA CardStepIsWritebackStep ==
    ASSUME CardTypeOK, KeysInv, [CardNext]_cardVars
    PROVE  Restart \/ [Next]_vars
  <1>1. ASSUME CardTick PROVE Next
    BY <1>1 DEF CardTick, Next, Serve
  <1>2. ASSUME NEW e \in Events, NEW actor \in Actors, NEW a \in Actions, NEW label,
               Press(e, actor, a, label)
        PROVE  UNCHANGED vars
    BY <1>2 DEF Press
  <1>3. ASSUME NEW s \in Sessions, Message(s) PROVE Next
    BY <1>3 DEF Message, Next, Serve, Arrive
  <1>4. ASSUME NEW s \in Sessions, NEW actor \in Actors, NEW a \in Actions \cup {None},
               NEW label \in {"read_confirm", "read_cancel"}, WorkerClick(s, actor, a, label)
        PROVE  Next
    BY <1>4 DEF WorkerClick, Next, Serve, Arrive
  <1>5. ASSUME NEW s \in Sessions, AckTimeout(s) PROVE UNCHANGED vars
    BY <1>5 DEF AckTimeout
  <1>6. ASSUME NEW s \in Sessions, NEW e \in Events, Deliver(s, e) PROVE UNCHANGED vars
    BY <1>6 DEF Deliver
  <1>7. ASSUME NEW s \in Sessions, Work(s) PROVE Next
    BY <1>7 DEF Work, Next, Serve
  <1>8. ASSUME NEW s \in Sessions, Raise(s) PROVE [Next]_vars
    BY <1>8 DEF Raise, Next
  <1>9. ASSUME NEW s \in Sessions, Remember(s) PROVE [Next]_vars
    <2>1. CASE callback[s] \in keys
      BY <1>9, <2>1 DEF Remember
    <2>2. CASE callback[s] \notin keys
      <3>1. Click(s, pressed[callback[s]].actor, pressed[callback[s]].action,
                  pressed[callback[s]].label)
        BY <1>9, <2>2 DEF Remember
      <3>2. callback[s] \in Events /\ pressed[callback[s]] # None
        BY <1>9 DEF Remember, KeysInv
      <3>3. Arrive(s)
        BY <3>1, <3>2, PressType DEF Arrive
      <3>4. QED BY <3>3 DEF Next, Serve
    <2>3. QED BY <2>1, <2>2
  <1>10. CASE UNCHANGED cardVars
    BY <1>10 DEF cardVars
  <1>11. QED
    BY <1>1, <1>2, <1>3, <1>4, <1>5, <1>6, <1>7, <1>8, <1>9, <1>10 DEF CardNext, Step

(* The end of a request keeps the types.                                   *)
LEMMA DoneType ==
    ASSUME TypeOK, CardTypeOK, NEW s \in Sessions, NEW answer, Done(s, answer)
    PROVE  /\ loop' \in Sessions \cup {None}
           /\ channel' \in [Sessions -> Channels]
           /\ callback' \in [Sessions -> Events \cup {None}]
           /\ told' \in [Actions -> SUBSET Outcomes]
  BY DEF TypeOK, Request, CardTypeOK, Done, Release, Channels

LEMMA CardTypeStep ==
    ASSUME TypeOK, CardTypeOK, KeysInv, [CardNext]_cardVars
    PROVE  CardTypeOK'
  <1> USE DEF CardTypeOK
  <1>1. CASE CardTick \/ UNCHANGED cardVars
    BY <1>1 DEF CardTick, cardVars, ingress
  <1>2. CASE Restart
    BY <1>2 DEF Restart, Channels
  <1>3. ASSUME NEW e \in Events, NEW actor \in Actors, NEW a \in Actions,
               NEW label \in {"read_confirm", "read_cancel"}, Press(e, actor, a, label)
        PROVE  CardTypeOK'
    BY <1>3 DEF Press, Presses
  <1>4. ASSUME NEW s \in Sessions, Message(s) PROVE CardTypeOK'
    BY <1>4 DEF Message, Channels
  <1>5. ASSUME NEW s \in Sessions, NEW actor, NEW a, NEW label,
               WorkerClick(s, actor, a, label)
        PROVE  CardTypeOK'
    BY <1>5 DEF WorkerClick, Channels
  <1>6. ASSUME NEW s \in Sessions, AckTimeout(s) PROVE CardTypeOK'
    BY <1>6 DEF AckTimeout, Channels, TypeOK, Request
  <1>7. ASSUME NEW s \in Sessions, NEW e \in Events, Deliver(s, e) PROVE CardTypeOK'
    BY <1>7 DEF Deliver, Channels
  <1>8. ASSUME NEW s \in Sessions, Remember(s) PROVE CardTypeOK'
    <2>1. CASE callback[s] \in keys
      BY <1>8, <2>1, DoneType DEF Remember
    <2>2. CASE callback[s] \notin keys
      <3>1. callback[s] \in Events /\ pressed[callback[s]] # None
        BY <1>8 DEF Remember, KeysInv
      <3>2. QED BY <1>8, <2>2, <3>1, PressType DEF Remember
    <2>3. QED BY <2>1, <2>2
  <1>9. ASSUME NEW s \in Sessions, Work(s) PROVE CardTypeOK'
    BY <1>9, DoneType DEF Work
  <1>10. ASSUME NEW s \in Sessions, Raise(s) PROVE CardTypeOK'
    BY <1>10, DoneType DEF Raise
  <1>11. QED
    BY <1>1, <1>2, <1>3, <1>4, <1>5, <1>6, <1>7, <1>8, <1>9, <1>10 DEF CardNext, Step

LEMMA KeysStep ==
    ASSUME CardTypeOK, KeysInv, [CardNext]_cardVars
    PROVE  KeysInv'
  <1> USE DEF KeysInv, CardTypeOK
  <1>1. CASE CardTick \/ UNCHANGED cardVars \/ Restart
    BY <1>1, EventsAssumption DEF CardTick, cardVars, ingress, Restart
  <1>2. ASSUME NEW e \in Events, NEW actor \in Actors, NEW a \in Actions,
               NEW label \in {"read_confirm", "read_cancel"}, Press(e, actor, a, label)
        PROVE  KeysInv'
    BY <1>2, EventsAssumption DEF Press, Presses
  <1>3. ASSUME NEW s \in Sessions, Message(s) PROVE KeysInv'
    BY <1>3 DEF Message
  <1>4. ASSUME NEW s \in Sessions, NEW actor, NEW a, NEW label,
               WorkerClick(s, actor, a, label)
        PROVE  KeysInv'
    BY <1>4 DEF WorkerClick
  <1>5. ASSUME NEW s \in Sessions, AckTimeout(s) PROVE KeysInv'
    BY <1>5 DEF AckTimeout
  <1>6. ASSUME NEW s \in Sessions, NEW e \in Events, Deliver(s, e) PROVE KeysInv'
    BY <1>6 DEF Deliver
  <1>7. ASSUME NEW s \in Sessions, Remember(s) PROVE KeysInv'
    BY <1>7 DEF Remember, Done
  <1>8. ASSUME NEW s \in Sessions, Work(s) \/ Raise(s) PROVE KeysInv'
    BY <1>8 DEF Work, Raise, Done
  <1>9. QED
    BY <1>1, <1>2, <1>3, <1>4, <1>5, <1>6, <1>7, <1>8 DEF CardNext, Step

-----------------------------------------------------------------------------
(* Without a timeout or an HTTP callback, at most one request is in the    *)
(* service for an action.                                                  *)
LEMMA Unique ==
    ASSUME CardTypeOK, ChannelInv, NEW s \in Sessions, NEW t \in Sessions,
           InService(s), InService(t), req[s].action = req[t].action,
           req[s].action \in Actions \ overlapped
    PROVE  s = t
  <1>1. ASSUME NEW r \in Sessions, InService(r), req[r].action = req[s].action
        PROVE  \/ loop = r /\ req[s].action \in cards
               \/ Proposes(r) /\ req[s].action \notin cards
    <2>1. channel[r] \notin {"none", "background", "callback"}
      BY <1>1, ConstantsAssumption DEF ChannelInv, InService
    <2>2. channel[r] = "click" => loop = r /\ req[s].action \in cards
      BY <1>1, ConstantsAssumption DEF ChannelInv
    <2>3. channel[r] = "message" => Proposes(r) /\ req[s].action \notin cards
      BY <1>1 DEF ChannelInv, Proposes, InService
    <2>4. QED BY <2>1, <2>2, <2>3, <1>1 DEF CardTypeOK, Channels
  <1>2. QED BY <1>1 DEF ChannelInv

(* A step of a request in the service: nobody else's request and no other  *)
(* action is touched.                                                      *)
LEMMA ServiceStep ==
    ASSUME IInv, NEW s \in Sessions, InService(s), Proceed(s)
    PROVE  /\ UNCHANGED <<cards, details>>
           /\ \A t \in Sessions \ {s} : pc'[t] = pc[t] /\ req'[t] = req[t]
           /\ \/ pc'[s] = "idle" /\ req'[s] = NoRequest
              \/ InService(s)' /\ req'[s] = req[s]
           /\ \A b \in Actions \ {req[s].action} :
                  status'[b] = status[b] /\ writes'[b] = writes[b]
           /\ \A b \in Actions : status[b] # "absent" => status'[b] # "absent"
  <1> USE DEF IInv, TypeOK, InService, Goto, Return, SetStatus, table
  <1>1. CASE ReadForConfirm(s)
    BY <1>1 DEF ReadForConfirm
  <1>2. CASE SetExpired(s) \/ SetConfirmed(s) \/ SetFailed(s) \/ SetExecuted(s) \/ SetCanceled(s)
    BY <1>2 DEF SetExpired, SetConfirmed, SetFailed, SetExecuted, SetCanceled
  <1>3. CASE AuditConfirmed(s) \/ AuditReverted(s)
    BY <1>3 DEF AuditConfirmed, AuditReverted, Record
  <1>4. CASE Execute(s)
    BY <1>4 DEF Execute
  <1>5. CASE SaveExecution(s) \/ MarkReverted(s)
    BY <1>5 DEF SaveExecution, MarkReverted
  <1>6. CASE ReadForCancel(s)
    BY <1>6 DEF ReadForCancel
  <1>7. CASE AuditAndAnswer(s)
    BY <1>7 DEF AuditAndAnswer, Record
  <1>8. ~AuditCreated(s) /\ ~SendCard(s) /\ \A a \in Actions : ~InsertUndo(s, a)
    BY DEF AuditCreated, SendCard, InsertUndo
  <1>9. QED
    BY <1>1, <1>2, <1>3, <1>4, <1>5, <1>6, <1>7, <1>8 DEF Proceed

(* What it does to its own action, if it is alone with it.                 *)
LEMMA OutcomeStep ==
    ASSUME IInv, CardTypeOK, NEW s \in Sessions, InService(s), Work(s),
           NEW a \in Actions, a = req[s].action, Knows(s), Settled(a)
    PROVE  /\ Settled(a)'
           /\ InService(s)' => Knows(s)'
  <1> USE DEF IInv, TypeOK, InService, Knows, Settled, Goto, Return, SetStatus, table,
              Recorded, Undoing
  <1>0. Proceed(s)
    BY DEF Work
  <1>1. CASE pc'[s] = "idle"
    <2>1. /\ pc[s] \in DOMAIN FinalEvent \cup {"read_confirm", "read_cancel"}
          /\ UNCHANGED <<status, writes>>
      BY <1>0, <1>1
      DEF Proceed, ReadForConfirm, ReadForCancel, AuditAndAnswer, SetExpired, SetConfirmed,
          SetFailed, SetExecuted, SetCanceled, AuditConfirmed, AuditReverted, Execute,
          SaveExecution, MarkReverted, AuditCreated, SendCard, InsertUndo
    <2>2. told'[a] \subseteq told[a] \cup {AnswerAt[pc[s]]}
      BY <1>1 DEF Work, Done, CardTypeOK
    <2>3. AnswerAt[pc[s]] = "canceled" => pc[s] = "audit_canceled"
      BY <2>1 DEF AnswerAt, FinalEvent
    <2>4. AnswerAt[pc[s]] = "executed" => pc[s] = "audit_executed"
      BY <2>1 DEF AnswerAt, FinalEvent
    <2>5. QED BY <2>1, <2>2, <2>3, <2>4, <1>1
  <1>2. CASE pc'[s] # "idle"
    <2>0. UNCHANGED told /\ req'[s] = req[s]
      BY <1>0, <1>2, ServiceStep DEF Work
    <2>1. CASE ReadForConfirm(s)
      BY <2>0, <2>1, <1>2 DEF ReadForConfirm, Actionable
    <2>2. CASE SetExpired(s) \/ SetConfirmed(s) \/ SetFailed(s) \/ SetExecuted(s) \/ SetCanceled(s)
      BY <2>0, <2>2 DEF SetExpired, SetConfirmed, SetFailed, SetExecuted, SetCanceled
    <2>3. CASE AuditConfirmed(s) \/ AuditReverted(s)
      BY <2>0, <2>3 DEF AuditConfirmed, AuditReverted
    <2>4. CASE Execute(s)
      BY <2>0, <2>4 DEF Execute
    <2>5. CASE SaveExecution(s) \/ MarkReverted(s)
      BY <2>0, <2>5 DEF SaveExecution, MarkReverted
    <2>6. CASE ReadForCancel(s)
      BY <2>0, <2>6, <1>2 DEF ReadForCancel, Actionable
    <2>7. CASE AuditAndAnswer(s)
      BY <2>7, <1>2 DEF AuditAndAnswer
    <2>8. ~AuditCreated(s) /\ ~SendCard(s) /\ \A b \in Actions : ~InsertUndo(s, b)
      BY DEF AuditCreated, SendCard, InsertUndo
    <2>9. QED
      BY <1>0, <2>1, <2>2, <2>3, <2>4, <2>5, <2>6, <2>7, <2>8 DEF Proceed
  <1>3. QED BY <1>1, <1>2

-----------------------------------------------------------------------------
(* Who works for an action, step by step.                                  *)
LEMMA ChannelOpens ==
    ASSUME IInv, CardTypeOK, KeysInv, ChannelInv, NEW s \in Sessions,
           \/ Message(s)
           \/ \E actor \in Actors, a \in Actions \cup {None},
                 label \in {"read_confirm", "read_cancel"} : WorkerClick(s, actor, a, label)
           \/ AckTimeout(s)
           \/ \E e \in Events : Deliver(s, e)
           \/ Remember(s)
    PROVE  ChannelInv'
  <1> USE EventsAssumption, ConstantsAssumption
      DEF IInv, TypeOK, CardTypeOK, ChannelInv, InService, Proposes, Begin, Goto, table
  <1>1. ASSUME Message(s) PROVE ChannelInv'
    <2>1. ASSUME NEW actor \in Actors, NEW a \in Actions, NEW type \in ProposalTypes,
                 NEW oversize \in BOOLEAN, Propose(s, actor, a, type, oversize)
          PROVE  ChannelInv'
      BY <1>1, <2>1 DEF Message, Propose, Insert
    <2>2. ASSUME NEW actor \in Actors, RequestUndo(s, actor) PROVE ChannelInv'
      BY <1>1, <2>2 DEF Message, RequestUndo
    <2>3. QED BY <1>1, <2>1, <2>2 DEF Message
  <1>2. ASSUME NEW actor \in Actors, NEW a \in Actions \cup {None},
               NEW label \in {"read_confirm", "read_cancel"}, WorkerClick(s, actor, a, label)
        PROVE  ChannelInv'
    BY <1>2 DEF WorkerClick, Click
  <1>3. ASSUME AckTimeout(s) PROVE ChannelInv'
    BY <1>3 DEF AckTimeout, vars, Request
  <1>4. ASSUME NEW e \in Events, Deliver(s, e) PROVE ChannelInv'
    BY <1>4 DEF Deliver, vars
  <1>5. ASSUME Remember(s) PROVE ChannelInv'
    <2>1. CASE callback[s] \in keys
      BY <1>5, <2>1 DEF Remember, Done, Release, vars
    <2>2. CASE callback[s] \notin keys
      <3>1. callback[s] \in Events /\ pressed[callback[s]] # None
        BY <1>5 DEF Remember, KeysInv
      <3>2. pressed[callback[s]].label \in {"read_confirm", "read_cancel"}
        BY <3>1, PressType
      <3>3. QED BY <1>5, <2>2, <3>2 DEF Remember, Click
    <2>3. QED BY <2>1, <2>2
  <1>6. QED BY <1>1, <1>2, <1>3, <1>4, <1>5

LEMMA ChannelWorks ==
    ASSUME IInv, CardTypeOK, ChannelInv, NEW s \in Sessions, Work(s) \/ Raise(s)
    PROVE  ChannelInv'
  <1> USE EventsAssumption, ConstantsAssumption
      DEF IInv, TypeOK, CardTypeOK, ChannelInv, InService, Proposes, Goto, Return, table
  <1>1. ASSUME Raise(s) PROVE ChannelInv'
    BY <1>1 DEF Raise, Abort, Done, Release, vars
  <1>2. ASSUME Work(s), InService(s) PROVE ChannelInv'
    <2>1. Proceed(s)
      BY <1>2 DEF Work
    <2>2. CASE pc'[s] = "idle"
      BY <1>2, <2>1, <2>2, ServiceStep DEF Work, Done, Release
    <2>3. CASE pc'[s] # "idle"
      BY <1>2, <2>1, <2>3, ServiceStep DEF Work
    <2>4. QED BY <2>2, <2>3
  <1>3. ASSUME Work(s), ~InService(s) PROVE ChannelInv'
    <2>1. pc[s] \in {"insert_undo", "audit_created", "send_card"}
      BY <1>3 DEF Work, Proceed, InsertUndo, AuditCreated, SendCard, ReadForConfirm,
          SetExpired, SetConfirmed, AuditConfirmed, Execute, SetFailed, SetExecuted,
          SaveExecution, MarkReverted, AuditReverted, ReadForCancel, SetCanceled,
          AuditAndAnswer, FinalEvent
    <2>2. channel[s] = "message"
      BY <2>1 DEF Channels
    <2>3. (\E a \in Actions : InsertUndo(s, a)) \/ AuditCreated(s) \/ SendCard(s)
      BY <1>3, <2>1 DEF Work, Proceed, ReadForConfirm,
          SetExpired, SetConfirmed, AuditConfirmed, Execute, SetFailed, SetExecuted,
          SaveExecution, MarkReverted, AuditReverted, ReadForCancel, SetCanceled,
          AuditAndAnswer, FinalEvent
    <2>4. ASSUME NEW a \in Actions, InsertUndo(s, a) PROVE ChannelInv'
      BY <1>3, <2>2, <2>4 DEF Work, InsertUndo, Insert
    <2>5. CASE AuditCreated(s)
      BY <1>3, <2>2, <2>5 DEF Work, AuditCreated
    <2>6. CASE SendCard(s)
      BY <1>3, <2>2, <2>6 DEF Work, SendCard, Done, Release
    <2>7. QED BY <2>3, <2>4, <2>5, <2>6
  <1>4. QED BY <1>1, <1>2, <1>3

LEMMA ChannelStep ==
    ASSUME IInv, CardTypeOK, KeysInv, ChannelInv, [CardNext]_cardVars
    PROVE  ChannelInv'
  <1>1. CASE CardTick \/ UNCHANGED cardVars
    BY <1>1 DEF CardTick, Tick, cardVars, vars, ingress, table, ChannelInv, InService, Proposes
  <1>2. CASE Restart
    BY <1>2, EventsAssumption
    DEF Restart, table, ChannelInv, InService, Proposes, IInv, TypeOK, CardTypeOK
  <1>3. ASSUME NEW e \in Events, NEW actor \in Actors, NEW a \in Actions, NEW label,
               Press(e, actor, a, label)
        PROVE  ChannelInv'
    BY <1>3 DEF Press, vars, table, ChannelInv, InService, Proposes
  <1>4. QED
    BY <1>1, <1>2, <1>3, ChannelOpens, ChannelWorks DEF CardNext, Step
-----------------------------------------------------------------------------
(* A step that announces nothing and changes no status, no write and no    *)
(* request beyond its first read keeps the outcomes.                       *)
LEMMA QuietStep ==
    ASSUME TypeOK, CardTypeOK, OutcomeInv,
           UNCHANGED <<status, writes>>, overlapped \subseteq overlapped',
           \A a \in Actions : told'[a] \subseteq told[a],
           \A s \in Sessions :
               \/ pc'[s] = pc[s] /\ req'[s] = req[s]
               \/ pc'[s] \in {"idle", "insert_undo", "audit_created", "send_card",
                             "read_confirm", "read_cancel"}
    PROVE  OutcomeInv'
  BY DEF TypeOK, CardTypeOK, OutcomeInv, Settled, Knows, InService, Recorded, Undoing

(* A new row: nobody has worked for its key, and nothing was told of it.   *)
LEMMA InsertKeepsOutcomes ==
    ASSUME IInv, CardTypeOK, OutcomeInv, NEW a \in Actions, NEW owner, NEW type,
           NEW undoOf, NEW oversize, Insert(a, owner, type, undoOf, oversize),
           UNCHANGED <<writes, told, overlapped>>,
           \A s \in Sessions :
               \/ pc'[s] = pc[s] /\ req'[s] = req[s]
               \/ pc'[s] = "audit_created"
    PROVE  OutcomeInv'
  <1>1. status[a] = "absent" /\ status' = [status EXCEPT ![a] = "pending"]
    BY DEF Insert
  <1>2. \A b \in Actions \ overlapped : Settled(b)'
    BY <1>1 DEF OutcomeInv, Settled, IInv, TypeOK, CardTypeOK
  <1>3. ASSUME NEW s \in Sessions, InService(s)', req'[s].action \in Actions \ overlapped
        PROVE  Knows(s)'
    <2>1. pc'[s] = pc[s] /\ req'[s] = req[s]
      BY <1>3 DEF InService
    <2>2. InService(s) /\ Knows(s)
      BY <1>3, <2>1 DEF OutcomeInv, InService
    <2>3. pc[s] \in {"read_confirm", "read_cancel"} \/ req[s].action # a
      BY <1>1, <2>2 DEF IInv, TypeOK, SessionInv, HoldsAction, Holding, InService
    <2>4. QED
      BY <1>1, <1>3, <2>1, <2>2, <2>3 DEF Knows, IInv, TypeOK, Recorded, Undoing
  <1>4. QED BY <1>2, <1>3 DEF OutcomeInv

LEMMA WorkKeepsOutcomes ==
    ASSUME IInv, CardTypeOK, ChannelInv, OutcomeInv, NEW s \in Sessions, Work(s)
    PROVE  OutcomeInv'
  <1>0. UNCHANGED overlapped
    BY DEF Work
  <1>1. CASE InService(s)
    <2> DEFINE a == req[s].action
    <2>1. Proceed(s)
      BY DEF Work
    <2>2. \A b \in Actions \ {a} : told'[b] = told[b]
      BY DEF Work, Done, CardTypeOK
    <2>3. ASSUME NEW b \in Actions \ overlapped PROVE Settled(b)'
      <3>1. Settled(b)
        BY DEF OutcomeInv
      <3>2. CASE b = a
        BY <1>1, <3>1, <3>2, OutcomeStep DEF OutcomeInv
      <3>3. CASE b # a
        BY <1>1, <2>1, <2>2, <3>1, <3>3, ServiceStep DEF Settled
      <3>4. QED BY <3>2, <3>3
    <2>4. ASSUME NEW t \in Sessions, InService(t)', req'[t].action \in Actions \ overlapped
          PROVE  Knows(t)'
      <3>1. CASE t = s
        <4>1. req'[s] = req[s]
          BY <1>1, <2>1, <2>4, <3>1, ServiceStep DEF InService
        <4>2. QED
          BY <1>1, <2>4, <3>1, <4>1, OutcomeStep DEF OutcomeInv
      <3>2. CASE t # s
        <4>1. pc'[t] = pc[t] /\ req'[t] = req[t]
          BY <1>1, <2>1, <3>2, ServiceStep
        <4>2. InService(t) /\ Knows(t)
          BY <2>4, <4>1 DEF OutcomeInv, InService
        <4>3. req[t].action # a
          BY <1>1, <2>4, <3>2, <4>1, <4>2, Unique
        <4>4. /\ status'[req[t].action] = status[req[t].action]
              /\ writes'[req[t].action] = writes[req[t].action]
          BY <1>1, <2>1, <2>4, <4>1, <4>3, ServiceStep
        <4>5. QED BY <4>1, <4>2, <4>4 DEF Knows
      <3>3. QED BY <3>1, <3>2
    <2>5. QED BY <1>0, <2>3, <2>4 DEF OutcomeInv
  <1>2. CASE ~InService(s)
    <2>1. (\E a \in Actions : InsertUndo(s, a)) \/ AuditCreated(s) \/ SendCard(s)
      BY <1>2 DEF InService, Work, Proceed, ReadForConfirm, SetExpired, SetConfirmed,
          AuditConfirmed, Execute, SetFailed, SetExecuted, SaveExecution, MarkReverted,
          AuditReverted, ReadForCancel, SetCanceled, AuditAndAnswer, FinalEvent
    <2>2. ASSUME NEW a \in Actions, InsertUndo(s, a) PROVE OutcomeInv'
      <3>1. UNCHANGED told
        BY <2>2 DEF Work, InsertUndo, Goto, IInv, TypeOK
      <3>2. PICK oversize \in BOOLEAN :
                Insert(a, req[s].actor, UndoType[details[req[s].action].type],
                       req[s].action, oversize)
        BY <2>2 DEF InsertUndo
      <3>3. \A t \in Sessions :
                \/ pc'[t] = pc[t] /\ req'[t] = req[t]
                \/ pc'[t] = "audit_created"
        BY <2>2 DEF InsertUndo, Goto, IInv, TypeOK
      <3>4. UNCHANGED writes
        BY <2>2 DEF InsertUndo
      <3>5. QED BY <1>0, <3>1, <3>2, <3>3, <3>4, InsertKeepsOutcomes
    <2>3. CASE AuditCreated(s) \/ SendCard(s)
      <3>1. told' = told \/ told' = [told EXCEPT ![req[s].action] =
                                       @ \cup ({AnswerAt[pc[s]]} \cap Outcomes)]
        BY DEF Work, Done
      <3>2. told' = told \/ pc[s] = "send_card"
        BY <2>3 DEF Work, AuditCreated, SendCard, Goto, IInv, TypeOK
      <3>3. \A a \in Actions : told'[a] \subseteq told[a]
        BY <3>1, <3>2 DEF AnswerAt, Outcomes, CardTypeOK
      <3>4. QED
        BY <1>0, <2>3, <3>3, QuietStep
        DEF AuditCreated, SendCard, Goto, Return, table, IInv, TypeOK
    <2>4. QED BY <2>1, <2>2, <2>3
  <1>3. QED BY <1>1, <1>2

LEMMA OutcomesStep ==
    ASSUME IInv, CardTypeOK, KeysInv, ChannelInv, OutcomeInv, [CardNext]_cardVars
    PROVE  OutcomeInv'
  <1> USE DEF IInv, TypeOK, Begin, Goto, Return, table, vars
  <1>1. CASE CardTick \/ Restart \/ UNCHANGED cardVars
    BY <1>1, QuietStep DEF CardTick, Tick, Restart, cardVars, ingress
  <1>2. ASSUME NEW e \in Events, NEW actor \in Actors, NEW a \in Actions, NEW label,
               Press(e, actor, a, label)
        PROVE  OutcomeInv'
    BY <1>2, QuietStep DEF Press
  <1>3. ASSUME NEW s \in Sessions, Message(s) PROVE OutcomeInv'
    <2>1. ASSUME NEW actor \in Actors, NEW a \in Actions, NEW type \in ProposalTypes,
                 NEW oversize \in BOOLEAN, Propose(s, actor, a, type, oversize)
          PROVE  OutcomeInv'
      BY <1>3, <2>1, InsertKeepsOutcomes DEF Message, Propose
    <2>2. ASSUME NEW actor \in Actors, RequestUndo(s, actor) PROVE OutcomeInv'
      BY <1>3, <2>2, QuietStep DEF Message, RequestUndo
    <2>3. QED BY <1>3, <2>1, <2>2 DEF Message
  <1>4. ASSUME NEW s \in Sessions, NEW actor, NEW a, NEW label \in {"read_confirm", "read_cancel"},
               WorkerClick(s, actor, a, label)
        PROVE  OutcomeInv'
    BY <1>4, QuietStep DEF WorkerClick, Click
  <1>5. ASSUME NEW s \in Sessions, AckTimeout(s) PROVE OutcomeInv'
    BY <1>5, QuietStep DEF AckTimeout
  <1>6. ASSUME NEW s \in Sessions, NEW e \in Events, Deliver(s, e) PROVE OutcomeInv'
    BY <1>6, QuietStep DEF Deliver
  <1>7. ASSUME NEW s \in Sessions, Raise(s) PROVE OutcomeInv'
    <2>1. \A a \in Actions : told'[a] \subseteq told[a]
      BY <1>7 DEF Raise, Done, Outcomes, CardTypeOK
    <2>2. QED BY <1>7, <2>1, QuietStep DEF Raise, Abort
  <1>8. ASSUME NEW s \in Sessions, Remember(s) PROVE OutcomeInv'
    <2>1. CASE callback[s] \in keys
      <3>1. \A a \in Actions : told'[a] \subseteq told[a]
        BY <1>8, <2>1 DEF Remember, Done, Outcomes, CardTypeOK
      <3>2. QED BY <1>8, <2>1, <3>1, QuietStep DEF Remember
    <2>2. CASE callback[s] \notin keys
      <3>1. callback[s] \in Events /\ pressed[callback[s]] # None
        BY <1>8 DEF Remember, KeysInv
      <3>2. pressed[callback[s]].label \in {"read_confirm", "read_cancel"}
        BY <3>1, PressType
      <3>3. QED BY <1>8, <2>2, <3>2, QuietStep DEF Remember, Click
    <2>3. QED BY <2>1, <2>2
  <1>9. QED
    BY <1>1, <1>2, <1>3, <1>4, <1>5, <1>6, <1>7, <1>8, WorkKeepsOutcomes DEF CardNext, Step
-----------------------------------------------------------------------------
(* What stands behind the toasts for an action.                            *)
Backed(a) ==
    /\ "executed" \in told[a] => writes[a] > 0 /\ rows[a] # None
                                 /\ "write_executed" \in audit[a]
    /\ "expired"  \in told[a] => "action_expired"  \in audit[a]
    /\ "canceled" \in told[a] => "action_canceled" \in audit[a]

(* What backs a toast stays, so only a new toast can go unbacked.          *)
LEMMA BackedStays ==
    ASSUME IInv, CardTypeOK, KeysInv, [CardNext]_cardVars,
           NEW a \in Actions, Backed(a), told'[a] \subseteq told[a]
    PROVE  Backed(a)'
  <1>1. Restart \/ [Next]_vars
    BY CardStepIsWritebackStep
  <1>2. CASE Restart
    BY <1>2 DEF Restart, table, Backed
  <1>3. CASE [Next]_vars
    <2>1. audit[a] \subseteq audit'[a]
      BY <1>3, AuditIsKept
    <2>2. (rows[a] # None => rows'[a] # None) /\ writes'[a] >= writes[a]
      BY <1>3, KeptAcrossSteps
    <2>3. writes[a] > 0 => writes'[a] > 0
      <3>1. writes[a] \in Nat
        BY DEF IInv, TypeOK
      <3>2. IInv'
        BY <1>3, NextIInv
      <3>3. writes'[a] \in Nat
        BY <3>2 DEF IInv, TypeOK
      <3>4. QED BY <2>2, <3>1, <3>3
    <2>4. QED BY <2>1, <2>2, <2>3 DEF Backed
  <1>4. QED BY <1>1, <1>2, <1>3

(* A new toast is shown when the request that it is about ends.            *)
LEMMA NewToastIsBacked ==
    ASSUME IInv, CardTypeOK, NEW s \in Sessions, Work(s),
           NEW a \in Actions, ~(told'[a] \subseteq told[a])
    PROVE  /\ a = req[s].action /\ pc[s] \in DOMAIN FinalEvent
           /\ told'[a] \subseteq told[a] \cup ({AnswerAt[pc[s]]} \cap Outcomes)
           /\ audit'[a] = audit[a] \cup {FinalEvent[pc[s]]}
           /\ writes'[a] = writes[a] /\ rows'[a] = rows[a]
  <1>1. pc'[s] = "idle" /\ Proceed(s) /\ Done(s, AnswerAt[pc[s]])
    BY DEF Work
  <1>2. a = req[s].action /\ told'[a] = told[a] \cup ({AnswerAt[pc[s]]} \cap Outcomes)
    BY <1>1 DEF Done, CardTypeOK
  <1>3. pc[s] \in DOMAIN FinalEvent \cup {"read_confirm", "read_cancel", "send_card"}
    BY <1>1
    DEF Proceed, ReadForConfirm, ReadForCancel, AuditAndAnswer, SetExpired, SetConfirmed,
        SetFailed, SetExecuted, SetCanceled, AuditConfirmed, AuditReverted, Execute,
        SaveExecution, MarkReverted, AuditCreated, SendCard, InsertUndo, Goto, IInv, TypeOK
  <1>4. pc[s] \notin {"read_confirm", "read_cancel", "send_card"}
    BY <1>2 DEF AnswerAt, Outcomes
  <1>5. AuditAndAnswer(s)
    BY <1>1, <1>3, <1>4
    DEF Proceed, ReadForConfirm, ReadForCancel, AuditAndAnswer, SetExpired, SetConfirmed,
        SetFailed, SetExecuted, SetCanceled, AuditConfirmed, AuditReverted, Execute,
        SaveExecution, MarkReverted, AuditCreated, SendCard, InsertUndo, FinalEvent
  <1>6. QED
    BY <1>2, <1>3, <1>4, <1>5 DEF AuditAndAnswer, Record, IInv, TypeOK

LEMMA ToastsStep ==
    ASSUME IInv, CardTypeOK, KeysInv, ToastsAreBacked, [CardNext]_cardVars
    PROVE  ToastsAreBacked'
  <1> SUFFICES ASSUME NEW a \in Actions PROVE Backed(a)'
    BY DEF ToastsAreBacked, Backed
  <1>1. Backed(a)
    BY DEF ToastsAreBacked, Backed
  <1>2. CASE told'[a] \subseteq told[a]
    BY <1>1, <1>2, BackedStays
  <1>3. CASE ~(told'[a] \subseteq told[a])
    <2>1. UNCHANGED told => FALSE
      BY <1>3
    <2>2. PICK s \in Sessions : Remember(s) \/ Work(s) \/ Raise(s)
      BY <2>1 DEF CardNext, cardVars, ingress, CardTick, Restart, Press, Message,
                  WorkerClick, AckTimeout, Deliver, Step
    <2>3. ~Remember(s) /\ ~Raise(s)
      BY <1>3 DEF Remember, Raise, Done, Outcomes, CardTypeOK
    <2>4. Work(s)
      BY <2>2, <2>3
    <2>5. /\ a = req[s].action /\ pc[s] \in DOMAIN FinalEvent
          /\ told'[a] \subseteq told[a] \cup ({AnswerAt[pc[s]]} \cap Outcomes)
          /\ audit'[a] = audit[a] \cup {FinalEvent[pc[s]]}
          /\ writes'[a] = writes[a] /\ rows'[a] = rows[a]
      BY <1>3, <2>4, NewToastIsBacked
    <2>6. pc[s] = "audit_executed" => writes[a] > 0 /\ rows[a] # None
      BY <2>5 DEF IInv, SessionInv, Progressed, Written, Recorded
    <2>7. /\ AnswerAt[pc[s]] = "executed" => pc[s] = "audit_executed"
          /\ AnswerAt[pc[s]] = "expired" => pc[s] = "audit_expired"
          /\ AnswerAt[pc[s]] = "canceled" => pc[s] = "audit_canceled"
      BY <2>5 DEF AnswerAt, FinalEvent
    <2>8. /\ FinalEvent["audit_executed"] = "write_executed"
          /\ FinalEvent["audit_expired"] = "action_expired"
          /\ FinalEvent["audit_canceled"] = "action_canceled"
      BY DEF FinalEvent
    <2>9. QED BY <1>1, <2>5, <2>6, <2>7, <2>8 DEF Backed
  <1>4. QED BY <1>2, <1>3
-----------------------------------------------------------------------------
THEOREM CardInductive == CardSpec => []CardIInv
  <1>1. CardInit => CardIInv
    <2> SUFFICES ASSUME CardInit PROVE CardIInv
      OBVIOUS
    <2> USE DEF CardInit, Init, NoRequest
    <2>1. IInv
      BY InitIInv
    <2>2. CardTypeOK /\ KeysInv
      BY DEF CardTypeOK, KeysInv, Channels
    <2>3. ChannelInv /\ OutcomeInv
      BY EventsAssumption
      DEF ChannelInv, OutcomeInv, Settled, InService, Proposes
    <2>4. QED BY <2>1, <2>2, <2>3 DEF CardIInv
  <1>2. CardIInv /\ [CardNext]_cardVars => CardIInv'
    BY CardStepIsWritebackStep, RestartStep, NextIInv, CardTypeStep, KeysStep,
       ChannelStep, OutcomesStep
    DEF CardIInv, IInv
  <1>3. QED BY <1>1, <1>2, PTL DEF CardSpec
-----------------------------------------------------------------------------
(* The tables of the process that takes the clicks are well typed.         *)
THEOREM CardTypeCorrect == CardSpec => []CardTypeOK
  <1>1. CardIInv => CardTypeOK
    BY DEF CardIInv
  <1>2. QED BY CardInductive, <1>1, PTL

(* Redelivery, concurrent delivery and restarts do not make the service    *)
(* handle one HTTP event twice.                                            *)
THEOREM EventsAreServedOnce == CardSpec => []ServedOnce
  <1>1. CardIInv => ServedOnce
    BY DEF CardIInv, KeysInv, ServedOnce
  <1>2. QED BY CardInductive, <1>1, PTL

(* The decision before every write, whatever restarts and timeouts do.     *)
THEOREM RestartsKeepDecisions == CardSpec => [](WriteIsDecided /\ ReportedMeansWritten)
  <1>1. CardIInv => WriteIsDecided /\ ReportedMeansWritten
    BY DEF CardIInv, IInv
  <1>2. QED BY CardInductive, <1>1, PTL

(* One outcome for an action whose requests the worker's loop waited for:  *)
(* blocking the loop, and not the check in confirm(), is what makes it so. *)
THEOREM WaitedForHasOneOutcome == CardSpec => []OneOutcome
  <1>1. CardIInv => OneOutcome
    BY DEF CardIInv, IInv, TypeOK, OutcomeInv, Settled, OneOutcome
  <1>2. QED BY CardInductive, <1>1, PTL

(* Whatever overlaps, times out or restarts: a toast that announces an     *)
(* execution, an expiry or a cancellation is backed by what the tables and *)
(* the audit log say.                                                      *)
THEOREM ToastsTellTheTruth == CardSpec => []ToastsAreBacked
  <1>1. CardInit => ToastsAreBacked
    BY DEF CardInit, ToastsAreBacked
  <1>2. CardIInv /\ ToastsAreBacked /\ [CardNext]_cardVars => ToastsAreBacked'
    BY ToastsStep DEF CardIInv
  <1>3. QED BY CardInductive, <1>1, <1>2, PTL DEF CardSpec
=============================================================================
