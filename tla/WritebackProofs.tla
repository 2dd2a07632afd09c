--------------------------- MODULE WritebackProofs ---------------------------
(***************************************************************************)
(* Theorems about Writeback for every set of users, actions and sessions,  *)
(* every TTL and every bound on the clock.                                 *)
(***************************************************************************)
EXTENDS WritebackInv, FiniteSetTheorems, TLAPS

(* The inverse of a reversible write type is a write type.                 *)
LEMMA UndoTypeIsType ==
    ASSUME NEW t \in DOMAIN UndoType
    PROVE  UndoType[t] \in WriteActionType
  BY DEF UndoType, WriteActionType

LEMMA UndoMetadataType ==
    ASSUME NEW a
    PROVE  UndoMetadata(a) \subseteq WriteActionType \cup {None}
  BY UndoTypeIsType DEF UndoMetadata

(* The last audit event of a request is one of the audit event types.      *)
LEMMA FinalEventType ==
    ASSUME NEW l \in DOMAIN FinalEvent
    PROVE  FinalEvent[l] \in AuditEventType
  BY DEF FinalEvent, AuditEventType

-----------------------------------------------------------------------------
LEMMA InitIInv == Init => IInv
  BY DEF Init, IInv, TypeOK, SessionInv, HoldsAction, HoldsOriginal, Progressed,
         TableInv, RowInv, WriteIsDecided, ReportedMeansWritten, Labels, Request,
         NoRequest, Holding, Settling, Audited, Written, Recorded, Undoing

(* An update of a status. *)
LEMMA StatusStep ==
    ASSUME IInv, NEW s \in Sessions, 
           SetExpired(s) \/ SetConfirmed(s) \/ SetFailed(s)
             \/ SetExecuted(s) \/ SetCanceled(s)
    PROVE  IInv'
  <1> USE DEF IInv, SetStatus, Goto, SetExpired, SetConfirmed, SetFailed,
           SetExecuted, SetCanceled
  <1>1. TypeOK'
    BY DEF TypeOK, SessionInv, HoldsAction, HoldsOriginal, Labels,
         Request, Holding, PendingActionStatus
  <1>2. SessionInv'
    BY DEF TypeOK, SessionInv, HoldsAction, HoldsOriginal, Progressed, Decided,
         Labels, Request, Holding, Settling, Audited, Written, Recorded, Undoing
  <1>3. TableInv'
    BY DEF TypeOK, SessionInv, HoldsAction, HoldsOriginal, TableInv, RowInv,
         Request, Labels, Holding
  <1>4. WriteIsDecided'
    BY DEF TypeOK, WriteIsDecided, SessionInv, HoldsAction, Progressed, Decided, Request,
         Holding, Settling, Audited, Written, Recorded, Undoing, Labels
  <1>5. ReportedMeansWritten'
    BY DEF TypeOK, ReportedMeansWritten, SessionInv, HoldsAction, Progressed, Request,
         Holding, Settling, Audited, Written, Recorded, Undoing, Labels
  <1>6. QED BY <1>1, <1>2, <1>3, <1>4, <1>5

(* Recording a known event keeps the type of the audit table.              *)
LEMMA RecordType ==
    ASSUME TypeOK, NEW a, NEW event \in AuditEventType, Record(a, event)
    PROVE  audit' \in [Actions -> SUBSET AuditEventType]
  BY DEF TypeOK, Record

(* An audit event of a request that goes on. *)
LEMMA AuditStep ==
    ASSUME IInv, NEW s \in Sessions, 
           AuditCreated(s) \/ AuditConfirmed(s) \/ AuditReverted(s)
    PROVE  IInv'
  <1> USE DEF IInv, Record, Goto, AuditCreated, AuditConfirmed,
           AuditReverted
  <1>0. AuditReverted(s) => details[req[s].action].undoOf \in Actions
    <2>1. pc[s] = "audit_reverted" =>
            /\ req[s].action \in Actions
            /\ details[req[s].action] \in Details
            /\ details[req[s].action].undoOf # None
      BY DEF TypeOK, SessionInv, HoldsAction, Progressed, TableInv, RowInv, Request,
             Labels, Holding, Undoing
    <2>2. QED BY <2>1 DEF Details
  <1>1. TypeOK'
    <2>1. audit' \in [Actions -> SUBSET AuditEventType]
      BY RecordType DEF AuditEventType
    <2>2. pc' \in [Sessions -> Labels]
      BY DEF TypeOK, Labels
    <2>3. QED BY <2>1, <2>2 DEF TypeOK
  <1>2. SessionInv'
    BY DEF TypeOK, SessionInv, HoldsAction, HoldsOriginal, Progressed, Decided,
         Labels, Request, Holding, Settling, Audited, Written, Recorded, Undoing, TableInv, RowInv, Details
  <1>3. TableInv'
    BY DEF TypeOK, SessionInv, HoldsAction, HoldsOriginal, TableInv, RowInv,
         Request, Labels, Holding
  <1>4. WriteIsDecided'
    BY DEF TypeOK, WriteIsDecided, SessionInv, HoldsAction, Progressed, Decided, Request,
         Holding, Settling, Audited, Written, Recorded, Undoing, Labels
  <1>5. ReportedMeansWritten'
    BY DEF TypeOK, ReportedMeansWritten, SessionInv, HoldsAction, Progressed, Request,
         Holding, Settling, Audited, Written, Recorded, Undoing, Labels
  <1>6. QED BY <1>1, <1>2, <1>3, <1>4, <1>5

(* The audit event that ends a request. *)
LEMMA FinalAuditStep ==
    ASSUME IInv, NEW s \in Sessions, AuditAndAnswer(s)
    PROVE  IInv'
  <1> USE DEF IInv, Record, Goto, Return, AuditAndAnswer
  <1>1. TypeOK'
    BY FinalEventType DEF TypeOK, SessionInv, HoldsAction, HoldsOriginal, Labels,
         Request, Holding, NoRequest, AuditEventType
  <1>2. SessionInv'
    BY FinalEventType DEF TypeOK, SessionInv, HoldsAction, HoldsOriginal, Progressed, Decided,
         Labels, Request, Holding, Settling, Audited, Written, Recorded, Undoing, NoRequest
  <1>3. TableInv'
    BY FinalEventType DEF TypeOK, SessionInv, HoldsAction, HoldsOriginal, TableInv, RowInv,
         Request, Labels, Holding
  <1>4. WriteIsDecided'
    BY FinalEventType DEF TypeOK, WriteIsDecided, SessionInv, HoldsAction, Progressed, Decided, Request,
         Holding, Settling, Audited, Written, Recorded, Undoing, Labels
  <1>5. ReportedMeansWritten'
    BY FinalEventType DEF TypeOK, ReportedMeansWritten, SessionInv, HoldsAction, Progressed, Request,
         Holding, Settling, Audited, Written, Recorded, Undoing, Labels, FinalEvent
  <1>6. QED BY <1>1, <1>2, <1>3, <1>4, <1>5

(* A look at the row of a clicked card. *)
LEMMA ReadStep ==
    ASSUME IInv, NEW s \in Sessions, ReadForConfirm(s) \/ ReadForCancel(s)
    PROVE  IInv'
  <1> USE DEF IInv, Goto, Return, ReadForConfirm, ReadForCancel, table
  <1>1. TypeOK'
    <2>1. PICK label \in Labels : pc' = [pc EXCEPT ![s] = label]
      BY DEF Labels
    <2>2. pc' \in [Sessions -> Labels]
      BY <2>1 DEF TypeOK
    <2>3. NoRequest \in Request
      BY DEF NoRequest, Request
    <2>4. req' \in [Sessions -> Request]
      BY <2>3 DEF TypeOK
    <2>5. QED BY <2>2, <2>4 DEF TypeOK
  <1>2. SessionInv'
    BY DEF TypeOK, SessionInv, HoldsAction, HoldsOriginal, Progressed, Decided,
         Labels, Request, Holding, Settling, Audited, Written, Recorded, Undoing, NoRequest, Actionable
  <1>3. TableInv'
    BY DEF TypeOK, SessionInv, HoldsAction, HoldsOriginal, TableInv, RowInv,
         Request, Labels, Holding
  <1>4. WriteIsDecided'
    BY DEF TypeOK, WriteIsDecided, SessionInv, HoldsAction, Progressed, Decided, Request,
         Holding, Settling, Audited, Written, Recorded, Undoing, Labels
  <1>5. ReportedMeansWritten'
    BY DEF TypeOK, ReportedMeansWritten, SessionInv, HoldsAction, Progressed, Request,
         Holding, Settling, Audited, Written, Recorded, Undoing, Labels
  <1>6. QED BY <1>1, <1>2, <1>3, <1>4, <1>5

(* The call to Feishu. *)
LEMMA ExecuteStep ==
    ASSUME IInv, NEW s \in Sessions, Execute(s)
    PROVE  IInv'
  <1> USE DEF IInv, Goto, Execute, table
  <1>1. TypeOK'
    BY DEF TypeOK, SessionInv, HoldsAction, HoldsOriginal, Labels,
         Request, Holding
  <1>2. SessionInv'
    BY DEF TypeOK, SessionInv, HoldsAction, HoldsOriginal, Progressed, Decided,
         Labels, Request, Holding, Settling, Audited, Written, Recorded, Undoing
  <1>3. TableInv'
    BY DEF TypeOK, SessionInv, HoldsAction, HoldsOriginal, TableInv, RowInv,
         Request, Labels, Holding
  <1>4. WriteIsDecided'
    BY DEF TypeOK, WriteIsDecided, SessionInv, HoldsAction, Progressed, Decided, Request,
         Holding, Settling, Audited, Written, Recorded, Undoing, Labels
  <1>5. ReportedMeansWritten'
    BY DEF TypeOK, ReportedMeansWritten, SessionInv, HoldsAction, Progressed, Request,
         Holding, Settling, Audited, Written, Recorded, Undoing, Labels
  <1>6. QED BY <1>1, <1>2, <1>3, <1>4, <1>5

(* A card sent, or a session that dies. *)
LEMMA EndStep ==
    ASSUME IInv, NEW s \in Sessions, SendCard(s) \/ Abort(s)
    PROVE  IInv'
  <1> USE DEF IInv, Goto, Return, SendCard, Abort, table
  <1>0. SendCard(s) => req[s].action \in Actions
    BY DEF TypeOK, SessionInv, HoldsAction, Labels, Request, Holding
  <1>1. TypeOK'
    BY <1>0 DEF TypeOK, Labels, Request, NoRequest
  <1>2. SessionInv'
    BY DEF TypeOK, SessionInv, HoldsAction, HoldsOriginal, Progressed, Decided,
         Labels, Request, Holding, Settling, Audited, Written, Recorded, Undoing, NoRequest
  <1>3. TableInv'
    BY DEF TypeOK, SessionInv, HoldsAction, HoldsOriginal, TableInv, RowInv,
         Request, Labels, Holding
  <1>4. WriteIsDecided'
    BY DEF TypeOK, WriteIsDecided, SessionInv, HoldsAction, Progressed, Decided, Request,
         Holding, Settling, Audited, Written, Recorded, Undoing, Labels
  <1>5. ReportedMeansWritten'
    BY DEF TypeOK, ReportedMeansWritten, SessionInv, HoldsAction, Progressed, Request,
         Holding, Settling, Audited, Written, Recorded, Undoing, Labels
  <1>6. QED BY <1>1, <1>2, <1>3, <1>4, <1>5

(* The record of an execution.                                             *)
LEMMA SaveExecutionStep ==
    ASSUME IInv, NEW s \in Sessions, SaveExecution(s)
    PROVE  IInv'
  <1> DEFINE a == req[s].action
  <1> USE DEF IInv, Goto, SaveExecution
  <1>1. /\ a \in Actions
        /\ details[a] # None
        /\ writes[a] > 0
    BY DEF TypeOK, SessionInv, HoldsAction, Progressed, TableInv, RowInv, Request, Labels,
           Holding, Written
  <1>2. /\ rows' \in [Actions -> Execution \cup {None}]
        /\ rows'[a] \in Execution
        /\ rows'[a].undo \in UndoMetadata(a)
        /\ \A b \in Actions : b # a => rows'[b] = rows[b]
    <2>1. PICK undo \in UndoMetadata(a) :
            rows' = [rows EXCEPT ![a] =
                        IF @ = None
                        THEN [undo |-> undo, reverted |-> FALSE, executedAt |-> now]
                        ELSE [@ EXCEPT !.undo = undo]]
      OBVIOUS
    <2>2. undo \in WriteActionType \cup {None}
      BY UndoMetadataType
    <2>3. CASE rows[a] = None
      BY <1>1, <2>1, <2>2, <2>3 DEF TypeOK, Execution
    <2>4. CASE rows[a] # None
      BY <1>1, <2>1, <2>2, <2>4 DEF TypeOK, Execution
    <2>5. QED BY <2>3, <2>4
  <1>3. rows'[a] # None
    BY <1>2, ConstantsAssumption
  <1>4. TypeOK'
    BY <1>2 DEF TypeOK, Labels
  <1>5. SessionInv'
    BY <1>1, <1>2, <1>3 DEF TypeOK, SessionInv, HoldsAction, HoldsOriginal, Progressed, Decided,
         Labels, Request, Holding, Settling, Audited, Written, Recorded, Undoing
  <1>6. TableInv'
    BY <1>1, <1>2 DEF TypeOK, TableInv, RowInv, UndoMetadata
  <1>7. WriteIsDecided'
    BY DEF WriteIsDecided
  <1>8. ReportedMeansWritten'
    BY <1>1, <1>2, <1>3 DEF ReportedMeansWritten
  <1>9. QED BY <1>4, <1>5, <1>6, <1>7, <1>8

(* The mark on the execution that was undone.                              *)
LEMMA MarkRevertedStep ==
    ASSUME IInv, NEW s \in Sessions, MarkReverted(s)
    PROVE  IInv'
  <1> DEFINE original == details[req[s].action].undoOf
  <1> USE DEF IInv, Goto, MarkReverted
  <1>1. original \in Actions
    <2>1. /\ req[s].action \in Actions
          /\ details[req[s].action] \in Details
          /\ original # None
      BY DEF TypeOK, SessionInv, HoldsAction, Progressed, TableInv, RowInv, Request,
             Labels, Holding, Undoing
    <2>2. QED BY <2>1 DEF Details
  <1>2. \A a \in Actions :
          /\ rows[a] = None => rows'[a] = None
          /\ rows[a] # None => /\ rows'[a] \in Execution
                              /\ rows'[a].undo = rows[a].undo
    BY <1>1 DEF TypeOK, Execution
  <1>3. \A a \in Actions : rows'[a] = None <=> rows[a] = None
    BY <1>2, ConstantsAssumption
  <1>4. TypeOK'
    BY <1>2 DEF TypeOK, Labels
  <1>5. SessionInv'
    BY <1>3, SMTT(30) DEF TypeOK, SessionInv, HoldsAction, HoldsOriginal, Progressed, Decided,
         Labels, Request, Holding, Settling, Audited, Written, Recorded, Undoing
  <1>6. TableInv'
    BY <1>2, <1>3 DEF TypeOK, TableInv, RowInv
  <1>7. WriteIsDecided'
    BY DEF WriteIsDecided
  <1>8. ReportedMeansWritten'
    BY <1>3 DEF ReportedMeansWritten
  <1>9. QED BY <1>4, <1>5, <1>6, <1>7, <1>8

(* A new pending action takes a key without a row and disturbs no other.   *)
LEMMA InsertEffect ==
    ASSUME TypeOK, NEW a \in Actions, NEW owner \in Actors, NEW type \in WriteActionType,
           NEW undoOf \in Actions \cup {None}, NEW oversize \in BOOLEAN,
           Insert(a, owner, type, undoOf, oversize)
    PROVE  /\ status' \in [Actions -> PendingActionStatus \cup {"absent"}]
           /\ details' \in [Actions -> Details \cup {None}]
           /\ status[a] = "absent" /\ status'[a] = "pending"
           /\ details'[a] \in Details
           /\ details'[a] # None
           /\ details'[a].owner = owner /\ details'[a].undoOf = undoOf
           /\ \A b \in Actions : b # a => /\ status'[b] = status[b]
                                         /\ details'[b] = details[b]
  <1>1. now + Ttl \in Nat
    BY ConstantsAssumption DEF TypeOK
  <1> DEFINE row == [owner |-> owner, type |-> type, undoOf |-> undoOf,
                     oversize |-> oversize, expires |-> now + Ttl]
  <1>2. row \in Details
    BY <1>1 DEF Details
  <1>3. row # None
    BY <1>2, ConstantsAssumption
  <1>4. details' = [details EXCEPT ![a] = row]
    BY DEF Insert, ExpiresAt
  <1>5. details'[a] = row /\ \A b \in Actions : b # a => details'[b] = details[b]
    BY <1>4 DEF TypeOK
  <1>6. details' \in [Actions -> Details \cup {None}]
    BY <1>2, <1>4 DEF TypeOK
  <1>7. /\ status' \in [Actions -> PendingActionStatus \cup {"absent"}]
        /\ status[a] = "absent" /\ status'[a] = "pending"
        /\ \A b \in Actions : b # a => status'[b] = status[b]
    BY DEF Insert, TypeOK, PendingActionStatus
  <1>8. QED BY <1>2, <1>3, <1>5, <1>6, <1>7

(* A proposal of the assistant.                                            *)
LEMMA ProposeStep ==
    ASSUME IInv, NEW s \in Sessions, NEW actor \in Actors, NEW a \in Actions,
           NEW type \in ProposalTypes, NEW oversize \in BOOLEAN,
           Propose(s, actor, a, type, oversize)
    PROVE  IInv'
  <1> USE DEF IInv, Propose, Begin, Goto
  <1>1. /\ status' \in [Actions -> PendingActionStatus \cup {"absent"}]
        /\ details' \in [Actions -> Details \cup {None}]
        /\ status[a] = "absent" /\ status'[a] = "pending"
        /\ details'[a] # None
        /\ details'[a].owner = actor /\ details'[a].undoOf = None
        /\ \A b \in Actions : b # a => /\ status'[b] = status[b]
                                      /\ details'[b] = details[b]
    BY InsertEffect, ConstantsAssumption
  <1>2. details[a] = None /\ rows[a] = None /\ writes[a] = 0
    BY <1>1 DEF TableInv, RowInv, WriteIsDecided, TypeOK
  <1>3. TypeOK'
    BY <1>1 DEF TypeOK, Labels, Request
  <1>4. SessionInv'
    BY <1>1, <1>2, ConstantsAssumption
    DEF TypeOK, SessionInv, HoldsAction, HoldsOriginal, Progressed, Decided,
        Labels, Request, Holding, Settling, Audited, Written, Recorded, Undoing
  <1>5. TableInv'
    <2> SUFFICES ASSUME NEW b \in Actions PROVE RowInv(b)'
      BY DEF TableInv
    <2>1. CASE b = a
      BY <1>1, <1>2, <2>1 DEF RowInv
    <2>2. CASE b # a
      <3>1. RowInv(b) /\ RowInv(a)
        BY DEF TableInv
      <3>2. details[b] # None => details[b].undoOf \in Actions \cup {None}
        BY DEF TypeOK, Details
      <3>3. QED BY <1>1, <1>2, <2>2, <3>1, <3>2 DEF RowInv
    <2>3. QED BY <2>1, <2>2
  <1>6. WriteIsDecided'
    BY <1>1, <1>2 DEF WriteIsDecided
  <1>7. ReportedMeansWritten'
    BY DEF ReportedMeansWritten
  <1>8. QED BY <1>3, <1>4, <1>5, <1>6, <1>7

(* The pending action of an undo.                                          *)
LEMMA InsertUndoStep ==
    ASSUME IInv, NEW s \in Sessions, NEW a \in Actions, InsertUndo(s, a)
    PROVE  IInv'
  <1> DEFINE original == req[s].action
             actor    == req[s].actor
  <1> USE DEF IInv, InsertUndo, Goto
  <1>1. /\ original \in Actions /\ actor \in Actors
        /\ rows[original] # None /\ details[original] # None
        /\ details[original].type \in DOMAIN UndoType
        /\ details[original].undoOf = None
        /\ details[original].owner = actor
    BY DEF TypeOK, SessionInv, HoldsOriginal, TableInv, RowInv, Request
  <1>2. PICK oversize \in BOOLEAN :
            Insert(a, actor, UndoType[details[original].type], original, oversize)
    OBVIOUS
  <1>3. UndoType[details[original].type] \in WriteActionType
    BY <1>1, UndoTypeIsType
  <1>4. /\ status' \in [Actions -> PendingActionStatus \cup {"absent"}]
        /\ details' \in [Actions -> Details \cup {None}]
        /\ status[a] = "absent" /\ status'[a] = "pending"
        /\ details'[a] # None
        /\ details'[a].owner = actor /\ details'[a].undoOf = original
        /\ \A b \in Actions : b # a => /\ status'[b] = status[b]
                                      /\ details'[b] = details[b]
    BY <1>1, <1>2, <1>3, InsertEffect
  <1>5. details[a] = None /\ rows[a] = None /\ writes[a] = 0
    BY <1>4 DEF TableInv, RowInv, WriteIsDecided, TypeOK
  <1>6. TypeOK'
    BY <1>1, <1>4 DEF TypeOK, Labels, Request
  <1>7. SessionInv'
    BY <1>1, <1>4, <1>5, ConstantsAssumption
    DEF TypeOK, SessionInv, HoldsAction, HoldsOriginal, Progressed, Decided,
        Labels, Request, Holding, Settling, Audited, Written, Recorded, Undoing
  <1>8. TableInv'
    <2> SUFFICES ASSUME NEW b \in Actions PROVE RowInv(b)'
      BY DEF TableInv
    <2>1. CASE b = a
      BY <1>1, <1>4, <1>5, <2>1 DEF RowInv
    <2>2. CASE b # a
      <3>1. RowInv(b) /\ RowInv(a)
        BY DEF TableInv
      <3>2. details[b] # None => details[b].undoOf \in Actions \cup {None}
        BY DEF TypeOK, Details
      <3>3. QED BY <1>4, <1>5, <2>2, <3>1, <3>2 DEF RowInv
    <2>3. QED BY <2>1, <2>2
  <1>9. WriteIsDecided'
    BY <1>4, <1>5 DEF WriteIsDecided
  <1>10. ReportedMeansWritten'
    BY DEF ReportedMeansWritten
  <1>11. QED BY <1>6, <1>7, <1>8, <1>9, <1>10

(* A session that starts on a row that is there already, or on none.       *)
LEMMA BeginStep ==
    ASSUME IInv, NEW s \in Sessions, NEW actor \in Actors,
           \/ RequestUndo(s, actor)
           \/ \E a \in Actions \cup {None} : \/ Click(s, actor, a, "read_confirm")
                                           \/ Click(s, actor, a, "read_cancel")
    PROVE  IInv'
  <1> USE DEF IInv, Begin, Goto, table
  <1>1. CASE RequestUndo(s, actor)
    <2>1. PICK a \in LatestReversible(actor) : Begin(s, "insert_undo", actor, a)
      BY <1>1 DEF RequestUndo
    <2>2. /\ a \in Actions
          /\ rows[a] # None
          /\ rows[a].undo # None
          /\ details[a].owner = actor
          /\ details[a].undoOf = None
          /\ details[a].type \in DOMAIN UndoType
      BY DEF LatestReversible, Reversible, TableInv, RowInv
    <2>3. TypeOK'
      BY <1>1, <2>1, <2>2 DEF RequestUndo, TypeOK, Labels, Request
    <2>4. SessionInv'
      BY <1>1, <2>1, <2>2, ConstantsAssumption
      DEF RequestUndo, TypeOK, SessionInv, HoldsAction, HoldsOriginal, Progressed, Decided,
          Labels, Request, Holding, Settling, Audited, Written, Recorded, Undoing
    <2>5. (TableInv /\ WriteIsDecided /\ ReportedMeansWritten)'
      BY <1>1 DEF RequestUndo, TableInv, RowInv, WriteIsDecided, ReportedMeansWritten
    <2>6. QED BY <2>3, <2>4, <2>5
  <1>2. ASSUME NEW a \in Actions \cup {None},
               Click(s, actor, a, "read_confirm") \/ Click(s, actor, a, "read_cancel")
        PROVE  IInv'
    <2> USE DEF Click
    <2>1. TypeOK'
      BY <1>2 DEF TypeOK, Labels, Request
    <2>2. SessionInv'
      BY <1>2
      DEF TypeOK, SessionInv, HoldsAction, HoldsOriginal, Progressed, Decided,
          Labels, Request, Holding, Settling, Audited, Written, Recorded, Undoing
    <2>3. (TableInv /\ WriteIsDecided /\ ReportedMeansWritten)'
      BY <1>2 DEF TableInv, RowInv, WriteIsDecided, ReportedMeansWritten
    <2>4. QED BY <2>1, <2>2, <2>3
  <1>3. QED BY <1>1, <1>2

(* The clock and stuttering.                                               *)
LEMMA IdleStep ==
    ASSUME IInv, Tick \/ UNCHANGED vars
    PROVE  IInv'
  BY DEF IInv, Tick, vars, table, TypeOK, SessionInv, HoldsAction, HoldsOriginal, Progressed,
         Decided, TableInv, RowInv, WriteIsDecided, ReportedMeansWritten

LEMMA NextIInv ==
    ASSUME IInv, [Next]_vars
    PROVE  IInv'
  <1>1. ASSUME NEW s \in Sessions, Proceed(s)
        PROVE  IInv'
    BY <1>1, InsertUndoStep, AuditStep, EndStep, ReadStep, StatusStep, ExecuteStep,
       SaveExecutionStep, MarkRevertedStep, FinalAuditStep DEF Proceed
  <1>2. ASSUME NEW s \in Sessions, Arrive(s)
        PROVE  IInv'
    BY <1>2, ProposeStep, BeginStep DEF Arrive
  <1>3. ASSUME NEW s \in Sessions, Abort(s)
        PROVE  IInv'
    BY <1>3, EndStep
  <1>4. QED BY <1>1, <1>2, <1>3, IdleStep DEF Next, Serve

THEOREM Inductive == Spec => []IInv
  <1>1. Init => IInv
    BY InitIInv
  <1>2. IInv /\ [Next]_vars => IInv'
    BY NextIInv
  <1>3. QED BY <1>1, <1>2, PTL DEF Spec
-----------------------------------------------------------------------------
(* Every state of Writeback is well typed.                                 *)
THEOREM TypeCorrect == Spec => []TypeOK
  <1>1. IInv => TypeOK
    BY DEF IInv
  <1>2. QED BY Inductive, <1>1, PTL

(* confirm() decides and audits, durably, before anything reaches Feishu,  *)
(* in whatever order any number of racing or dying requests proceed.       *)
THEOREM WritesAreDecided == Spec => []WriteIsDecided
  <1>1. IInv => WriteIsDecided
    BY DEF IInv
  <1>2. QED BY Inductive, <1>1, PTL

(* The execution history and the WRITE_EXECUTED events never claim a write *)
(* that did not take place.                                                *)
THEOREM ReportsAreTrue == Spec => []ReportedMeansWritten
  <1>1. IInv => ReportedMeansWritten
    BY DEF IInv
  <1>2. QED BY Inductive, <1>1, PTL

(* /undo never leads to an undo of an undo.                                *)
THEOREM UndoNeverChains == Spec => []NoUndoOfUndo
  <1>1. ASSUME IInv PROVE NoUndoOfUndo
    BY <1>1 DEF IInv, TableInv, RowInv, NoUndoOfUndo
  <1>2. QED BY Inductive, <1>1, PTL

(* No step of the code makes a decided action pending again.               *)
LEMMA DecidedStays ==
    ASSUME IInv, [Next]_vars, NEW a \in Actions, Decided(a)
    PROVE  Decided(a)'
  <1> USE DEF Decided
  <1>1. ASSUME NEW s \in Sessions, Proceed(s)
        PROVE  Decided(a)'
    <2>1. ASSUME NEW b \in Actions, InsertUndo(s, b)
          PROVE  Decided(a)'
      BY <2>1 DEF InsertUndo, Insert, IInv, TypeOK
    <2>2. ASSUME NEW st \in {"expired", "confirmed", "failed", "executed", "canceled"},
                 SetStatus(s, st)
          PROVE  Decided(a)'
      BY <2>2 DEF SetStatus, IInv, TypeOK
    <2>3. CASE UNCHANGED status
      BY <2>3
    <2>4. \/ \E b \in Actions : InsertUndo(s, b)
          \/ \E st \in {"expired", "confirmed", "failed", "executed", "canceled"} :
                 SetStatus(s, st)
          \/ UNCHANGED status
      BY <1>1 DEF Proceed, AuditCreated, SendCard, ReadForConfirm, SetExpired, SetConfirmed,
                  AuditConfirmed, Execute, SetFailed, SetExecuted, SaveExecution,
                  MarkReverted, AuditReverted, ReadForCancel, SetCanceled, AuditAndAnswer,
                  table
    <2>5. QED BY <2>1, <2>2, <2>3, <2>4
  <1>2. ASSUME NEW s \in Sessions, Arrive(s)
        PROVE  Decided(a)'
    BY <1>2 DEF Arrive, Propose, Insert, RequestUndo, Click, table, IInv, TypeOK
  <1>3. CASE Tick \/ UNCHANGED vars \/ \E s \in Sessions : Abort(s)
    BY <1>3 DEF Tick, Abort, vars, table
  <1>4. QED BY <1>1, <1>2, <1>3 DEF Next, Serve

THEOREM DecisionsAreFinal == Spec => DecisionIsFinal
  <1>1. ASSUME IInv, [Next]_vars
        PROVE  [\A a \in Actions : Decided(a) => Decided(a)']_status
    BY <1>1, DecidedStays
  <1>2. QED BY <1>1, Inductive, PTL DEF Spec, DecisionIsFinal

(* Only sessions of the user who caused an action change its status or     *)
(* write it, whoever else sees and clicks its card.                        *)
LEMMA OwnerMoves ==
    ASSUME IInv, Next, NEW a \in Actions, status[a] # "absent",
           status'[a] # status[a] \/ writes'[a] # writes[a]
    PROVE  \E s \in Sessions : /\ req[s].action = a
                               /\ req[s].actor = details[a].owner
                               /\ pc'[s] # pc[s]
  <1>1. PICK s \in Sessions :
            /\ SetExpired(s) \/ SetConfirmed(s) \/ SetFailed(s) \/ SetExecuted(s)
                  \/ SetCanceled(s) \/ Execute(s)
            /\ req[s].action = a
    <2>1. ASSUME NEW s \in Sessions, Proceed(s)
          PROVE  /\ SetExpired(s) \/ SetConfirmed(s) \/ SetFailed(s) \/ SetExecuted(s)
                       \/ SetCanceled(s) \/ Execute(s)
                 /\ req[s].action = a
      <3>1. ~ \E b \in Actions : InsertUndo(s, b)
        BY DEF InsertUndo, Insert, IInv, TypeOK
      <3>2. \/ SetExpired(s) \/ SetConfirmed(s) \/ SetFailed(s) \/ SetExecuted(s)
               \/ SetCanceled(s) \/ Execute(s)
            \/ UNCHANGED <<status, writes>>
        BY <2>1, <3>1
        DEF Proceed, AuditCreated, SendCard, ReadForConfirm, AuditConfirmed, SaveExecution,
            MarkReverted, AuditReverted, ReadForCancel, AuditAndAnswer, table
      <3>3. QED
        BY <3>2 DEF SetExpired, SetConfirmed, SetFailed, SetExecuted, SetCanceled, Execute,
                    SetStatus, IInv, TypeOK, table
    <2>2. ASSUME NEW s \in Sessions, Arrive(s)
          PROVE  FALSE
      BY <2>2 DEF Arrive, Propose, Insert, RequestUndo, Click, table, IInv, TypeOK
    <2>3. ASSUME Tick \/ \E s \in Sessions : Abort(s)
          PROVE  FALSE
      BY <2>3 DEF Tick, Abort, table
    <2>4. QED BY <2>1, <2>2, <2>3 DEF Next, Serve
  <1>2. pc[s] \in Holding
    BY <1>1 DEF SetExpired, SetConfirmed, SetFailed, SetExecuted, SetCanceled, Execute,
                Holding, Labels
  <1>3. req[s].actor = details[a].owner
    BY <1>1, <1>2 DEF IInv, SessionInv, HoldsAction
  <1>4. pc'[s] # pc[s]
    BY <1>1 DEF SetExpired, SetConfirmed, SetFailed, SetExecuted, SetCanceled, Execute, Goto,
                IInv, TypeOK
  <1>5. QED BY <1>1, <1>3, <1>4

THEOREM OwnerDecides == Spec => OnlyOwnerDecides
  <1> DEFINE Step == \A a \in Actions :
          (status[a] # "absent" /\ (status'[a] # status[a] \/ writes'[a] # writes[a]))
          => \E s \in Sessions : /\ req[s].action = a
                                 /\ req[s].actor = details[a].owner
                                 /\ pc'[s] # pc[s]
  <1>1. ASSUME IInv, [Next]_vars
        PROVE  [Step]_vars
    BY <1>1, OwnerMoves
  <1>2. QED BY <1>1, Inductive, PTL DEF Spec, OnlyOwnerDecides
-----------------------------------------------------------------------------
(* What no step undoes: a row of executions, a column of a pending action, *)
(* a write that reached Feishu.                                            *)
LEMMA KeptAcrossSteps ==
    ASSUME IInv, [Next]_vars, NEW a \in Actions
    PROVE  /\ rows[a] # None => rows'[a] # None
           /\ details[a] # None => details'[a] = details[a]
           /\ writes'[a] >= writes[a]
  <1> DEFINE Kept == /\ rows[a] # None => rows'[a] # None
                     /\ details[a] # None => details'[a] = details[a]
                     /\ writes'[a] >= writes[a]
  <1>1. ASSUME NEW b \in Actions, NEW owner, NEW type, NEW undoOf, NEW oversize,
               Insert(b, owner, type, undoOf, oversize), UNCHANGED <<rows, writes>>
        PROVE  Kept
    BY <1>1 DEF Insert, IInv, TypeOK, TableInv, RowInv
  <1>2. ASSUME NEW s \in Sessions, Proceed(s)
        PROVE  Kept
    <2>1. ASSUME NEW b \in Actions, InsertUndo(s, b)
          PROVE  Kept
      BY <1>1, <2>1 DEF InsertUndo
    <2>2. CASE Execute(s)
      BY <2>2 DEF Execute, table, IInv, TypeOK
    <2>3. CASE SaveExecution(s)
      <3>1. (IInv)' /\ req[s].action \in Actions
        BY <2>3, SaveExecutionStep
        DEF IInv, TypeOK, SessionInv, HoldsAction, Holding, Labels, Request, SaveExecution
      <3>2. pc'[s] \in Recorded \/ pc'[s] = "audit_executed"
        BY <2>3 DEF SaveExecution, Goto, Recorded, Undoing, IInv, TypeOK
      <3>3. rows'[req[s].action] # None
        BY <2>3, <3>1, <3>2 DEF SaveExecution, IInv, SessionInv, Progressed, Recorded
      <3>4. a # req[s].action => rows'[a] = rows[a]
        BY <2>3, <3>1 DEF SaveExecution, IInv, TypeOK
      <3>5. QED BY <2>3, <3>3, <3>4 DEF SaveExecution, IInv, TypeOK
    <2>4. CASE MarkReverted(s)
      <3>1. [rows[a] EXCEPT !.reverted = TRUE] \in Execution \/ rows[a] = None
        BY DEF IInv, TypeOK, Execution
      <3>2. rows[a] # None => [rows[a] EXCEPT !.reverted = TRUE] # None
        BY <3>1, ConstantsAssumption
      <3>3. rows[a] # None => rows'[a] \in {rows[a], [rows[a] EXCEPT !.reverted = TRUE]}
        BY <2>4 DEF MarkReverted, IInv, TypeOK
      <3>4. UNCHANGED <<details, writes>>
        BY <2>4 DEF MarkReverted
      <3>5. QED BY <3>2, <3>3, <3>4 DEF IInv, TypeOK
    <2>5. CASE UNCHANGED <<rows, details, writes>>
      BY <2>5 DEF IInv, TypeOK
    <2>6. \/ \E b \in Actions : InsertUndo(s, b)
          \/ Execute(s) \/ SaveExecution(s) \/ MarkReverted(s)
          \/ UNCHANGED <<rows, details, writes>>
      BY <1>2 DEF Proceed, AuditCreated, SendCard, ReadForConfirm, SetExpired, SetConfirmed,
                  AuditConfirmed, SetFailed, SetExecuted, AuditReverted, ReadForCancel,
                  SetCanceled, AuditAndAnswer, table
    <2>7. QED BY <2>1, <2>2, <2>3, <2>4, <2>5, <2>6
  <1>3. ASSUME NEW s \in Sessions, Arrive(s)
        PROVE  Kept
    <2>1. ASSUME NEW actor, NEW b \in Actions, NEW type, NEW oversize,
                 Propose(s, actor, b, type, oversize)
          PROVE  Kept
      BY <1>1, <2>1 DEF Propose
    <2>2. CASE UNCHANGED table /\ UNCHANGED writes
      BY <2>2 DEF table, IInv, TypeOK
    <2>3. QED BY <1>3, <2>1, <2>2 DEF Arrive, RequestUndo, Click
  <1>4. CASE Tick \/ UNCHANGED vars \/ \E s \in Sessions : Abort(s)
    BY <1>4 DEF Tick, Abort, vars, table, IInv, TypeOK
  <1>5. QED BY <1>2, <1>3, <1>4 DEF Next, Serve

(* The audit log only grows.                                               *)
LEMMA AuditIsKept ==
    ASSUME IInv, [Next]_vars, NEW a \in Actions
    PROVE  audit[a] \subseteq audit'[a]
  <1>1. ASSUME NEW b, NEW event, Record(b, event) PROVE audit[a] \subseteq audit'[a]
    BY <1>1 DEF Record, IInv, TypeOK
  <1>2. ASSUME NEW s \in Sessions, Proceed(s)
        PROVE  audit[a] \subseteq audit'[a]
    <2>1. CASE UNCHANGED audit
      BY <2>1
    <2>2. (\E b, event : Record(b, event)) \/ UNCHANGED audit
      BY <1>2 DEF Proceed, AuditCreated, SendCard, ReadForConfirm, SetExpired, SetConfirmed,
                  AuditConfirmed, Execute, SetFailed, SetExecuted, SaveExecution, MarkReverted,
                  AuditReverted, ReadForCancel, SetCanceled, AuditAndAnswer, InsertUndo, table
    <2>3. QED BY <1>1, <2>1, <2>2
  <1>3. (\E s \in Sessions : Arrive(s)) => UNCHANGED audit
    BY DEF Arrive, Propose, RequestUndo, Click, table
  <1>4. Tick \/ UNCHANGED vars \/ (\E s \in Sessions : Abort(s)) => UNCHANGED audit
    BY DEF Tick, Abort, vars, table
  <1>5. QED BY <1>2, <1>3, <1>4 DEF Next, Serve

(* An execution is marked reverted only by the recorded execution of one   *)
(* of its undo actions, which belongs to the same user.                    *)
THEOREM RevertedAreUndone == Spec => []RevertedMeansUndone
  <1> DEFINE Undo(u, a) == /\ rows[u] # None
                           /\ details[u].undoOf = a
                           /\ details[u].owner = details[a].owner
                           /\ writes[u] > 0
             Marked(a) == rows[a] # None /\ rows[a].reverted
  <1>1. Init => RevertedMeansUndone
    BY DEF Init, RevertedMeansUndone
  <1>2. ASSUME IInv, [Next]_vars, RevertedMeansUndone
        PROVE  RevertedMeansUndone'
    <2> SUFFICES ASSUME NEW a \in Actions, Marked(a)'
                 PROVE  \E u \in Actions : Undo(u, a)'
      BY DEF RevertedMeansUndone
    <2>1. IInv'
      BY <1>2, NextIInv
    <2>2. ASSUME NEW u \in Actions, Undo(u, a), details[a] # None
          PROVE  Undo(u, a)'
      <3>1. details[u] # None
        BY <1>2, <2>2 DEF IInv, TableInv, RowInv
      <3>2. /\ rows'[u] # None
            /\ details'[u] = details[u] /\ details'[a] = details[a]
            /\ writes'[u] >= writes[u]
        BY <1>2, <2>2, <3>1, KeptAcrossSteps
      <3>3. writes[u] \in Nat /\ writes'[u] \in Nat
        BY <1>2, <2>1 DEF IInv, TypeOK
      <3>4. QED BY <2>2, <3>2, <3>3
    <2>3. CASE Marked(a)
      <3>1. details[a] # None
        BY <1>2, <2>3 DEF IInv, TableInv, RowInv
      <3>2. QED BY <1>2, <2>2, <2>3, <3>1 DEF RevertedMeansUndone
    <2>4. CASE ~Marked(a)
      <3>1. PICK s \in Sessions : MarkReverted(s) /\ a = details[req[s].action].undoOf
        <4>1. ASSUME NEW s \in Sessions, Proceed(s)
              PROVE  MarkReverted(s) /\ a = details[req[s].action].undoOf
          <5>1. CASE SaveExecution(s)
            BY <1>2, <2>4, <5>1 DEF SaveExecution, IInv, TypeOK, Execution
          <5>2. MarkReverted(s) \/ SaveExecution(s) \/ UNCHANGED rows
            BY <4>1 DEF Proceed, InsertUndo, AuditCreated, SendCard, ReadForConfirm,
                        SetExpired, SetConfirmed, AuditConfirmed, Execute, SetFailed,
                        SetExecuted, AuditReverted, ReadForCancel, SetCanceled,
                        AuditAndAnswer, table
          <5>3. CASE MarkReverted(s)
            BY <1>2, <2>4, <5>3 DEF MarkReverted, IInv, TypeOK
          <5>4. QED BY <2>4, <5>1, <5>2, <5>3
        <4>2. ~(UNCHANGED rows)
          BY <2>4
        <4>3. ASSUME NEW s \in Sessions, Arrive(s) \/ Abort(s)
              PROVE  FALSE
          BY <4>2, <4>3 DEF Arrive, Propose, RequestUndo, Click, Abort, table
        <4>4. QED BY <1>2, <4>1, <4>2, <4>3 DEF Next, Serve, Tick, vars, table
      <3>2. /\ req[s].action \in Actions
            /\ rows[req[s].action] # None
            /\ details[req[s].action] # None
        BY <1>2, <3>1 DEF MarkReverted, IInv, TypeOK, SessionInv, HoldsAction, Progressed, TableInv,
                    RowInv, Request, Labels, Holding, Recorded, Undoing
      <3>3. details[a] # None /\ details[req[s].action].owner = details[a].owner
        <4>1. a # None
          BY ConstantsAssumption
        <4>2. QED BY <1>2, <3>1, <3>2, <4>1 DEF IInv, TableInv, RowInv
      <3>4. writes[req[s].action] > 0
        BY <1>2, <3>2 DEF IInv, ReportedMeansWritten
      <3>5. Undo(req[s].action, a)
        BY <3>1, <3>2, <3>3, <3>4
      <3>6. QED BY <2>2, <3>2, <3>3, <3>5
    <2>5. QED BY <2>3, <2>4
  <1>3. QED BY <1>1, <1>2, Inductive, PTL DEF Spec
-----------------------------------------------------------------------------
(* A session joins the race for an action only while the action is         *)
(* pending, and leaves it when it writes.                                  *)
LEMMA RaceStep ==
    ASSUME IInv, [Next]_vars, NEW a \in Actions
    PROVE  \/ Racing(a)' \subseteq Racing(a) /\ writes'[a] = writes[a]
           \/ writes'[a] = 0
           \/ \E s \in Racing(a) : /\ Racing(a)' \subseteq Racing(a) \ {s}
                                   /\ writes'[a] = writes[a] + 1
  <1> DEFINE Race  == {"set_confirmed", "audit_confirmed", "execute"}
             Still == Racing(a)' \subseteq Racing(a) /\ writes'[a] = writes[a]
             Goal  == \/ Still
                      \/ writes'[a] = 0
                      \/ \E s \in Racing(a) : /\ Racing(a)' \subseteq Racing(a) \ {s}
                                              /\ writes'[a] = writes[a] + 1
  <1>1. ASSUME NEW s \in Sessions, UNCHANGED writes,
               \A t \in Sessions : t # s => pc'[t] = pc[t] /\ req'[t] = req[t],
               pc'[s] \in Race => pc[s] \in Race /\ req'[s] = req[s]
        PROVE  Still
    BY <1>1 DEF Racing
  <1>2. ASSUME NEW s \in Sessions, Proceed(s)
        PROVE  Goal
    <2>1. CASE Execute(s)
      <3>1. CASE req[s].action = a /\ writes'[a] = writes[a] + 1
        BY <2>1, <3>1 DEF Execute, Goto, Racing, IInv, TypeOK
      <3>2. CASE writes'[a] = writes[a]
        BY <2>1, <3>2 DEF Execute, Goto, Racing, IInv, TypeOK
      <3>3. QED BY <2>1, <3>1, <3>2 DEF Execute, IInv, TypeOK
    <2>2. CASE ReadForConfirm(s)
      <3>1. CASE req[s].action = a /\ pc'[s] = "set_confirmed"
        <4>1. status[a] = "pending"
          BY <2>2, <3>1 DEF ReadForConfirm, Actionable, Return, Goto, IInv, TypeOK
        <4>2. writes[a] = 0
          BY <4>1 DEF IInv, WriteIsDecided, TypeOK
        <4>3. QED BY <2>2, <4>2 DEF ReadForConfirm
      <3>2. CASE ~(req[s].action = a /\ pc'[s] = "set_confirmed")
        BY <2>2, <3>2 DEF ReadForConfirm, Return, Goto, Racing, NoRequest, IInv, TypeOK, table
      <3>3. QED BY <3>1, <3>2
    <2>3. CASE SetConfirmed(s) \/ AuditConfirmed(s)
      BY <1>1, <2>3 DEF SetConfirmed, AuditConfirmed, Goto, IInv, TypeOK
    <2>4. CASE AuditCreated(s) \/ SendCard(s) \/ ReadForCancel(s) \/ AuditAndAnswer(s)
      BY <1>1, <2>4 DEF AuditCreated, SendCard, ReadForCancel, AuditAndAnswer, Return, Goto,
                        IInv, TypeOK
    <2>5. CASE SetExpired(s) \/ SetFailed(s) \/ SetExecuted(s) \/ SetCanceled(s)
      BY <1>1, <2>5 DEF SetExpired, SetFailed, SetExecuted, SetCanceled, Goto, IInv, TypeOK
    <2>6. CASE SaveExecution(s) \/ MarkReverted(s) \/ AuditReverted(s)
      BY <1>1, <2>6 DEF SaveExecution, MarkReverted, AuditReverted, Goto, IInv, TypeOK
    <2>7. ASSUME NEW b \in Actions, InsertUndo(s, b)
          PROVE  Goal
      BY <1>1, <2>7 DEF InsertUndo, Goto, IInv, TypeOK
    <2>8. QED BY <1>2, <2>1, <2>2, <2>3, <2>4, <2>5, <2>6, <2>7 DEF Proceed
  <1>3. ASSUME NEW s \in Sessions, Arrive(s)
        PROVE  Still
    BY <1>1, <1>3 DEF Arrive, Propose, RequestUndo, Click, Begin, Goto, IInv, TypeOK
  <1>4. ASSUME NEW s \in Sessions, Abort(s)
        PROVE  Still
    BY <1>1, <1>4 DEF Abort, Return, Goto, IInv, TypeOK
  <1>5. CASE Tick \/ UNCHANGED vars
    BY <1>5 DEF Tick, vars, Racing
  <1>6. QED BY <1>2, <1>3, <1>4, <1>5 DEF Next, Serve

(* However many clicks an action attracts, it is written at most once for  *)
(* each session that can be in flight: the unguarded UPDATE of its status  *)
(* costs duplicates only to clicks that raced for the first decision.      *)
THEOREM WritesAreBounded ==
    ASSUME IsFiniteSet(Sessions)
    PROVE  Spec => []WritesBoundedByRace
  <1>1. ASSUME NEW a \in Actions
        PROVE  IsFiniteSet(Racing(a)) /\ Cardinality(Racing(a)) <= Cardinality(Sessions)
    BY FS_Subset DEF Racing
  <1>2. ASSUME NEW a \in Actions
        PROVE  /\ IsFiniteSet(Racing(a)')
               /\ Cardinality(Racing(a)') <= Cardinality(Sessions)
    BY FS_Subset DEF Racing
  <1>3. Init => WritesBoundedByRace
    BY <1>1, FS_CardinalityType DEF Init, WritesBoundedByRace
  <1>4. ASSUME IInv, [Next]_vars, WritesBoundedByRace
        PROVE  WritesBoundedByRace'
    <2> SUFFICES ASSUME NEW a \in Actions
                 PROVE  writes'[a] + Cardinality(Racing(a)') <= Cardinality(Sessions)
      BY DEF WritesBoundedByRace
    <2>1. /\ writes[a] \in Nat
          /\ Cardinality(Racing(a)) \in Nat /\ Cardinality(Racing(a)') \in Nat
          /\ Cardinality(Sessions) \in Nat
          /\ writes[a] + Cardinality(Racing(a)) <= Cardinality(Sessions)
      BY <1>1, <1>2, <1>4, FS_CardinalityType DEF IInv, TypeOK, WritesBoundedByRace
    <2>2. CASE Racing(a)' \subseteq Racing(a) /\ writes'[a] = writes[a]
      <3>1. Cardinality(Racing(a)') <= Cardinality(Racing(a))
        BY <1>1, <2>2, FS_Subset
      <3>2. QED BY <2>1, <2>2, <3>1
    <2>3. CASE writes'[a] = 0
      BY <1>2, <2>1, <2>3
    <2>4. ASSUME NEW s \in Racing(a), Racing(a)' \subseteq Racing(a) \ {s},
                 writes'[a] = writes[a] + 1
          PROVE  writes'[a] + Cardinality(Racing(a)') <= Cardinality(Sessions)
      <3>1. /\ IsFiniteSet(Racing(a) \ {s})
            /\ Cardinality(Racing(a) \ {s}) = Cardinality(Racing(a)) - 1
        BY <1>1, FS_RemoveElement
      <3>2. Cardinality(Racing(a)') <= Cardinality(Racing(a) \ {s})
        BY <2>4, <3>1, FS_Subset
      <3>3. QED BY <2>1, <2>4, <3>1, <3>2
    <2>5. QED BY <1>4, <2>2, <2>3, <2>4, RaceStep
  <1>5. QED BY <1>3, <1>4, Inductive, PTL DEF Spec
-----------------------------------------------------------------------------
(* What Writeback guarantees when requests are handled one after the other *)
(* (Serial): it implements WritebackLifecycle, wherever sessions die.      *)

(* The steps of Proceed that change neither a status nor a count.          *)
LEMMA OtherSteps ==
    ASSUME NEW s, Proceed(s)
    PROVE  \/ SetExpired(s) \/ SetConfirmed(s) \/ SetFailed(s) \/ SetExecuted(s)
           \/ SetCanceled(s) \/ Execute(s) \/ \E a \in Actions : InsertUndo(s, a)
           \/ UNCHANGED <<status, writes>>
  BY DEF Proceed, AuditCreated, SendCard, ReadForConfirm, AuditConfirmed, SaveExecution,
         MarkReverted, AuditReverted, ReadForCancel, AuditAndAnswer, table

(* Every step is a step of the lifecycle or changes nothing it can see.    *)
LEMMA LifecycleStep ==
    ASSUME IInv, SerialInv, [Next]_vars
    PROVE  [Lifecycle!Next]_(Lifecycle!vars)
  <1> USE DEF Lifecycle!Next, Lifecycle!vars, Lifecycle!Offer, Lifecycle!Confirm,
              Lifecycle!Cancel, Lifecycle!Expire, Lifecycle!Fail, Lifecycle!Succeed,
              Lifecycle!Write, Lifecycle!Move
  <1>1. ASSUME NEW a \in Actions, NEW owner, NEW type, NEW undoOf, NEW oversize,
               Insert(a, owner, type, undoOf, oversize), UNCHANGED writes
        PROVE  Lifecycle!Next
    BY <1>1 DEF Insert
  <1>2. ASSUME NEW s \in Sessions, Proceed(s)
        PROVE  [Lifecycle!Next]_(Lifecycle!vars)
    <2>1. ASSUME NEW a \in Actions, InsertUndo(s, a)
          PROVE  Lifecycle!Next
      BY <1>1, <2>1 DEF InsertUndo
    <2>2. CASE SetExpired(s) \/ SetConfirmed(s) \/ SetCanceled(s)
               \/ SetFailed(s) \/ SetExecuted(s) \/ Execute(s)
      <3>1. req[s].action \in Actions
        BY <2>2 DEF IInv, TypeOK, SessionInv, HoldsAction, Holding, Labels, Request,
                    SetExpired, SetConfirmed, SetCanceled, SetFailed, SetExecuted, Execute
      <3>2. Alone(s)
        BY DEF SerialInv
      <3>3. CASE SetExpired(s) \/ SetConfirmed(s) \/ SetCanceled(s)
        BY <3>1, <3>2, <3>3 DEF Alone, SetExpired, SetConfirmed, SetCanceled, SetStatus
      <3>4. CASE SetFailed(s) \/ SetExecuted(s)
        BY <3>1, <3>2, <3>4 DEF Alone, SetFailed, SetExecuted, SetStatus
      <3>5. CASE Execute(s)
        BY <3>1, <3>2, <3>5 DEF Alone, Execute, table
      <3>6. QED BY <2>2, <3>3, <3>4, <3>5
    <2>3. CASE UNCHANGED <<status, writes>>
      BY <2>3
    <2>4. QED BY <1>2, <2>1, <2>2, <2>3, OtherSteps
  <1>3. ASSUME NEW s \in Sessions, Arrive(s)
        PROVE  [Lifecycle!Next]_(Lifecycle!vars)
    BY <1>1, <1>3 DEF Arrive, Propose, RequestUndo, Click, table
  <1>4. CASE Tick \/ UNCHANGED vars \/ \E s \in Sessions : Abort(s)
    BY <1>4 DEF Tick, Abort, vars, table
  <1>5. QED BY <1>2, <1>3, <1>4 DEF Next, Serve

(* The lifecycle keeps the two promises of its header.                     *)
LEMMA LifecyclePromises ==
    ASSUME TypeOK, AtMostOneWrite, StatusTellsTheTruth, [Lifecycle!Next]_(Lifecycle!vars),
           \A a \in Actions : status[a] = "absent" => writes[a] = 0
    PROVE  AtMostOneWrite' /\ StatusTellsTheTruth'
  BY DEF TypeOK, AtMostOneWrite, StatusTellsTheTruth, Lifecycle!Next, Lifecycle!vars,
         Lifecycle!Offer, Lifecycle!Confirm, Lifecycle!Cancel, Lifecycle!Expire,
         Lifecycle!Fail, Lifecycle!Succeed, Lifecycle!Write, Lifecycle!Move

(* What the only session knows stays true, for nobody else moves.          *)
LEMMA AloneStep ==
    ASSUME Serial, IInv, SerialInv, [Next]_vars, NEW s \in Sessions
    PROVE  Alone(s)'
  <1> USE DEF Alone
  <1>1. CASE Proceed(s)
    <2>1. CASE ReadForConfirm(s)
      BY <2>1 DEF ReadForConfirm, Actionable, Return, Goto, IInv, TypeOK, table
    <2>2. CASE ReadForCancel(s)
      BY <2>2 DEF ReadForCancel, Actionable, Return, Goto, IInv, TypeOK, table
    <2>3. CASE SetConfirmed(s)
      <3>1. writes[req[s].action] = 0 /\ req[s].action \in Actions
        BY <2>3 DEF SetConfirmed, SerialInv, StatusTellsTheTruth, IInv, TypeOK, SessionInv,
                    HoldsAction, Holding, Labels, Request
      <3>2. QED BY <2>3, <3>1 DEF SetConfirmed, SetStatus, Goto, IInv, TypeOK
    <2>4. CASE AuditConfirmed(s)
      BY <2>4 DEF AuditConfirmed, Goto, SerialInv, IInv, TypeOK
    <2>5. CASE Execute(s)
      <3>1. writes[req[s].action] = 0 /\ req[s].action \in Actions
        BY <2>5 DEF Execute, SerialInv, IInv, TypeOK, SessionInv, HoldsAction, Holding, Labels,
                    Request
      <3>2. QED BY <2>5, <3>1 DEF Execute, Goto, SerialInv, IInv, TypeOK, table
    <2>6. CASE \/ SetExpired(s) \/ SetFailed(s) \/ SetExecuted(s) \/ SetCanceled(s)
               \/ AuditCreated(s) \/ SendCard(s) \/ SaveExecution(s) \/ MarkReverted(s)
               \/ AuditReverted(s) \/ AuditAndAnswer(s)
      BY <2>6 DEF SetExpired, SetFailed, SetExecuted, SetCanceled, AuditCreated, SendCard,
                  SaveExecution, MarkReverted, AuditReverted, AuditAndAnswer, Goto, Return,
                  IInv, TypeOK
    <2>7. CASE \E a \in Actions : InsertUndo(s, a)
      BY <2>7 DEF InsertUndo, Goto, IInv, TypeOK
    <2>8. QED BY <1>1, <2>1, <2>2, <2>3, <2>4, <2>5, <2>6, <2>7 DEF Proceed
  <1>2. CASE Arrive(s)
    BY <1>2 DEF Arrive, Propose, RequestUndo, Click, Begin, Goto, IInv, TypeOK
  <1>3. CASE Abort(s)
    BY <1>3 DEF Abort, Return, Goto, IInv, TypeOK
  <1>4. CASE Tick \/ UNCHANGED vars
    BY <1>4 DEF Tick, vars, table, SerialInv
  <1>5. QED BY <1>1, <1>2, <1>3, <1>4 DEF Next, Serve, Serial

THEOREM SerialInductive == ASSUME Serial PROVE Spec => []SerialInv
  <1>1. Init => SerialInv
    BY DEF Init, SerialInv, AtMostOneWrite, StatusTellsTheTruth, Alone
  <1>2. IInv /\ SerialInv /\ [Next]_vars => SerialInv'
    <2> SUFFICES ASSUME IInv, SerialInv, [Next]_vars PROVE SerialInv'
      OBVIOUS
    <2>1. \A a \in Actions : status[a] = "absent" => writes[a] = 0
      BY DEF IInv, WriteIsDecided, TypeOK
    <2>2. AtMostOneWrite' /\ StatusTellsTheTruth'
      BY <2>1, LifecycleStep, LifecyclePromises DEF IInv, SerialInv
    <2>3. \A s \in Sessions : Alone(s)'
      BY AloneStep
    <2>4. QED BY <2>2, <2>3 DEF SerialInv
  <1>3. QED BY <1>1, <1>2, Inductive, PTL DEF Spec

(* A confirmed proposal is written at most once, however often its card is *)
(* clicked and wherever the handling of a click breaks off.                *)
THEOREM SerialWritesOnce == ASSUME Serial PROVE Spec => []AtMostOneWrite
  <1>1. SerialInv => AtMostOneWrite
    BY DEF SerialInv
  <1>2. QED BY <1>1, SerialInductive, PTL

(* A canceled or expired action was not written, an executed one was.      *)
THEOREM SerialStatusIsTrue == ASSUME Serial PROVE Spec => []StatusTellsTheTruth
  <1>1. SerialInv => StatusTellsTheTruth
    BY DEF SerialInv
  <1>2. QED BY <1>1, SerialInductive, PTL

(* Seen through its status and its writes alone, every action lives the    *)
(* life that WritebackLifecycle allows.                                    *)
THEOREM SerialRefinement == ASSUME Serial PROVE Spec => LifecycleSpec
  <1>1. Init => Lifecycle!Init
    BY DEF Init, Lifecycle!Init
  <1>2. IInv /\ SerialInv /\ [Next]_vars => [Lifecycle!Next]_(Lifecycle!vars)
    BY LifecycleStep
  <1>3. QED
    BY <1>1, <1>2, Inductive, SerialInductive, PTL DEF Spec, LifecycleSpec, Lifecycle!Spec
=============================================================================
