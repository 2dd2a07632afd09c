--------------------------- MODULE WritebackPlanner ---------------------------
(* WritebackPlanner.apply of src/src/flago/agent/assistant.py: from a request, the
   resources read for it and the model's answer to the write actions that will be
   shown for confirmation.

   A text of the user is a record of what the code finds in it; see PlainText.  A
   prose (the words of an answer) likewise; see PlainProse.  A content
   is [from, lines]: a quotation, the words before the verb, a plan, or the lines
   of the answer.  Resources and results are those of ResourceReader. *)
EXTENDS ResourceReader, ModelText

Content(from, lines) == [from |-> from, lines |-> lines]
NoContent == Content("none", {})

NoPlace == [ref |-> NoCell, rowcol |-> <<>>, behind |-> FALSE, means |-> <<0, 0>>]
Silent == [asks |-> "none", mentions |-> [f \in FieldTitles |-> {}], id |-> "none",
           pair |-> NoPair, row |-> 0]

(* edit is the word of change: "replace" is in the list that forbids appending,
   "modify" is not, though it asks for a write as well. *)
PlainText ==
    [urls |-> <<>>, intent |-> FALSE, clarify |-> FALSE, edit |-> "none", append |-> FALSE,
     start |-> FALSE, asset |-> FALSE, quoted |-> NoContent, unquoted |-> NoContent,
     place |-> NoPlace, page |-> [kind |-> "none", numeral |-> Arabic(0), means |-> 0],
     about |-> Silent, search |-> FALSE, links |-> <<>>, targets |-> <<>>]

(* An answer is [plans, twice, prose, left, kept, links]: prose is all of it, left what
   is left when the marked blocks are taken out (with whatever stands between the first
   fence and such a block), and kept tells whether the plans are still in it: a block
   that is fenced otherwise, or followed by text, is not taken out.

   label and natural are the operation the answer states in a field or in its
   words, section whether it has a preview section, setting whether it says that a
   field "is set to", dismissed whether it asks to write by hand or to confirm. *)
PlainProse ==
    [lines |-> <<>>, label |-> "none", natural |-> "none", section |-> FALSE,
     setting |-> FALSE, dismissed |-> FALSE, append |-> FALSE, cell |-> NoCell,
     about |-> Silent]

(* What these records may hold. *)
Operations == {"create", "update", "delete", "read", "none"}
ContentType == [from : {"none", "quoted", "unquoted", "plan"}, lines : SUBSET Nat]
SaysType ==
    [asks : STRING, mentions : [FieldTitles -> SUBSET DOMAIN ModelWeight], id : STRING,
     pair : {NoPair} \cup [field : FieldTitles \cup {"any"}, value : STRING], row : Int]
LinkedRefType == {r \in KnownRefType : r.kind \in {"link", "wiki", "web"}}
TextType ==
    [urls : Seq(LinkedRefType), intent : BOOLEAN, clarify : BOOLEAN,
     edit : {"none", "replace", "modify"}, append : BOOLEAN, start : BOOLEAN, asset : BOOLEAN,
     quoted : ContentType, unquoted : ContentType,
     place : PlaceType,
     page : [kind : STRING, numeral : NumeralType, means : Nat],
     about : SaysType, search : BOOLEAN, links : Seq(Seq(STRING)), targets : Seq(Seq(STRING))]
ProseType ==
    [lines : Seq(LineKinds), label : Operations, natural : Operations, section : BOOLEAN,
     setting : BOOLEAN, dismissed : BOOLEAN, append : BOOLEAN, cell : CellType,
     about : SaysType]
PlanType ==
    [operation : Operations, type : {"doc", "sheet", "bitable", "message", "none"},
     content : ContentType, cell : CellType, record : STRING, row : Int, field : STRING,
     preview : BOOLEAN]

-------------------------------------------------------------------------------
(* The text a write is read from: the request, or an earlier message of the same
   user that asked for a write and that this one completes. *)
HasWritebackIntent(text) == text.intent

Merge(earlier, later) ==
    [earlier EXCEPT !.urls = @ \o later.urls,
                    !.start = @ \/ later.start,
                    !.asset = @ \/ later.asset,
                    !.edit = IF @ = "replace" THEN @ ELSE later.edit,
                    !.quoted = IF @ = NoContent THEN later.quoted ELSE @]

ContextualWritebackText(request) ==
    LET earlier == {i \in DOMAIN request.messages :
                       request.messages[i].own /\ HasWritebackIntent(request.messages[i].text)}
    IN  IF HasWritebackIntent(request.text) \/ ~request.text.clarify \/ earlier = {}
        THEN request.text
        ELSE Merge(request.messages[Max(earlier)].text, request.text)

HasReplacementOrDeleteIntent(text) == text.edit = "replace"

PrefersAppendOrCreate(text, prose) == text.append \/ prose.append

OfAnswer(lines) == IF lines = {} THEN NoContent ELSE Content("answer", lines)

ContentOr(content, otherwise) == IF content # NoContent THEN content ELSE otherwise

WritebackContent(text, prose) ==
    ContentOr(text.quoted, ContentOr(OfAnswer(GeneratedContent(prose.lines)), text.unquoted))

(* A plan of which the operation or the type is not known is left out.  A block of
   plans that is fenced and marked is found by both patterns, and counts twice. *)
ModelPlans(answer) ==
    LET Known(p) == "none" \notin {p.operation, p.type}
        known == Those(answer.plans, {i \in DOMAIN answer.plans : Known(answer.plans[i])})
    IN  IF answer.twice THEN known \o known ELSE known

(* A single plan states the operation.  Else a labelled line or a table does, or
   the words of the preview section; the words of a setting mean an update. *)
ModelOperation(plans, prose) ==
    IF Len(plans) = 1 THEN plans[1].operation
    ELSE IF prose.label # "none" THEN prose.label
    ELSE IF prose.natural # "none" THEN prose.natural
    ELSE IF prose.setting THEN "update" ELSE "none"

-------------------------------------------------------------------------------
(* The resource that is written: the first of its type that was read, else the
   first link of that type that needs no lookup.  A table is taken even when
   reading it failed. *)
FirstWritable(request, type) ==
    LET read == SelectInSeq(request.results,
                    LAMBDA r : r.ref.type = type /\ (r.error => type = "bitable"))
        link == SelectInSeq(request.refs, LAMBDA r : r.type = type /\ r.kind # "wiki")
    IN  IF read > 0 THEN request.results[read].ref
        ELSE IF link > 0 THEN request.refs[link] ELSE NoRef

TableOf(request, ref) ==
    LET i == SelectInSeq(request.results, LAMBDA r : r.ref.type = "bitable" /\ r.ref.id = ref.id)
    IN  IF i = 0 THEN NoTable ELSE request.results[i].table

(* The row below the data of the sheet; 1 when it was not read. *)
SheetAppendRow(request, ref) ==
    LET i == SelectInSeq(request.results,
                 LAMBDA r : r.ref.type = "sheet" /\ r.ref.id = ref.id /\ r.append > 0)
    IN  IF i = 0 THEN 1 ELSE request.results[i].append

CellOr(cell, otherwise) == IF cell # NoCell THEN cell ELSE otherwise

SheetWriteTarget(text, prose) == CellOr(SheetRangeFromText(text.place), prose.cell)

(* A range in the link, a named cell, else the row below the data, unless the
   request is to replace something. *)
SheetWriteRange(request, ref, prose) ==
    CellOr(ref.hint,
           CellOr(SheetWriteTarget(request.text, prose),
                  IF HasReplacementOrDeleteIntent(request.text) THEN NoCell
                  ELSE [column |-> <<0>>, row |-> SheetAppendRow(request, ref)]))

-------------------------------------------------------------------------------
(* Proposals.  preview is what the shown text says; a text of the model's own
   ("model") is one it made for the plan it stated. *)
Shows(by, p) == [by |-> by, start |-> p.start, cell |-> p.cell, record |-> p.record,
                 field |-> p.field, content |-> p.content]
Previewed(p) == [p EXCEPT !.preview = Shows("code", p)]

Proposal(type, ref, content) ==
    Previewed([type |-> type, ref |-> ref.id, sheet |-> ref.sheet, start |-> FALSE,
               cell |-> NoCell, record |-> "none", field |-> "none", content |-> content,
               preview |-> <<>>, shown |-> "none"])

Worded(plan, p) == IF plan.preview THEN [p EXCEPT !.preview = Shows("model", p)] ELSE Previewed(p)

PlannedCell(request, plan, ref) ==
    CellOr(plan.cell, SheetWriteRange(request, ref, PlainProse))

PlannedRecord(request, plan, ref) ==
    LET table == TableOf(request, ref)
        at == {r \in ToSet(table.records) : r.index = plan.row}
    IN  IF plan.record # "none" THEN plan.record
        ELSE IF table.records = <<>> THEN "none"
        ELSE IF plan.row = -1 THEN LastRecord(table).id
        ELSE OnlyMatch(at)

PlannedField(request, plan, ref) ==
    NameOr(plan.field, InferWriteField(request.text.about, Silent, TableOf(request, ref)))

(* What a plan of the model proposes; <<>> when it cannot be carried out.  A plan
   for a document appends whatever its operation is, unless it only reads. *)
DocPlanProposal(plan, ref) ==
    IF plan.operation = "read" \/ plan.content = NoContent \/ ref = NoRef THEN <<>>
    ELSE <<Worded(plan, Proposal("doc_append", ref, plan.content))>>

SheetPlanProposal(plan, ref, cell) ==
    IF \/ plan.operation = "read" \/ plan.content = NoContent \/ ref = NoRef
       \/ cell = NoCell
    THEN <<>>
    ELSE <<Worded(plan, [Proposal("sheet_write", ref, plan.content) EXCEPT !.cell = cell])>>

BitablePlanProposal(plan, ref, record, field) ==
    IF \/ ref = NoRef \/ ref.table = "none"
       \/ plan.operation = "read"
       \/ plan.operation \in {"delete", "update"} /\ record = "none"
       \/ plan.operation # "delete" /\ (plan.content = NoContent \/ field = "none")
    THEN <<>>
    ELSE <<Worded(plan,
             CASE plan.operation = "delete" ->
                    [Proposal("bitable_delete", ref, NoContent) EXCEPT !.record = record]
               [] plan.operation = "update" ->
                    [Proposal("bitable_update", ref, plan.content)
                       EXCEPT !.record = record, !.field = field]
               [] OTHER ->
                    [Proposal("bitable_create", ref, plan.content) EXCEPT !.field = field])>>

MessagePlanProposal(plan) ==
    IF plan.operation = "read" \/ plan.content = NoContent THEN <<>>
    ELSE <<Worded(plan, Proposal("message_send", [NoRef EXCEPT !.id = "chat"], plan.content))>>

PlanProposalTo(request, plan, ref) ==
    CASE plan.type = "doc" -> DocPlanProposal(plan, ref)
      [] plan.type = "sheet" -> SheetPlanProposal(plan, ref, PlannedCell(request, plan, ref))
      [] plan.type = "bitable" -> BitablePlanProposal(plan, ref, PlannedRecord(request, plan, ref),
                                                      PlannedField(request, plan, ref))
      [] plan.type = "message" -> MessagePlanProposal(plan)

PlanProposal(request, plan) == PlanProposalTo(request, plan, FirstWritable(request, plan.type))

-------------------------------------------------------------------------------
(* What the request itself proposes when no plan does: into the first document,
   else the first sheet, else the first table. *)
InferDoc(text, ref, content, operation) ==
    IF operation = "delete" \/ HasReplacementOrDeleteIntent(text) \/ text.asset THEN <<>>
    ELSE <<Previewed([Proposal("doc_append", ref, content) EXCEPT !.start = text.start])>>

InferSheet(ref, content, cell) ==
    IF cell = NoCell THEN <<>>
    ELSE <<Previewed([Proposal("sheet_write", ref, content) EXCEPT !.cell = cell])>>

MayUpdate(text, prose, operation) ==
    \/ operation = "update"
    \/ /\ operation \notin {"create", "delete", "update"}
       /\ PrefersAppendOrCreate(text, prose) => HasReplacementOrDeleteIntent(text)

MayCreate(text, operation) ==
    operation \notin {"update", "delete"} /\ ~HasReplacementOrDeleteIntent(text)

UpdateOf(ref, content, update) ==
    Previewed([Proposal("bitable_update", ref, content)
                 EXCEPT !.record = update.record, !.field = update.field])

(* An update when one may be made and its record is found, else a new record. *)
InferBitable(ref, content, update, field) ==
    IF update # NoUpdate THEN <<UpdateOf(ref, content, update)>>
    ELSE IF field = "none" THEN <<>>
    ELSE <<Previewed([Proposal("bitable_create", ref, content) EXCEPT !.field = field])>>

InferredUpdate(request, prose, operation, table) ==
    IF MayUpdate(request.text, prose, operation)
    THEN BitableUpdatePlan(request.text.about, prose.about, table) ELSE NoUpdate

InferredField(request, prose, operation, table) ==
    IF MayCreate(request.text, operation)
    THEN InferWriteField(request.text.about, prose.about, table) ELSE "none"

InferInto(request, text, content, prose, operation) ==
    LET doc == FirstWritable(request, "doc")
        sheet == FirstWritable(request, "sheet")
        bitable == FirstWritable(request, "bitable")
        table == TableOf(request, bitable)
    IN  IF ~HasWritebackIntent(text) \/ content = NoContent THEN <<>>
        ELSE IF doc # NoRef THEN InferDoc(text, doc, content, operation)
        ELSE IF sheet # NoRef
             THEN InferSheet(sheet, content, SheetWriteRange(request, sheet, prose))
        ELSE IF bitable # NoRef /\ bitable.table # "none"
             THEN InferBitable(bitable, content,
                               InferredUpdate(request, prose, operation, table),
                               InferredField(request, prose, operation, table))
        ELSE <<>>

InferWriteback(request, answer) ==
    LET text == ContextualWritebackText(request)
    IN  InferInto(request, text, WritebackContent(text, answer.prose), answer.prose,
                  ModelOperation(ModelPlans(answer), answer.prose))

(* Of steps that make one proposal or none, the proposals. *)
Present(made) ==
    LET some == Those(made, {i \in DOMAIN made : made[i] # <<>>})
    IN  [i \in DOMAIN some |-> some[i][1]]

ProposalsOr(planned, inferred) == IF planned # <<>> THEN planned ELSE inferred

PlannedProposals(request, plans) ==
    Present([i \in DOMAIN plans |-> PlanProposal(request, plans[i])])

InferWritebackProposals(request, answer) ==
    ProposalsOr(PlannedProposals(request, ModelPlans(answer)), InferWriteback(request, answer))

-------------------------------------------------------------------------------
(* After a proposal was made the reply is what is left of the answer and a note that
   asks to confirm; only the note when the answer was dismissed.  What is read from
   the answer afterwards is read from that reply: a single plan that is still in it
   states the operation as before, else its words count from the preview section on,
   and the note itself has one. *)
Note == <<"blank", "stop">>

PlansLeft(answer) == IF answer.kept THEN ModelPlans(answer) ELSE <<>>

RewrittenProse(answer) ==
    IF answer.left.dismissed THEN PlainProse
    ELSE [answer.left EXCEPT !.lines = @ \o Note,
                             !.natural = IF answer.left.section THEN @ ELSE "none",
                             !.label = IF Len(PlansLeft(answer)) = 1
                                       THEN PlansLeft(answer)[1].operation ELSE @]

WithContent(p, content) ==
    IF p.content = content THEN p ELSE Previewed([p EXCEPT !.content = content])

HasContent(p) == p.type \notin {"bitable_delete", "message_send"}

(* A quotation replaces the content of every proposal that has one; else the text
   the answer marks as the one to write does. *)
NormalizeContent(request, p, prose) ==
    IF ~HasContent(p) THEN p
    ELSE WithContent(p, ContentOr(ContextualWritebackText(request).quoted,
                                  ContentOr(OfAnswer(GeneratedContent(prose.lines)), p.content)))

(* mutant of NormalizeDocTarget: a place next to a file is overlooked in a plan *)
NormalizeDocAnywhere(request, p) ==
    IF ContextualWritebackText(request).start THEN <<Previewed([p EXCEPT !.start = TRUE])>>
    ELSE <<p>>

(* Next to a file inside a document nothing can be written; at its start it can. *)
NormalizeDocTarget(request, p) ==
    LET text == ContextualWritebackText(request)
    IN  IF text.asset THEN <<>>
        ELSE IF text.start THEN <<Previewed([p EXCEPT !.start = TRUE])>>
        ELSE <<p>>

(* mutant of WithCell: the preview still names the old cell *)
WithCellOldPreview(p, cell) ==
    IF cell \in {NoCell, p.cell} THEN p ELSE [p EXCEPT !.cell = cell]

WithCell(p, cell) ==
    IF cell \in {NoCell, p.cell} THEN p ELSE Previewed([p EXCEPT !.cell = cell])

NormalizeSheetTarget(request, p, prose) == WithCell(p, SheetWriteTarget(request.text, prose))

(* mutant of Created: a kind of action nobody carries out *)
CreatedUnderOldName(p) == Previewed([p EXCEPT !.type = "bitable_append", !.record = "none"])

Created(p) ==
    IF p.type = "bitable_create" THEN p
    ELSE Previewed([p EXCEPT !.type = "bitable_create", !.record = "none"])

Updated(p, ref, update) ==
    IF update = NoUpdate THEN p ELSE UpdateOf(ref, p.content, update)

NormalizeBitableTarget(request, p, prose, ref) ==
    LET operation == ModelOperation(<<>>, prose)
    IN  IF p.type = "bitable_delete" \/ ref = NoRef \/ ref.table = "none" \/ operation = "delete" THEN p
        ELSE IF \/ operation = "create"
                \/ /\ operation # "update"
                   /\ PrefersAppendOrCreate(request.text, prose)
                   /\ ~HasReplacementOrDeleteIntent(request.text)
        THEN Created(p)
        ELSE Updated(p, ref, BitableUpdatePlan(request.text.about, prose.about, TableOf(request, ref)))

NormalizeTarget(request, p, prose) ==
    CASE p.type = "doc_append" -> NormalizeDocTarget(request, p)
      [] p.type = "sheet_write" -> <<NormalizeSheetTarget(request, p, prose)>>
      [] p.type = "message_send" -> <<p>>
      [] OTHER -> <<NormalizeBitableTarget(request, p, prose, FirstWritable(request, "bitable"))>>

Normalize(request, p, prose) ==
    NormalizeTarget(request, NormalizeContent(request, p, prose), prose)

NormalizeExplicitTargets(request, proposals, prose) ==
    Present([i \in DOMAIN proposals |-> Normalize(request, proposals[i], prose)])

(* The card shows the title and the link of the resource, when it is a known one. *)
TypeOfAction(p) ==
    CASE p.type = "doc_append" -> "doc"
      [] p.type = "sheet_write" -> "sheet"
      [] p.type = "message_send" -> "chat"
      [] OTHER -> "bitable"

DisplayTarget(request, p) ==
    LET known == {[id |-> request.results[i].ref.id, type |-> request.results[i].ref.type] :
                     i \in DOMAIN request.results}
                 \cup {[id |-> request.refs[i].id, type |-> request.refs[i].type] :
                     i \in DOMAIN request.refs}
    IN  IF [id |-> p.ref, type |-> TypeOfAction(p)] \in known THEN [p EXCEPT !.shown = p.ref]
        ELSE p

Displayed(request, made) == [i \in DOMAIN made |-> DisplayTarget(request, made[i])]

Apply(request, answer) ==
    Displayed(request, NormalizeExplicitTargets(request, InferWritebackProposals(request, answer),
                                                RewrittenProse(answer)))

(* The reply when nothing is proposed because of the place that was asked for. *)
UnsupportedPlace(request) ==
    ContextualWritebackText(request).asset /\ FirstWritable(request, "doc") # NoRef
===============================================================================
