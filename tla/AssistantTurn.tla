----------------------------- MODULE AssistantTurn -----------------------------
(* One request of the assistant that answers by default (Assistant.handle and the
   resource search of src/src/flago/agent/assistant.py, with the plans of
   src/src/flago/agent/search_planner.py): links are taken from the message or
   searched for, read, put before the model with the message, and the answer is
   turned into a reply and write proposals (WritebackPlanner).

   A request names the world it is made in (the resources there are), what searching
   finds there, and carries the answers the model may give.  The search planner and the failures of the
   search are free. *)
EXTENDS WritebackPlanner

CONSTANTS Requests,      \* the families of requests looked at
          Worlds, Indexes,  \* what there is and what is found, by name
          PlannerPlans,  \* what the model may plan: [should, queries]
          SearchLimit, ReadLimit, MaxMultiQueryResults, MaxMergedQueries,
          MaxPlannerQueries

ASSUME LimitsAssumption ==
    /\ {SearchLimit, ReadLimit, MaxMultiQueryResults} \subseteq Nat \ {0}
    /\ {MaxMergedQueries, MaxPlannerQueries} \subseteq Nat \ {0}

AnswerType ==
    [plans : Seq(PlanType), twice : BOOLEAN, prose : ProseType, left : ProseType,
     kept : BOOLEAN, links : SUBSET [token : STRING, type : STRING]]

(* refs and results are what the turn fills in, answers what the model may say. *)
RequestType ==
    [text : TextType, messages : Seq([text : TextType, own : BOOLEAN]), private : BOOLEAN,
     searcher : BOOLEAN, writeback : BOOLEAN, refs : Seq(KnownRefType), results : Seq(ResultType),
     world : DOMAIN Worlds, index : DOMAIN Indexes, answers : SUBSET AnswerType]

ASSUME RequestsAssumption ==
    \A family \in Requests : \A r \in family :
        r \in RequestType /\ r.refs = <<>> /\ r.results = <<>>

(* The annotations say what the words mean that the code sees, and leave open what
   is meant by the others; a link may name a range of cells but no page. *)
ASSUME MeansAssumption ==
    \A family \in Requests : \A r \in family :
        /\ PlaceIsMeant(r.text.place) /\ PageIsMeant(r.text.page)
        /\ \A text \in {r.text} \cup {r.messages[i].text : i \in DOMAIN r.messages} :
              \A i \in DOMAIN text.urls : text.urls[i].page = NoPage

(* The sheets of a spreadsheet have ids of their own. *)
ASSUME WorldsAssumption ==
    \A name \in DOMAIN Worlds :
        /\ Worlds[name] \in [Resources -> RemoteType]
        /\ \A id \in Resources :
              LET sheets == Worlds[name][id].sheets
              IN  \A i, j \in DOMAIN sheets : sheets[i].id = sheets[j].id => i = j

ASSUME IndexAssumption ==
    \A name \in DOMAIN Indexes : \A variant \in DOMAIN Indexes[name] :
        /\ Indexes[name][variant].docs \in Seq([id : Resources, type : STRING])
        /\ Indexes[name][variant].wiki \in
               Seq([object : Resources \cup {"none"}, node : Resources, type : STRING])

VARIABLES request,   \* with .refs and .results, which the turn fills in
          phase, todo, found, audits, asked, reply, proposals

vars == <<request, phase, todo, found, audits, asked, reply, proposals>>

NoPlan == [should |-> FALSE, queries |-> <<>>]
NoReply == [kind |-> "none", links |-> {}]

(* The request and what was found for it so far. *)
Init ==
    /\ \E family \in Requests : request \in family
    /\ phase = "start"
    /\ todo = <<>>
    /\ found = <<>>
    /\ audits = <<>>
    /\ asked = FALSE
    /\ reply = NoReply
    /\ proposals = <<>>

-------------------------------------------------------------------------------
(* The search plan. *)

(* What is kept of the queries the model states: each once, not more than so many. *)
CleanQueries(queries) ==
    FirstOnes(Once(queries), MaxPlannerQueries)

Overlaps(query, queries) ==
    \E i \in DOMAIN queries : query \in SubSeqs(queries[i]) \/ queries[i] \in SubSeqs(query)

(* A query that contains another one, or is contained in one, is not asked again. *)
MergeQueries(queries) ==
    LET merged == FoldLeft(LAMBDA s, q : IF Overlaps(q, s) \/ Len(s) = MaxMergedQueries
                                         THEN s ELSE Append(s, q),
                           <<>>, queries)
    IN  merged

(* The text that is searched for: that of the write the request completes. *)
SearchText == ContextualWritebackText(request)

HasSearchSignal(text) == text.search \/ text.links # <<>> \/ text.targets # <<>>

OwnQuery == <<<<"own">>>>

(* With a plan of the model: the named target of a write comes first, then the
   plan's queries, then the topics of a request for links. *)
PlanWithModel(text, plan) ==
    LET queries == CleanQueries(plan.queries)
        kept == IF plan.should /\ queries = <<>> THEN OwnQuery ELSE queries
    IN  IF text.targets # <<>>
        THEN [should |-> TRUE, queries |-> MergeQueries(text.targets \o kept \o text.links)]
        ELSE IF text.links # <<>>
        THEN [should |-> TRUE, queries |-> MergeQueries(kept \o text.links)]
        ELSE [plan EXCEPT !.queries = kept]

(* Without one: the target of a write, the topics, or the request's own words. *)
PlanWithoutModel(text) ==
    IF text.targets # <<>> THEN [should |-> TRUE, queries |-> text.targets]
    ELSE IF text.links # <<>> THEN [should |-> TRUE, queries |-> text.links]
    ELSE IF text.search THEN [should |-> TRUE, queries |-> OwnQuery]
    ELSE NoPlan

MaxResults(queries) ==
    IF Len(queries) =< 1 THEN SearchLimit
    ELSE Min({Max({SearchLimit, Len(queries) * SearchLimit}), MaxMultiQueryResults})

(* The resources the links of a text name, each with the type its path shows. *)
LinksOf(text) == text.urls

MaySearch(text) == LinksOf(text) = <<>> /\ request.searcher /\ request.private

WithPdfPageHint(refs) ==
    [i \in DOMAIN refs |->
        IF refs[i].type = "doc" /\ PdfPageHint(request.text.page) # NoPage
        THEN [refs[i] EXCEPT !.page = PdfPageHint(request.text.page)] ELSE refs[i]]

Settle(refs, status) ==
    /\ request' = [request EXCEPT !.refs = WithPdfPageHint(refs), !.results = status]
    /\ phase' = "read"
    /\ todo' = <<>>
    /\ found' = <<>>

(* Links in the message need no search; a group, or a bot without a searcher, has
   none. *)
TakeLinks ==
    /\ phase = "start"
    /\ ~MaySearch(SearchText)
    /\ Settle(LinksOf(SearchText), <<>>)
    /\ UNCHANGED <<audits, asked, reply, proposals>>

(* The planner answers, or fails and is replaced by rules.  A plan is audited when
   it searches or when the message looks like a search. *)
PlanSearch ==
    /\ phase = "start"
    /\ MaySearch(SearchText)
    /\ \E failed \in BOOLEAN, answer \in PlannerPlans :
          LET plan == IF failed THEN PlanWithoutModel(SearchText)
                      ELSE PlanWithModel(SearchText, answer)
              errors == IF failed THEN <<"planner_error">> ELSE <<>>
              noted == IF plan.should \/ HasSearchSignal(SearchText)
                       THEN <<"planned">> ELSE <<>>
          IN  /\ audits' = errors \o noted
              /\ IF plan.should /\ plan.queries # <<>>
                 THEN /\ phase' = "search"
                      /\ todo' = plan.queries
                      /\ found' = [limit |-> MaxResults(plan.queries), refs |-> <<>>]
                      /\ UNCHANGED request
                 ELSE Settle(<<>>, <<>>)
    /\ UNCHANGED <<asked, reply, proposals>>

-------------------------------------------------------------------------------
(* The search. *)

(* A resource that two queries found under the same address is kept once. *)
TakeHits(refs, hits, limit) ==
    LET new == {i \in DOMAIN hits : /\ ~Contains(refs, hits[i])
                                    /\ ~\E j \in 1..i - 1 : hits[j] = hits[i]}
    IN  refs \o Those(hits, Foremost(new, limit - Len(refs)))

SearchStatus ==
    Failed([NoRef EXCEPT !.id = "search", !.type = "unknown", !.kind = "search"])

(* The search of a completed request runs on a copy that shares the list of
   results, which is then joined to itself: what it says stands there twice. *)
StatusResults ==
    IF SearchText = request.text THEN <<SearchStatus>> ELSE <<SearchStatus, SearchStatus>>

(* One query is asked; the search ends when enough was found or none is left. *)
SearchQuery ==
    /\ phase = "search"
    /\ LET limit == Min({SearchLimit, found.limit - Len(found.refs)})
           hits == Search(Indexes[request.index], Head(todo), limit)
           refs == TakeHits(found.refs, hits, found.limit)
           over == Len(todo) = 1 \/ Len(refs) >= found.limit
       IN  IF over
           THEN /\ Settle(refs, IF refs = <<>> THEN StatusResults ELSE <<>>)
                /\ audits' = Append(audits, "executed")
           ELSE /\ todo' = Tail(todo)
                /\ found' = [limit |-> found.limit, refs |-> refs]
                /\ UNCHANGED <<request, phase, audits>>
    /\ UNCHANGED <<asked, reply, proposals>>

(* A query fails: what the earlier ones found is dropped. *)
SearchFails ==
    /\ phase = "search"
    /\ Settle(<<>>, StatusResults)
    /\ audits' = Append(audits, "executed")
    /\ UNCHANGED <<asked, reply, proposals>>

-------------------------------------------------------------------------------
(* Reading and answering. *)
SearchGenerated(refs) == refs # <<>> /\ \A i \in DOMAIN refs : refs[i].kind = "search"

ReadableTypes == {"doc", "sheet", "bitable", "web"}

ReadRefs ==
    LET refs == IF request.searcher /\ SearchGenerated(request.refs)
                THEN FirstOnes(request.refs, ReadLimit)
                ELSE request.refs
    IN  Those(refs, {i \in DOMAIN refs : refs[i].type \in ReadableTypes})

ReadResources == [i \in DOMAIN ReadRefs |-> ReadResource(Worlds[request.world], ReadRefs[i])]

(* mutant of UnresolvedSearch: only a search that found nothing counts *)
UnresolvedIfNothingFound(refs, results) ==
    results # <<>> /\ refs = <<>> /\ \E i \in DOMAIN results : results[i].ref.id = "search"

(* A search that failed, or that found nothing readable, is answered without the
   model. *)
UnresolvedSearch(refs, results) ==
    /\ results # <<>>
    /\ \/ refs = <<>> /\ \E i \in DOMAIN results : results[i].ref.id = "search"
       \/ /\ \E i \in DOMAIN refs : refs[i].kind = "search"
          /\ ~\E i \in DOMAIN results : results[i].readable /\ ~results[i].error

Read ==
    /\ phase = "read"
    /\ LET results == request.results \o ReadResources
       IN  /\ request' = [request EXCEPT !.results = results]
           /\ IF UnresolvedSearch(request.refs, results)
              THEN phase' = "done" /\ reply' = [kind |-> "unresolved", links |-> {}]
              ELSE phase' = "model" /\ UNCHANGED reply
    /\ UNCHANGED <<todo, found, audits, asked, proposals>>

KnownTokens == {request.refs[i].id : i \in DOMAIN request.refs}

Trusted(link) == link.type \notin {"doc", "sheet", "bitable"} \/ link.token \in KnownTokens

ReadableLinks ==
    {[token |-> request.results[i].ref.link, type |-> request.results[i].ref.type] :
        i \in {j \in DOMAIN request.results : ~request.results[j].error}}

(* mutant of TrustedAnswer: the answer is shown with the links it has *)
AnswerAsItIs(answer) ==
    [plans |-> answer.plans, twice |-> answer.twice, prose |-> answer.prose,
     left |-> answer.left, kept |-> answer.kept, links |-> answer.links, kind |-> "answer"]

(* An answer with a link that is none of the request's resources is replaced, with
   its plans, by a list of what was read, or by a refusal. *)
TrustedAnswer(answer) ==
    IF \A link \in answer.links : Trusted(link)
    THEN [plans |-> answer.plans, twice |-> answer.twice, prose |-> answer.prose,
          left |-> answer.left, kept |-> answer.kept, links |-> answer.links, kind |-> "answer"]
    ELSE [plans |-> <<>>, twice |-> FALSE, prose |-> PlainProse, left |-> PlainProse,
          kept |-> FALSE,
          links |-> IF request.results = <<>> THEN {} ELSE ReadableLinks,
          kind |-> IF request.results = <<>> THEN "refused" ELSE "listed"]

(* The model answers and the proposals are made from the answer, in one step: no
   other task touches the request. *)
Generate ==
    /\ phase = "model"
    /\ \E shown \in {TrustedAnswer(answer) : answer \in request.answers} :
          /\ proposals' = IF request.writeback THEN Apply(request, shown) ELSE <<>>
          /\ asked' = TRUE
          /\ reply' = IF request.writeback /\ proposals' = <<>> /\ UnsupportedPlace(request)
                      THEN [kind |-> "unsupported", links |-> {}]
                      ELSE [kind |-> shown.kind, links |-> shown.links]
    /\ phase' = "done"
    /\ UNCHANGED <<request, todo, found, audits>>

Next == TakeLinks \/ PlanSearch \/ SearchQuery \/ SearchFails \/ Read \/ Generate

Spec == Init /\ [][Next]_vars /\ WF_vars(Next)

-------------------------------------------------------------------------------
Texts == {request.text, ContextualWritebackText(request)}
Made == {proposals[i] : i \in DOMAIN proposals}
Proses == {a.prose : a \in request.answers} \cup {a.left : a \in request.answers}

(* The state keeps its types.  (Assistant and AssistantResponse.) *)
AssistantTypeOK ==
    /\ request \in RequestType
    /\ phase \in {"start", "search", "read", "model", "done"}
    /\ asked \in BOOLEAN
    /\ reply.kind \in {"none", "unresolved", "answer", "listed", "refused", "unsupported"}
    /\ ToSet(audits) \subseteq {"planner_error", "planned", "executed"}
    /\ \A p \in Made : /\ p.type \in {"doc_append", "sheet_write", "bitable_create",
                                      "bitable_update", "bitable_delete", "message_send"}
                       /\ p.content.lines \subseteq Nat

(* When resources were searched for and not found, or none of them could be read,
   the model is not asked, so it cannot answer as if it had read them; and every
   document, sheet or table a reply links to is one the request named, the search
   found or the reader resolved it to.  (_is_unresolved_search_request,
   _has_untrusted_feishu_url; a searcher returns readable types only.) *)
AnswersAreGrounded ==
    /\ asked /\ (SearchGenerated(request.refs) \/ "executed" \in ToSet(audits)) =>
          \E i \in DOMAIN request.results :
              request.results[i].readable /\ ~request.results[i].error
    /\ \A link \in reply.links : Trusted(link) \/ link \in ReadableLinks

(* The preview that is confirmed says what is written: the place, the record, the
   field and the text, whatever was corrected after the preview was first worded;
   a wording of the model's own is kept only as long as its plan was not touched.
   (_normalize_explicit_writeback_targets.) *)
PreviewsFollow ==
    \A p \in Made : [p.preview EXCEPT !.by = "code"] = Shows("code", p)

(* When the message itself names a cell in front of its first link, by letters or by
   a row and a column in digits or Chinese numerals, the cell that these words mean
   is written, whatever the link, the plan or the answer names; and when it asks for
   pages in one of the two forms that are looked for, no other pages are read.  A
   cell behind a link, in other words, or in the earlier message that a message
   completes is not seen by the code: that write goes where the link, the plan or
   the answer says, else below the data (AppendedRowIsFree), not where it is meant.
   (_sheet_write_target_intent, _sheet_row_column_range_from_text, _pdf_page_hint.) *)
NamedPlaceIsUsed ==
    /\ \A p \in Made :
          /\ p.type = "sheet_write"
          /\ IsSeen(request.text.place) /\ request.text.place.means # <<0, 0>>
          => <<p.cell.row, ColumnOf(p.cell.column)>> = request.text.place.means
    /\ \A i \in DOMAIN request.results :
          LET page == request.results[i].ref.page
          IN  page # NoPage /\ request.text.page.means # 0 =>
                 page = [kind |-> request.text.page.kind, page |-> request.text.page.means]

(* Text the user quoted is what is written, in every proposal that writes text to a
   resource, whatever the model planned or answered.
   (_explicit_quoted_writeback_content, _force_proposal_content.) *)
QuotationIsWritten ==
    LET quoted == ContextualWritebackText(request).quoted
    IN  \A p \in Made : HasContent(p) /\ quoted # NoContent => p.content = quoted

(* Text taken from the answer instead, or from what is left of it without its plans,
   is one clean block; a code block the answer leaves open goes on through the note the assistant puts under it.
   (_model_generated_writeback_content.) *)
AnswerIsCutOut ==
    \A p \in Made : p.content.from = "answer" =>
        \E prose \in Proses :
            LET lines == prose.lines
            IN  \/ CleanContent(lines, p.content.lines)
                \/ /\ CleanContent(lines \o Note, p.content.lines)
                   /\ IsLeftOpen(lines, Min(p.content.lines))

(* What the code sees of the user's words about where and what to write is followed
   as it is meant, whatever the model made of it. *)
WordsAreFollowed == NamedPlaceIsUsed /\ QuotationIsWritten /\ AnswerIsCutOut

(* What the line of a record states: the text of each cell under the name of its field,
   what stands behind a separator in one, and what is left of a value where the text
   of the table is cut. *)
PiecesOf(record) == UNION {ToSet(Printed(f, record.values[f])) : f \in FieldTitles}

States(remote, order, row, key, value) ==
    \/ [key |-> key, value |-> value] \in PiecesOf(order[row])
    \/ row = remote.cut.line /\ value = remote.cut.rest

GoesUnder(remote, order, row, id) ==
    id = order[row].id \/ States(remote, order, row, "record_id", id)

IsAsked(pair, key, field) == IF pair.field = "any" THEN key # field ELSE key = pair.field

(* The records that are numbered are read back as they are: they are printed in full,
   with no separator in a cell, and no field is called like the id. *)
ReadBackUnchanged(remote, order, table) ==
    /\ Len(table.records) < remote.cut.line
    /\ "record_id" \notin FieldNames(table)
    /\ \A i \in DOMAIN table.records, f \in FieldNames(table) : order[i].values[f].more = <<>>

HoldsValue(record, pair, field, names) ==
    \E f \in names : IsAsked(pair, f, field) /\ record.values[f].head = pair.value

(* An update goes to one record: the one whose id the answer or a plan states, or the
   one stored in the row that is named (or in the last row that is numbered), counted
   in the view of the link, or the only numbered one whose cell holds the value that
   is named; the field is one of the table's.  Separators are not escaped, so the id
   and the values of a record are those its line states, and where a numbered record
   has a separator in a cell, or the text of the table is cut, a value need not pick
   out a record that holds it, nor the only one that does.
   (_bitable_update_plan, _find_bitable_record, _bitable_records_from_content.) *)
UpdatesHitOneRecord ==
    \A p \in Made : p.type = "bitable_update" =>
       LET remote == Worlds[request.world][p.ref]
           table == TableOf(request, [NoRef EXCEPT !.id = p.ref])
           numbered == DOMAIN table.records
           read == {i \in DOMAIN request.results : request.results[i].ref.id = p.ref}
           orders == {RecordsOf(remote, request.results[i].ref) : i \in read}
           says == {request.text.about} \cup {prose.about : prose \in Proses}
           plans == UNION {ToSet(a.plans) : a \in request.answers}
           rows == {s.row : s \in says} \cup {plan.row : plan \in plans}
       IN  /\ \/ \E s \in says : s.id = p.record
              \/ \E plan \in plans : plan.record = p.record
              \/ \E order \in orders, row \in numbered :
                    /\ row \in rows \/ (-1 \in rows /\ row = Len(table.records))
                    /\ GoesUnder(remote, order, row, p.record)
              \/ \E order \in orders, s \in says, row \in numbered :
                    /\ s.pair # NoPair
                    /\ GoesUnder(remote, order, row, p.record)
                    /\ \E key \in FieldTitles : /\ IsAsked(s.pair, key, p.field)
                                               /\ States(remote, order, row, key, s.pair.value)
                    /\ ReadBackUnchanged(remote, order, table) =>
                          /\ p.record = order[row].id
                          /\ {row} = {i \in numbered : HoldsValue(order[i], s.pair, p.field,
                                                                 FieldNames(table))}
           /\ p.field \in FieldNames(table) \cup {plan.field : plan \in plans}

(* A write to a sheet whose place nobody stated goes below everything the sheet
   holds, unless the sheet could not be read or holds more than is read of it.
   (_sheet_append_row, _next_append_row, _limit_table.) *)
AppendedRowIsFree ==
    \A p \in Made : p.type = "sheet_write" =>
       LET stated == {SheetRangeFromText(request.text.place)}
                     \cup {prose.cell : prose \in Proses}
                     \cup {plan.cell : plan \in UNION {ToSet(a.plans) : a \in request.answers}}
                     \cup {request.refs[i].hint : i \in DOMAIN request.refs}
           sheet == CHOOSE s \in ToSet(Worlds[request.world][p.ref].sheets) : s.id = p.sheet
       IN  \/ p.cell \in stated
           \/ ~\E i \in DOMAIN request.results :
                  /\ request.results[i].ref.type = "sheet" /\ request.results[i].ref.id = p.ref
                  /\ ~request.results[i].error
           \/ \E cell \in sheet.cells : cell[1] > MaxSheetRows \/ cell[2] > MaxSheetColumns
           \/ \A cell \in sheet.cells : cell[1] < p.cell.row

(* What is written takes the place of nothing that was not meant. *)
NothingElseIsOverwritten == UpdatesHitOneRecord /\ AppendedRowIsFree

(* Nothing is proposed unless writing is on and the model stated a plan or the user
   asked to write; every proposal but a message goes to a resource of the request,
   and none that asked for a place inside a document goes to one.
   (apply, _first_writable_doc_ref and the like.) *)
WritesAreAskedFor ==
    /\ Made # {} =>
          /\ request.writeback
          /\ \/ \E text \in Texts : HasWritebackIntent(text)
             \/ \E answer \in request.answers : answer.plans # <<>>
    /\ \A p \in Made : /\ p.type # "message_send" => p.shown = p.ref
                       /\ p.type = "doc_append" => ~ContextualWritebackText(request).asset
===============================================================================
