---------------------------- MODULE MCAssistantTurn ----------------------------
(* Families of requests for AssistantTurn, each about one part of the turn. *)
EXTENDS AssistantTurn

Names == {"name", "note", "date"}
Text == PlainText
Prose == PlainProse
Says == Silent

Ref(id, type, kind) == [NoRef EXCEPT !.id = id, !.link = id, !.type = type, !.kind = kind]

DocRef == Ref("doc1", "doc", "link")
OtherDoc == Ref("doc2", "doc", "link")
WikiRef == Ref("wiki1", "doc", "wiki")
SheetRef == Ref("sheet1", "sheet", "link")
HintRef == [SheetRef EXCEPT !.hint = [column |-> <<3>>, row |-> 4]]
BaseRef == Ref("base1", "bitable", "link")
FileRef == Ref("file1", "unknown", "link")
ViewRef == [BaseRef EXCEPT !.view = TRUE, !.table = "tbl1"]
NameRef == [BaseRef EXCEPT !.table = "Other"]
WebRef == Ref("web1", "web", "web")

Quoted == Content("quoted", {})
Unquoted == Content("unquoted", {})
Planned == Content("plan", {})

Field(name, text, general, system) ==
    [name |-> name, text |-> text, general |-> general, system |-> system]
Cell(head) == [head |-> head, more |-> <<>>]
Separated(head, key, value) == [head |-> head, more |-> <<[key |-> key, value |-> value]>>]
Record(id, name, note) ==
    [id |-> id, values |-> [name |-> Cell(name), note |-> Cell(note), date |-> Empty]]
NoCut == [line |-> 99, group |-> 1, piece |-> 1, rest |-> "none"]
CutAt(line, group, piece, rest) == [line |-> line, group |-> group, piece |-> piece, rest |-> rest]
Table == [fields |-> <<Field("name", TRUE, TRUE, FALSE), Field("note", TRUE, TRUE, FALSE),
                       Field("date", FALSE, FALSE, TRUE)>>,
          records |-> <<Record("rec1", "a", "x"), Record("rec2", "b", "x"),
                        Record("rec3", "b", "y")>>]

Remote(type) ==
    [type |-> type, refuses |-> {}, text |-> TRUE, embedded |-> FALSE, leads |-> "none",
     sheets |-> <<>>, tables |-> <<>>, fields |-> <<>>, records |-> <<>>, viewed |-> <<>>,
     cut |-> NoCut, hops |-> <<>>]
Sheet(id, hidden, cells) == [id |-> id, hidden |-> hidden, cells |-> cells]
Grid == <<Sheet("s1", TRUE, {}), Sheet("s2", FALSE, {<<1, 1>>, <<3, 2>>, <<6, 1>>})>>
Base == [Remote("bitable") EXCEPT !.tables = <<[id |-> "tbl1", name |-> "First"],
                                               [id |-> "tbl2", name |-> "Other"]>>,
                                  !.fields = Table.fields, !.records = Table.records,
                                  !.viewed = <<Table.records[3], Table.records[1]>>]

TheResources ==
    {"doc1", "doc2", "wiki1", "node1", "node2", "sheet1", "base1", "web1", "file1"}
World ==
    [id \in TheResources |->
        CASE id = "doc1" -> Remote("doc")
          [] id = "doc2" -> [Remote("doc") EXCEPT !.refuses = {"content"}]
          [] id = "wiki1" -> [Remote("wiki") EXCEPT !.leads = "sheet1"]
          [] id = "node1" -> [Remote("wiki") EXCEPT !.leads = "doc1"]
          [] id = "node2" -> [Remote("wiki") EXCEPT !.leads = "none"]
          [] id = "sheet1" -> [Remote("sheet") EXCEPT !.sheets = Grid]
          [] id = "base1" -> Base
          [] id = "file1" -> Remote("file")
          [] id = "web1" -> [Remote("web") EXCEPT !.hops = <<"a", "b">>]]
(* The first record says more in the cell of its name. *)
Telling(text) == [World EXCEPT !["base1"].records[1].values["name"] = text]
Refusing(id, calls) == [World EXCEPT ![id].refuses = calls]
Holding(cells) ==
    [World EXCEPT !["sheet1"].sheets = <<Sheet("s1", TRUE, {}), Sheet("s2", FALSE, cells)>>]

TheWorlds ==
    [plain |-> World,
     docRefused |-> Refusing("doc1", {"content"}),
     emptyAndRefused |-> [Refusing("sheet1", {"values"}) EXCEPT !["doc1"].text = FALSE],
     blocksRefused |-> [Refusing("doc1", {"blocks"}) EXCEPT !["doc1"].text = FALSE,
                                                            !["web1"].hops = <<"a", "closed">>],
     longWay |-> [World EXCEPT !["web1"].hops = <<"a", "b", "a">>, !["doc1"].embedded = TRUE],
     emptySheet |-> Holding({}),
     longSheet |-> Holding({<<2, 2>>, <<9, 1>>}),
     wideSheet |-> Holding({<<2, 1>>, <<5, 4>>}),
     fullSheet |-> Holding({<<8, 3>>}),
     valuesRefused |-> Refusing("sheet1", {"values"}),
     sheetsRefused |-> Refusing("sheet1", {"sheets"}),
     nodeRefused |-> Refusing("wiki1", {"node"}),
     noSheet |-> [World EXCEPT !["sheet1"].sheets = <<>>],
     viewRefused |-> Refusing("base1", {"view"}),
     recordsRefused |-> Refusing("base1", {"view", "records"}),
     fieldsRefused |-> Refusing("base1", {"fields"}),
     noFieldsNoView |-> Refusing("base1", {"fields", "view"}),
     tablesRefused |-> Refusing("base1", {"tables"}),
     longTable |-> [World EXCEPT !["base1"].records = Append(@, Record("rec4", "a", "z"))],
     valueInCell |-> Telling(Separated("c", "name", "a")),
     idInCell |-> Telling(Separated("a", "record_id", "rec9")),
     noValue |-> Telling(Empty),
     cutId |-> [World EXCEPT !["base1"].cut = CutAt(2, 1, 1, "rec")],
     cutValue |-> [World EXCEPT !["base1"].cut = CutAt(3, 2, 1, "a")],
     cutEarly |-> [World EXCEPT !["base1"].cut = CutAt(0, 1, 1, "none")]]

(* What is found in documents and wikis for which text. *)
Variant(words, joined) == [words |-> words, joined |-> joined]
Doc(id, type) == [id |-> id, type |-> type]
Node(object, node, type) == [object |-> object, node |-> node, type |-> type]
Finds(variant, docs, wiki) == variant :> [docs |-> docs, wiki |-> wiki]
TheIndexes ==
    [nothing |-> [variant \in {} |-> [docs |-> <<>>, wiki |-> <<>>]],
     words |-> Finds(Variant(<<"q1">>, FALSE), <<Doc("doc1", "doc")>>, <<Node("doc1", "node1", "doc")>>)
     @@ Finds(Variant(<<"q1", "q2">>, TRUE), <<Doc("sheet1", "sheet")>>, <<>>)
     @@ Finds(Variant(<<"q3">>, FALSE), <<>>, <<Node("doc1", "node1", "doc")>>)
     @@ Finds(Variant(<<"own">>, FALSE), <<Doc("file1", "file"), Doc("doc2", "doc")>>, <<>>),
     nodes |-> Finds(Variant(<<"q1">>, FALSE), <<>>, <<Node("none", "node2", "doc")>>)
     @@ Finds(Variant(<<"q3">>, FALSE),
              <<Doc("sheet1", "sheet"), Doc("doc1", "doc"), Doc("doc2", "doc")>>, <<>>)
     @@ Finds(Variant(<<"own">>, FALSE), <<Doc("doc1", "doc"), Doc("sheet1", "sheet")>>, <<>>)]

Answer(plans, prose, links) ==
    [plans |-> plans, twice |-> FALSE, prose |-> prose, left |-> prose, kept |-> FALSE,
     links |-> links]
Plan(operation, type) ==
    [operation |-> operation, type |-> type, content |-> Planned, cell |-> NoCell,
     record |-> "none", row |-> 0, field |-> "none", preview |-> TRUE]

Request(text, messages, answers) ==
    [text |-> text, messages |-> messages, private |-> TRUE, searcher |-> TRUE,
     writeback |-> TRUE, refs |-> <<>>, results |-> <<>>, world |-> "plain",
     index |-> "nothing", answers |-> answers]

Earlier(text, own) == <<[text |-> text, own |-> own]>>

-------------------------------------------------------------------------------
(* Searching: what is asked for, who asks, and links of the answer. *)
Link(token, type) == [token |-> token, type |-> type]
LinkSets == {{}, {Link("doc1", "doc")}, {Link("doc9", "doc"), Link("doc1", "doc")},
             {Link("any", "file")}}
SearchWorlds == {"plain", "docRefused", "emptyAndRefused", "blocksRefused", "longWay"}
SearchTexts ==
    {Text, [Text EXCEPT !.search = TRUE],
     [Text EXCEPT !.links = <<<<"q1">>, <<"q1", "q2">>, <<"q3">>>>],
     [Text EXCEPT !.intent = TRUE, !.targets = <<<<"q1">>, <<"q3">>>>, !.quoted = Quoted],
     [Text EXCEPT !.clarify = TRUE, !.start = TRUE],
     [Text EXCEPT !.urls = <<FileRef>>], [Text EXCEPT !.urls = <<WebRef>>],
     [Text EXCEPT !.urls = <<DocRef>>, !.search = TRUE],
     [Text EXCEPT !.urls = <<OtherDoc>>, !.search = TRUE]}

SearchRequests ==
    {[Request(text, Earlier([Text EXCEPT !.intent = TRUE, !.targets = <<<<"q1">>>>,
                                         !.quoted = Quoted], own),
              {Answer(<<>>, Prose, links) : links \in LinkSets})
        EXCEPT !.private = private, !.searcher = searcher, !.world = world, !.index = index] :
        text \in SearchTexts, own \in BOOLEAN, private \in BOOLEAN, searcher \in BOOLEAN,
        world \in SearchWorlds, index \in DOMAIN TheIndexes}

ThePlans == {NoPlan, [should |-> TRUE, queries |-> <<>>],
             [should |-> TRUE, queries |-> <<<<"q1">>, <<"q1">>>>],
             [should |-> TRUE, queries |-> <<<<"q3", "q1">>, <<"q1", "q2">>, <<"q3">>>>],
             [should |-> FALSE, queries |-> <<<<"q3">>>>]}
TheWordSize == [word \in {"own", "q1", "q2", "q3"} |->
                   CASE word = "own" -> 3 [] word = "q1" -> 4 [] word = "q2" -> 1 [] OTHER -> 5]

-------------------------------------------------------------------------------
(* Cells: rows and columns in digits and in numerals, and competing places. *)
Rows == 1..21 \cup {99, 100, 101, 110, 111, 120, 1000, 1001, 1010, 1100, 10001, 10010, 20510}
Columns == 1..28 \cup {52, 53, 104, 702, 703}
Written(n) == {Arabic(n), Chinese(Numeral(n))}
Named(n, m) ==
    {[NoPlace EXCEPT !.rowcol = <<r, c>>, !.means = <<n, m>>] :
        r \in Written(n), c \in Written(m)}
Places ==
    {NoPlace, [NoPlace EXCEPT !.ref = [column |-> <<1>>, row |-> 2], !.means = <<2, 2>>],
     [NoPlace EXCEPT !.rowcol = <<Arabic(0), Arabic(2)>>],
     [NoPlace EXCEPT !.means = <<7, 2>>],
     [NoPlace EXCEPT !.ref = [column |-> <<1>>, row |-> 2], !.behind = TRUE, !.means = <<2, 2>>]}
AllPlaces ==
    Places \cup UNION {Named(n, m) : n \in Rows, m \in {2}}
           \cup UNION {Named(n, m) : n \in {3}, m \in Columns}
SheetText(ref, place, edit) ==
    [Text EXCEPT !.intent = TRUE, !.urls = <<ref>>, !.quoted = Quoted, !.place = place,
                 !.edit = edit]
SomeCell == [column |-> <<4>>, row |-> 9]
SheetAnswers ==
    {Answer(plans, [Prose EXCEPT !.cell = cell, !.dismissed = dismissed], {}) :
        plans \in {<<>>, <<Plan("update", "sheet")>>,
                   <<[Plan("create", "sheet") EXCEPT !.cell = [column |-> <<5>>, row |-> 5]]>>},
        cell \in {NoCell, SomeCell}, dismissed \in BOOLEAN}
SheetRequests ==
    {Request(SheetText(SheetRef, place, "none"), <<>>,
             {Answer(<<>>, [Prose EXCEPT !.cell = SomeCell], {})}) : place \in AllPlaces}
    \cup {Request(SheetText(ref, place, edit), <<>>, {answer}) :
             ref \in {SheetRef, HintRef, WikiRef}, place \in Places,
             edit \in {"none", "replace"}, answer \in SheetAnswers}
    \cup {Request([Text EXCEPT !.clarify = TRUE, !.place = place],
                  Earlier(SheetText(SheetRef, earlier, "none"), TRUE), {answer}) :
             place \in Places, earlier \in Places, answer \in SheetAnswers}

(* Sheets that are longer or wider than what is read, or are refused. *)
SheetWorlds ==
    {"plain", "emptySheet", "longSheet", "wideSheet", "fullSheet", "valuesRefused",
     "sheetsRefused", "nodeRefused", "noSheet"}
AppendRequests ==
    {[Request(SheetText(ref, NoPlace, edit), <<>>, {answer}) EXCEPT !.world = world] :
        ref \in {SheetRef, HintRef, WikiRef, [SheetRef EXCEPT !.sheet = "s1"],
                 [SheetRef EXCEPT !.sheet = "s2"], [SheetRef EXCEPT !.sheet = "s3"]},
        world \in SheetWorlds, edit \in {"none", "modify"}, answer \in SheetAnswers}

(* Pages of a PDF. *)
PageRequests ==
    {Request([Text EXCEPT !.urls = <<DocRef, WikiRef>>,
                          !.page = [kind |-> kind, numeral |-> page[2], means |-> page[1]]],
             <<>>, {Answer(<<>>, Prose, {})}) :
        kind \in {"first", "page"},
        page \in UNION {{n} \X Written(n) : n \in 1..99 \cup {100, 120}}}

-------------------------------------------------------------------------------
(* Answers line by line. *)
Lines == UNION {[1..n -> LineKinds] : n \in 1..2}
         \cup {<<"label">> \o s : s \in [1..2 -> LineKinds]}
         \cup {<<"plain", "both">> \o s : s \in [1..2 -> LineKinds]}
         \cup {<<"value", "fence">> \o s : s \in [1..2 -> LineKinds]}
LineRequests ==
    {Request([Text EXCEPT !.intent = TRUE, !.urls = <<DocRef>>, !.quoted = quoted], <<>>,
             {Answer(<<>>, [Prose EXCEPT !.lines = lines], {})}) :
        lines \in Lines, quoted \in {NoContent, Quoted}}

-------------------------------------------------------------------------------
(* Documents: what is asked, in one message or two, and what the model plans. *)
DocPlans ==
    {<<>>, <<Plan("create", "doc")>>, <<[Plan("update", "doc") EXCEPT !.content = Quoted]>>,
     <<Plan("read", "doc")>>, <<Plan("none", "doc")>>, <<Plan("create", "message"), Plan("create", "doc")>>,
     <<[Plan("delete", "doc") EXCEPT !.preview = FALSE]>>}
DocTexts ==
    {[Text EXCEPT !.intent = TRUE, !.urls = urls, !.quoted = quoted, !.unquoted = Unquoted,
                  !.start = start, !.asset = asset, !.edit = edit] :
        urls \in {<<DocRef>>, <<OtherDoc, DocRef>>, <<SheetRef, OtherDoc>>},
        quoted \in {NoContent, Quoted}, start \in BOOLEAN, asset \in BOOLEAN,
        edit \in {"none", "replace", "modify"}}
Clarifies == {[Text EXCEPT !.clarify = TRUE, !.start = start] : start \in BOOLEAN}
SomeProses == {Prose, [Prose EXCEPT !.lines = <<"labelIn">>, !.label = "create"]}
Twice(answer) == [answer EXCEPT !.twice = TRUE]
DocRequests ==
    {[Request(text, <<>>, {Answer(plans, prose, {})}) EXCEPT !.writeback = writeback] :
        text \in DocTexts, plans \in DocPlans, prose \in SomeProses, writeback \in BOOLEAN}
    \cup {Request(text, <<>>, {Twice(Answer(plans, prose, {}))}) :
             text \in DocTexts, plans \in DocPlans, prose \in SomeProses}
    \cup {Request(text, Earlier(earlier, own), {Answer(plans, Prose, {})}) :
             text \in Clarifies, earlier \in DocTexts, own \in BOOLEAN, plans \in DocPlans}
    \cup {Request(text, <<>>, {[Answer(plans, prose, {}) EXCEPT !.left = left]}) :
             text \in DocTexts, plans \in DocPlans, prose \in SomeProses, left \in SomeProses}

-------------------------------------------------------------------------------
(* Tables: how the record and the field are named, by whom, and the operation. *)
Naming ==
    {Says, [Says EXCEPT !.row = 2], [Says EXCEPT !.row = -1], [Says EXCEPT !.id = "rec3"],
     [Says EXCEPT !.pair = [field |-> "any", value |-> "a"]],
     [Says EXCEPT !.pair = [field |-> "any", value |-> "b"]],
     [Says EXCEPT !.pair = [field |-> "any", value |-> "x"], !.mentions["note"] = {"marked"}],
     [Says EXCEPT !.pair = [field |-> "name", value |-> "b"]],
     [Says EXCEPT !.pair = [field |-> "note", value |-> "y"],
                  !.mentions["note"] = {"valued"}, !.mentions["name"] = {"set"}]}
RequestNaming == {n \in Naming : n.id = "none" /\ n.pair.field \in {"any", "none"}}
Fields(says) == {says, [says EXCEPT !.mentions["note"] = {"marked", "beside"}],
                 [says EXCEPT !.asks = "note"]}
BaseText(about, edit, append) ==
    [Text EXCEPT !.intent = TRUE, !.urls = <<BaseRef>>, !.quoted = Quoted, !.about = about,
                 !.edit = edit, !.append = append]
BasePlans ==
    {<<>>, <<[Plan("update", "bitable") EXCEPT !.row = 1, !.field = "note"]>>,
     <<[Plan("update", "bitable") EXCEPT !.record = "rec2", !.content = Quoted]>>,
     <<[Plan("delete", "bitable") EXCEPT !.row = -1]>>,
     <<[Plan("create", "bitable") EXCEPT !.field = "name"]>>}
BaseProses ==
    {[Prose EXCEPT !.about = about, !.natural = natural, !.section = section] :
        about \in {[n EXCEPT !.asks = asks] : n \in Naming, asks \in {"none", "note"}},
        natural \in {"none", "create", "update"}, section \in BOOLEAN}
BaseRequests ==
    {Request(BaseText(about, edit, append), <<>>, {Answer(plans, Prose, {})}) :
        about \in UNION {Fields(n) : n \in RequestNaming}, edit \in {"none", "replace"},
        append \in BOOLEAN, plans \in BasePlans}
    \cup {Request(BaseText(Says, "none", append), <<>>,
                  {[Answer(plans, prose, {}) EXCEPT !.kept = kept]}) :
        append \in BOOLEAN, plans \in BasePlans, prose \in BaseProses, kept \in BOOLEAN}

(* Which rows and fields are seen depends on the view and on what is refused. *)
BaseWorlds == {"plain", "viewRefused", "recordsRefused", "fieldsRefused", "noFieldsNoView",
               "tablesRefused", "longTable", "valueInCell", "idInCell", "noValue",
               "cutId", "cutValue", "cutEarly"}
ViewRequests ==
    {[Request([BaseText(about, "none", FALSE) EXCEPT !.urls = <<ref>>], <<>>,
              {Answer(plans, Prose, {})}) EXCEPT !.world = world] :
        about \in UNION {Fields(n) : n \in RequestNaming}, plans \in BasePlans,
        ref \in {BaseRef, ViewRef, NameRef}, world \in BaseWorlds}

TheRequests ==
    {SearchRequests, SheetRequests, AppendRequests, PageRequests, LineRequests,
     DocRequests, BaseRequests, ViewRequests}
===============================================================================
