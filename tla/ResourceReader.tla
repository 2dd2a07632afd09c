---------------------------- MODULE ResourceReader ----------------------------
(* What is found and read for a request (src/src/flago/resources/reader.py): the
   variants a query is searched in, and how documents, spreadsheets, tables and
   web pages are read, part by part, where a call may be refused.

   The remote side is a world: for each id a resource [type, refuses, text,
   embedded, leads, sheets, tables, fields, records, viewed, cut, hops] with the
   calls it refuses.  A resource named in the code is a ref (ResourceRef), a result is
   what the text the reader prints tells the assistant: whether there is any, the
   table, and the row to append at. *)
EXTENDS SheetPositions, BitableTargets

CONSTANTS Resources,                      \* what may be named, whether it exists or not
          MaxSheetRows, MaxSheetColumns,  \* what is read of a sheet
          MaxRecords, MaxIndexed,         \* what is read and numbered of a table
          ResultLimit, MaxVariants, MaxWebRedirects,
          WordSize, GenericWords,         \* the words of queries
          AllowedHosts, BlockedHosts      \* settings; no allowed hosts means all

(* True of every literal, but not known to the provers. *)
ASSUME LiteralsAssumption ==
    {"none", "unknown", "search", "resolved", "doc", "sheet", "bitable", "web"} \subseteq STRING

ASSUME ReaderAssumption ==
    /\ Resources \subseteq STRING
    /\ {MaxSheetRows, MaxSheetColumns, MaxRecords, MaxIndexed} \subseteq Nat
    /\ {ResultLimit, MaxVariants, MaxWebRedirects} \subseteq Nat

(* The text that is printed of a cell (JSON of what is no text), as it falls apart at
   the separators in it: what stands before the first one and the pieces behind it.
   An empty cell is not printed.  No cell holds another line break than the one the
   reader replaces, and no name of a field a separator or an "=". *)
CellTextType == [head : STRING, more : Seq(PieceType)]
Empty == [head |-> "none", more |-> <<>>]

(* What stands behind a name; of type "none" if it does not exist.  A record in a
   table has no number yet.  cut is where the limit of characters ends the text of a
   table: in which piece of which group of which line, and what is left of its value;
   behind the last line if the text is short enough.  The list of fields stands in
   front of the lines and is short enough for any limit. *)
StoredRecordType == [id : STRING \ {"none"}, values : [FieldTitles -> CellTextType]]
CutType == [line : Nat, group : Nat \ {0}, piece : Nat \ {0}, rest : STRING]
RemoteType ==
    [type : STRING, refuses : SUBSET STRING, text : BOOLEAN, embedded : BOOLEAN,
     leads : Resources \cup {"none"},
     sheets : Seq([id : STRING, hidden : BOOLEAN, cells : SUBSET (Nat \X Nat)]),
     tables : Seq([id : STRING, name : STRING]), fields : Seq(FieldType),
     records : Seq(StoredRecordType), viewed : Seq(StoredRecordType), cut : CutType,
     hops : Seq(STRING)]

(* link is the resource the address shows, which a wiki address keeps when its
   node is resolved; view tells whether the address names a view of the table. *)
NoRef == [id |-> "none", link |-> "none", type |-> "none", kind |-> "none", hint |-> NoCell,
          page |-> NoPage, sheet |-> "none", table |-> "none", view |-> FALSE]

RefType ==
    [id : STRING, link : STRING, type : STRING, kind : STRING, hint : CellType, page : PageType,
     sheet : STRING, table : STRING, view : BOOLEAN]

KnownRefType == {r \in RefType : r.id \in Resources}

ResultType ==
    [ref : RefType, error : BOOLEAN, readable : BOOLEAN, table : TableType, append : Nat]

Result(ref) == [ref |-> ref, error |-> FALSE, readable |-> TRUE, table |-> NoTable, append |-> 0]
Failed(ref) == [Result(ref) EXCEPT !.error = TRUE, !.readable = FALSE]

-------------------------------------------------------------------------------
(* Searching. *)

(* The items of s at the places of at, in their order. *)
Those(s, at) ==
    [n \in 1..Cardinality(at) |->
        s[CHOOSE i \in at : Cardinality({j \in at : j < i}) = n - 1]]

Foremost(at, most) == {i \in at : Cardinality({j \in at : j < i}) < most}
FirstOnes(s, most) == SubSeq(s, 1, Min({Len(s), most}))

LongestFirst(words) ==
    LET Place(s, w) ==
            LET shorter == SelectInSeq(s, LAMBDA v : WordSize[v] < WordSize[w])
            IN  IF shorter = 0 THEN Append(s, w) ELSE InsertAt(s, shorter, w)
    IN  FoldLeft(Place, <<>>, words)

Once(s) == FoldLeft(LAMBDA t, e : IF Contains(t, e) THEN t ELSE Append(t, e), <<>>, s)

(* A query is asked as it is, without its blanks, and then word by word, the
   longest first; general words count only when there are no others. *)
SearchQueryVariants(query) ==
    LET Text(words, joined) == [words |-> words, joined |-> joined /\ Len(words) > 1]
        words == SelectSeq(query, LAMBDA w : WordSize[w] >= 2)
        specific == SelectSeq(words, LAMBDA w : w \notin GenericWords)
        single == IF specific # <<>> THEN LongestFirst(specific) ELSE words
        all == Once(<<Text(query, FALSE), Text(query, TRUE)>>
                    \o [i \in DOMAIN single |-> Text(<<single[i]>>, FALSE)])
    IN  FirstOnes(all, MaxVariants)

SearchEntityToRef(entity) ==
    [NoRef EXCEPT !.id = entity.id, !.link = entity.id, !.type = entity.type, !.kind = "search"]

(* A wiki item without the token of its object is taken with that of its node,
   and as no wiki link, so that the node is not looked up when it is read. *)
WikiSearchItemToRef(item) ==
    [NoRef EXCEPT !.id = IF item.object # "none" THEN item.object ELSE item.node,
                  !.link = item.node, !.type = item.type, !.kind = "search"]

KnownTypes == {"doc", "sheet", "bitable"}

SearchCandidate(index, variant) ==
    LET hits == IF variant \in DOMAIN index THEN index[variant] ELSE [docs |-> <<>>, wiki |-> <<>>]
        docs == Those(hits.docs, {i \in DOMAIN hits.docs : hits.docs[i].type \in KnownTypes})
        wiki == Those(hits.wiki, {i \in DOMAIN hits.wiki : hits.wiki[i].type \in KnownTypes})
    IN  [i \in DOMAIN docs |-> SearchEntityToRef(docs[i])]
        \o [i \in DOMAIN wiki |-> WikiSearchItemToRef(wiki[i])]

(* A resource that is found in several places is kept once. *)
SameResource(r, q) == r.type = q.type /\ r.id = q.id

Distinct(hits, most) ==
    LET new == {i \in DOMAIN hits : ~\E j \in 1..i - 1 : SameResource(hits[j], hits[i])}
    IN  Those(hits, Foremost(new, most))

(* The first variant that finds anything ends the search. *)
Search(index, query, limit) ==
    LET most == Min({Max({limit, 1}), ResultLimit})
        variants == SearchQueryVariants(query)
        Found(v) == Distinct(SearchCandidate(index, v), most)
        first == SelectInSeq(variants, LAMBDA v : Found(v) # <<>>)
    IN  IF first = 0 THEN <<>> ELSE Found(variants[first])

-------------------------------------------------------------------------------
(* Reading. *)
Refuses(remote, call, type) == remote.type # type \/ call \in remote.refuses

(* The resource a wiki node leads to; NoRef when it cannot be told or read. *)
ResolveWikiRef(world, ref) ==
    LET node == world[ref.id]
    IN  IF Refuses(node, "node", "wiki") \/ node.leads = "none" THEN NoRef
        ELSE IF world[node.leads].type \notin KnownTypes THEN NoRef
        ELSE [ref EXCEPT !.id = node.leads, !.type = world[node.leads].type, !.kind = "resolved"]

(* Objects inside a document that cannot be read are a line of its text. *)
ReadDoc(remote, ref) ==
    IF Refuses(remote, "content", "doc") THEN Failed(ref)
    ELSE [Result(ref) EXCEPT !.readable = remote.text \/ remote.embedded \/ "blocks" \in remote.refuses]

FirstVisibleSheet(sheets) ==
    LET visible == SelectInSeq(sheets, LAMBDA s : ~s.hidden)
    IN  IF visible > 0 THEN sheets[visible] ELSE sheets[1]

(* The cells that are read, as places in the range that is read. *)
ReadCells(sheet, ref) ==
    IF ref.hint # NoCell
    THEN {<<1, 1>> : cell \in {c \in sheet.cells : c = <<ref.hint.row, ColumnOf(ref.hint.column)>>}}
    ELSE {c \in sheet.cells : c[1] =< MaxSheetRows /\ c[2] =< MaxSheetColumns}

(* mutant of NextAppendRow: the last row with data, not the one below it *)
LastRowWithData(cells) == Max({1} \cup {c[1] : c \in cells})

NextAppendRow(cells) == Max({0} \cup {c[1] : c \in cells}) + 1

(* A page asked of a document is no range of the sheet that its wiki address may
   turn out to be. *)
ReadSheet(remote, ref) ==
    LET named == SelectInSeq(remote.sheets, LAMBDA s : s.id = ref.sheet)
        sheet == IF ref.sheet = "none" THEN FirstVisibleSheet(remote.sheets)
                 ELSE remote.sheets[named]
    IN  IF \/ ref.sheet = "none" /\ (Refuses(remote, "sheets", "sheet") \/ remote.sheets = <<>>)
           \/ ref.sheet # "none" /\ named = 0
           \/ Refuses(remote, "values", "sheet") \/ ref.page # NoPage
        THEN Failed(ref)
        ELSE [Result([ref EXCEPT !.sheet = sheet.id])
                EXCEPT !.append = NextAppendRow(ReadCells(sheet, ref))]

(* A table that is named by its id is not looked for; else the one with the name,
   or the first one. *)
ResolveBitableTable(remote, ref) ==
    LET named == SelectInSeq(remote.tables, LAMBDA t : t.name = ref.table)
        ids == {remote.tables[i].id : i \in DOMAIN remote.tables}
    IN  IF ref.table \in ids THEN ref.table
        ELSE IF Refuses(remote, "tables", "bitable") \/ remote.tables = <<>> THEN "none"
        ELSE remote.tables[IF named > 0 THEN named ELSE 1].id

(* A view that cannot be read is replaced by the records in their own order, and
   records that cannot be read either by none. *)
RecordsOf(remote, ref) ==
    IF ref.view /\ "view" \notin remote.refuses THEN remote.viewed
    ELSE IF Refuses(remote, "records", "bitable") THEN <<>> ELSE remote.records

(* Without the list of fields their names are those in the records, without types. *)
FieldsOf(remote, records) ==
    IF ~Refuses(remote, "fields", "bitable") THEN remote.fields
    ELSE IF records = <<>> THEN <<>>
    ELSE [i \in DOMAIN remote.fields |-> [remote.fields[i] EXCEPT !.text = FALSE]]

(* The line of a record: its id and its cells, joined as they are by a separator. *)
Printed(key, text) ==
    IF text = Empty THEN <<>> ELSE <<[key |-> key, value |-> text.head]>> \o text.more

Line(record, fields) ==
    <<<<[key |-> "record_id", value |-> record.id]>>>>
    \o [i \in DOMAIN fields |-> Printed(fields[i].name, record.values[fields[i].name])]

CutOff(line, cut) ==
    [g \in 1..Min({Len(line), cut.group}) |->
        IF g < cut.group THEN line[g]
        ELSE [k \in 1..Min({Len(line[g]), cut.piece}) |->
                IF k < cut.piece THEN line[g][k] ELSE [line[g][k] EXCEPT !.value = cut.rest]]]

LineLeft(record, fields, i, cut) ==
    IF i = cut.line THEN CutOff(Line(record, fields), cut) ELSE Line(record, fields)

(* mutant of Numbered: the numbering starts with the headings *)
NumberedFromHeadings(records, fields, cut) ==
    [i \in 1..Min({Len(records), MaxRecords, MaxIndexed, cut.line}) |->
        RecordFromLine(i + 1, LineLeft(records[i], fields, i, cut))]

(* As many records as are numbered can be told by number or value, and only by what
   is read back from their lines. *)
Numbered(records, fields, cut) ==
    [i \in 1..Min({Len(records), MaxRecords, MaxIndexed, cut.line}) |->
        RecordFromLine(i, LineLeft(records[i], fields, i, cut))]

ReadBitable(remote, ref) ==
    LET table == ResolveBitableTable(remote, ref)
        records == RecordsOf(remote, ref)
        fields == FieldsOf(remote, records)
    IN  IF remote.type # "bitable" \/ table = "none" THEN Failed(ref)
        ELSE [Result([ref EXCEPT !.table = table])
                EXCEPT !.table = [fields |-> fields,
                                  records |-> Numbered(records, fields, remote.cut)]]

(* A page is read at the end of its redirects, each of which must be allowed. *)
WebReadControlError(host) ==
    host \in BlockedHosts \/ (AllowedHosts # {} /\ host \notin AllowedHosts)

ReadWeb(remote, ref) ==
    LET seen == FirstOnes(remote.hops, MaxWebRedirects + 1)
    IN  IF \/ Refuses(remote, "page", "web") \/ Len(remote.hops) > Len(seen)
           \/ \E i \in DOMAIN seen : WebReadControlError(seen[i])
        THEN Failed(ref)
        ELSE [Result(ref) EXCEPT !.readable = remote.text]

(* One resource is read; whatever goes wrong is a result. *)
ReadResource(world, ref) ==
    LET resolved == IF ref.kind = "wiki" THEN ResolveWikiRef(world, ref) ELSE ref
        remote == world[resolved.id]
    IN  IF resolved = NoRef THEN Failed(ref)
        ELSE CASE resolved.type = "doc" -> ReadDoc(remote, resolved)
               [] resolved.type = "sheet" -> ReadSheet(remote, resolved)
               [] resolved.type = "bitable" -> ReadBitable(remote, resolved)
               [] resolved.type = "web" -> ReadWeb(remote, resolved)
===============================================================================
