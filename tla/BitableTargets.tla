---------------------------- MODULE BitableTargets ----------------------------
(* Which record and which field of a table ("bitable") an update goes to, and
   which field a new record fills (src/src/flago/agent/assistant.py).

   A table as it is read back from the text of the reader: [fields |-> a sequence of
   records with the field's name and what its name and type say about it, records |->
   a sequence of [index, id, values]].  What a text (the request or the model's answer) says
   about a table: [asks |-> the field it asks for by "field X", mentions |-> for
   each field how it is mentioned, id, pair, value, row |-> what tells the record],
   with "none" and 0 for what it leaves out and -1 for the last row. *)
EXTENDS Integers, Sequences, SequencesExt, FiniteSets, FiniteSetsExt

CONSTANT FieldTitles  \* what fields may be called, and what may stand before an "="

FieldType == [name : FieldTitles, text : BOOLEAN, general : BOOLEAN, system : BOOLEAN]
RecordType == [index : Nat, id : STRING, values : [FieldTitles -> STRING]]
TableType == [fields : Seq(FieldType), records : Seq(RecordType)]

(* The line of a record in that text is split at every separator.  A piece is what
   stands before and after an "=" (those without are skipped), and a line a sequence
   of groups of pieces: the id the reader printed, and what it printed of each cell.
   Of several pieces with the same key the last one counts. *)
PieceType == [key : FieldTitles \cup {"record_id"}, value : STRING]

LastStated(line, key) ==
    LET groups == {g \in DOMAIN line : \E k \in DOMAIN line[g] : line[g][k].key = key}
        group == line[Max(groups)]
    IN  IF groups = {} THEN "none"
        ELSE group[Max({k \in DOMAIN group : group[k].key = key})].value

RecordFromLine(index, line) ==
    [index |-> index, id |-> LastStated(line, "record_id"),
     values |-> [f \in FieldTitles |->
                    IF f = "record_id" THEN "none" ELSE LastStated(line, f)]]

NoTable == [fields |-> <<>>, records |-> <<>>]
NoPair == [field |-> "none", value |-> "none"]

FieldNames(table) == {table.fields[i].name : i \in DOMAIN table.fields}

(* The first of the fields with the best score; the code breaks ties by the line. *)
BestOf(table, candidates, score) ==
    LET best == {i \in candidates : \A j \in candidates : score[j] =< score[i]}
    IN  table.fields[Min(best)].name

-------------------------------------------------------------------------------
(* The field of an update. *)

(* How a mention in the answer counts: "valued" says what the field holds now,
   "set" what it is set to, "marked" is near a word of change, "beside" near the
   new text. *)
ModelWeight == [valued |-> -50, set |-> 65, marked |-> 35, beside |-> 10]
RequestWeight == [valued |-> 0, set |-> 15, marked |-> 15, beside |-> 5]

Weigh(mentions, weight) ==
    LET Of(kind) == IF kind \in mentions THEN weight[kind] ELSE 0
    IN  Of("valued") + Of("set") + Of("marked") + Of("beside")

ModelScore(says, field) == Weigh(says.mentions[field.name], ModelWeight)
RequestScore(says, field) == 5 + Weigh(says.mentions[field.name], RequestWeight)

UpdateFieldFromModelText(answer, table) ==
    LET scored == {i \in DOMAIN table.fields : ModelScore(answer, table.fields[i]) # 0}
    IN  IF answer.asks \in FieldNames(table) THEN answer.asks
        ELSE IF scored = {} THEN "none"
        ELSE BestOf(table, scored, [i \in scored |-> ModelScore(answer, table.fields[i])])

UpdateFieldFromRequest(request, table) ==
    LET named == {i \in DOMAIN table.fields : request.mentions[table.fields[i].name] # {}}
    IN  IF named # {}
        THEN BestOf(table, named, [i \in named |-> RequestScore(request, table.fields[i])])
        ELSE IF request.asks \in FieldNames(table) THEN request.asks ELSE "none"

NameOr(name, otherwise) == IF name # "none" THEN name ELSE otherwise

UpdateField(request, answer, table) ==
    NameOr(UpdateFieldFromModelText(answer, table), UpdateFieldFromRequest(request, table))

-------------------------------------------------------------------------------
(* The record of an update. *)

NoSelector == [id |-> "none", pair |-> NoPair, row |-> 0]

(* What the answer says about the record comes before what the request says.  A
   value without the name of a field is looked for in every other field. *)
SelectorOf(says) ==
    IF says.id # "none" THEN [NoSelector EXCEPT !.id = says.id]
    ELSE IF says.pair # NoPair
    THEN [NoSelector EXCEPT !.pair = says.pair,
                            !.row = IF says.pair.field = "any" THEN 0 ELSE says.row]
    ELSE [NoSelector EXCEPT !.row = says.row]

MatchSelector(request, answer) ==
    SelectorOf(IF SelectorOf(answer) # NoSelector THEN answer ELSE request)

Matches(record, selector, field) ==
    IF selector.pair.field # "any" THEN record.values[selector.pair.field] = selector.pair.value
    ELSE \E f \in DOMAIN record.values \ {field} : record.values[f] = selector.pair.value

(* mutant of OnlyMatch: the first of several records that match *)
FirstMatch(found) == IF found = {} THEN "none" ELSE (CHOOSE r \in found : TRUE).id

OnlyMatch(found) == IF Cardinality(found) = 1 THEN (CHOOSE r \in found : TRUE).id ELSE "none"

LastRecord(table) ==
    CHOOSE r \in ToSet(table.records) : \A q \in ToSet(table.records) : q.index =< r.index

(* An id is taken as it stands, a row comes before a value, and a value must pick
   out one record only. *)
FindBitableRecord(table, selector, field) ==
    LET at == {r \in ToSet(table.records) : r.index = selector.row}
    IN  CASE selector.id # "none" -> selector.id
          [] selector.id = "none" /\ selector.row = -1 -> LastRecord(table).id
          [] selector.id = "none" /\ at # {} -> OnlyMatch(at)
          [] OTHER -> IF selector.pair.value = "none" THEN "none"
                      ELSE OnlyMatch({r \in ToSet(table.records) : Matches(r, selector, field)})

NoUpdate == [record |-> "none", field |-> "none"]

UpdateTo(record, field) ==
    IF record = "none" THEN NoUpdate ELSE [record |-> record, field |-> field]

UpdateWhere(table, selector, field) ==
    IF field = "none" \/ selector = NoSelector THEN NoUpdate
    ELSE UpdateTo(FindBitableRecord(table, selector, field), field)

(* The record and the field an update goes to, NoUpdate when one is not known. *)
BitableUpdatePlan(request, answer, table) ==
    IF table.fields = <<>> \/ table.records = <<>> THEN NoUpdate
    ELSE UpdateWhere(table, MatchSelector(request, answer), UpdateField(request, answer, table))

-------------------------------------------------------------------------------
(* The field of a new record: one that is asked for, else the best by its type
   and its name; a field that the system fills is the last choice. *)
FieldScore(field, request) ==
    (IF field.text THEN 35 ELSE 0) + (IF field.general THEN 18 ELSE 0)
    + (IF request.mentions[field.name] # {} THEN 16 ELSE 0)
    - (IF field.system THEN 30 ELSE 0)

InferWriteField(request, answer, table) ==
    IF request.asks \in FieldNames(table) THEN request.asks
    ELSE IF answer.asks \in FieldNames(table) THEN answer.asks
    ELSE IF table.fields = <<>> THEN "none"
    ELSE BestOf(table, DOMAIN table.fields,
                [i \in DOMAIN table.fields |-> FieldScore(table.fields[i], request)])
===============================================================================
