----------------------------- MODULE WriteExecution -----------------------------
(* What confirmed writes and their undos do to a document, a sheet and a table
   (src/src/flago/writeback/executor.py, the write calls of
   src/src/flago/feishu/openapi.py and _undo_metadata of
   src/src/flago/writeback/service.py), while other people edit them too.

   An execution is a sequence of calls to the Feishu API, each awaited, so that
   executions and edits of others interleave between them.  A call may be refused
   (no token, no scope, an error code: nothing was changed) or its answer may be
   lost (it was changed, the execution fails).  A process that dies between two
   calls leaves what a call that is refused leaves; whose status that is belongs
   to Writeback.  One document, one sheet and one table stand for all. *)
EXTENDS Integers, Sequences, SequencesExt, FiniteSets, FiniteSetsExt

CONSTANTS Jobs,         \* the actions
          Batches,      \* the sets of actions that are confirmed in one behaviour
          JobType,      \* [Jobs -> the action type]
          Values,       \* what stands in a cell: texts, numbers, dates, formulas
          Rendered,     \* [Values -> the text a reading shows of it]
          Formulas,     \* the cells that hold a formula at the start
          JobValues,    \* what a sheet write writes: rows of cell values
          JobBlocks,    \* how many blocks the text of a document write has
          AtStart,      \* the document writes that go to the start
          Rows, Columns,
          MaxOthers,    \* edits of other people
          MaxAttempts   \* times an undo is confirmed

Cells == Rows \X Columns

Width(values) == Max({0} \cup {Len(values[i]) : i \in DOMAIN values})

CreatingTypes == {"doc_create", "doc_append", "bitable_create"}

(* Nobody and nothing else bears the name of an action; the rectangle of a sheet write is
   part of the sheet; a text is shown as itself, a formula as what it yields. *)
ASSUME JobsAssumption ==
    /\ Batches \subseteq SUBSET Jobs /\ {"they", "r0"} \cap Jobs = {}
    /\ JobType \in [Jobs -> CreatingTypes \cup {"sheet_write", "bitable_update"}]
    /\ JobBlocks \in [Jobs -> Nat \ {0}]
    /\ MaxOthers \in Nat /\ MaxAttempts \in Nat
ASSUME SheetAssumption ==
    /\ {"old", "theirs", "formula"} \subseteq Values /\ Formulas \subseteq Cells
    /\ Rendered \in [Values -> Values] /\ \A v \in Values : Rendered[Rendered[v]] = Rendered[v]
    /\ \A j \in Jobs : JobType[j] = "sheet_write" =>
          /\ JobValues[j] \in Seq(Seq(Values))
          /\ (DOMAIN JobValues[j]) \X (1..Width(JobValues[j])) \subseteq Cells

VARIABLES doc,      \* the blocks of the document, in order
          sheet,    \* [Cells -> value]
          table,    \* [ids of records -> value]
          files,    \* [new documents -> "empty" or "filled"]
          run,      \* for each job, how far its execution is and with what result
          undo,     \* the same for the undo of each job, with its number of attempts
          others    \* edits of other people: how many, and what they removed

vars == <<doc, sheet, table, files, run, undo, others>>

(* result is what the execution returns; before, which only the properties use, what
   the job's cells held when they were read. *)
Execution == [phase |-> "todo", result |-> <<>>, before |-> <<>>]

Block(j, i) == <<j, i>>

Init ==
    /\ doc = <<Block("they", 0)>>
    /\ sheet = [c \in Cells |-> IF c \in Formulas THEN "formula" ELSE "old"]
    /\ table = [r \in {"r0"} |-> "old"]
    /\ files = <<>>
    /\ \E batch \in Batches : run = [j \in Jobs |->
          [Execution EXCEPT !.phase = IF j \in batch THEN "todo" ELSE "proposed"]]
    /\ undo = [j \in Jobs |-> [phase |-> "none", left |-> <<>>, attempts |-> 0]]
    /\ others = [count |-> 0, removed |-> {}]

-------------------------------------------------------------------------------
(* The cells of a write and its snapshot.  A reading yields texts, whatever the cells hold
   (valueRenderOption ToString, dateTimeRenderOption FormattedString). *)
Shown == [c \in Cells |-> Rendered[sheet[c]]]

WrittenCells(values) == UNION {{i} \X DOMAIN values[i] : i \in DOMAIN values}

(* mutant of Snapshot: as wide as the first row *)
SnapshotOfFirstRow(current, values) ==
    [i \in DOMAIN values |-> [k \in DOMAIN values[1] |-> current[<<i, k>>]]]

(* What is kept to undo a write: a full rectangle, whatever the rows written. *)
Snapshot(current, values) ==
    [i \in DOMAIN values |-> [k \in 1..Width(values) |-> current[<<i, k>>]]]

Overlay(current, values) ==
    [c \in Cells |-> IF c \in WrittenCells(values) THEN values[c[1]][c[2]] ELSE current[c]]

-------------------------------------------------------------------------------
(* The undo a successful write leaves: what it created is deleted, what it wrote
   over is written back.  Other writes have none. *)
Undoable(j) ==
    /\ run[j].phase = "done"
    /\ JobType[j] \in {"doc_append", "bitable_create", "sheet_write"}
    /\ JobType[j] = "doc_append" => run[j].result # <<>>

(* mutant of UndoCalls: a document is undone by where the text went *)
UndoByPosition(j) ==
    CASE JobType[j] = "doc_append" ->
           [i \in DOMAIN run[j].result |->
              doc[Min({Len(doc), IF j \in AtStart THEN i ELSE Len(doc) - i + 1})]]
      [] JobType[j] = "bitable_create" -> <<j>>
      [] JobType[j] = "sheet_write" -> <<run[j].result>>

(* mutant of UndoCalls: the blocks from the first to the last *)
UndoFirstToLast(j) ==
    CASE JobType[j] = "doc_append" -> run[j].result
      [] JobType[j] = "bitable_create" -> <<j>>
      [] JobType[j] = "sheet_write" -> <<run[j].result>>

(* The calls of an undo, in order: the blocks from the last to the first. *)
UndoCalls(j) ==
    CASE JobType[j] = "doc_append" -> Reverse(run[j].result)
      [] JobType[j] = "bitable_create" -> <<j>>
      [] JobType[j] = "sheet_write" -> <<run[j].result>>

-------------------------------------------------------------------------------
(* Executions. *)
Set(j, phase) == run' = [run EXCEPT ![j].phase = phase]

(* A call is refused: the execution fails with what it did so far. *)
Refused(j) ==
    /\ run[j].phase \in {"todo", "read", "created"}
    /\ Set(j, "failed")
    /\ UNCHANGED <<doc, sheet, table, files, undo, others>>

(* A call that was carried out and whose answer came, or did not. *)
Answered(j, lost, phase, result) ==
    [run[j] EXCEPT !.phase = IF lost THEN "failed" ELSE phase,
                   !.result = IF lost THEN <<>> ELSE result]

Blocks(j) == [i \in 1..JobBlocks[j] |-> Block(j, i)]

(* The text becomes one block per line, at the start or the end of the document;
   the answer names the blocks that were made, if it names them. *)
AppendDocText(j) ==
    /\ JobType[j] = "doc_append" /\ run[j].phase = "todo"
    /\ doc' = IF j \in AtStart THEN Blocks(j) \o doc ELSE doc \o Blocks(j)
    /\ \E lost \in BOOLEAN, result \in {<<>>, Blocks(j)} :
          run' = [run EXCEPT ![j] = Answered(j, lost, "done", result)]
    /\ UNCHANGED <<sheet, table, files, undo, others>>

(* A document is created and then filled by a second call, which may fail alone; without a
   text, or when the answer names no document, nothing is filled. *)
CreateDoc(j) ==
    /\ JobType[j] = "doc_create" /\ run[j].phase = "todo"
    /\ files' = [d \in DOMAIN files \cup {j} |-> IF d = j THEN "empty" ELSE files[d]]
    /\ \E lost \in BOOLEAN, phase \in {"created", "done"} :
          run' = [run EXCEPT ![j] = Answered(j, lost, phase, <<>>)]
    /\ UNCHANGED <<doc, sheet, table, undo, others>>

FillDoc(j) ==
    /\ JobType[j] = "doc_create" /\ run[j].phase = "created"
    /\ files' = [files EXCEPT ![j] = "filled"]
    /\ \E lost \in BOOLEAN : run' = [run EXCEPT ![j] = Answered(j, lost, "done", <<>>)]
    /\ UNCHANGED <<doc, sheet, table, undo, others>>

(* A sheet is read first, for the undo, and written by a second call. *)
ReadSheetRange(j) ==
    /\ JobType[j] = "sheet_write" /\ run[j].phase = "todo"
    /\ run' = [run EXCEPT ![j].phase = "read",
                          ![j].result = Snapshot(Shown, JobValues[j]),
                          ![j].before = [c \in WrittenCells(JobValues[j]) |-> sheet[c]]]
    /\ UNCHANGED <<doc, sheet, table, files, undo, others>>

WriteSheetRange(j) ==
    /\ JobType[j] = "sheet_write" /\ run[j].phase = "read"
    /\ sheet' = Overlay(sheet, JobValues[j])
    /\ \E lost \in BOOLEAN :
          run' = [run EXCEPT ![j] = Answered(j, lost, "done", run[j].result)]
    /\ UNCHANGED <<doc, table, files, undo, others>>

CreateBitableRecord(j) ==
    /\ JobType[j] = "bitable_create" /\ run[j].phase = "todo"
    /\ table' = [r \in DOMAIN table \cup {j} |-> IF r = j THEN "new" ELSE table[r]]
    /\ \E lost \in BOOLEAN : run' = [run EXCEPT ![j] = Answered(j, lost, "done", <<>>)]
    /\ UNCHANGED <<doc, sheet, files, undo, others>>

UpdateBitableRecord(j) ==
    /\ JobType[j] = "bitable_update" /\ run[j].phase = "todo"
    /\ table' = [table EXCEPT !["r0"] = "new"]
    /\ \E lost \in BOOLEAN : run' = [run EXCEPT ![j] = Answered(j, lost, "done", <<>>)]
    /\ UNCHANGED <<doc, sheet, files, undo, others>>

-------------------------------------------------------------------------------
(* Undos.  One that failed may be asked for again: the write is not marked as
   undone, and its undo starts from the beginning. *)
ConfirmUndo(j) ==
    /\ Undoable(j)
    /\ undo[j].phase \in {"none", "failed"} /\ undo[j].attempts < MaxAttempts
    /\ undo' = [undo EXCEPT ![j] = [phase |-> "calls", left |-> UndoCalls(j),
                                    attempts |-> @.attempts + 1]]
    /\ UNCHANGED <<doc, sheet, table, files, run, others>>

UndoRefused(j) ==
    /\ undo[j].phase = "calls"
    /\ undo' = [undo EXCEPT ![j].phase = "failed", ![j].left = <<>>]
    /\ UNCHANGED <<doc, sheet, table, files, run, others>>

(* mutant of AfterCall: done one call too early *)
DoneTooEarly(j, lost) ==
    IF lost THEN [undo[j] EXCEPT !.phase = "failed", !.left = <<>>]
    ELSE [undo[j] EXCEPT !.phase = IF Len(undo[j].left) > 2 THEN "calls" ELSE "done",
                         !.left = Tail(@)]

(* mutant of AfterCall: a call without an answer has no outcome of its own *)
LostIsAnOutcome(j, lost) ==
    IF lost THEN [undo[j] EXCEPT !.phase = "lost", !.left = <<>>]
    ELSE [undo[j] EXCEPT !.phase = IF Len(undo[j].left) > 1 THEN "calls" ELSE "done",
                         !.left = Tail(@)]

(* After a call of an undo: the next one, or the end. *)
AfterCall(j, lost) ==
    IF lost THEN [undo[j] EXCEPT !.phase = "failed", !.left = <<>>]
    ELSE [undo[j] EXCEPT !.phase = IF Len(undo[j].left) > 1 THEN "calls" ELSE "done",
                         !.left = Tail(@)]

(* Deleting what is not there is refused or does nothing. *)
DeleteDocBlock(j) ==
    /\ undo[j].phase = "calls" /\ JobType[j] = "doc_append"
    /\ \/ \E i \in DOMAIN doc : doc[i] = Head(undo[j].left) /\ doc' = RemoveAt(doc, i)
       \/ Head(undo[j].left) \notin ToSet(doc) /\ UNCHANGED doc
    /\ \E lost \in BOOLEAN : undo' = [undo EXCEPT ![j] = AfterCall(j, lost)]
    /\ UNCHANGED <<sheet, table, files, run, others>>

DeleteBitableRecord(j) ==
    /\ undo[j].phase = "calls" /\ JobType[j] = "bitable_create"
    /\ table' = [r \in DOMAIN table \ {Head(undo[j].left)} |-> table[r]]
    /\ \E lost \in BOOLEAN : undo' = [undo EXCEPT ![j] = AfterCall(j, lost)]
    /\ UNCHANGED <<doc, sheet, files, run, others>>

(* The undo of a sheet write is a sheet write: it reads, too, but keeps nothing. *)
RestoreSheetRange(j) ==
    /\ undo[j].phase = "calls" /\ JobType[j] = "sheet_write"
    /\ sheet' = Overlay(sheet, Head(undo[j].left))
    /\ \E lost \in BOOLEAN : undo' = [undo EXCEPT ![j] = AfterCall(j, lost)]
    /\ UNCHANGED <<doc, table, files, run, others>>

-------------------------------------------------------------------------------
(* Other people. *)
SomebodyInserts ==
    /\ others.count < MaxOthers
    /\ \E i \in 1..(Len(doc) + 1) :
          doc' = InsertAt(doc, i, Block("they", others.count + 1))
    /\ others' = [others EXCEPT !.count = @ + 1]
    /\ UNCHANGED <<sheet, table, files, run, undo>>

SomebodyRemoves ==
    /\ others.count < MaxOthers
    /\ \E i \in DOMAIN doc :
          /\ doc' = RemoveAt(doc, i)
          /\ others' = [count |-> others.count + 1, removed |-> others.removed \cup {doc[i]}]
    /\ UNCHANGED <<sheet, table, files, run, undo>>

SomebodyWrites ==
    /\ others.count < MaxOthers
    /\ \E c \in Cells, v \in {"theirs", "formula"} : sheet' = [sheet EXCEPT ![c] = v]
    /\ others' = [others EXCEPT !.count = @ + 1]
    /\ UNCHANGED <<doc, table, files, run, undo>>

Next ==
    \/ \E j \in Jobs : \/ Refused(j) \/ AppendDocText(j) \/ CreateDoc(j) \/ FillDoc(j)
                       \/ ReadSheetRange(j) \/ WriteSheetRange(j)
                       \/ CreateBitableRecord(j) \/ UpdateBitableRecord(j)
                       \/ ConfirmUndo(j) \/ UndoRefused(j)
                       \/ DeleteDocBlock(j) \/ DeleteBitableRecord(j) \/ RestoreSheetRange(j)
    \/ SomebodyInserts \/ SomebodyRemoves \/ SomebodyWrites

Spec == Init /\ [][Next]_vars

-------------------------------------------------------------------------------
(* The blocks that may stand in the document: of the writes, and of other people. *)
BlocksOf(j) == {Block(j, i) : i \in 1..JobBlocks[j]}
AllBlocks == (UNION {BlocksOf(j) : j \in Jobs}) \cup {Block("they", i) : i \in 0..MaxOthers}

(* The state keeps its types, and no block stands twice in the document.
   (FeishuWriteExecutor.execute.) *)
ExecutionTypeOK ==
    /\ doc \in Seq(AllBlocks) /\ IsInjective(doc)
    /\ sheet \in [Cells -> Values]
    /\ DOMAIN table \subseteq {"r0"} \cup Jobs /\ DOMAIN files \subseteq Jobs
    /\ \A j \in Jobs : /\ run[j].phase \in {"proposed", "todo", "read", "created", "done", "failed"}
                       /\ undo[j].phase \in {"none", "calls", "done", "failed"}
                       /\ undo[j].attempts \in 0..MaxAttempts
    /\ others.count \in 0..MaxOthers

(* The order of the blocks of other people: which stands before which. *)
Theirs(blocks) ==
    LET places == {i \in DOMAIN blocks : blocks[i][1] = "they"}
    IN {<<blocks[p[1]], blocks[p[2]]>> : p \in {q \in places \X places : q[1] =< q[2]}}

(* No write and no undo removes or reorders what other people put into the
   document, wherever they put it and whenever.  (An undo names the blocks that the
   answer to the append listed, not places: service.py _doc_created_block_ids.) *)
OthersBlocksSurvive == [][others' = others => Theirs(doc') = Theirs(doc)]_vars

(* However often calls of an undo are refused, lost or repeated: what it leaves of a
   text is an opening of it, no block without the one before it unless somebody
   removed that one; and an undo that counts as done leaves nothing that the write
   created, no block and no record.  (executor.py execute, the deleting types.) *)
UndoLeavesAnOpening ==
    \A j \in Jobs :
        /\ \A i \in 2..JobBlocks[j] :
              Block(j, i) \in ToSet(doc) => Block(j, i - 1) \in ToSet(doc) \cup others.removed
        /\ undo[j].phase = "done" => /\ \A b \in ToSet(doc) : b[1] # j
                                     /\ j \notin DOMAIN table

(* The cells of a sheet write hold at the end of its undo, however often that was asked
   for, the texts they showed when the write read them: in every row, also where the rows
   have different lengths.  So a text comes back as it was; of a formula, a number or a
   date only what it showed then comes back, as a text, although README.md:250 promises
   the old value.  What others wrote there since is lost.
   (executor.py _sheet_snapshot; openapi.py read_sheet_range.) *)
UndoRestoresWhatWasShown ==
    [][\A j \in Jobs :
          (JobType[j] = "sheet_write" /\ undo[j].phase # "done" /\ undo'[j].phase = "done")
            => \A c \in DOMAIN run[j].before : sheet'[c] = Rendered[run[j].before[c]]]_vars
===============================================================================
