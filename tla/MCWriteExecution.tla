--------------------------- MODULE MCWriteExecution ---------------------------
(* Two appends to the document (one at its start), two sheet writes that share a
   cell, one of them with rows of different lengths, one of whose cells holds a formula
   at first, and one action of each other kind: batches of those that can meet. *)
EXTENDS WriteExecution, TLC

MCJobs == {"top", "end", "rows", "cell", "doc", "rec", "upd"}
MCBatches == {{"top", "end"}, {"rows", "cell"}, {"doc", "rec", "upd"}}
MCJobType == [j \in MCJobs |->
    CASE j \in {"top", "end"} -> "doc_append"
      [] j \in {"rows", "cell"} -> "sheet_write"
      [] j = "doc" -> "doc_create"
      [] j = "rec" -> "bitable_create"
      [] j = "upd" -> "bitable_update"]
MCValues == {"old", "theirs", "formula", "sum", "a", "b", "c", "d"}
MCRendered == [v \in MCValues |-> IF v = "formula" THEN "sum" ELSE v]
MCFormulas == {<<1, 1>>, <<2, 2>>}
MCJobValues == [j \in MCJobs |->
    CASE j = "rows" -> << <<"a">>, <<"b", "c">> >>
      [] j = "cell" -> << <<"d">> >>
      [] OTHER -> <<>>]
MCJobBlocks == [j \in MCJobs |-> IF j \in {"end", "top"} THEN 2 ELSE 1]
===============================================================================
