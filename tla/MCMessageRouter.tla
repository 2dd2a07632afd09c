-------------------------- MODULE MCMessageRouter --------------------------
(* An instance of MessageRouter for TLC. *)
EXTENDS MessageRouter, TLC

Deployment(enabled, autoAllowed, mode) ==
    [enabled |-> enabled, autoAllowed |-> autoAllowed, mode |-> mode]

(* Writing paused; direct writes as the default, which users may override;  *)
(* clicks as the default, which they may not override; drafts only.        *)
SomeDeployments ==
    {Deployment(FALSE, TRUE, "low_risk_direct"), Deployment(TRUE, TRUE, "low_risk_direct"),
     Deployment(TRUE, FALSE, "always"), Deployment(TRUE, TRUE, "draft_only")}

Line == [type |-> "doc.append", place |-> "end", large |-> FALSE]
Long == [type |-> "doc.append", place |-> "head", large |-> TRUE]
Cell == [type |-> "sheet.write_range", place |-> "inside", large |-> FALSE]

SomeContents == {Line, Long, Cell}

SomeResponses == {<<>>, <<Line>>, <<Line, Line>>, <<Line, Cell>>, <<Long, Line>>}

Symmetry == Permutations(Tasks) \cup Permutations(Events)
=============================================================================
