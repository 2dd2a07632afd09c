------------------------------ MODULE ModelText ------------------------------
(* Which part of a model's answer is the text it proposes to write
   (src/src/flago/agent/assistant.py): the answer as a sequence of lines, each of
   one of the kinds the code tells apart, and the text as the set of their
   indices.  The windows of 30 and 40 lines the code looks at are longer than any
   answer here and left out. *)
EXTENDS Integers, Sequences, FiniteSets, FiniteSetsExt

(* "label": a heading such as "text to write", "value": one such as "new value",
   "both" is in both lists; with In, the text follows on the same line.
   "meta" tells where it goes, "stop" what the user should do next, a table has a
   "header" with a value column or an "other" one, a "separator" and "row"s. *)
LineKinds == {"label", "labelIn", "value", "valueIn", "both", "bothIn", "meta", "stop",
              "plain", "blank", "quote", "fence", "header", "other", "separator", "row"}

IsGeneratedLabel(kind) == kind \in {"label", "labelIn", "both", "bothIn"}
IsValueLabel(kind) == kind \in {"value", "valueIn", "both", "bothIn"}
HasInlineContent(kind) == kind \in {"labelIn", "valueIn", "bothIn"}
IsTableLine(kind) == kind \in {"header", "other", "separator", "row"}

Inline(lines, i) == IF HasInlineContent(lines[i]) THEN {i} ELSE {}

(* A text counts unless it is empty or begins like a table or an instruction. *)
Usable(lines, content) ==
    LET visible == {i \in content : lines[i] # "blank"}
    IN  visible # {} /\ ~IsTableLine(lines[Min(visible)]) /\ lines[Min(visible)] # "stop"

(* The lines from i on as far as they are all good ones. *)
RunFrom(i, good) == {j \in good : i =< j /\ i..j \subseteq good}

FencedContent(lines, i) == RunFrom(i + 1, {k \in DOMAIN lines : lines[k] # "fence"})

BlockquoteContent(lines, i) == RunFrom(i, {k \in DOMAIN lines : lines[k] = "quote"})

(* mutant of PlainContent: instructions are taken with the text *)
PlainWithInstructions(lines, i) ==
    RunFrom(i, {k \in DOMAIN lines : /\ lines[k] \notin {"blank", "meta"}
                                     /\ k > i => ~IsGeneratedLabel(lines[k])})

PlainContent(lines, i) ==
    RunFrom(i, {k \in DOMAIN lines : /\ lines[k] \notin {"blank", "stop", "meta"}
                                     /\ k > i => ~IsGeneratedLabel(lines[k])})

(* The block that follows a label: code, a quotation or a paragraph. *)
BlockAfter(lines, start) ==
    LET text == {i \in start..Len(lines) : lines[i] # "blank"}
        first == Min(text)
    IN  IF text = {} THEN {}
        ELSE CASE lines[first] = "fence" -> FencedContent(lines, first)
               [] lines[first] = "quote" -> BlockquoteContent(lines, first)
               [] OTHER -> PlainContent(lines, first)

(* Contents are sets of lines; {} says that there is none. *)
FirstOf(content, otherwise) == IF content # {} THEN content ELSE otherwise

InlineOrBlock(lines, i) == FirstOf(Inline(lines, i), BlockAfter(lines, i + 1))

(* Of the labels that have a content, each with it, that of the first. *)
OfFirstLabel(found) ==
    IF found = {} THEN {} ELSE (CHOOSE f \in found : \A g \in found : f.at =< g.at).content

UsableOnly(lines, content) == IF Usable(lines, content) THEN content ELSE {}

(* The first value label before any instruction that has a usable text. *)
ExplicitContent(lines, start) ==
    LET labels == {i \in start..Len(lines) : /\ IsValueLabel(lines[i])
                                             /\ \A k \in start..i : lines[k] # "stop"}
    IN  OfFirstLabel({f \in {[at |-> i, content |-> InlineOrBlock(lines, i)] : i \in labels} :
                         Usable(lines, f.content)})

(* The first row of the first table with a value column: its cell. *)
TableContent(lines, start) ==
    LET tables == {i \in start..(Len(lines) - 2) :
                      /\ lines[i] = "header"
                      /\ lines[i + 1] = "separator"
                      /\ IsTableLine(lines[i + 2])}
    IN  IF tables = {} THEN {} ELSE {Min(tables) + 2}

(* What belongs to a generated-content label. *)
BlockAfterLabel(lines, i) ==
    FirstOf(Inline(lines, i),
            FirstOf(ExplicitContent(lines, i + 1),
                    FirstOf(TableContent(lines, i + 1),
                            UsableOnly(lines, BlockAfter(lines, i + 1)))))

LabelledContent(lines) ==
    LET labels == {i \in DOMAIN lines : IsGeneratedLabel(lines[i])}
    IN  OfFirstLabel({f \in {[at |-> i, content |-> BlockAfterLabel(lines, i)] : i \in labels} :
                         f.content # {}})

GeneratedContent(lines) == FirstOf(ExplicitContent(lines, 1), LabelledContent(lines))

-------------------------------------------------------------------------------
(* A text that may be written stands in one piece below a label.  It is the code
   between two fences, or up to the end behind one that is left open, or has neither
   a gap in it nor a line that tells where it goes or what to do next. *)
CleanContent(lines, content) ==
    \E first, last \in DOMAIN lines :
        /\ content = first..last
        /\ \E label \in 1..first : IsGeneratedLabel(lines[label]) \/ IsValueLabel(lines[label])
        /\ \/ \A i \in content : lines[i] \notin {"blank", "meta", "stop"}
           \/ /\ first > 1 /\ lines[first - 1] = "fence"
              /\ \A i \in content : lines[i] # "fence"
              /\ last = Len(lines) \/ lines[last + 1] = "fence"

(* The code that begins there goes on to the end of the answer. *)
IsLeftOpen(lines, first) ==
    first > 1 /\ lines[first - 1] = "fence" /\ \A i \in first..Len(lines) : lines[i] # "fence"
===============================================================================
