---------------------------- MODULE MCAgentLoop ----------------------------
(* An instance of AgentLoop for TLC. *)
EXTENDS AgentLoop

Said(by, says) == [by |-> by, says |-> says]

Says == {"order", "sentence", "bare", "quote", "position", "chat"}

(* An order of the sender, and after it what may hide it; or no order of his *)
(* and one of somebody else.                                                *)
SomeHistories ==
    {<<>>, <<Said("sender", "chat"), Said("other", "order")>>}
    \cup {<<Said("sender", "order"), Said(by, says)>> :
              by \in {"sender", "other", "unnamed"}, says \in Says}

OwnWords == [source |-> "model", message |-> 0]
Copied   == [source |-> "model", message |-> 2]

SomeDrafts ==
    {[append |-> TRUE, document |-> document, content |-> content,
      stated |-> stated \cup (IF place = "none" THEN {} ELSE {place}), block |-> block,
      index |-> index, preview |-> [content |-> OwnWords, place |-> place]] :
         document \in BOOLEAN, content \in {Nothing, OwnWords, Copied},
         stated \in SUBSET {"start", "end"}, block \in {"none", "document", "other"},
         index \in {"none", "first", "later"}, place \in {"none", "start", "end"}}
    \cup {[append |-> FALSE, document |-> TRUE, content |-> OwnWords, stated |-> {},
            block |-> "none", index |-> "none",
            preview |-> [content |-> OwnWords, place |-> "none"]],
          [append |-> FALSE, document |-> TRUE, content |-> Copied, stated |-> {},
            block |-> "none", index |-> "none",
            preview |-> [content |-> Copied, place |-> "none"]]}
    \cup [append : {TRUE}, document : {TRUE}, content : {OwnWords}, stated : {{}, {"end"}},
            block : {"none", "document"}, index : {"none", "first"},
            preview : {[content |-> Nothing, place |-> "none"]}]

Good == [append |-> TRUE, document |-> TRUE, content |-> OwnWords, stated |-> {"end"},
         block |-> "none", index |-> "none",
         preview |-> [content |-> OwnWords, place |-> "end"]]

SomeDraftLists ==
    {<<>>} \cup {<<d>> : d \in SomeDrafts}
    \cup {<<Good, d>> : d \in {e \in SomeDrafts : e.append => e.stated = {} /\ e.index = "none"}}

Calling(tool, drafts) == [tool |-> tool, drafts |-> drafts, wellFormed |-> TRUE]

SomeCallLists ==
    {<<>>} \cup {<<Calling(tool, <<>>)>> : tool \in AgentTools}
    \cup {<<Calling("list_memory", <<>>), Calling("prepare_writeback", <<Good>>)>>,
          <<Calling("prepare_writeback", <<>>), Calling("prepare_writeback", <<Good>>)>>,
          <<Calling("prepare_writeback", <<Good>>), Calling("search_resources", <<>>)>>,
          <<[Calling("search_resources", <<>>) EXCEPT !.wellFormed = FALSE],
            Calling("web_read", <<>>)>>}
=============================================================================
