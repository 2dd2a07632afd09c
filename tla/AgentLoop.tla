----------------------------- MODULE AgentLoop -----------------------------
(***************************************************************************)
(* A request in Flago's agent mode: the model is asked for a decision, the *)
(* tools it calls are run one after the other, their results go into the   *)
(* next prompt, until there is an answer or the steps are used up.  What   *)
(* the model decides is arbitrary; what the code makes of it is not: which *)
(* tools run where, what becomes of a draft of a write on its way to a     *)
(* card, and that there is an end.                                         *)
(*                                                                         *)
(* Between two steps of the request the sender may switch his long-term    *)
(* memory on or off in another one.                                        *)
(***************************************************************************)
EXTENDS Integers, Sequences, SequencesExt

CONSTANTS
    MaxSteps,     \* FLAGO_AGENT_MAX_STEPS
    Histories,    \* what was said before: sequences of Message
    Drafts,       \* the writes a model may draft
    DraftLists,   \* the lists of them it may hand over
    CallLists,    \* the lists of tools it may call in one decision
    None

AgentTools ==
    {"search_resources", "read_resource", "inspect_doc_structure", "prepare_writeback",
     "get_writeback_policy", "list_memory", "upsert_memory_draft", "get_model_status",
     "web_read"}

(* An earlier message of the conversation, by the sender of the request, by *)
(* another member, or without a name; and what it says:                    *)
(*   order     write a quoted text to a named place                        *)
(*   sentence  write a sentence of some sort to a place: the words for it  *)
(*             are taken, although they are not the text that was wished   *)
(*   bare      a short text without the marks of a question or a wish      *)
(*   quote     a question or a wish with a quoted passage in it            *)
(*   position  only a place, as "write it at the end"                      *)
(*   chat      anything else                                               *)
Message ==
    [by : {"sender", "other", "unnamed"},
     says : {"order", "sentence", "bare", "quote", "position", "chat"}]

(* What a write says, and who put it there: the model, in its draft, or the *)
(* code.  message is the one of the conversation whose words they are, 0   *)
(* if they are nobody's: the model sees all of it and may copy any.         *)
Contents == [source : {"nobody", "model", "code"}, message : Nat]
Nothing  == [source |-> "nobody", message |-> 0]

WordsOf(i) == IF i = 0 THEN Nothing ELSE [source |-> "code", message |-> i]

(* A draft of a write.  Only appends to documents are looked into.  document *)
(* is whether the target names one, by an id or a link; stated the places  *)
(* that target, payload and preview speak of; block and index where in the *)
(* document; preview what the user is shown, if anything; its place is the *)
(* default one if the code says "append" because no place was stated.      *)
(* What the preview says is among what is stated: _write_position looks for *)
(* its words there too.                                                    *)
Draft ==
    [append : BOOLEAN, document : BOOLEAN, content : Contents,
     stated : SUBSET {"start", "end"},
     block : {"none", "document", "other"}, index : {"none", "first", "later"},
     preview : [content : Contents, place : {"none", "default", "start", "end"}]]

Call == [tool : AgentTools, drafts : Seq(Drafts), wellFormed : BOOLEAN]

Preparation == [ok : BOOLEAN, drafts : Seq(Draft)]

Answer == [kind : {"text", "proposals", "unparsed", "too_many", "raised"},
           proposals : Seq(Draft)]

ASSUME AgentAssumption ==
    /\ None \notin Answer
    /\ MaxSteps \in Nat \ {0}
    /\ Histories \subseteq Seq(Message)
    /\ Drafts \subseteq Draft
    /\ \A d \in Drafts :
           /\ d.preview.place # "none" => d.preview.place \in d.stated
           /\ d.content = Nothing \/ d.content.source = "model"
    /\ DraftLists \subseteq Seq(Drafts)
    /\ CallLists \subseteq Seq(Call)

VARIABLES
    request,    \* the request, fixed when it starts
    memoryOn,   \* memory_preferences of the sender
    everOn,     \* history: memory was on at some moment of this request
    step,       \* how many decisions were carried out
    pc,         \* the next step of the request
    calls,      \* the tools of this decision that are still to run
    prepared,   \* the first answer of prepare_writeback to this decision
    prompt,     \* whose private data the prompt holds
    answer      \* what the router gets

context == <<request, memoryOn, everOn>>
vars    == <<request, memoryOn, everOn, step, pc, calls, prepared, prompt, answer>>
-----------------------------------------------------------------------------
Request ==
    [private : BOOLEAN,      \* conversation_type
     enabled : BOOLEAN,      \* FLAGO_WRITEBACK_ENABLED
     history : Histories,    \* chat_context_messages, oldest first
     asks    : {"anything", "position"}]   \* text

Labels == {"ask", "repair", "tools", "end"}

AgentTypeOK ==
    /\ request \in Request
    /\ {memoryOn, everOn} \subseteq BOOLEAN
    /\ step \in 0..MaxSteps
    /\ pc \in Labels
    /\ calls \in Seq(Call)
    /\ prepared = None \/ prepared \in Preparation
    /\ prompt \subseteq {"memory", "search"}
    /\ answer = None \/ answer \in Answer
    /\ answer # None <=> pc = "end"

(* The router adds the sender's memories in a private chat if memory is on.  *)
Init ==
    /\ request \in Request
    /\ memoryOn \in BOOLEAN
    /\ everOn = memoryOn
    /\ step = 0
    /\ pc = "ask"
    /\ calls = <<>>
    /\ prepared = None
    /\ prompt \in SUBSET (IF request.private /\ memoryOn THEN {"memory"} ELSE {})
    /\ answer = None
-----------------------------------------------------------------------------
(* Drafts of writes *)

(* A text that names only a place takes what is written from an earlier    *)
(* message: the last with a text in quotation marks, with words for a      *)
(* sentence, or without any mark of a question or a wish.                  *)
ContentKinds == {"order", "quote", "sentence", "bare"}

(* mutant of LastOf: whoever wrote it                                       *)
LastOfAnybody(kinds) ==
    SelectLastInSubSeq(request.history, 1, Len(request.history),
                       LAMBDA m : m.says \in kinds)

(* The last message of the sender, or of nobody, of one of these kinds.    *)
LastOf(kinds) ==
    SelectLastInSubSeq(request.history, 1, Len(request.history),
                       LAMBDA m : m.by # "other" /\ m.says \in kinds)

(* _followup_writeback_content                                             *)
FollowupContent ==
    IF request.asks = "position" THEN WordsOf(LastOf(ContentKinds)) ELSE Nothing

(* _write_position: the beginning is looked for first                       *)
Position(draft) ==
    CASE "start" \in draft.stated -> "start"
      [] draft.stated = {"end"}   -> "end"
      [] OTHER                    -> "none"

(* _normalize_writeback_draft                                              *)
Content(draft) ==
    IF FollowupContent # Nothing THEN FollowupContent ELSE draft.content

(* mutant of Target: the place is in the preview only                       *)
TargetAsDrafted(draft) == draft

Target(draft) ==
    CASE Position(draft) = "start" /\ draft.document ->
             [draft EXCEPT !.block = "document", !.index = "first"]
      [] Position(draft) = "end" /\ draft.block = "document" ->
             [draft EXCEPT !.block = "none"]
      [] OTHER -> draft

Preview(draft, content) ==
    IF content = Nothing THEN draft.preview
    ELSE IF Position(draft) # "none" THEN [content |-> content, place |-> Position(draft)]
    ELSE IF draft.preview.content = Nothing THEN [content |-> content, place |-> "default"]
    ELSE draft.preview

Normalized(draft) ==
    IF draft.append
    THEN [Target(draft) EXCEPT !.content = Content(draft),
                               !.preview = Preview(draft, Content(draft)),
                               !.stated = {}]
    ELSE draft

Complete(draft) == draft.append => draft.document /\ draft.content # Nothing

AtTheEnd(draft)  == draft.block = "none" /\ draft.index = "none"
AtTheStart(draft) == draft.block = "document" /\ draft.index = "first"

Supported(draft) == draft.append => AtTheEnd(draft) \/ AtTheStart(draft)

(* _prepare_writeback: one bad draft refuses them all                      *)
Prepare(drafts) ==
    LET normalized == [i \in DOMAIN drafts |-> Normalized(drafts[i])]
        fine == drafts # <<>> /\ \A i \in DOMAIN normalized :
                    Complete(normalized[i]) /\ Supported(normalized[i])
    IN  [ok |-> fine, drafts |-> IF fine THEN normalized ELSE <<>>]

Refused == [ok |-> FALSE, drafts |-> <<>>]
-----------------------------------------------------------------------------
(* Tools *)

PrivateTools == {"search_resources", "list_memory", "upsert_memory_draft"}
WritingTools == {"prepare_writeback", "upsert_memory_draft"}

(* mutant of Allowed: nobody asks where the request comes from              *)
AllowedAnywhere(call) ==
    /\ call.tool \in WritingTools => request.enabled
    /\ call.wellFormed

(* ToolRegistry.execute: a call that is not allowed gets an answer that    *)
(* says so, and the model goes on with that.                               *)
Allowed(call) ==
    /\ call.tool \in PrivateTools => request.private
    /\ call.tool \in WritingTools => request.enabled
    /\ call.wellFormed

(* What the answer of a tool may add to the prompt: nothing, if there is   *)
(* nothing, if it fails or takes too long.                                 *)
Revealed(call) ==
    CASE Allowed(call) /\ call.tool = "list_memory"      -> {{}, {"memory"}}
      [] Allowed(call) /\ call.tool = "search_resources" -> {{}, {"search"}}
      [] OTHER                                           -> {{}}

Prepared(call) == IF Allowed(call) THEN Prepare(call.drafts) ELSE Refused
-----------------------------------------------------------------------------
(* The request *)

End(kind, proposals) ==
    /\ pc' = "end"
    /\ answer' = [kind |-> kind, proposals |-> proposals]
    /\ calls' = <<>>

EndPrepared(result) ==
    IF result.ok THEN End("proposals", result.drafts) ELSE End("text", <<>>)

(* A decision to call tools, whatever else it says; else to write, else to *)
(* answer.  Names of tools that there are not are left out or make the     *)
(* decision invalid.                                                       *)
Decide ==
    /\ \/ \E tools \in CallLists \ {<<>>} :
              pc' = "tools" /\ calls' = tools /\ UNCHANGED answer
       \/ \E drafts \in DraftLists \ {<<>>} :
              EndPrepared(Prepared([tool |-> "prepare_writeback", drafts |-> drafts,
                                    wellFormed |-> TRUE]))
       \/ End("text", <<>>)
    /\ UNCHANGED prepared

Ask ==
    /\ pc = "ask"
    /\ \/ Decide
       \/ pc' = "repair" /\ UNCHANGED <<calls, prepared, answer>>
    /\ UNCHANGED <<context, step, prompt>>

(* mutant of Repair: as often as it takes                                   *)
RepairAgain ==
    /\ pc = "repair"
    /\ \/ Decide
       \/ pc' = "ask" /\ UNCHANGED <<calls, prepared, answer>>
    /\ UNCHANGED <<context, step, prompt>>

(* An answer that is no decision is sent back once.                        *)
Repair ==
    /\ pc = "repair"
    /\ \/ Decide
       \/ End("unparsed", <<>>) /\ UNCHANGED prepared
    /\ UNCHANGED <<context, step, prompt>>

(* mutant of NextStep: one step too many                                    *)
NextStepLater ==
    /\ step' = step + 1
    /\ IF step' <= MaxSteps
       THEN pc' = "ask" /\ calls' = <<>> /\ UNCHANGED answer
       ELSE End("too_many", <<>>)

NextStep ==
    /\ step' = step + 1
    /\ IF step' < MaxSteps
       THEN pc' = "ask" /\ calls' = <<>> /\ UNCHANGED answer
       ELSE End("too_many", <<>>)

(* The tools run one by one; after the last the first writeback that was   *)
(* prepared is the answer, and if there is none the model is asked again.  *)
RunTool ==
    /\ pc = "tools"
    /\ LET call == Head(calls)
           result == IF call.tool = "prepare_writeback" /\ prepared = None
                     THEN Prepared(call) ELSE prepared IN
       /\ \E data \in Revealed(call) : prompt' = prompt \cup data
       /\ IF Len(calls) > 1
          THEN /\ prepared' = result
               /\ calls' = Tail(calls)
               /\ UNCHANGED <<step, pc, answer>>
          ELSE /\ prepared' = None
               /\ IF result # None THEN EndPrepared(result) /\ UNCHANGED step ELSE NextStep
    /\ UNCHANGED context

(* The model, a tool or the audit raises; a tool that takes too long does  *)
(* not: its answer is that it took too long.                               *)
Raise ==
    /\ pc # "end"
    /\ End("raised", <<>>)
    /\ UNCHANGED <<context, step, prepared, prompt>>

(* The sender's commands to switch long-term memory off and on.             *)
SetMemoryEnabled(on) ==
    /\ pc # "end"
    /\ memoryOn' = on
    /\ everOn' = (everOn \/ on)
    /\ UNCHANGED <<request, step, pc, calls, prepared, prompt, answer>>
-----------------------------------------------------------------------------
Advance == Ask \/ Repair \/ RunTool \/ Raise

Next == Advance \/ \E on \in BOOLEAN : SetMemoryEnabled(on)

Spec == Init /\ [][Next]_vars

(* The request goes on: calls of the model end by the timeout of the HTTP  *)
(* client, those of tools by asyncio.wait_for.                             *)
FairSpec == Spec /\ WF_vars(Advance)
-----------------------------------------------------------------------------
(* Properties *)

(* However many tools the model calls and in whatever order: neither the   *)
(* sender's memories nor what only he can find gets into a prompt whose    *)
(* answer a group reads.                                                   *)
GroupSeesNothingPersonal == ~request.private => prompt = {}

SoundDraft(d) ==
    d.append =>
        /\ d.document
        /\ d.content # Nothing
        /\ AtTheEnd(d) \/ AtTheStart(d)
        /\ d.preview.place = "start" => AtTheStart(d)
        /\ d.preview.place = "end" => AtTheEnd(d)
        /\ d.preview.place # "none" => d.preview.content = d.content

(* A write that reaches a card or is carried out at once was prepared by   *)
(* the code while writing is on; if it is an append it names its document, *)
(* has something to write, and goes to the start or the end; and where its *)
(* preview names the start or the end, place and text are those of the     *)
(* write.  Two previews may say something else: one of the model that names *)
(* neither is shown as it is (_normalized_doc_append_preview, "fallback or")*)
(* even if the text was taken from an earlier message, and the word "append"*)
(* that the code puts where there is none is not compared with the index.  *)
ProposalsAreSound ==
    pc = "end" /\ answer.proposals # <<>> =>
        /\ request.enabled
        /\ \A i \in DOMAIN answer.proposals : SoundDraft(answer.proposals[i])

(* What the sender, or nobody, said that would do for a write.              *)
SaidBefore ==
    {i \in DOMAIN request.history :
        request.history[i].by # "other" /\ request.history[i].says \in ContentKinds}

(* The words of another member, if a write has them, were put into the     *)
(* draft by the model, and, in an append, not by passing over what the     *)
(* sender had said to write before he only named the place.                *)
OwnDraft(d) ==
    LET i == d.content.message IN
    i \in DOMAIN request.history /\ request.history[i].by = "other" =>
        /\ d.content.source = "model"
        /\ d.append /\ request.asks = "position" => SaidBefore = {}

(* The code never takes what it writes for somebody from what another      *)
(* member of the conversation wrote.  Of itself the model may do so: the   *)
(* prompt holds the conversation (context_builder.py:48); but when a       *)
(* request only names a place, what the sender said before goes before     *)
(* whatever the model copied.                                              *)
WordsAreTheSenders ==
    pc = "end" => \A i \in DOMAIN answer.proposals : OwnDraft(answer.proposals[i])

(* Whatever the model answers, the request ends.                           *)
RequestEnds == <>(pc = "end")

(* router.py:850 "...nor will long-term memory be added to the context of  *)
(* the model": while memory is off for the whole of a request, no prompt   *)
(* of it holds the sender's memories.                                      *)
MemoryOffMeansOff == "memory" \in prompt => everOn
=============================================================================
