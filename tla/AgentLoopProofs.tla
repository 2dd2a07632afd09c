--------------------------- MODULE AgentLoopProofs ---------------------------
(***************************************************************************)
(* What AgentLoop promises holds for every length of the loop, whatever    *)
(* was said before, whatever the model decides and drafts.                 *)
(***************************************************************************)
EXTENDS AgentLoop, WellFoundedInduction, TLAPS

(* What a preparation leaves.                                              *)
SoundPreparation(result) ==
    /\ result.ok => request.enabled
    /\ ~result.ok => result.drafts = <<>>
    /\ \A i \in DOMAIN result.drafts :
           SoundDraft(result.drafts[i]) /\ OwnDraft(result.drafts[i])

PreparedInv == prepared # None => SoundPreparation(prepared)

(* The tools of a decision run until there are none left.                  *)
CallsInv == pc = "tools" => calls # <<>>

(* Before a decision there is a step left for it.                          *)
StepsInv == pc # "end" => step < MaxSteps

IInv ==
    /\ AgentTypeOK
    /\ CallsInv
    /\ StepsInv
    /\ PreparedInv
    /\ GroupSeesNothingPersonal
    /\ ProposalsAreSound
    /\ WordsAreTheSenders

-----------------------------------------------------------------------------
(* The message a text is taken from                                        *)

(* A set of positions in a sequence that is not empty has a last one.       *)
LEMMA LastPosition ==
    ASSUME NEW n \in Nat, NEW I \in SUBSET (1..n), I # {}
    PROVE  Max(I) \in I
  <1> DEFINE D == {k \in 0..n : n - k \in I}
  <1>1. PICK i \in I : TRUE
    OBVIOUS
  <1>2. n - i \in D
    OBVIOUS
  <1>3. D \subseteq Nat
    BY SMT
  <1>4. D # {}
    BY <1>2, Zenon
  <1>5. PICK d \in D : \A e \in D : d =< e
    <2> HIDE DEF D
    <2>1. PICK d \in D : \A e \in D : ~(<<e, d>> \in OpToRel(<, Nat))
      BY <1>3, <1>4, NatLessThanWellFounded, WFMin
    <2>2. ASSUME NEW e \in D PROVE d =< e
      <3>1. e \in Nat /\ d \in Nat
        BY <1>3
      <3>2. ~(e < d)
        BY <2>1, <3>1 DEF OpToRel
      <3>3. QED BY <3>1, <3>2
    <2>3. QED BY <2>2
  <1>6. n - d \in I /\ \A j \in I : n - d >= j
    <2>1. n - d \in I /\ d \in 0..n
      OBVIOUS
    <2>2. ASSUME NEW j \in I PROVE n - d >= j
      <3>1. n - j \in D
        OBVIOUS
      <3>2. d =< n - j
        BY <3>1, <1>5
      <3>3. QED BY <3>2, <2>1
    <2>3. QED BY <2>1, <2>2
  <1>7. QED
    BY <1>6 DEF Max

LEMMA LastOfIsOwn ==
    ASSUME request \in Request, AgentAssumption, NEW kinds
    PROVE  /\ LastOf(kinds) \in Nat
           /\ LastOf(kinds) \in DOMAIN request.history =>
                  request.history[LastOf(kinds)].by # "other"
  <1> DEFINE n == Len(request.history)
             I == {i \in 1..n : request.history[i].by # "other" /\ request.history[i].says \in kinds}
  <1>1. request.history \in Seq(Message)
    BY DEF Request, AgentAssumption
  <1>2. n \in Nat /\ DOMAIN request.history = 1..n
    BY <1>1
  <1>3. LastOf(kinds) = IF I # {} THEN Max(I) ELSE 0
    BY DEF LastOf, SelectLastInSubSeq
  <1>4. CASE I = {}
    BY <1>2, <1>3, <1>4
  <1>5. CASE I # {}
    <2>1. Max(I) \in I
      BY <1>2, <1>5, LastPosition
    <2>2. QED BY <1>2, <1>3, <1>5, <2>1
  <1>6. QED BY <1>4, <1>5

-----------------------------------------------------------------------------
(* What becomes of a draft                                                 *)

(* What is taken over is a message that another member did not write, and  *)
(* there is one if the sender said something that would do.                *)
LEMMA LastOfIsFound ==
    ASSUME request \in Request, AgentAssumption
    PROVE  SaidBefore # {} => LastOf(ContentKinds) # 0
  <1> DEFINE n == Len(request.history)
             I == {i \in 1..n : request.history[i].by # "other"
                                    /\ request.history[i].says \in ContentKinds}
  <1>1. request.history \in Seq(Message)
    BY DEF Request, AgentAssumption
  <1>2. n \in Nat /\ DOMAIN request.history = 1..n
    BY <1>1
  <1>3. LastOf(ContentKinds) = IF I # {} THEN Max(I) ELSE 0
    BY DEF LastOf, SelectLastInSubSeq
  <1>4. I = SaidBefore
    BY <1>2 DEF SaidBefore
  <1>5. CASE SaidBefore # {}
    <2>1. Max(I) \in I
      BY <1>2, <1>4, <1>5, LastPosition
    <2>2. QED BY <1>2, <1>3, <1>4, <1>5, <2>1
  <1>6. QED BY <1>5

(* Words of a message are the model's, if they are not the code's.         *)
LEMMA NobodysWords ==
    ASSUME request \in Request, AgentAssumption, NEW d \in Drafts,
           d.content.message \in DOMAIN request.history
    PROVE  d.content.source = "model"
  <1>1. d.content = Nothing \/ d.content.source = "model"
    BY DEF AgentAssumption
  <1>2. 0 \notin DOMAIN request.history
    BY DEF Request, AgentAssumption
  <1>3. Nothing.message = 0
    BY DEF Nothing
  <1>4. QED BY <1>1, <1>2, <1>3

LEMMA ContentIsOwn ==
    ASSUME request \in Request, AgentAssumption, NEW d \in Drafts
    PROVE  /\ Content(d) \in Contents
           /\ Content(d).message \in DOMAIN request.history
                 /\ request.history[Content(d).message].by = "other" =>
                  /\ Content(d).source = "model"
                  /\ request.asks = "position" => SaidBefore = {}
  <1> DEFINE last == LastOf(ContentKinds)
  <1>1. last \in Nat
    BY LastOfIsOwn
  <1>2. last \in DOMAIN request.history => request.history[last].by # "other"
    BY LastOfIsOwn
  <1>3. d.content \in Contents
    BY DEF AgentAssumption, Draft
  <1>4. request.history \in Seq(Message)
    BY DEF Request, AgentAssumption
  <1>5. 0 \notin DOMAIN request.history
    BY <1>4
  <1>6. CASE request.asks = "position" /\ last # 0
    <2>1. FollowupContent = [source |-> "code", message |-> last]
      BY <1>6 DEF FollowupContent, WordsOf
    <2>2. FollowupContent # Nothing
      BY <2>1 DEF Nothing
    <2>3. Content(d) = [source |-> "code", message |-> last]
      BY <2>1, <2>2 DEF Content
    <2>4. QED BY <1>1, <1>2, <2>3 DEF Contents
  <1>7. CASE ~(request.asks = "position" /\ last # 0)
    <2>1. FollowupContent = Nothing
      BY <1>7 DEF FollowupContent, WordsOf
    <2>2. Content(d) = d.content
      BY <2>1 DEF Content
    <2>3. request.asks = "position" => SaidBefore = {}
      BY <1>7, LastOfIsFound
    <2>4. QED BY <1>3, <2>2, <2>3, NobodysWords
  <1>8. QED BY <1>6, <1>7

LEMMA NormalizedType ==
    ASSUME request \in Request, AgentAssumption, NEW d \in Drafts
    PROVE  Normalized(d) \in Draft /\ OwnDraft(Normalized(d))
  <1>1. d \in Draft
    BY DEF AgentAssumption
  <1>2. CASE ~d.append
    <2>1. Normalized(d) = d
      BY <1>2 DEF Normalized
    <2>2. QED BY <1>1, <1>2, <2>1, NobodysWords DEF OwnDraft
  <1>3. CASE d.append
    <2> DEFINE c == Content(d)
    <2>1. c \in Contents
      BY ContentIsOwn
    <2>2. Target(d) \in Draft
      BY <1>1 DEF Target, Draft
    <2>3. Preview(d, c) \in [content : Contents, place : {"none", "default", "start", "end"}]
      <3> HIDE DEF c
      <3>1. Position(d) \in {"none", "start", "end"}
        BY DEF Position
      <3>2. QED BY <1>1, <2>1, <3>1 DEF Preview, Draft
    <2>4. Normalized(d) = [Target(d) EXCEPT !.content = c, !.preview = Preview(d, c),
                                            !.stated = {}]
      BY <1>3 DEF Normalized
    <2>5. Normalized(d) \in Draft /\ Normalized(d).content = c
      <3> HIDE DEF c
      <3>1. QED BY <2>1, <2>2, <2>3, <2>4 DEF Draft
    <2>6. QED BY <2>5, ContentIsOwn DEF OwnDraft
  <1>4. QED BY <1>2, <1>3

(* A draft that is complete and goes to a supported place is sound.        *)
LEMMA NormalizedIsSound ==
    ASSUME AgentAssumption, request \in Request, NEW d \in Drafts,
           Complete(Normalized(d)), Supported(Normalized(d))
    PROVE  SoundDraft(Normalized(d))
  <1>1. d \in Draft
    BY DEF AgentAssumption
  <1>2. CASE ~d.append
    BY <1>1, <1>2 DEF Normalized, SoundDraft
  <1>3. CASE d.append
    <2> DEFINE c == Content(d)
               e == Normalized(d)
    <2>1. e = [Target(d) EXCEPT !.content = c, !.preview = Preview(d, c), !.stated = {}]
      BY <1>3 DEF Normalized
    <2>2. /\ e.content = c
          /\ e.preview = Preview(d, c)
          /\ e.append = d.append /\ e.document = d.document
          /\ e.block = Target(d).block /\ e.index = Target(d).index
      <3> HIDE DEF c, e
      <3>1. Target(d) \in Draft /\ Target(d).append = d.append
               /\ Target(d).document = d.document
        BY <1>1 DEF Target, Draft
      <3>2. QED BY <2>1, <3>1 DEF Draft
    <2> HIDE DEF c, e
    <2>3. d.document /\ c # Nothing /\ (AtTheEnd(e) \/ AtTheStart(e))
      BY <1>3, <2>2 DEF Complete, Supported, e
    <2>4. CASE Position(d) = "start"
      <3>1. e.block = "document" /\ e.index = "first"
        BY <1>1, <2>2, <2>3, <2>4 DEF Target, Draft
      <3>2. e.preview = [content |-> c, place |-> "start"]
        <4>1. Preview(d, c) = [content |-> c, place |-> Position(d)]
          BY <2>3, <2>4 DEF Preview
        <4>2. QED BY <2>2, <2>4, <4>1
      <3>3. QED BY <2>2, <2>3, <3>1, <3>2 DEF SoundDraft, AtTheStart, AtTheEnd, e
    <2>5. CASE Position(d) = "end"
      <3>1. e.block # "document"
        BY <1>1, <2>2, <2>5 DEF Target, Draft
      <3>2. e.preview = [content |-> c, place |-> "end"]
        BY <2>2, <2>3, <2>5 DEF Preview
      <3>3. QED BY <2>2, <2>3, <3>1, <3>2 DEF SoundDraft, AtTheStart, AtTheEnd, e
    <2>6. CASE Position(d) = "none"
      <3>1. d.stated = {}
        BY <1>1, <2>6 DEF Position, Draft
      <3>2. Target(d) = d
        BY <2>6 DEF Target
      <3>3. CASE d.preview.content = Nothing
        <4>1. e.preview = [content |-> c, place |-> "default"]
          BY <2>2, <2>3, <2>6, <3>3 DEF Preview
        <4>2. QED BY <2>2, <2>3, <4>1 DEF SoundDraft, e
      <3>4. CASE d.preview.content # Nothing
        <4>1. e.preview = d.preview
          BY <2>2, <2>3, <2>6, <3>4 DEF Preview
        <4>2. d.preview.place = "none"
          BY <3>1 DEF AgentAssumption
        <4>3. QED BY <2>2, <2>3, <4>1, <4>2 DEF SoundDraft, e
      <3>5. QED BY <3>3, <3>4
    <2>7. QED BY <2>4, <2>5, <2>6 DEF Position
  <1>4. QED BY <1>2, <1>3, <1>1 DEF Draft

LEMMA PrepareIsSound ==
    ASSUME AgentAssumption, request \in Request, NEW drafts \in Seq(Drafts), request.enabled
    PROVE  Prepare(drafts) \in Preparation /\ SoundPreparation(Prepare(drafts))
  <1> DEFINE normalized == [i \in DOMAIN drafts |-> Normalized(drafts[i])]
             fine == drafts # <<>> /\ \A i \in DOMAIN normalized :
                         Complete(normalized[i]) /\ Supported(normalized[i])
  <1>1. Prepare(drafts) = [ok |-> fine, drafts |-> IF fine THEN normalized ELSE <<>>]
    BY DEF Prepare
  <1>2. \A i \in DOMAIN drafts : normalized[i] \in Draft /\ OwnDraft(normalized[i])
    BY NormalizedType
  <1>3. fine => \A i \in DOMAIN drafts : SoundDraft(normalized[i])
    BY NormalizedIsSound
  <1>4. DOMAIN normalized = DOMAIN drafts /\ DOMAIN drafts = 1..Len(drafts) /\ Len(drafts) \in Nat
    OBVIOUS
  <1> HIDE DEF normalized, fine
  <1>5. normalized \in Seq(Draft)
    <2>1. normalized \in [1..Len(drafts) -> Draft]
      BY <1>2, <1>4 DEF normalized
    <2>2. QED BY <1>4, <2>1
  <1>6. fine \in BOOLEAN
    BY DEF fine
  <1>7. Prepare(drafts) \in Preparation
    BY <1>1, <1>5, <1>6 DEF Preparation
  <1>8. SoundPreparation(Prepare(drafts))
    BY <1>1, <1>2, <1>3, <1>4, <1>6 DEF SoundPreparation
  <1>9. QED BY <1>7, <1>8

-----------------------------------------------------------------------------
(* The request                                                             *)

LEMMA PreparedIsSound ==
    ASSUME AgentAssumption, request \in Request, NEW call \in Call,
           call.tool = "prepare_writeback"
    PROVE  Prepared(call) \in Preparation /\ SoundPreparation(Prepared(call))
  <1>1. call.drafts \in Seq(Drafts)
    BY DEF Call
  <1>2. CASE Allowed(call)
    <2>1. request.enabled
      BY <1>2 DEF Allowed, WritingTools
    <2>2. QED BY <1>1, <1>2, <2>1, PrepareIsSound DEF Prepared
  <1>3. CASE ~Allowed(call)
    <2>1. Refused \in Preparation /\ SoundPreparation(Refused)
      BY DEF Refused, Preparation, SoundPreparation
    <2>2. QED BY <1>3, <2>1 DEF Prepared
  <1>4. QED BY <1>2, <1>3

LEMMA TailGoesOn ==
    ASSUME NEW S, NEW list \in Seq(S), Len(list) > 1
    PROVE  Tail(list) \in Seq(S) /\ Tail(list) # <<>>
  <1>1. Tail(list) \in Seq(S) /\ Len(Tail(list)) = Len(list) - 1
    OBVIOUS
  <1>2. Len(<<>>) = 0 /\ Len(list) - 1 # 0
    OBVIOUS
  <1>3. QED BY <1>1, <1>2

(* An answer of one of these kinds ends the request as it should.           *)
LEMMA EndIsSound ==
    ASSUME NEW kind \in {"text", "unparsed", "too_many", "raised"}, End(kind, <<>>),
           UNCHANGED request
    PROVE  /\ pc' = "end"
           /\ calls' = <<>>
           /\ answer' \in Answer
           /\ CallsInv' /\ ProposalsAreSound' /\ WordsAreTheSenders'
  <1>1. answer' = [kind |-> kind, proposals |-> <<>>] /\ pc' = "end" /\ calls' = <<>>
    BY DEF End
  <1>2. answer'.proposals = <<>> /\ answer' \in Answer
    BY <1>1 DEF Answer
  <1>3. QED
    BY <1>1, <1>2 DEF CallsInv, ProposalsAreSound, WordsAreTheSenders

LEMMA EndPreparedIsSound ==
    ASSUME NEW result \in Preparation, SoundPreparation(result), EndPrepared(result),
           UNCHANGED request
    PROVE  /\ pc' = "end"
           /\ calls' = <<>>
           /\ answer' \in Answer
           /\ CallsInv' /\ ProposalsAreSound' /\ WordsAreTheSenders'
  <1>1. CASE ~result.ok
    BY <1>1, EndIsSound DEF EndPrepared
  <1>2. CASE result.ok
    <2>1. /\ answer' = [kind |-> "proposals", proposals |-> result.drafts]
          /\ pc' = "end" /\ calls' = <<>>
      BY <1>2 DEF EndPrepared, End
    <2>2. answer' \in Answer /\ answer'.proposals = result.drafts
      BY <2>1 DEF Answer, Preparation
    <2>3. ProposalsAreSound'
      BY <1>2, <2>1, <2>2 DEF ProposalsAreSound, SoundPreparation, SoundDraft, AtTheStart,
         AtTheEnd
    <2>4. WordsAreTheSenders'
      BY <2>1, <2>2 DEF WordsAreTheSenders, SoundPreparation, OwnDraft, SaidBefore
    <2>5. QED BY <2>1, <2>2, <2>3, <2>4 DEF CallsInv
  <1>3. QED BY <1>1, <1>2

(* A decision, whether asked for or sent back.                             *)
LEMMA DecideStep ==
    ASSUME AgentAssumption, IInv, Decide, pc \in {"ask", "repair"},
           UNCHANGED <<context, step, prompt>>
    PROVE  IInv'
  <1>1. /\ request \in Request /\ prepared' = prepared /\ request' = request
        /\ memoryOn' = memoryOn /\ everOn' = everOn /\ prompt' = prompt /\ step' = step
    BY DEF IInv, AgentTypeOK, Decide, context
  <1>2. PreparedInv' /\ GroupSeesNothingPersonal'
    BY <1>1 DEF IInv, PreparedInv, SoundPreparation, OwnDraft, SaidBefore, SoundDraft, AtTheStart, AtTheEnd,
       GroupSeesNothingPersonal
  <1>3. ASSUME NEW tools \in CallLists \ {<<>>}, pc' = "tools", calls' = tools, UNCHANGED answer
        PROVE  IInv'
    <2>1. AgentTypeOK'
      BY <1>1, <1>3 DEF IInv, AgentTypeOK, AgentAssumption, Labels
    <2>2. StepsInv'
      BY <1>1 DEF IInv, StepsInv
    <2>3. QED
      BY <1>1, <1>2, <1>3, <2>1, <2>2 DEF IInv, CallsInv, ProposalsAreSound, WordsAreTheSenders
  <1>4. ASSUME pc' = "end", calls' = <<>>, answer' \in Answer, CallsInv', ProposalsAreSound',
               WordsAreTheSenders'
        PROVE  IInv'
    <2>1. answer' # None
      BY <1>4 DEF AgentAssumption
    <2>2. AgentTypeOK'
      BY <1>1, <1>4, <2>1 DEF IInv, AgentTypeOK, Labels
    <2>3. QED BY <1>2, <1>4, <2>2 DEF IInv, StepsInv
  <1>5. ASSUME NEW drafts \in DraftLists \ {<<>>},
               EndPrepared(Prepared([tool |-> "prepare_writeback", drafts |-> drafts,
                                     wellFormed |-> TRUE]))
        PROVE  IInv'
    <2> DEFINE call == [tool |-> "prepare_writeback", drafts |-> drafts, wellFormed |-> TRUE]
    <2>1. call \in Call /\ call.tool = "prepare_writeback"
      BY DEF Call, AgentTools, AgentAssumption
    <2>2. Prepared(call) \in Preparation /\ SoundPreparation(Prepared(call))
      BY <1>1, <2>1, PreparedIsSound
    <2>3. QED BY <1>1, <1>4, <1>5, <2>2, EndPreparedIsSound
  <1>6. ASSUME End("text", <<>>) PROVE IInv'
    BY <1>1, <1>4, <1>6, EndIsSound
  <1>7. QED BY <1>3, <1>5, <1>6 DEF Decide

(* The parts of the invariant that are about the answer stand as long as   *)
(* there is none.                                                          *)
LEMMA NotEnded ==
    ASSUME pc' # "end"
    PROVE  ProposalsAreSound' /\ WordsAreTheSenders'
  BY DEF ProposalsAreSound, WordsAreTheSenders

(* So do those about the preparation if neither it nor the request changes. *)
LEMMA PreparedStays ==
    ASSUME PreparedInv, UNCHANGED <<request, prepared>>
    PROVE  PreparedInv'
  BY DEF PreparedInv, SoundPreparation, OwnDraft, SaidBefore, SoundDraft, AtTheStart, AtTheEnd

LEMMA AskStep ==
    ASSUME AgentAssumption, IInv, Ask
    PROVE  IInv'
  <1>1. CASE Decide
    BY <1>1, DecideStep DEF Ask
  <1>2. CASE pc' = "repair" /\ UNCHANGED <<calls, prepared, answer>>
    <2>1. UNCHANGED <<request, memoryOn, everOn, step, prompt>> /\ pc = "ask"
      BY DEF Ask, context
    <2>2. AgentTypeOK'
      BY <1>2, <2>1 DEF IInv, AgentTypeOK, Labels
    <2>3. PreparedInv'
      BY <1>2, <2>1, PreparedStays DEF IInv
    <2>4. ProposalsAreSound' /\ WordsAreTheSenders' /\ CallsInv'
      BY <1>2, NotEnded DEF CallsInv
    <2>5. GroupSeesNothingPersonal'
      BY <2>1 DEF IInv, GroupSeesNothingPersonal
    <2>6. QED BY <2>1, <2>2, <2>3, <2>4, <2>5 DEF IInv, StepsInv
  <1>3. QED BY <1>1, <1>2 DEF Ask

(* The request ends with an answer that proposes nothing.                  *)
LEMMA EndStep ==
    ASSUME AgentAssumption, IInv, NEW kind \in {"text", "unparsed", "too_many", "raised"},
           End(kind, <<>>), UNCHANGED <<context, prepared, prompt>>, step' \in 0..MaxSteps
    PROVE  IInv'
  <1>1. UNCHANGED <<request, memoryOn, everOn, prepared, prompt>>
    BY DEF context
  <1>2. /\ pc' = "end" /\ calls' = <<>> /\ answer' \in Answer
        /\ CallsInv' /\ ProposalsAreSound' /\ WordsAreTheSenders'
    BY <1>1, EndIsSound
  <1>3. answer' # None
    BY <1>2 DEF AgentAssumption
  <1>4. AgentTypeOK'
    BY <1>1, <1>2, <1>3 DEF IInv, AgentTypeOK, Labels
  <1>5. PreparedInv' /\ GroupSeesNothingPersonal'
    BY <1>1, PreparedStays DEF IInv, GroupSeesNothingPersonal
  <1>6. QED BY <1>2, <1>4, <1>5 DEF IInv, StepsInv

LEMMA RepairStep ==
    ASSUME AgentAssumption, IInv, Repair
    PROVE  IInv'
  <1>1. CASE Decide
    BY <1>1, DecideStep DEF Repair
  <1>2. CASE End("unparsed", <<>>) /\ UNCHANGED prepared
    <2>1. UNCHANGED <<context, prepared, prompt>> /\ step' \in 0..MaxSteps
      BY <1>2 DEF Repair, IInv, AgentTypeOK
    <2>2. QED BY <1>2, <2>1, EndStep
  <1>3. QED BY <1>1, <1>2 DEF Repair

(* What a tool adds to a prompt whose answer a group reads: nothing.       *)
LEMMA GroupToolsAreSilent ==
    ASSUME NEW call, ~request.private, NEW data \in Revealed(call)
    PROVE  data = {}
  BY DEF Revealed, Allowed, PrivateTools

LEMMA RevealedType ==
    ASSUME NEW call, NEW data \in Revealed(call)
    PROVE  data \subseteq {"memory", "search"}
  BY DEF Revealed

LEMMA RunToolStep ==
    ASSUME AgentAssumption, IInv, RunTool
    PROVE  IInv'
  <1> DEFINE call == Head(calls)
             result == IF call.tool = "prepare_writeback" /\ prepared = None
                       THEN Prepared(call) ELSE prepared
  <1>1. pc = "tools" /\ calls \in Seq(Call) /\ calls # <<>> /\ request \in Request
        /\ step \in 0..MaxSteps /\ MaxSteps \in Nat \ {0}
    BY DEF IInv, AgentTypeOK, CallsInv, RunTool, AgentAssumption
  <1>2. call \in Call
    BY <1>1
  <1>3. result # None => result \in Preparation /\ SoundPreparation(result)
    <2>1. CASE call.tool = "prepare_writeback" /\ prepared = None
      <3> HIDE DEF call
      <3>1. result = Prepared(call)
        BY <2>1
      <3>2. QED BY <1>1, <1>2, <2>1, <3>1, PreparedIsSound
    <2>2. CASE ~(call.tool = "prepare_writeback" /\ prepared = None)
      BY <2>2 DEF IInv, AgentTypeOK, PreparedInv
    <2>3. QED BY <2>1, <2>2
  <1>4. UNCHANGED <<request, memoryOn, everOn>>
    BY DEF RunTool, context
  <1>5. PICK data \in Revealed(call) : prompt' = prompt \cup data
    BY DEF RunTool
  <1>6. prompt' \subseteq {"memory", "search"} /\ GroupSeesNothingPersonal'
    <2>1. prompt' \subseteq {"memory", "search"}
      BY <1>5, RevealedType DEF IInv, AgentTypeOK
    <2>2. ASSUME ~request.private PROVE prompt' = {}
      BY <1>5, <2>2, GroupToolsAreSilent DEF IInv, GroupSeesNothingPersonal
    <2>3. GroupSeesNothingPersonal'
      BY <1>4, <2>2 DEF GroupSeesNothingPersonal
    <2>4. QED BY <2>1, <2>3
  <1>7. CASE Len(calls) > 1
    <2>1. prepared' = result /\ calls' = Tail(calls) /\ UNCHANGED <<step, pc, answer>>
      BY <1>7 DEF RunTool
    <2> HIDE DEF result, call
    <2>2. calls' \in Seq(Call) /\ calls' # <<>>
      BY <1>1, <1>7, <2>1, TailGoesOn
    <2>3. AgentTypeOK'
      BY <1>1, <1>3, <1>4, <1>6, <2>1, <2>2 DEF IInv, AgentTypeOK
    <2>4. PreparedInv'
      BY <1>3, <1>4, <2>1 DEF PreparedInv, SoundPreparation, OwnDraft, SaidBefore, SoundDraft, AtTheStart, AtTheEnd
    <2>5. QED
      BY <1>1, <1>6, <2>1, <2>2, <2>3, <2>4, NotEnded DEF IInv, CallsInv, StepsInv
  <1>8. CASE ~(Len(calls) > 1)
    <2>1. prepared' = None
      BY <1>8 DEF RunTool
    <2>2. PreparedInv'
      BY <2>1 DEF PreparedInv
    <2>3. ASSUME pc' = "end", calls' = <<>>, answer' \in Answer, CallsInv', ProposalsAreSound',
                 WordsAreTheSenders', step' \in 0..MaxSteps
          PROVE  IInv'
      <3>1. answer' # None
        BY <2>3 DEF AgentAssumption
      <3>2. AgentTypeOK'
        BY <1>4, <1>6, <2>1, <2>3, <3>1 DEF IInv, AgentTypeOK, Labels
      <3>3. QED BY <1>6, <2>2, <2>3, <3>2 DEF IInv, StepsInv
    <2>4. CASE result # None
      <3>1. EndPrepared(result) /\ UNCHANGED step
        BY <1>8, <2>4 DEF RunTool
      <3> HIDE DEF result
      <3>2. QED BY <1>1, <1>3, <1>4, <2>3, <2>4, <3>1, EndPreparedIsSound
    <2>5. CASE result = None
      <3>1. NextStep
        BY <1>8, <2>5 DEF RunTool
      <3>2. step' = step + 1
        BY <3>1 DEF NextStep
      <3>3. CASE step' < MaxSteps
        <4>1. pc' = "ask" /\ calls' = <<>> /\ UNCHANGED answer
          BY <3>1, <3>3 DEF NextStep
        <4>2. AgentTypeOK'
          BY <1>1, <1>4, <1>6, <2>1, <3>2, <3>3, <4>1 DEF IInv, AgentTypeOK, Labels
        <4>3. QED BY <1>6, <2>2, <3>3, <4>1, <4>2, NotEnded DEF IInv, CallsInv, StepsInv
      <3>4. CASE ~(step' < MaxSteps)
        <4>1. End("too_many", <<>>)
          BY <3>1, <3>4 DEF NextStep
        <4>2. step' \in 0..MaxSteps
          <5>1. step # MaxSteps
            BY <1>1 DEF IInv, StepsInv
          <5>2. QED BY <1>1, <3>2, <5>1
        <4>3. QED BY <1>4, <2>3, <4>1, <4>2, EndIsSound
      <3>5. QED BY <3>3, <3>4
    <2>6. QED BY <2>4, <2>5
  <1>9. QED BY <1>7, <1>8

LEMMA RaiseStep ==
    ASSUME AgentAssumption, IInv, Raise
    PROVE  IInv'
  <1>1. End("raised", <<>>) /\ UNCHANGED <<context, prepared, prompt>> /\ step' \in 0..MaxSteps
    BY DEF Raise, IInv, AgentTypeOK
  <1>2. QED BY <1>1, EndStep

LEMMA MemoryStep ==
    ASSUME AgentAssumption, IInv, NEW on \in BOOLEAN, SetMemoryEnabled(on)
    PROVE  IInv'
  <1>1. /\ UNCHANGED <<request, step, pc, calls, prepared, prompt, answer>>
        /\ memoryOn' \in BOOLEAN /\ everOn' \in BOOLEAN /\ pc # "end"
    BY DEF SetMemoryEnabled, IInv, AgentTypeOK
  <1>2. AgentTypeOK'
    BY <1>1 DEF IInv, AgentTypeOK
  <1>3. PreparedInv'
    BY <1>1, PreparedStays DEF IInv
  <1>4. QED
    BY <1>1, <1>2, <1>3, NotEnded DEF IInv, CallsInv, StepsInv, GroupSeesNothingPersonal

LEMMA InitIsSound ==
    ASSUME AgentAssumption, Init
    PROVE  IInv
  <1>1. AgentTypeOK
    BY DEF Init, AgentTypeOK, AgentAssumption, Labels
  <1>2. QED
    BY <1>1 DEF Init, IInv, CallsInv, StepsInv, PreparedInv, GroupSeesNothingPersonal,
       ProposalsAreSound, WordsAreTheSenders, AgentAssumption

LEMMA StutterIsSound ==
    ASSUME IInv, UNCHANGED vars
    PROVE  IInv'
  <1>1. UNCHANGED <<request, memoryOn, everOn, step, pc, calls, prepared, prompt, answer>>
    BY DEF vars
  <1>2. AgentTypeOK' /\ CallsInv' /\ StepsInv' /\ GroupSeesNothingPersonal' /\ PreparedInv'
    BY <1>1, PreparedStays DEF IInv, AgentTypeOK, CallsInv, StepsInv, GroupSeesNothingPersonal
  <1>3. ProposalsAreSound' /\ WordsAreTheSenders'
    BY <1>1 DEF IInv, ProposalsAreSound, WordsAreTheSenders, OwnDraft, SaidBefore, SoundDraft, AtTheStart,
       AtTheEnd
  <1>4. QED BY <1>2, <1>3 DEF IInv
-----------------------------------------------------------------------------
(* The invariant holds of every request: of every number of steps, every   *)
(* history and every decision of the model.                                *)
THEOREM AgentInductive == Spec => []IInv
  <1>1. Init => IInv
    BY InitIsSound, AgentAssumption
  <1>2. IInv /\ [Next]_vars => IInv'
    <2> SUFFICES ASSUME IInv, [Next]_vars PROVE IInv'
      OBVIOUS
    <2>1. CASE Advance
      BY <2>1, AskStep, RepairStep, RunToolStep, RaiseStep, AgentAssumption DEF Advance
    <2>2. CASE \E on \in BOOLEAN : SetMemoryEnabled(on)
      BY <2>2, MemoryStep, AgentAssumption
    <2>3. CASE UNCHANGED vars
      BY <2>3, StutterIsSound
    <2>4. QED BY <2>1, <2>2, <2>3 DEF Next
  <1>3. QED BY <1>1, <1>2, PTL DEF Spec

(* The variables of a request keep their types.                            *)
THEOREM AgentTypeCorrect == Spec => []AgentTypeOK
  <1>1. IInv => AgentTypeOK
    BY DEF IInv
  <1>2. QED BY <1>1, AgentInductive, PTL

(* No prompt whose answer a group reads holds the sender's memories or what *)
(* only he can find, whatever tools are called (ToolRegistry.execute).      *)
THEOREM GroupsStayImpersonal == Spec => []GroupSeesNothingPersonal
  <1>1. IInv => GroupSeesNothingPersonal
    BY DEF IInv
  <1>2. QED BY <1>1, AgentInductive, PTL

(* Every write that is proposed was prepared while writing is on, goes to a *)
(* supported place, and has the text of its preview and is where it says if *)
(* it names the start or the end (_prepare_writeback).                      *)
THEOREM ProposedIsSound == Spec => []ProposalsAreSound
  <1>1. IInv => ProposalsAreSound
    BY DEF IInv
  <1>2. QED BY <1>1, AgentInductive, PTL

(* The code takes no text of another member's message                       *)
(* (_followup_writeback_content), and what the model copied from one gives  *)
(* way to what the sender said before he named only a place.                *)
THEOREM OthersWordsStayOut == Spec => []WordsAreTheSenders
  <1>1. IInv => WordsAreTheSenders
    BY DEF IInv
  <1>2. QED BY <1>1, AgentInductive, PTL
==============================================================================
