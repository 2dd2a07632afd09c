--------------------------- MODULE ChatMemoryProofs ---------------------------
(***************************************************************************)
(* Theorems about ChatMemory for every set of users, groups, messages and  *)
(* sessions, every window, limit and lifetime, and every bound on time.    *)
(***************************************************************************)
EXTENDS ChatMemoryInv, FiniteSetTheorems, SequenceTheorems, TLAPS

LEMMA NoRequestType == NoRequest \in Request /\ NoItems \in Items
  BY DEF NoRequest, Request, NoItems, Items

LEMMA IdleIsHonest ==
    Honest("idle", NoRequest) /\ Seen("idle", NoRequest, FALSE)
  <1>1. NoRequest.memory = NoItems /\ \A k \in ItemKeys : NoItems[k] = {}
    BY DEF NoRequest, NoItems
  <1>2. QED
    BY <1>1 DEF Honest, Seen, NoRequest, FormLabels, PrivateLabels, UsesMemory

(* Cutting a sequence adds no line to it.                                  *)
LEMMA SubSeqLines ==
    ASSUME NEW S, NEW q \in Seq(S), NEW i \in 1..Len(q) + 1, NEW j \in 0..Len(q)
    PROVE  SubSeq(q, i, j) \in Seq(S) /\ Lines(SubSeq(q, i, j)) \subseteq Lines(q)
  BY DEF Lines

LEMMA LastLines ==
    ASSUME NEW S, NEW q \in Seq(S), NEW n \in Nat
    PROVE  Last(q, n) \in Seq(S) /\ Lines(Last(q, n)) \subseteq Lines(q)
  <1>1. CASE Len(q) > n
    BY <1>1, SubSeqLines DEF Last
  <1>2. CASE ~(Len(q) > n)
    BY <1>2, SubSeqLines DEF Last
  <1>3. QED BY <1>1, <1>2

LEMMA ArrangedLines ==
    ASSUME NEW S \in SUBSET Messages, NEW order, NEW q \in Arranged(S, order)
    PROVE  q \in Seq(Messages) /\ Lines(q) \subseteq S
  <1>1. IsFiniteSet(S)
    BY FS_Subset, ChatAssumption
  <1>2. Cardinality(S) \in Nat
    BY <1>1, FS_CardinalityType
  <1>3. q \in [1..Cardinality(S) -> S]
    BY DEF Arranged
  <1>4. QED BY <1>2, <1>3 DEF Lines

LEMMA ListedLines ==
    ASSUME NEW c, NEW since, NEW q \in Listed(c, since)
    PROVE  /\ q \in Seq(Messages)
           /\ Lines(q) \subseteq {m \in Messages : cache[c][m] # None}
  <1> DEFINE found == {m \in Messages : cache[c][m] # None /\ cache[c][m].created >= since}
             earlier == {p \in found \X found :
                            \/ cache[c][p[1]].created < cache[c][p[2]].created
                            \/ /\ cache[c][p[1]].created = cache[c][p[2]].created
                               /\ p[1] < p[2]}
  <1>1. PICK a \in Arranged(found, earlier) : q = Last(a, Limit)
    BY DEF Listed
  <1>2. a \in Seq(Messages) /\ Lines(a) \subseteq found
    BY ArrangedLines
  <1>3. QED BY <1>1, <1>2, LastLines, ChatAssumption

LEMMA RolledLines ==
    ASSUME NEW previous \in Seq(Messages), NEW older \in Seq(Messages),
           NEW q \in Rolled(previous, older)
    PROVE  q \in Seq(Messages) /\ Lines(q) \subseteq Lines(previous) \cup Lines(older)
  <1> DEFINE old == Lines(previous) \ Lines(older)
             new == Lines(older)
             order == (old \X new)
                \cup {p \in old \X old : Position(previous, p[1]) < Position(previous, p[2])}
                \cup {p \in new \X new : Position(older, p[1]) < Position(older, p[2])}
  <1>1. PICK a \in Arranged(old \cup new, order) : q = Last(a, SummaryMax)
    BY DEF Rolled, Extended
  <1>2. old \cup new \in SUBSET Messages
    BY DEF Lines
  <1>3. a \in Seq(Messages) /\ Lines(a) \subseteq old \cup new
    <2> HIDE DEF order, old, new
    <2> QED BY <1>2, ArrangedLines
  <1>4. q \in Seq(Messages) /\ Lines(q) \subseteq Lines(a)
    <2> HIDE DEF order, old, new
    <2> QED BY <1>1, <1>3, LastLines, ChatAssumption
  <1>5. QED BY <1>3, <1>4

-----------------------------------------------------------------------------
LEMMA TypeOfRequest ==
    ASSUME NEW r \in Request
    PROVE  /\ \A t \in Nat : [r EXCEPT !.at = t] \in Request
           /\ \A f \in SUBSET Messages : [r EXCEPT !.fetched = f] \in Request
           /\ \A q, p \in Seq(Messages) :
                  /\ [r EXCEPT !.at = 0, !.context = q, !.older = p] \in Request
                  /\ [r EXCEPT !.older = <<>>, !.basis = q, !.summary = p] \in Request
           /\ \A q \in Seq(Messages) : [r EXCEPT !.summary = q] \in Request
           /\ [r EXCEPT !.basis = <<>>] \in Request
           /\ \A i \in Items : [r EXCEPT !.memory = i] \in Request
  <1> DEFINE Sequences == Seq(Messages)
  <1>0. <<>> \in Sequences
    OBVIOUS
  <1>1. Request =
            [op : {"none", "message", "click", "form"},
             user : Users \cup {None}, conv : Conversations \cup {None},
             message : Messages \cup {None}, at : Nat, fetched : SUBSET Messages,
             context : Sequences, older : Sequences, basis : Sequences,
             summary : Sequences, memory : Items, form : SUBSET Messages]
    BY DEF Request
  <1> HIDE DEF Sequences
  <1>2. \A t \in Nat : [r EXCEPT !.at = t] \in Request
    BY <1>1
  <1>3. \A f \in SUBSET Messages : [r EXCEPT !.fetched = f] \in Request
    BY <1>1
  <1>4. \A q, p \in Sequences : [r EXCEPT !.at = 0, !.context = q, !.older = p] \in Request
    BY <1>1
  <1>5. \A q, p \in Sequences :
            [r EXCEPT !.older = <<>>, !.basis = q, !.summary = p] \in Request
    BY <1>0, <1>1
  <1>6. \A q \in Sequences : [r EXCEPT !.summary = q] \in Request
    BY <1>1
  <1>7. [r EXCEPT !.basis = <<>>] \in Request
    BY <1>0, <1>1
  <1>8. \A i \in Items : [r EXCEPT !.memory = i] \in Request
    BY <1>1
  <1>9. QED BY <1>2, <1>3, <1>4, <1>5, <1>6, <1>7, <1>8 DEF Sequences

(* A step of one session that leaves Feishu, the switch and the clock      *)
(* alone keeps the invariant if the session stays honest and the stores    *)
(* stay sound.                                                             *)
LEMMA Move ==
    ASSUME ChatIInv, NEW s \in Sessions, NEW label \in Labels, NEW r \in Request,
           NEW on \in BOOLEAN,
           pc' = [pc EXCEPT ![s] = label], req' = [req EXCEPT ![s] = r],
           seenOn' = [seenOn EXCEPT ![s] = on],
           Honest(label, r), Seen(label, r, on),
           UNCHANGED <<sent, now, enabled>>,
           keys' \in SUBSET Messages,
           cache' \in [Conversations -> [Messages -> Cached \cup {None}]],
           summary' \in [Conversations -> Seq(Messages)],
           memory' \in [Users -> Items], cards' \in SUBSET Messages,
           asked' \in [Messages -> Nat], StoreInv', OnceInv'
    PROVE  ChatIInv'
  <1>1. ChatTypeOK'
    BY DEF ChatIInv, ChatTypeOK
  <1>2. /\ pc'[s] = label /\ req'[s] = r /\ seenOn'[s] = on
        /\ \A t \in Sessions \ {s} :
               pc'[t] = pc[t] /\ req'[t] = req[t] /\ seenOn'[t] = seenOn[t]
    BY DEF ChatIInv, ChatTypeOK
  <1>3. \A t \in Sessions : SessionInv(t)'
    BY <1>2 DEF ChatIInv, SessionInv, Honest, History, Told
  <1>4. \A t \in Sessions : SeenInv(t)'
    BY <1>2 DEF ChatIInv, SeenInv, Seen
  <1>5. QED BY <1>1, <1>3, <1>4 DEF ChatIInv

(* Nothing is stored.                                                      *)
LEMMA StoresStay ==
    ASSUME StoreInv, UNCHANGED <<sent, cache, summary, memory, cards>>
    PROVE  StoreInv'
  BY DEF StoreInv, History, Told

(* A session does not begin to answer.                                     *)
LEMMA OnceStays ==
    ASSUME ChatIInv, NEW s \in Sessions, NEW label \in Labels, NEW r \in Request,
           pc' = [pc EXCEPT ![s] = label], req' = [req EXCEPT ![s] = r],
           label \in Answering => pc[s] \in Answering /\ r.message = req[s].message,
           UNCHANGED <<keys, asked>>
    PROVE  OnceInv'
  <1>1. \A t \in Sessions : pc'[t] \in Answering =>
            pc[t] \in Answering /\ req'[t].message = req[t].message
    BY DEF ChatIInv, ChatTypeOK
  <1>2. QED BY <1>1 DEF ChatIInv, OnceInv

(* The step of a session that only goes on with what it knows.             *)
LEMMA KnowStep ==
    ASSUME ChatIInv, NEW s \in Sessions, NEW label \in Labels, NEW r \in Request,
           Know(s, label, r), Honest(label, r), Seen(label, r, seenOn[s]),
           label \in Answering => pc[s] \in Answering /\ r.message = req[s].message,
           UNCHANGED <<sent, now, enabled, keys, asked>>,
           cache' \in [Conversations -> [Messages -> Cached \cup {None}]],
           summary' \in [Conversations -> Seq(Messages)],
           memory' \in [Users -> Items], cards' \in SUBSET Messages, StoreInv'
    PROVE  ChatIInv'
  <1>1. OnceInv'
    BY OnceStays DEF Know, Goto
  <1>2. seenOn[s] \in BOOLEAN /\ seenOn' = [seenOn EXCEPT ![s] = seenOn[s]]
    BY DEF ChatIInv, ChatTypeOK, Know
  <1>3. QED
    BY <1>1, <1>2, Move DEF Know, Goto, ChatIInv, ChatTypeOK

(* The last step of a session.                                             *)
LEMMA ReturnStep ==
    ASSUME ChatIInv, NEW s \in Sessions, Return(s),
           UNCHANGED <<sent, now, enabled, keys, cache, summary, asked>>,
           memory' \in [Users -> Items], cards' \in SUBSET Messages, StoreInv'
    PROVE  ChatIInv'
  <1>1. "idle" \in Labels /\ "idle" \notin Answering /\ NoRequest \in Request
    BY NoRequestType DEF Labels, Answering, LoadLabels
  <1>2. OnceInv'
    BY <1>1, OnceStays DEF Return, Goto
  <1>3. QED
    BY <1>1, <1>2, Move, IdleIsHonest DEF Return, Goto, ChatIInv, ChatTypeOK

LEMMA BeginStep ==
    ASSUME ChatIInv, NEW s \in Sessions, NEW label \in Labels, NEW r \in Request,
           Begin(s, label, r), r.user \in Users, Honest(label, r),
           label \notin Answering \cup UsesMemory, r.memory = NoItems,
           UNCHANGED <<tables, chat, now, asked>>
    PROVE  ChatIInv'
  <1>1. OnceInv'
    BY OnceStays DEF Begin, Goto, tables
  <1>2. enabled[r.user] \in BOOLEAN /\ Seen(label, r, enabled[r.user])
    BY DEF ChatIInv, ChatTypeOK, Seen
  <1>3. StoreInv'
    BY StoresStay DEF ChatIInv, tables, chat
  <1>4. QED
    BY <1>1, <1>2, <1>3, Move DEF Begin, Goto, tables, chat, ChatIInv, ChatTypeOK

-----------------------------------------------------------------------------
Serving ==
    Answering \cup {"remember_key", "may_offer", "send_card", "may_save", "save_item"}

(* What is known of a session at work.                                     *)
LEMMA AtWork ==
    ASSUME ChatIInv, NEW s \in Sessions, NEW label, pc[s] = label
    PROVE  /\ req[s] \in Request /\ seenOn[s] \in BOOLEAN
           /\ Honest(label, req[s]) /\ Seen(label, req[s], seenOn[s])
           /\ label \in Serving \cup Answering =>
                  /\ req[s].op \in {"message", "click"}
                  /\ req[s].message \in Messages
                  /\ req[s].user \in Users /\ req[s].conv \in Conversations
                  /\ label # "ask" => req[s].memory = NoItems
  <1>1. /\ req[s] \in Request /\ seenOn[s] \in BOOLEAN
        /\ Honest(label, req[s]) /\ Seen(label, req[s], seenOn[s])
    BY DEF ChatIInv, ChatTypeOK, SessionInv, SeenInv
  <1>2. ASSUME label \in Serving \cup Answering
        PROVE  /\ req[s].op \in {"message", "click"}
               /\ req[s].message \in Messages
               /\ req[s].user \in Users /\ req[s].conv \in Conversations
               /\ label # "ask" => req[s].memory = NoItems
    <2>1. req[s].op \in {"message", "click"}
      BY <1>1, <1>2 DEF Honest, Request, Serving, Answering, LoadLabels, FormLabels
    <2>2. req[s].message \in Messages /\ sent[req[s].message] \in Message
      BY <1>1, <2>1 DEF Honest, ChatIInv, ChatTypeOK
    <2>3. req[s].user \in Users /\ req[s].conv \in Conversations
      BY <1>1, <2>1, <2>2 DEF Honest, Message
    <2>4. label # "ask" => req[s].memory = NoItems
      BY <1>1 DEF Honest
    <2>5. QED BY <2>1, <2>2, <2>3, <2>4
  <1>3. QED BY <1>1, <1>2

(* The steps on the way of a question that store nothing.                  *)
LEMMA Reading ==
    ASSUME ChatIInv, NEW s \in Sessions,
           CacheAge(s) \/ Fetch(s) \/ List(s) \/ GetSummary(s) \/ MaySummarize(s)
           \/ MayUse(s) \/ ListItems(s)
    PROVE  ChatIInv'
  <1> DEFINE r == req[s]
  <1>1. ASSUME NEW label \in Labels, NEW q \in Request, Know(s, label, q),
               UNCHANGED <<tables, chat, now, asked>>,
               Honest(label, q), Seen(label, q, seenOn[s]),
               pc[s] \in Answering, q.message = r.message
        PROVE  ChatIInv'
    BY <1>1, KnowStep, StoresStay DEF ChatIInv, ChatTypeOK, tables, chat
  <1>2. CASE CacheAge(s)
    <2>1. pc[s] = "cache_age"
      BY <1>2 DEF CacheAge, At
    <2>2. PICK label \in {"list", "fetch"} : Know(s, label, r)
      BY <1>2 DEF CacheAge, Step
    <2>3. Honest(label, r) /\ Seen(label, r, seenOn[s])
      BY <2>1, AtWork DEF Honest, Seen, Serving, Answering, LoadLabels, FormLabels, PrivateLabels,
         UsesMemory
    <2>4. label \in Labels /\ r \in Request /\ pc[s] \in Answering
      BY <2>1, AtWork DEF Labels, Serving, Answering, LoadLabels
    <2>5. QED BY <1>1, <1>2, <2>2, <2>3, <2>4 DEF CacheAge
  <1>3. CASE Fetch(s)
    <2>1. pc[s] = "fetch"
      BY <1>3 DEF Fetch, At
    <2>2. pc[s] \in Answering
      BY <2>1 DEF Serving, Answering, LoadLabels
    <2>3. CASE Know(s, AfterContext(r.conv), [r EXCEPT !.at = 0])
      <3> DEFINE q == [r EXCEPT !.at = 0]
                 label == AfterContext(r.conv)
      <3>1. q \in Request
        BY <2>1, AtWork, TypeOfRequest
      <3>2. /\ q.op = r.op /\ q.user = r.user /\ q.conv = r.conv /\ q.message = r.message
            /\ q.fetched = r.fetched /\ q.context = r.context /\ q.older = r.older
            /\ q.summary = r.summary /\ q.memory = r.memory /\ q.form = r.form
        BY <2>1, AtWork DEF Request
      <3>3. Honest(label, q) /\ Seen(label, q, seenOn[s]) /\ label \in Labels
        <4> HIDE DEF q
        <4> QED
          BY <2>1, <2>2, <3>2, AtWork DEF Honest, Seen, Serving, Answering, LoadLabels, FormLabels,
             PrivateLabels, UsesMemory, AfterContext, Labels
      <3> HIDE DEF q, label
      <3>4. QED BY <1>1, <1>3, <2>2, <2>3, <3>1, <3>2, <3>3 DEF Fetch, q, label
    <2>4. CASE Know(s, "upsert",
                    [r EXCEPT !.fetched =
                        Newest(History(r.conv, r.at - Recent), Limit) \ {r.message}])
      <3> DEFINE f == Newest(History(r.conv, r.at - Recent), Limit) \ {r.message}
                 q == [r EXCEPT !.fetched = f]
      <3>1. f \in SUBSET Messages /\ f \subseteq History(r.conv, 0)
        <4>1. r.at - Recent \in Int
          BY <2>1, AtWork, ChatAssumption DEF Request
        <4>2. \A m \in Messages : sent[m] # None => sent[m].at \in Nat
          BY DEF ChatIInv, ChatTypeOK, Message
        <4>3. QED BY <4>1, <4>2 DEF Newest, History
      <3>2. q \in Request
        <4> HIDE DEF f
        <4> QED BY <2>1, <3>1, AtWork, TypeOfRequest
      <3>3. /\ q.op = r.op /\ q.user = r.user /\ q.conv = r.conv /\ q.message = r.message
            /\ q.fetched = f /\ q.context = r.context /\ q.older = r.older
            /\ q.summary = r.summary /\ q.memory = r.memory /\ q.form = r.form
        <4> HIDE DEF f
        <4> QED BY <2>1, AtWork DEF Request
      <3>4. Honest("upsert", q) /\ Seen("upsert", q, seenOn[s]) /\ "upsert" \in Labels
        <4> HIDE DEF q, f
        <4> QED
          BY <2>1, <2>2, <3>1, <3>3, AtWork DEF Honest, Seen, Serving, Answering, LoadLabels,
             FormLabels, PrivateLabels, UsesMemory, Labels
      <3>5. QED BY <1>1, <1>3, <2>2, <2>4, <3>2, <3>3, <3>4 DEF Fetch
    <2>5. QED BY <1>3, <2>3, <2>4 DEF Fetch
  <1>4. CASE List(s)
    <2>1. pc[s] = "list" /\ pc[s] \in Answering
      BY <1>4 DEF List, At, Serving, Answering, LoadLabels
    <2>2. PICK all \in Listed(r.conv, r.at - Recent), n \in 1..Window :
              /\ n = 1 \/ n <= Len(all)
              /\ Know(s, "get_summary",
                      [r EXCEPT !.at = 0, !.context = Last(all, n),
                                !.older = SubSeq(all, 1, Len(all) - n)])
      BY <1>4 DEF List
    <2> DEFINE context == Last(all, n)
               older == SubSeq(all, 1, Len(all) - n)
               q == [r EXCEPT !.at = 0, !.context = context, !.older = older]
    <2>3. all \in Seq(Messages) /\ Lines(all) \subseteq History(r.conv, 0)
      BY <2>1, AtWork, ListedLines DEF ChatIInv, StoreInv
    <2>4. n \in Nat /\ n >= 1
      BY ChatAssumption
    <2>5. context \in Seq(Messages) /\ Lines(context) \subseteq Lines(all)
      BY <2>3, <2>4, LastLines
    <2>6. older \in Seq(Messages) /\ Lines(older) \subseteq Lines(all)
      <3>1. CASE n <= Len(all)
        <4>1. Len(all) - n \in 0..Len(all) /\ 1 \in 1..Len(all) + 1
          BY <2>3, <2>4, <3>1
        <4>2. QED BY <2>3, <4>1, SubSeqLines
      <3>2. CASE n = 1 /\ ~(n <= Len(all))
        <4>1. Len(all) = 0 /\ Len(all) - n = -1
          BY <2>3, <3>2
        <4>2. SubSeq(all, 1, -1) = <<>>
          BY <2>3, SubSeqEmpty
        <4>3. QED BY <4>1, <4>2 DEF Lines
      <3>3. QED BY <2>2, <3>1, <3>2
    <2>7. q \in Request
      <3> HIDE DEF context, older
      <3> QED BY <2>1, <2>5, <2>6, AtWork, TypeOfRequest
    <2>8. /\ q.op = r.op /\ q.user = r.user /\ q.conv = r.conv /\ q.message = r.message
          /\ q.fetched = r.fetched /\ q.context = context /\ q.older = older
          /\ q.summary = r.summary /\ q.memory = r.memory /\ q.form = r.form
      <3> HIDE DEF context, older
      <3> QED BY <2>1, AtWork DEF Request
    <2>9. Honest("get_summary", q) /\ Seen("get_summary", q, seenOn[s])
          /\ "get_summary" \in Labels
      <3> HIDE DEF q, context, older
      <3> QED
        BY <2>1, <2>3, <2>5, <2>6, <2>8, AtWork, SMTT(30)
        DEF Honest, Seen, Serving, Answering, LoadLabels, FormLabels, PrivateLabels, UsesMemory, Labels
    <2>10. QED BY <1>1, <1>4, <2>1, <2>2, <2>7, <2>8, <2>9 DEF List
  <1>5. CASE GetSummary(s)
    <2>1. pc[s] = "get_summary" /\ pc[s] \in Answering
      BY <1>5 DEF GetSummary, At, Serving, Answering, LoadLabels
    <2> DEFINE stored == summary[r.conv]
    <2>2. stored \in Seq(Messages) /\ Lines(stored) \subseteq History(r.conv, 0)
      BY <2>1, AtWork DEF ChatIInv, ChatTypeOK, StoreInv
    <2>3. CASE r.older # <<>>
      <3>1. PICK new \in Rolled(stored, r.older) :
                Know(s, "save_summary",
                     [r EXCEPT !.older = <<>>, !.basis = stored, !.summary = new])
        BY <1>5, <2>3 DEF GetSummary
      <3> DEFINE q == [r EXCEPT !.older = <<>>, !.basis = stored, !.summary = new]
      <3>2. r.older \in Seq(Messages) /\ Lines(r.older) \subseteq History(r.conv, 0)
        BY <2>1, AtWork DEF Request, Honest
      <3>3. new \in Seq(Messages) /\ Lines(new) \subseteq History(r.conv, 0)
        <4> HIDE DEF stored
        <4> QED BY <2>2, <3>2, RolledLines
      <3>4. q \in Request
        <4> HIDE DEF stored
        <4> QED BY <2>1, <2>2, <3>3, AtWork, TypeOfRequest
      <3>5. /\ q.op = r.op /\ q.user = r.user /\ q.conv = r.conv /\ q.message = r.message
            /\ q.fetched = r.fetched /\ q.context = r.context /\ q.older = <<>>
            /\ q.summary = new /\ q.memory = r.memory /\ q.form = r.form
        <4> HIDE DEF stored
        <4> QED BY <2>1, AtWork DEF Request
      <3>6. Honest("save_summary", q) /\ Seen("save_summary", q, seenOn[s])
            /\ "save_summary" \in Labels
        <4> HIDE DEF q
        <4>1. Lines(<<>>) = {}
          BY DEF Lines
        <4> QED
          BY <2>1, <3>3, <3>5, <4>1, AtWork DEF Honest, Seen, Serving, Answering, LoadLabels,
             FormLabels, PrivateLabels, UsesMemory, Labels
      <3>7. QED BY <1>1, <1>5, <2>1, <3>1, <3>4, <3>5, <3>6 DEF GetSummary
    <2>4. CASE r.older = <<>>
      <3> DEFINE q == [r EXCEPT !.summary = stored]
      <3>1. Know(s, "cache_current", q)
        BY <1>5, <2>4 DEF GetSummary
      <3>2. q \in Request
        BY <2>1, <2>2, AtWork, TypeOfRequest
      <3>3. /\ q.op = r.op /\ q.user = r.user /\ q.conv = r.conv /\ q.message = r.message
            /\ q.fetched = r.fetched /\ q.context = r.context /\ q.older = r.older
            /\ q.summary = stored /\ q.memory = r.memory /\ q.form = r.form
        <4> HIDE DEF stored
        <4> QED BY <2>1, AtWork DEF Request
      <3>4. Honest("cache_current", q) /\ Seen("cache_current", q, seenOn[s])
            /\ "cache_current" \in Labels
        <4> HIDE DEF q, stored
        <4> QED
          BY <2>1, <2>2, <3>3, AtWork DEF Honest, Seen, Serving, Answering, LoadLabels,
             FormLabels, PrivateLabels, UsesMemory, Labels
      <3>5. QED BY <1>1, <1>5, <2>1, <3>1, <3>2, <3>3, <3>4 DEF GetSummary
    <2>5. QED BY <2>3, <2>4
  <1>6. CASE MaySummarize(s) \/ MayUse(s)
    <2>1. pc[s] \in {"may_summarize", "may_use"}
      BY <1>6 DEF MaySummarize, MayUse, At
    <2>2. PICK label \in {"save_summary_item", "may_use", "list_items", "ask"} :
              /\ Know(s, label, r)
              /\ label \in UsesMemory => enabled[r.user]
      BY <1>6 DEF MaySummarize, MayUse, Step, UsesMemory
    <2>3. r.memory = NoItems /\ r.op \in {"message", "click"}
      BY <2>1, AtWork DEF Serving, Answering, LoadLabels
    <2>4. Honest(label, r)
      BY <2>1, <2>3, AtWork DEF Honest, Serving, Answering, LoadLabels, FormLabels, PrivateLabels
    <2>5. Seen(label, r, seenOn[s])
      BY <2>1, <2>2, <2>3, AtWork DEF Seen
    <2>6. label \in Labels /\ r \in Request /\ pc[s] \in Answering
      BY <2>1, AtWork DEF Labels, Serving, Answering, LoadLabels
    <2>7. QED BY <1>1, <1>6, <2>2, <2>4, <2>5, <2>6 DEF MaySummarize, MayUse
  <1>7. CASE ListItems(s)
    <2>1. pc[s] = "list_items" /\ pc[s] \in Answering
      BY <1>7 DEF ListItems, At, Serving, Answering
    <2> DEFINE items == [k \in ItemKeys |->
                            IF k = r.conv /\ r.summary # <<>> THEN {} ELSE memory[r.user][k]]
               q == [r EXCEPT !.memory = items]
    <2>2. r.user \in Users /\ r.conv = r.user /\ r.op \in {"message", "click"}
      <3>1. Private(r.conv)
        BY <2>1, AtWork DEF Honest, PrivateLabels
      <3>2. sent[r.message].conv \in Groups \cup {sent[r.message].user}
        BY <2>1, AtWork DEF Honest, ChatIInv, StoreInv
      <3>3. QED BY <2>1, <3>1, <3>2, AtWork, ChatAssumption DEF Honest, Private
    <2>3. items \in Items /\ \A k \in ItemKeys : items[k] \subseteq Told(r.user)
      BY <2>2 DEF ChatIInv, ChatTypeOK, StoreInv, Items
    <2>4. q \in Request
      <3> HIDE DEF items
      <3> QED BY <2>1, <2>3, AtWork, TypeOfRequest
    <2>5. /\ q.op = r.op /\ q.user = r.user /\ q.conv = r.conv /\ q.message = r.message
          /\ q.fetched = r.fetched /\ q.context = r.context /\ q.older = r.older
          /\ q.summary = r.summary /\ q.memory = items /\ q.form = r.form
      <3> HIDE DEF items
      <3> QED BY <2>1, AtWork DEF Request
    <2>6. Honest("ask", q) /\ Seen("ask", q, seenOn[s]) /\ "ask" \in Labels
      <3> HIDE DEF q, items
      <3> QED
        BY <2>1, <2>2, <2>3, <2>5, AtWork DEF Honest, Seen, Serving, Answering, LoadLabels,
           FormLabels, PrivateLabels, UsesMemory, Labels
    <2>7. QED BY <1>1, <1>7, <2>1, <2>4, <2>5, <2>6 DEF ListItems
  <1>8. QED BY <1>2, <1>3, <1>4, <1>5, <1>6, <1>7

-----------------------------------------------------------------------------
(* The first step of a question: of the sessions that answer a message     *)
(* none has found its key missing but the one that stored it.              *)
LEMMA RememberKeyStep ==
    ASSUME ChatIInv, NEW s \in Sessions, RememberKey(s)
    PROVE  ChatIInv'
  <1> DEFINE r == req[s]
  <1>1. pc[s] = "remember_key" /\ r.message \in Messages
    BY AtWork DEF RememberKey, At, Serving
  <1>2. StoreInv'
    BY StoresStay DEF RememberKey, chat, ChatIInv
  <1>3. CASE r.message \in keys /\ Return(s)
    <2>1. keys' = keys
      BY <1>3 DEF RememberKey
    <2>2. QED
      BY <1>2, <1>3, <2>1, ReturnStep DEF RememberKey, chat, ChatIInv, ChatTypeOK
  <1>4. CASE r.message \notin keys /\ Step(s, "prune")
    <2>1. Honest("prune", r) /\ Seen("prune", r, seenOn[s])
      BY <1>1, AtWork DEF Honest, Seen, FormLabels, PrivateLabels, UsesMemory, Serving
    <2>2. /\ pc' = [pc EXCEPT ![s] = "prune"] /\ req' = [req EXCEPT ![s] = r]
          /\ seenOn' = [seenOn EXCEPT ![s] = seenOn[s]] /\ seenOn[s] \in BOOLEAN
      BY <1>4 DEF Step, Know, Goto, ChatIInv, ChatTypeOK
    <2>3. /\ keys' = keys \cup {r.message} /\ asked' = asked /\ req' = req
          /\ \A t \in Sessions \ {s} : pc'[t] = pc[t]
      BY <2>2 DEF RememberKey, ChatIInv, ChatTypeOK
    <2>4. \A t \in Sessions : pc[t] \in Answering => req[t].message # r.message
      BY <1>4 DEF ChatIInv, OnceInv
    <2>5. asked[r.message] = 0
      BY <1>1, <1>4 DEF ChatIInv, OnceInv
    <2>6. OnceInv'
      BY <2>3, <2>4, <2>5 DEF ChatIInv, OnceInv
    <2>7. "prune" \in Labels /\ r \in Request /\ keys' \in SUBSET Messages
      BY <1>1, <2>3, AtWork DEF Labels, ChatIInv, ChatTypeOK
    <2>8. QED
      BY <1>2, <2>1, <2>2, <2>6, <2>7, Move DEF RememberKey, chat, ChatIInv, ChatTypeOK
  <1>5. QED BY <1>3, <1>4 DEF RememberKey

(* The steps of a question that write a store.                             *)
LEMMA Writing ==
    ASSUME ChatIInv, NEW s \in Sessions,
           Prune(s) \/ Upsert(s) \/ SaveSummary(s) \/ CacheCurrent(s) \/ SaveSummaryItem(s)
    PROVE  ChatIInv'
  <1> DEFINE r == req[s]
  <1>1. CASE Prune(s)
    <2>1. pc[s] = "prune" /\ pc[s] \in Answering
      BY <1>1 DEF Prune, At, Answering, LoadLabels
    <2>2. PICK label \in {"fetch", "cache_age"} : Know(s, label, [r EXCEPT !.at = now])
      BY <1>1 DEF Prune
    <2> DEFINE q == [r EXCEPT !.at = now]
    <2>3. q \in Request
      BY <2>1, AtWork, TypeOfRequest DEF ChatIInv, ChatTypeOK
    <2>4. /\ q.op = r.op /\ q.user = r.user /\ q.conv = r.conv /\ q.message = r.message
          /\ q.fetched = r.fetched /\ q.context = r.context /\ q.older = r.older
          /\ q.summary = r.summary /\ q.memory = r.memory /\ q.form = r.form
      BY <2>1, AtWork DEF Request
    <2>5. Honest(label, q) /\ Seen(label, q, seenOn[s]) /\ label \in Labels
      <3> HIDE DEF q
      <3> QED
        BY <2>1, <2>4, AtWork DEF Honest, Seen, Serving, Answering, LoadLabels,
           FormLabels, PrivateLabels, UsesMemory, Labels
    <2>6. \A c \in Conversations, m \in Messages : cache'[c][m] \in {None, cache[c][m]}
      BY <1>1 DEF Prune
    <2>7. cache' \in [Conversations -> [Messages -> Cached \cup {None}]]
      BY <1>1, <2>6 DEF Prune, ChatIInv, ChatTypeOK
    <2>8. StoreInv'
      BY <1>1, <2>6 DEF Prune, chat, ChatIInv, StoreInv, History, Told
    <2>9. QED
      <3> HIDE DEF q
      <3> QED
        BY <1>1, <2>1, <2>2, <2>3, <2>4, <2>5, <2>7, <2>8, KnowStep
        DEF Prune, chat, q, ChatIInv, ChatTypeOK
  <1>2. CASE Upsert(s)
    <2>1. pc[s] = "upsert" /\ pc[s] \in Answering
      BY <1>2 DEF Upsert, At, Answering, LoadLabels
    <2> DEFINE q == [r EXCEPT !.fetched = {}]
    <2>2. q \in Request
      BY <2>1, AtWork, TypeOfRequest
    <2>3. /\ q.op = r.op /\ q.user = r.user /\ q.conv = r.conv /\ q.message = r.message
          /\ q.fetched = {} /\ q.context = r.context /\ q.older = r.older
          /\ q.summary = r.summary /\ q.memory = r.memory /\ q.form = r.form
      BY <2>1, AtWork DEF Request
    <2>4. Honest("list", q) /\ Seen("list", q, seenOn[s]) /\ "list" \in Labels
      <3> HIDE DEF q
      <3> QED
        BY <2>1, <2>3, AtWork DEF Honest, Seen, Serving, Answering, LoadLabels,
           FormLabels, PrivateLabels, UsesMemory, Labels
    <2>5. /\ r.conv \in Conversations /\ r.fetched \subseteq History(r.conv, 0)
      BY <2>1, AtWork DEF Honest
    <2>6. \A m \in r.fetched : [created |-> sent[m].at, cached |-> now] \in Cached
      BY <2>5 DEF History, ChatIInv, ChatTypeOK, Message, Cached
    <2>7. cache' = [cache EXCEPT ![r.conv] = [m \in Messages |->
              IF m \in r.fetched THEN [created |-> sent[m].at, cached |-> now]
                                 ELSE cache[r.conv][m]]]
      BY <1>2, <2>5 DEF Upsert, ChatIInv, ChatTypeOK
    <2>8. cache' \in [Conversations -> [Messages -> Cached \cup {None}]]
      BY <2>5, <2>6, <2>7 DEF ChatIInv, ChatTypeOK
    <2>9. \A c \in Conversations, m \in Messages :
              cache'[c][m] # None => m \in History(c, 0)
      BY <2>5, <2>7 DEF ChatIInv, ChatTypeOK, StoreInv
    <2>10. StoreInv'
      BY <1>2, <2>9 DEF Upsert, chat, ChatIInv, StoreInv, History, Told
    <2>11. QED
      <3> HIDE DEF q
      <3> QED
        BY <1>2, <2>1, <2>2, <2>3, <2>4, <2>8, <2>10, KnowStep
        DEF Upsert, chat, q, ChatIInv, ChatTypeOK
  <1>3. CASE SaveSummary(s)
    <2>1. pc[s] = "save_summary" /\ pc[s] \in Answering
      BY <1>3 DEF SaveSummary, At, Answering, LoadLabels
    <2> DEFINE q == [r EXCEPT !.basis = <<>>]
    <2>2. q \in Request
      BY <2>1, AtWork, TypeOfRequest
    <2>3. /\ q.op = r.op /\ q.user = r.user /\ q.conv = r.conv /\ q.message = r.message
          /\ q.fetched = r.fetched /\ q.context = r.context /\ q.older = r.older
          /\ q.summary = r.summary /\ q.memory = r.memory /\ q.form = r.form
      BY <2>1, AtWork DEF Request
    <2>4. Honest("cache_current", q) /\ Seen("cache_current", q, seenOn[s])
          /\ "cache_current" \in Labels
      <3> HIDE DEF q
      <3> QED
        BY <2>1, <2>3, AtWork DEF Honest, Seen, Serving, Answering, LoadLabels,
           FormLabels, PrivateLabels, UsesMemory, Labels
    <2>5. /\ r.conv \in Conversations /\ Lines(r.summary) \subseteq History(r.conv, 0)
          /\ r.summary \in Seq(Messages)
      BY <2>1, AtWork DEF Honest, Request
    <2>6. /\ summary' \in [Conversations -> Seq(Messages)]
          /\ \A c \in Conversations : summary'[c] \in {summary[c]} \cup
                 (IF c = r.conv THEN {r.summary} ELSE {})
      BY <1>3, <2>5 DEF SaveSummary, ChatIInv, ChatTypeOK
    <2>7. StoreInv'
      BY <1>3, <2>5, <2>6 DEF SaveSummary, chat, ChatIInv, StoreInv, History, Told
    <2>8. QED
      <3> HIDE DEF q
      <3> QED
        BY <1>3, <2>1, <2>2, <2>3, <2>4, <2>6, <2>7, KnowStep
        DEF SaveSummary, chat, q, ChatIInv, ChatTypeOK
  <1>4. CASE CacheCurrent(s)
    <2>1. pc[s] = "cache_current" /\ pc[s] \in Answering
      BY <1>4 DEF CacheCurrent, At, Answering, LoadLabels
    <2> DEFINE label == AfterCaching(r)
    <2>2. r.message \in History(r.conv, 0) /\ r.conv \in Conversations
      BY <2>1, AtWork DEF Honest, History, ChatIInv, ChatTypeOK, Message, Serving
    <2>3. Honest(label, r) /\ Seen(label, r, seenOn[s]) /\ label \in Labels
      BY <2>1, AtWork DEF Honest, Seen, Serving, Answering, LoadLabels, FormLabels,
         PrivateLabels, UsesMemory, Labels, AfterCaching, AfterContext
    <2>4. [created |-> now, cached |-> now] \in Cached
      BY DEF ChatIInv, ChatTypeOK, Cached
    <2>5. cache' = [cache EXCEPT ![r.conv][r.message] = [created |-> now, cached |-> now]]
      BY <1>4 DEF CacheCurrent
    <2>6. cache' \in [Conversations -> [Messages -> Cached \cup {None}]]
      BY <2>2, <2>4, <2>5 DEF ChatIInv, ChatTypeOK
    <2>7. \A c \in Conversations, m \in Messages :
              cache'[c][m] # None => m \in History(c, 0)
      BY <2>2, <2>5 DEF ChatIInv, ChatTypeOK, StoreInv
    <2>8. StoreInv'
      BY <1>4, <2>7 DEF CacheCurrent, chat, ChatIInv, StoreInv, History, Told
    <2>9. r \in Request
      BY <2>1, AtWork
    <2> HIDE DEF label
    <2>10. QED
      BY <1>4, <2>1, <2>3, <2>6, <2>8, <2>9, KnowStep
      DEF CacheCurrent, Step, chat, label, ChatIInv, ChatTypeOK
  <1>5. CASE SaveSummaryItem(s)
    <2>1. pc[s] = "save_summary_item" /\ pc[s] \in Answering
      BY <1>5 DEF SaveSummaryItem, At, Answering, LoadLabels
    <2>2. r.user \in Users /\ r.conv = r.user /\ r.op \in {"message", "click"}
      <3>1. Private(r.conv)
        BY <2>1, AtWork DEF Honest, PrivateLabels
      <3>2. sent[r.message].conv \in Groups \cup {sent[r.message].user}
        BY <2>1, AtWork DEF Honest, ChatIInv, StoreInv
      <3>3. QED BY <2>1, <3>1, <3>2, AtWork, ChatAssumption DEF Honest, Private
    <2>3. Lines(r.summary) \subseteq Told(r.user)
      BY <2>1, <2>2, AtWork DEF Honest, Told
    <2>4. Lines(r.summary) \in SUBSET Messages /\ r.conv \in ItemKeys
      BY <2>2, <2>3 DEF Told, History, ItemKeys, Conversations
    <2>5. memory' \in [Users -> Items] /\ \A u \in Users, k \in ItemKeys :
              memory'[u][k] \subseteq Told(u)
      BY <1>5, <2>2, <2>3, <2>4
      DEF SaveSummaryItem, Store, ChatIInv, ChatTypeOK, StoreInv, Items
    <2>6. StoreInv'
      BY <1>5, <2>5 DEF SaveSummaryItem, chat, ChatIInv, StoreInv, History, Told
    <2>7. Honest("may_use", r) /\ Seen("may_use", r, seenOn[s]) /\ "may_use" \in Labels
          /\ r \in Request
      BY <2>1, AtWork DEF Honest, Seen, Serving, Answering, LoadLabels, FormLabels,
         PrivateLabels, UsesMemory, Labels
    <2>8. QED
      BY <1>5, <2>1, <2>5, <2>6, <2>7, KnowStep
      DEF SaveSummaryItem, Step, chat, ChatIInv, ChatTypeOK
  <1>6. QED BY <1>1, <1>2, <1>3, <1>4, <1>5

(* The question reaches the assistant; no other session holds its message. *)
LEMMA AskStep ==
    ASSUME ChatIInv, NEW s \in Sessions, Ask(s)
    PROVE  ChatIInv'
  <1> DEFINE m == req[s].message
  <1>1. pc[s] = "ask" /\ pc[s] \in Answering /\ m \in Messages
    BY AtWork DEF Ask, At, Answering
  <1>2. m \in keys /\ asked[m] = 0
    BY <1>1 DEF ChatIInv, OnceInv
  <1>3. /\ asked' \in [Messages -> Nat] /\ asked'[m] = 1
        /\ \A n \in Messages \ {m} : asked'[n] = asked[n]
    BY <1>1, <1>2 DEF Ask, ChatIInv, ChatTypeOK
  <1>4. /\ "idle" \in Labels /\ "idle" \notin Answering /\ NoRequest \in Request
        /\ keys' = keys
    BY NoRequestType DEF Labels, Answering, LoadLabels, Ask, tables
  <1>5. /\ pc'[s] = "idle"
        /\ \A t \in Sessions \ {s} : pc'[t] = pc[t] /\ req'[t] = req[t]
    BY DEF Ask, Return, Goto, ChatIInv, ChatTypeOK
  <1>6. \A t \in Sessions : pc'[t] \in Answering =>
            t # s /\ pc[t] \in Answering /\ req'[t] = req[t] /\ req[t].message # m
    BY <1>1, <1>4, <1>5 DEF ChatIInv, OnceInv
  <1>7. \A t \in Sessions : pc[t] \in Answering => req[t].message \in Messages
    BY AtWork
  <1>8. \A n \in Messages : asked'[n] \in {0, 1} /\ (asked'[n] = 1 => n \in keys')
    BY <1>2, <1>3, <1>4 DEF ChatIInv, OnceInv
  <1>9. \A t \in Sessions : pc'[t] \in Answering =>
            req'[t].message \in keys' /\ asked'[req'[t].message] = 0
    BY <1>3, <1>4, <1>6, <1>7 DEF ChatIInv, OnceInv
  <1>10. \A t, w \in Sessions :
            /\ pc'[t] \in Answering /\ pc'[w] \in Answering
            /\ req'[t].message = req'[w].message
            => t = w
    BY <1>6 DEF ChatIInv, OnceInv
  <1>11. OnceInv'
    BY <1>8, <1>9, <1>10 DEF OnceInv
  <1>12. StoreInv'
    BY StoresStay DEF Ask, tables, chat, ChatIInv
  <1>13. QED
    BY <1>3, <1>4, <1>11, <1>12, Move, IdleIsHonest
    DEF Ask, Return, Goto, tables, chat, ChatIInv, ChatTypeOK

-----------------------------------------------------------------------------
(* Only a user's memory changes, and the session that changes it returns   *)
(* or goes on.                                                             *)
LEMMA Commanding ==
    ASSUME ChatIInv, NEW s \in Sessions, Command(s)
    PROVE  ChatIInv'
  <1> DEFINE r == req[s]
  <1>1. CASE MayOffer(s) \/ MaySave(s)
    <2>1. pc[s] \in {"may_offer", "may_save"}
      BY <1>1 DEF MayOffer, MaySave, At
    <2>2. StoreInv'
      BY <1>1, StoresStay DEF MayOffer, MaySave, tables, chat, ChatIInv
    <2>3. CASE Return(s)
      BY <1>1, <2>2, <2>3, ReturnStep
      DEF MayOffer, MaySave, tables, chat, ChatIInv, ChatTypeOK
    <2>4. ASSUME NEW label \in {"send_card", "save_item"}, enabled[r.user],
                 Know(s, label, r)
          PROVE  ChatIInv'
      <3>1. Honest(label, r) /\ label \in Labels /\ r \in Request
        BY <2>1, AtWork DEF Honest, Serving, FormLabels, PrivateLabels, Labels
      <3>2. Seen(label, r, seenOn[s])
        BY <2>1, <2>4, AtWork DEF Seen, Honest, Serving, FormLabels
      <3>3. label \notin Answering
        BY DEF Answering, LoadLabels
      <3>4. QED
        BY <1>1, <2>2, <2>4, <3>1, <3>2, <3>3, KnowStep
        DEF MayOffer, MaySave, tables, chat, ChatIInv, ChatTypeOK
    <2>5. QED BY <1>1, <2>3, <2>4 DEF MayOffer, MaySave, Step
  <1>2. CASE SendCard(s)
    <2>1. pc[s] = "send_card" /\ r.message \in Messages /\ r.op \in {"message", "click"}
      BY <1>2, AtWork DEF SendCard, At, Serving
    <2>2. sent[r.message] # None /\ Private(sent[r.message].conv)
      BY <2>1, AtWork DEF Honest, PrivateLabels
    <2>3. cards' \in SUBSET Messages
      BY <1>2, <2>1 DEF SendCard, ChatIInv, ChatTypeOK
    <2>4. StoreInv'
      BY <1>2, <2>2 DEF SendCard, tables, ChatIInv, StoreInv, History, Told
    <2>5. QED
      BY <1>2, <2>3, <2>4, ReturnStep DEF SendCard, tables, ChatIInv, ChatTypeOK
  <1>3. CASE SaveItem(s)
    <2>1. pc[s] = "save_item" /\ r.message \in Messages /\ r.op \in {"message", "click"}
          /\ r.user \in Users
      BY <1>3, AtWork DEF SaveItem, At, Serving
    <2>2. r.message \in Told(r.user)
      <3>1. /\ Private(r.conv) /\ sent[r.message] # None /\ r.conv = sent[r.message].conv
            /\ r.user = sent[r.message].user
        BY <2>1, AtWork DEF Honest, PrivateLabels
      <3>2. r.conv = r.user
        BY <2>1, <3>1, ChatAssumption DEF ChatIInv, StoreInv, Private
      <3>3. sent[r.message].at >= 0
        BY <2>1, <3>1 DEF ChatIInv, ChatTypeOK, Message
      <3>4. QED BY <2>1, <3>1, <3>2, <3>3 DEF Told, History
    <2>3. "explicit" \in ItemKeys
      BY DEF ItemKeys
    <2>4. memory' \in [Users -> Items] /\ \A u \in Users, k \in ItemKeys :
              memory'[u][k] \subseteq Told(u)
      BY <1>3, <2>1, <2>2, <2>3
      DEF SaveItem, Store, ChatIInv, ChatTypeOK, StoreInv, Items
    <2>5. StoreInv'
      BY <1>3, <2>4 DEF SaveItem, chat, ChatIInv, StoreInv, History, Told
    <2>6. QED
      BY <1>3, <2>4, <2>5, ReturnStep DEF SaveItem, chat, ChatIInv, ChatTypeOK
  <1>4. QED BY <1>1, <1>2, <1>3 DEF Command

(* Whoever is at work when memory is switched on has seen it on.           *)
LEMMA SwitchStep ==
    ASSUME ChatIInv, NEW u \in Users, NEW on \in BOOLEAN, Switch(u, on),
           UNCHANGED <<keys, cache, summary, memory, chat, req, now, asked>>,
           pc' \in [Sessions -> Labels],
           \A s \in Sessions : \/ pc'[s] = pc[s]
                               \/ pc[s] = "set_enabled" /\ pc'[s] = "list_form"
    PROVE  ChatIInv'
  <1>1. enabled' \in [Users -> BOOLEAN] /\ seenOn' \in [Sessions -> BOOLEAN]
    BY DEF Switch, ChatIInv, ChatTypeOK
  <1>2. ChatTypeOK'
    BY <1>1 DEF chat, ChatIInv, ChatTypeOK
  <1>3. StoreInv'
    BY StoresStay DEF chat, ChatIInv
  <1>4. \A s \in Sessions : SessionInv(s)'
    BY DEF chat, ChatIInv, SessionInv, Honest, FormLabels, PrivateLabels, History, Told
  <1>5. \A s \in Sessions : SeenInv(s)'
    <2> TAKE s \in Sessions
    <2>1. /\ seenOn'[s] = (seenOn[s] \/ (on /\ req[s].user = u)) /\ req'[s] = req[s]
          /\ \A v \in Users : enabled'[v] = IF v = u THEN on ELSE enabled[v]
      BY DEF Switch, ChatIInv, ChatTypeOK
    <2>2. Seen(pc[s], req[s], seenOn[s]) /\ req[s] \in Request
      BY DEF ChatIInv, SeenInv, ChatTypeOK
    <2>3. req[s].op # "none" => req[s].user \in Users
      <3>1. CASE pc[s] \in Serving
        BY <3>1, AtWork
      <3>2. CASE pc[s] \in FormLabels
        BY <3>2, ChatAssumption DEF ChatIInv, SessionInv, Honest
      <3>3. CASE pc[s] = "idle"
        BY <3>3 DEF ChatIInv, SessionInv, Honest
      <3>4. pc[s] \in Labels
        BY DEF ChatIInv, ChatTypeOK
      <3>5. QED
        BY <3>1, <3>2, <3>3, <3>4 DEF Labels, Serving, Answering, LoadLabels, FormLabels
    <2>4. pc'[s] \in UsesMemory => pc[s] \in UsesMemory
      BY DEF UsesMemory
    <2>5. QED BY <2>1, <2>2, <2>3, <2>4 DEF SeenInv, Seen
  <1>6. OnceInv'
    <2>1. \A s \in Sessions : pc'[s] \in Answering => pc[s] \in Answering
      BY DEF Answering, LoadLabels
    <2>2. QED BY <2>1 DEF ChatIInv, OnceInv
  <1>7. QED BY <1>2, <1>3, <1>4, <1>5, <1>6 DEF ChatIInv

LEMMA Filling ==
    ASSUME ChatIInv, NEW s \in Sessions, Form(s)
    PROVE  ChatIInv'
  <1> DEFINE r == req[s]
  <1>1. CASE FormSetEnabled(s)
    <2>1. pc[s] = "set_enabled" /\ pc' = [pc EXCEPT ![s] = "list_form"]
      BY <1>1 DEF FormSetEnabled, At, Goto
    <2>2. PICK on \in BOOLEAN : Switch(Admin, on)
      BY <1>1 DEF FormSetEnabled
    <2>3. pc' \in [Sessions -> Labels]
          /\ \A t \in Sessions : \/ pc'[t] = pc[t]
                                 \/ pc[t] = "set_enabled" /\ pc'[t] = "list_form"
      BY <2>1 DEF ChatIInv, ChatTypeOK, Labels
    <2>4. QED
      BY <1>1, <2>2, <2>3, SwitchStep, ChatAssumption DEF FormSetEnabled
  <1>2. CASE FormList(s)
    <2>1. pc[s] = "list_form"
      BY <1>2 DEF FormList, At
    <2>2. StoreInv'
      BY <1>2, StoresStay DEF FormList, tables, chat, ChatIInv
    <2>3. CASE Return(s)
      BY <1>2, <2>2, <2>3, ReturnStep DEF FormList, tables, chat, ChatIInv, ChatTypeOK
    <2>4. CASE Step(s, "clear_form")
      <3>1. Honest("clear_form", r) /\ Seen("clear_form", r, seenOn[s])
            /\ "clear_form" \in Labels /\ "clear_form" \notin Answering /\ r \in Request
        BY <2>1, AtWork DEF Honest, Seen, FormLabels, PrivateLabels, UsesMemory, Labels,
           Answering, LoadLabels
      <3>2. QED
        BY <1>2, <2>2, <2>4, <3>1, KnowStep
        DEF FormList, Step, tables, chat, ChatIInv, ChatTypeOK
    <2>5. QED BY <1>2, <2>3, <2>4 DEF FormList
  <1>3. CASE FormClear(s)
    <2>1. pc[s] = "clear_form"
      BY <1>3 DEF FormClear, At
    <2>2. memory' \in [Users -> Items]
          /\ \A u \in Users, k \in ItemKeys : memory'[u][k] \subseteq memory[u][k]
      BY <1>3, NoRequestType
      DEF FormClear, ChatIInv, ChatTypeOK, Items, NoItems
    <2>3. StoreInv'
      BY <1>3, <2>2 DEF FormClear, chat, ChatIInv, StoreInv, History, Told
    <2>4. CASE Return(s)
      BY <1>3, <2>2, <2>3, <2>4, ReturnStep DEF FormClear, chat, ChatIInv, ChatTypeOK
    <2>5. CASE Step(s, "save_form")
      <3>1. Honest("save_form", r) /\ Seen("save_form", r, seenOn[s])
            /\ "save_form" \in Labels /\ "save_form" \notin Answering /\ r \in Request
        BY <2>1, AtWork DEF Honest, Seen, FormLabels, PrivateLabels, UsesMemory, Labels,
           Answering, LoadLabels
      <3>2. QED
        BY <1>3, <2>2, <2>3, <2>5, <3>1, KnowStep
        DEF FormClear, Step, chat, ChatIInv, ChatTypeOK
    <2>6. QED BY <1>3, <2>4, <2>5 DEF FormClear
  <1>4. CASE FormSave(s)
    <2>1. r.form \subseteq Told(Admin) /\ r.form \in SUBSET Messages
      BY <1>4, AtWork DEF FormSave, At, Honest, Request
    <2>2. "form" \in ItemKeys
      BY DEF ItemKeys
    <2>3. memory' \in [Users -> Items] /\ \A u \in Users, k \in ItemKeys :
              memory'[u][k] \subseteq Told(u)
      BY <1>4, <2>1, <2>2, ChatAssumption
      DEF FormSave, Store, ChatIInv, ChatTypeOK, StoreInv, Items
    <2>4. StoreInv'
      BY <1>4, <2>3 DEF FormSave, chat, ChatIInv, StoreInv, History, Told
    <2>5. QED
      BY <1>4, <2>3, <2>4, ReturnStep DEF FormSave, chat, ChatIInv, ChatTypeOK
  <1>5. QED BY <1>1, <1>2, <1>3, <1>4 DEF Form

-----------------------------------------------------------------------------
(* A session begins with a message, a card or the form.                    *)
LEMMA Beginning ==
    ASSUME ChatIInv, NEW s \in Sessions,
           (\E m \in Messages : Deliver(s, m) \/ ClickSave(s, m)) \/ SubmitForm(s)
    PROVE  ChatIInv'
  <1>1. ASSUME NEW m \in Messages, sent[m] # None,
               NEW op \in {"message", "click"},
               NEW label \in {"remember_key", "may_offer", "may_save"},
               label # "remember_key" => Private(sent[m].conv),
               Begin(s, label, [NoRequest EXCEPT !.op = op, !.user = sent[m].user,
                                                 !.conv = sent[m].conv, !.message = m]),
               UNCHANGED <<tables, chat, now, asked>>
        PROVE  ChatIInv'
    <2> DEFINE r == [NoRequest EXCEPT !.op = op, !.user = sent[m].user,
                                      !.conv = sent[m].conv, !.message = m]
    <2>1. sent[m].user \in Users /\ sent[m].conv \in Conversations
      BY <1>1 DEF ChatIInv, ChatTypeOK, Message
    <2>2. /\ r.op = op /\ r.user = sent[m].user /\ r.conv = sent[m].conv /\ r.message = m
          /\ r.fetched = {} /\ r.context = <<>> /\ r.older = <<>> /\ r.summary = <<>>
          /\ r.memory = NoItems /\ r.form = {}
      BY DEF NoRequest
    <2>3. r \in Request /\ label \in Labels
      BY <2>1, NoRequestType DEF NoRequest, Request, Labels
    <2>4. Lines(<<>>) = {} /\ \A k \in ItemKeys : NoItems[k] = {}
      BY DEF Lines, NoItems
    <2>5. Honest(label, r)
      <3> HIDE DEF r
      <3> QED BY <1>1, <2>2, <2>4 DEF Honest, FormLabels, PrivateLabels
    <2>6. label \notin Answering \cup UsesMemory
      BY DEF Answering, LoadLabels, UsesMemory
    <2>7. Begin(s, label, r)
      BY <1>1
    <2> HIDE DEF r
    <2>8. QED BY <1>1, <2>1, <2>2, <2>3, <2>5, <2>6, <2>7, BeginStep
  <1>2. ASSUME NEW m \in Messages, Deliver(s, m)
        PROVE  ChatIInv'
    <2> DEFINE kind == sent[m].kind
               label == CASE kind = "question"  -> "remember_key"
                          [] kind = "statement" -> "may_offer"
                          [] kind = "remember"  -> "may_save"
    <2>1. sent[m] # None /\ kind \in Kinds
      BY <1>2 DEF Deliver, ChatIInv, ChatTypeOK, Message
    <2>2. kind = "question" \/ Private(sent[m].conv)
      BY <1>2 DEF Deliver, OnlyInPrivate
    <2>3. label \in {"remember_key", "may_offer", "may_save"}
          /\ (label # "remember_key" => Private(sent[m].conv))
      BY <2>1, <2>2 DEF Kinds
    <2>4. /\ Begin(s, label, [NoRequest EXCEPT !.op = "message", !.user = sent[m].user,
                                               !.conv = sent[m].conv, !.message = m])
          /\ UNCHANGED <<tables, chat, now, asked>>
      BY <1>2 DEF Deliver
    <2> HIDE DEF label
    <2>5. QED BY <1>1, <2>1, <2>3, <2>4
  <1>3. ASSUME NEW m \in Messages, ClickSave(s, m)
        PROVE  ChatIInv'
    <2>1. sent[m] # None /\ Private(sent[m].conv)
      BY <1>3 DEF ClickSave, ChatIInv, StoreInv
    <2>2. QED BY <1>1, <1>3, <2>1 DEF ClickSave
  <1>4. CASE SubmitForm(s)
    <2>1. PICK text \in {Text(Admin), {}, Told(Admin)} :
              Begin(s, "set_enabled",
                    [NoRequest EXCEPT !.op = "form", !.user = Admin, !.form = text])
      BY <1>4 DEF SubmitForm
    <2> DEFINE r == [NoRequest EXCEPT !.op = "form", !.user = Admin, !.form = text]
    <2>2. text \subseteq Told(Admin)
      BY ChatAssumption DEF Text, ChatIInv, StoreInv
    <2>3. text \in SUBSET Messages
      BY <2>2 DEF Told, History
    <2>4. /\ r.op = "form" /\ r.user = Admin /\ r.form = text /\ r.memory = NoItems
      BY DEF NoRequest
    <2>5. r \in Request /\ "set_enabled" \in Labels
      BY <2>3, NoRequestType, ChatAssumption DEF NoRequest, Request, Labels
    <2>6. \A k \in ItemKeys : NoItems[k] = {}
      BY DEF NoItems
    <2>7. Honest("set_enabled", r)
      <3> HIDE DEF r
      <3> QED BY <2>2, <2>4, <2>6 DEF Honest, FormLabels, PrivateLabels
    <2>8. "set_enabled" \notin Answering \cup UsesMemory
      BY DEF Answering, LoadLabels, UsesMemory
    <2>9. Begin(s, "set_enabled", r) /\ UNCHANGED <<tables, chat, now, asked>>
      BY <1>4, <2>1 DEF SubmitForm
    <2> HIDE DEF r
    <2>10. QED BY <2>4, <2>5, <2>7, <2>8, <2>9, BeginStep, ChatAssumption
  <1>5. QED BY <1>2, <1>3, <1>4

(* What a user does in one step.  A message that is sent makes a history   *)
(* longer and changes none of the messages before it.                      *)
LEMMA Using ==
    ASSUME ChatIInv, NEW u \in Users, User(u)
    PROVE  ChatIInv'
  <1>1. ASSUME NEW on \in BOOLEAN, SetEnabled(u, on)
        PROVE  ChatIInv'
    BY <1>1, SwitchStep DEF SetEnabled, ChatIInv, ChatTypeOK
  <1>2. ASSUME Forget(u) \/ ClickDelete(u)
        PROVE  ChatIInv'
    <2>1. memory' \in [Users -> Items]
          /\ \A v \in Users, k \in ItemKeys : memory'[v][k] \subseteq memory[v][k]
      <3>1. CASE Forget(u)
        BY <3>1 DEF Forget, Store, ChatIInv, ChatTypeOK, Items
      <3>2. CASE ClickDelete(u)
        BY <3>2, NoRequestType DEF ClickDelete, ChatIInv, ChatTypeOK, Items, NoItems
      <3>3. QED BY <1>2, <3>1, <3>2
    <2>2. UNCHANGED <<keys, cache, summary, enabled, chat, pc, req, now, asked, seenOn>>
      BY <1>2 DEF Forget, ClickDelete
    <2>3. ChatTypeOK'
      BY <2>1, <2>2 DEF chat, ChatIInv, ChatTypeOK
    <2>4. StoreInv'
      BY <2>1, <2>2 DEF chat, ChatIInv, StoreInv, History, Told
    <2>5. \A s \in Sessions : SessionInv(s)' /\ SeenInv(s)'
      BY <2>2 DEF chat, ChatIInv, SessionInv, SeenInv, Honest, Seen, History, Told
    <2>6. OnceInv'
      BY <2>2 DEF ChatIInv, OnceInv
    <2>7. QED BY <2>3, <2>4, <2>5, <2>6 DEF ChatIInv
  <1>3. ASSUME NEW m \in Messages, NEW c \in Conversations, NEW kind \in Kinds,
               Send(m, u, c, kind)
        PROVE  ChatIInv'
    <2> DEFINE new == [user |-> u, conv |-> c, kind |-> kind, at |-> now]
    <2>1. /\ sent' = [sent EXCEPT ![m] = new] /\ sent[m] = None
          /\ c \in Groups \cup {u}
          /\ UNCHANGED <<tables, cards, pc, req, now, asked, seenOn>>
      BY <1>3 DEF Send
    <2>2. new \in Message
      BY DEF Message, ChatIInv, ChatTypeOK
    <2>3. ChatTypeOK'
      BY <2>1, <2>2 DEF tables, ChatIInv, ChatTypeOK
    <2>4. /\ \A n \in Messages : sent[n] # None => sent'[n] = sent[n]
          /\ \A n \in Messages : sent'[n] # None => sent'[n] = sent[n] \/ sent'[n] = new
      BY <2>1 DEF ChatIInv, ChatTypeOK
    <2>5. \A d, t : History(d, t) \subseteq History(d, t)'
      BY <2>4 DEF History
    <2>6. StoreInv'
      BY <2>1, <2>4, <2>5 DEF tables, ChatIInv, ChatTypeOK, StoreInv, Told
    <2>7. \A s \in Sessions : SessionInv(s)'
      BY <2>1, <2>4, <2>5 DEF ChatIInv, SessionInv, Honest, Told
    <2>8. \A s \in Sessions : SeenInv(s)'
      BY <2>1 DEF tables, ChatIInv, SeenInv, Seen
    <2>9. OnceInv'
      BY <2>1 DEF tables, ChatIInv, OnceInv
    <2>10. QED BY <2>3, <2>6, <2>7, <2>8, <2>9 DEF ChatIInv
  <1>4. QED BY <1>1, <1>2, <1>3 DEF User

LEMMA Initially == Init => ChatIInv
  <1> SUFFICES ASSUME Init PROVE ChatIInv
    OBVIOUS
  <1>1. ChatTypeOK
    BY NoRequestType DEF Init, ChatTypeOK, Labels
  <1>2. Lines(<<>>) = {} /\ \A k \in ItemKeys : NoItems[k] = {}
    BY DEF Lines, NoItems
  <1>3. StoreInv
    BY <1>2 DEF Init, StoreInv
  <1>4. \A s \in Sessions : SessionInv(s) /\ SeenInv(s)
    BY IdleIsHonest DEF Init, SessionInv, SeenInv
  <1>5. OnceInv
    BY DEF Init, OnceInv, Answering, LoadLabels
  <1>6. QED BY <1>1, <1>3, <1>4, <1>5 DEF ChatIInv

LEMMA Inductive == ChatIInv /\ [Next]_vars => ChatIInv'
  <1> SUFFICES ASSUME ChatIInv, [Next]_vars PROVE ChatIInv'
    OBVIOUS
  <1>1. ASSUME NEW u \in Users, User(u) PROVE ChatIInv'
    BY <1>1, Using
  <1>2. ASSUME NEW s \in Sessions,
               (\E m \in Messages : Deliver(s, m) \/ ClickSave(s, m)) \/ SubmitForm(s)
        PROVE  ChatIInv'
    BY <1>2, Beginning
  <1>3. ASSUME NEW s \in Sessions, Work(s)
        PROVE  ChatIInv'
    <2>1. CASE Question(s)
      BY <2>1, RememberKeyStep, Reading, Writing, AskStep DEF Question, Load
    <2>2. CASE Command(s)
      BY <2>2, Commanding
    <2>3. CASE Form(s)
      BY <2>3, Filling
    <2>4. QED BY <1>3, <2>1, <2>2, <2>3 DEF Work
  <1>4. ASSUME NEW s \in Sessions, Abort(s)
        PROVE  ChatIInv'
    BY <1>4, ReturnStep, StoresStay DEF Abort, tables, chat, ChatIInv, ChatTypeOK
  <1>5. CASE Tick
    <2>1. ChatTypeOK'
      BY <1>5 DEF Tick, tables, chat, ChatIInv, ChatTypeOK
    <2>2. StoreInv' /\ OnceInv'
      BY <1>5, StoresStay DEF Tick, tables, chat, ChatIInv, OnceInv
    <2>3. \A s \in Sessions : SessionInv(s)' /\ SeenInv(s)'
      BY <1>5 DEF Tick, tables, chat, ChatIInv, SessionInv, SeenInv, Honest, Seen,
         History, Told
    <2>4. QED BY <2>1, <2>2, <2>3 DEF ChatIInv
  <1>6. CASE UNCHANGED vars
    BY <1>6 DEF vars, ChatIInv, ChatTypeOK, StoreInv, SessionInv, SeenInv, Honest, Seen,
       OnceInv, History, Told
  <1>7. ASSUME NEW m \in Messages, Refuse(m) PROVE UNCHANGED vars
    BY <1>7 DEF Refuse
  <1>8. QED BY <1>1, <1>2, <1>3, <1>4, <1>5, <1>6, <1>7 DEF Next

LEMMA Invariance == Spec => []ChatIInv
  BY Initially, Inductive, PTL DEF Spec
-----------------------------------------------------------------------------
(* Every table, and the arguments of every coroutine, stay in their types: *)
(* no time is missing where an age is computed, nobody's row is kept under *)
(* another kind of key.                                                    *)
THEOREM TypeCorrect == Spec => []ChatTypeOK
  <1>1. ChatIInv => ChatTypeOK
    BY DEF ChatIInv
  <1>2. QED BY <1>1, Invariance, PTL

(* context.py and memory: nothing that was said in one conversation gets   *)
(* into the summary, the question or the memory of another.                *)
THEOREM ConversationsStayApart == Spec => []NothingCrosses
  <1>1. ChatIInv => NothingCrosses
    BY AtWork DEF ChatIInv, NothingCrosses, StoreInv, Answering, Honest
  <1>2. QED BY <1>1, Invariance, PTL

(* router.handle_message: the key of a message is stored before the work   *)
(* begins, so that the assistant is asked about it once at most.           *)
THEOREM AskedAtMostOnce == Spec => []AskedOnce
  <1>1. ChatIInv => AskedOnce
    BY DEF ChatIInv, AskedOnce, OnceInv
  <1>2. QED BY <1>1, Invariance, PTL

(* is_memory_enabled: a message, a command or a click during which a       *)
(* user's memory was off all the time neither reads it nor writes it nor   *)
(* offers to.  Who does without having seen it on is the admin form.       *)
THEOREM OffIsOff == Spec => []OffMeansOff
  <1>1. ChatIInv => OffMeansOff
    BY DEF ChatIInv, OffMeansOff, SeenInv, Seen, SessionInv, Honest, FormLabels,
       FormUsesMemory
  <1>2. QED BY <1>1, Invariance, PTL
-----------------------------------------------------------------------------
(* Nothing that is put in order is lost: two places do not hold the same   *)
(* line, and there are as many places as lines.                            *)
LEMMA ArrangedHoldsAll ==
    ASSUME NEW S \in SUBSET Messages, NEW order, NEW q \in Arranged(S, order),
           \A m \in S : <<m, m>> \notin order
    PROVE  Lines(q) = S
  <1> DEFINE n == Cardinality(S)
  <1>1. IsFiniteSet(S) /\ n \in Nat
    BY FS_Subset, FS_CardinalityType, ChatAssumption
  <1>2. IsFiniteSet(1..n) /\ Cardinality(1..n) = n
    BY <1>1, FS_Interval
  <1>3. q \in [1..n -> S] /\ \A i, j \in 1..n : i < j => <<q[i], q[j]>> \in order
    BY DEF Arranged
  <1>4. \A i, j \in 1..n : q[i] = q[j] => i = j
    <2> SUFFICES ASSUME NEW i \in 1..n, NEW j \in 1..n, q[i] = q[j], i # j PROVE FALSE
      OBVIOUS
    <2>1. i < j \/ j < i
      BY <1>1
    <2>2. <<q[i], q[i]>> \in order /\ q[i] \in S
      BY <1>3, <2>1
    <2>3. QED BY <2>2
  <1>5. q \in Injection(1..n, S)
    BY <1>3, <1>4 DEF Injection, IsInjective
  <1>6. q \in Surjection(1..n, S)
    BY <1>1, <1>2, <1>5, FS_Injection
  <1>7. \A m \in S : \E i \in 1..n : q[i] = m
    BY <1>6 DEF Surjection
  <1>8. DOMAIN q = 1..n
    BY <1>3
  <1>9. QED BY <1>3, <1>7, <1>8 DEF Lines

(* _build_conversation_summary cuts nothing but a summary that is full.    *)
LEMMA RolledKeeps ==
    ASSUME NEW previous \in Seq(Messages), NEW older \in Seq(Messages),
           NEW q \in Rolled(previous, older)
    PROVE  Lines(previous) \subseteq Lines(q) \/ Len(q) = SummaryMax
  <1> DEFINE old == Lines(previous) \ Lines(older)
             new == Lines(older)
             order == (old \X new)
                \cup {p \in old \X old : Position(previous, p[1]) < Position(previous, p[2])}
                \cup {p \in new \X new : Position(older, p[1]) < Position(older, p[2])}
  <1>1. PICK a \in Arranged(old \cup new, order) : q = Last(a, SummaryMax)
    BY DEF Rolled, Extended
  <1>2. old \cup new \in SUBSET Messages
    BY DEF Lines
  <1>3. \A m \in old \cup new : <<m, m>> \notin order
    <2> SUFFICES ASSUME NEW m \in old \cup new, <<m, m>> \in order PROVE FALSE
      OBVIOUS
    <2>1. /\ m \in Lines(previous) => Position(previous, m) \in Int
          /\ m \in Lines(older) => Position(older, m) \in Int
      BY DEF Position, Lines
    <2>2. ~(m \in old /\ m \in new)
      OBVIOUS
    <2>3. \/ m \in old /\ Position(previous, m) < Position(previous, m)
          \/ m \in new /\ Position(older, m) < Position(older, m)
      BY <2>2
    <2>4. QED BY <2>1, <2>3
  <1>4. a \in Seq(Messages) /\ Lines(a) = old \cup new
    <2> HIDE DEF order, old, new
    <2> QED BY <1>2, <1>3, ArrangedLines, ArrangedHoldsAll
  <1>5. Lines(previous) \subseteq Lines(a)
    BY <1>4
  <1>6. SummaryMax \in Nat \ {0} /\ Len(a) \in Nat
    BY <1>4, ChatAssumption
  <1>7. CASE Len(a) > SummaryMax
    <2>1. q = SubSeq(a, Len(a) - SummaryMax + 1, Len(a))
      BY <1>1, <1>7 DEF Last
    <2>2. Len(q) = SummaryMax
      BY <1>4, <1>6, <1>7, <2>1
    <2>3. QED BY <2>2
  <1>8. CASE ~(Len(a) > SummaryMax)
    <2>1. q = SubSeq(a, 1, Len(a))
      BY <1>1, <1>8 DEF Last
    <2>2. q = a
      BY <1>4, <2>1
    <2>3. QED BY <1>5, <2>2
  <1>9. QED BY <1>7, <1>8

(* A step other than the roll leaves nobody about to store a summary who   *)
(* was not before.                                                         *)
LEMMA RollStays ==
    ASSUME ChatIInv, RollInv, NEW s \in Sessions, NEW label, label # "save_summary",
           pc' = [pc EXCEPT ![s] = label],
           \A t \in Sessions : t # s => req'[t] = req[t]
    PROVE  RollInv'
  <1> SUFFICES ASSUME NEW t \in Sessions, pc'[t] = "save_summary"
               PROVE  \/ Lines(req'[t].basis) \subseteq Lines(req'[t].summary)
                      \/ Len(req'[t].summary) = SummaryMax
    BY DEF RollInv
  <1>1. pc \in [Sessions -> Labels]
    BY DEF ChatIInv, ChatTypeOK
  <1>2. t # s /\ pc[t] = "save_summary" /\ req'[t] = req[t]
    BY <1>1
  <1>3. QED BY <1>2 DEF RollInv

LEMMA RollGoes ==
    ASSUME ChatIInv, RollInv, NEW s \in Sessions
    PROVE  /\ Return(s) => RollInv'
           /\ \A label, r : label # "save_summary" /\ Know(s, label, r) => RollInv'
           /\ \A label : label # "save_summary" /\ Step(s, label) => RollInv'
           /\ \A label, r : label # "save_summary" /\ Begin(s, label, r) => RollInv'
  <1>1. req \in [Sessions -> Request]
    BY DEF ChatIInv, ChatTypeOK
  <1>2. QED BY <1>1, RollStays DEF Return, Know, Step, Begin, Goto

LEMMA RollInductive == ChatIInv /\ RollInv /\ [Next]_vars => RollInv'
  <1> SUFFICES ASSUME ChatIInv, RollInv, [Next]_vars PROVE RollInv'
    OBVIOUS
  <1>1. ASSUME UNCHANGED <<pc, req>> PROVE RollInv'
    BY <1>1 DEF RollInv
  <1>2. ASSUME NEW u \in Users, User(u) PROVE RollInv'
    BY <1>1, <1>2 DEF User, SetEnabled, Forget, ClickDelete, Send
  <1>3. ASSUME NEW s \in Sessions,
               (\E m \in Messages : Deliver(s, m) \/ ClickSave(s, m)) \/ SubmitForm(s)
        PROVE  RollInv'
    <2>1. ASSUME NEW m \in Messages, Deliver(s, m) PROVE RollInv'
      <3> DEFINE label == CASE sent[m].kind = "question"  -> "remember_key"
                            [] sent[m].kind = "statement" -> "may_offer"
                            [] sent[m].kind = "remember"  -> "may_save"
      <3>1. sent[m].kind \in Kinds
        BY <2>1 DEF ChatIInv, ChatTypeOK, Message, Deliver
      <3>2. label # "save_summary"
        BY <3>1 DEF Kinds
      <3> HIDE DEF label
      <3>3. PICK r : Begin(s, label, r)
        BY <2>1 DEF Deliver, label
      <3>4. QED BY <3>2, <3>3, RollGoes
    <2>2. ASSUME NEW m \in Messages, ClickSave(s, m) PROVE RollInv'
      BY <2>2, RollGoes DEF ClickSave
    <2>3. CASE SubmitForm(s)
      BY <2>3, RollGoes DEF SubmitForm
    <2>4. QED BY <1>3, <2>1, <2>2, <2>3
  <1>4. ASSUME NEW s \in Sessions, Work(s) PROVE RollInv'
    <2>1. CASE RememberKey(s)
      BY <2>1, RollGoes DEF RememberKey
    <2>2. CASE Prune(s)
      BY <2>2, RollGoes DEF Prune
    <2>3. CASE CacheAge(s) \/ MaySummarize(s) \/ MayUse(s)
      BY <2>3, RollGoes DEF CacheAge, MaySummarize, MayUse
    <2>4. CASE Fetch(s)
      BY <2>4, RollGoes DEF Fetch, AfterContext
    <2>5. CASE Upsert(s) \/ SaveSummary(s)
      BY <2>5, RollGoes DEF Upsert, SaveSummary
    <2>6. CASE List(s)
      BY <2>6, RollGoes DEF List
    <2>7. CASE GetSummary(s)
      <3>1. CASE \E r : Know(s, "cache_current", r)
        BY <3>1, RollGoes
      <3>2. CASE \E new \in Rolled(summary[req[s].conv], req[s].older) :
                    Know(s, "save_summary",
                         [req[s] EXCEPT !.older = <<>>, !.basis = summary[req[s].conv],
                                        !.summary = new])
        <4>1. PICK new \in Rolled(summary[req[s].conv], req[s].older) :
                    Know(s, "save_summary",
                         [req[s] EXCEPT !.older = <<>>, !.basis = summary[req[s].conv],
                                        !.summary = new])
          BY <3>2
        <4>2. pc[s] = "get_summary"
          BY <2>7 DEF GetSummary, At
        <4>3. req[s] \in Request /\ req[s].conv \in Conversations
          BY <4>2, AtWork DEF Answering, LoadLabels
        <4>4. summary[req[s].conv] \in Seq(Messages) /\ req[s].older \in Seq(Messages)
          BY <4>3 DEF ChatIInv, ChatTypeOK, Request
        <4>5. \/ Lines(summary[req[s].conv]) \subseteq Lines(new)
              \/ Len(new) = SummaryMax
          BY <4>1, <4>4, RolledKeeps
        <4>6. req \in [Sessions -> Request] /\ pc \in [Sessions -> Labels]
          BY DEF ChatIInv, ChatTypeOK
        <4>7. req'[s].basis = summary[req[s].conv] /\ req'[s].summary = new
          BY <4>1, <4>3, <4>6 DEF Know, Request
        <4>8. \A t \in Sessions : t # s => req'[t] = req[t] /\ pc'[t] = pc[t]
          BY <4>1, <4>6 DEF Know, Goto
        <4>9. QED BY <4>5, <4>7, <4>8 DEF RollInv
      <3>3. QED BY <2>7, <3>1, <3>2 DEF GetSummary
    <2>8. CASE CacheCurrent(s)
      BY <2>8, RollGoes DEF CacheCurrent, AfterCaching, AfterContext
    <2>9. CASE SaveSummaryItem(s) \/ ListItems(s) \/ Ask(s)
      BY <2>9, RollGoes DEF SaveSummaryItem, ListItems, Ask
    <2>10. CASE Command(s)
      BY <2>10, RollGoes DEF Command, MayOffer, SendCard, MaySave, SaveItem
    <2>11. CASE Form(s)
      <3>1. CASE FormSetEnabled(s)
        BY <3>1, RollStays DEF FormSetEnabled, Goto
      <3>2. CASE FormList(s) \/ FormClear(s) \/ FormSave(s)
        BY <3>2, RollGoes DEF FormList, FormClear, FormSave
      <3>3. QED BY <2>11, <3>1, <3>2 DEF Form
    <2>12. QED
      BY <1>4, <2>1, <2>2, <2>3, <2>4, <2>5, <2>6, <2>7, <2>8, <2>9, <2>10, <2>11
         DEF Work, Question, Load
  <1>5. ASSUME NEW s \in Sessions, Abort(s) PROVE RollInv'
    BY <1>5, RollGoes DEF Abort
  <1>6. CASE Tick \/ UNCHANGED vars
    BY <1>1, <1>6 DEF Tick, vars
  <1>7. ASSUME NEW m \in Messages, Refuse(m) PROVE UNCHANGED vars
    BY <1>7 DEF Refuse
  <1>8. QED BY <1>2, <1>3, <1>4, <1>5, <1>6, <1>7 DEF Next

(* Nothing but the storing of a summary touches a summary.                 *)
LEMMA OnlyTheRollWrites ==
    ASSUME ChatIInv, [Next]_vars, NEW c \in Conversations, summary'[c] # summary[c]
    PROVE  \E s \in Sessions : /\ pc[s] = "save_summary" /\ req[s].conv = c
                               /\ summary'[c] = req[s].summary
  <1>1. summary' # summary
    OBVIOUS
  <1>2. PICK s \in Sessions : SaveSummary(s)
    BY <1>1 DEF Next, vars, tables, User, SetEnabled, Forget, ClickDelete, Send, Deliver,
       ClickSave, SubmitForm, Abort, Tick, Work, Question, Load, Command, Form, RememberKey,
       Prune, CacheAge, Fetch, Upsert, List, GetSummary, CacheCurrent, MaySummarize,
       SaveSummaryItem, MayUse, ListItems, Ask, MayOffer, SendCard, MaySave, SaveItem,
       FormSetEnabled, FormList, FormClear, FormSave, Refuse
  <1>3. summary \in [Conversations -> Seq(Messages)]
    BY DEF ChatIInv, ChatTypeOK
  <1>4. QED BY <1>2, <1>3 DEF SaveSummary, At

(* context.py, _build_conversation_summary and save_summary: a summary     *)
(* that is stored holds all lines of the one before, unless it is full or  *)
(* another request stored one after this one had read it.                  *)
THEOREM SummariesKeepTheirLines == Spec => LinesAreKept
  <1>1. Init => RollInv
    BY DEF Init, RollInv
  <1>2. ChatIInv /\ RollInv /\ [Next]_vars =>
            [\A c \in Conversations : summary'[c] # summary[c] =>
                \/ Lines(summary[c]) \subseteq Lines(summary'[c])
                \/ Len(summary'[c]) = SummaryMax
                \/ \E s \in Sessions : /\ pc[s] = "save_summary"
                                      /\ req[s].conv = c
                                      /\ req[s].basis # summary[c]]_vars
    BY OnlyTheRollWrites DEF RollInv
  <1>3. QED BY <1>1, <1>2, Invariance, RollInductive, PTL DEF Spec, LinesAreKept
=============================================================================
