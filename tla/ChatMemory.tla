----------------------------- MODULE ChatMemory -----------------------------
(***************************************************************************)
(* What Flago keeps of a conversation: the cache of recent messages, the   *)
(* rolling summary of older ones and the long-term memory of a user, with  *)
(* everything that reads or writes them: a question on its way to the      *)
(* model, the memory commands, the two memory cards and the form of the    *)
(* admin page.                                                             *)
(*                                                                         *)
(* A session is one coroutine, a step of it is one store call or one call  *)
(* to Feishu with the plain code up to the next await.  Questions and      *)
(* commands are tasks of the worker's loop, which stands still while a     *)
(* memory card is carried out; the admin page is served by another loop.   *)
(* A text is the set of messages whose contents it holds.                  *)
(***************************************************************************)
EXTENDS Integers, Sequences, FiniteSets

CONSTANTS
    Users,
    Admin,          \* the user who owns the admin page
    Groups,         \* conversations of several users
    Messages,       \* numbers, in the order in which Feishu stamps them
    Sessions,       \* coroutines that may be in flight at the same time
    Window,         \* context_inject_message_limit
    Limit,          \* context_recent_message_limit
    SummaryMax,     \* lines of a rolling summary, from context_max_chars
    CacheTtl,       \* context_cache_ttl_hours, in ticks
    Refresh,        \* context_cache_refresh_seconds, in ticks
    Recent,         \* context_recent_time_window_hours, in ticks
    MaxTime,        \* bound on the clock
    None            \* SQL NULL, Python None

ASSUME ChatAssumption ==
    /\ Admin \in Users
    /\ None \notin Users \cup Groups \cup Messages
    /\ Users \cap Groups = {}
    /\ Messages \subseteq Nat
    /\ IsFiniteSet(Messages)
    /\ {"explicit", "form"} \cap (Users \cup Groups) = {}
    /\ {Window, Limit, SummaryMax} \subseteq Nat \ {0}
    /\ {CacheTtl, Refresh, Recent, MaxTime} \subseteq Nat

VARIABLES
    sent,      \* the messages in Feishu
    keys,      \* idempotency_keys of messages
    cache,     \* context_message_cache of each conversation
    summary,   \* conversation_summaries
    enabled,   \* memory_preferences
    memory,    \* memory_items of each user
    cards,     \* messages whose "save this?" card has reached the chat
    pc,        \* the next step of each session
    req,       \* its arguments and local variables
    now,       \* the wall clock
    asked,     \* history: how often a message was put to the assistant
    seenOn     \* history: memory was on at some moment of the session

tables == <<keys, cache, summary, enabled, memory>>
chat   == <<sent, cards>>
vars   == <<sent, keys, cache, summary, enabled, memory, cards, pc, req, now, asked,
            seenOn>>
-----------------------------------------------------------------------------
Kinds == {"question", "statement", "remember"}

(* There is one private conversation of a user, it goes by his name.       *)
Conversations == Users \cup Groups
Private(c)    == c \in Users

(* A conversation's summary is one item, everything told explicitly under  *)
(* one key another, what was typed on the admin page a third.              *)
ItemKeys == Conversations \cup {"explicit", "form"}

Items   == [ItemKeys -> SUBSET Messages]  \* {} where there is no row
NoItems == [k \in ItemKeys |-> {}]

Labels ==
    {"idle", "remember_key", "prune", "cache_age", "fetch", "upsert", "list",
     "get_summary", "save_summary", "cache_current", "may_summarize",
     "save_summary_item", "may_use", "list_items", "ask",
     "may_offer", "send_card", "may_save", "save_item",
     "set_enabled", "list_form", "clear_form", "save_form"}

Message == [user : Users, conv : Conversations, kind : Kinds, at : Nat]
Cached  == [created : Nat, cached : Nat]

Request ==
    [op : {"none", "message", "click", "form"},
     user : Users \cup {None}, conv : Conversations \cup {None},
     message : Messages \cup {None}, at : Nat, fetched : SUBSET Messages,
     context : Seq(Messages), older : Seq(Messages), basis : Seq(Messages),
     summary : Seq(Messages), memory : Items, form : SUBSET Messages]

NoRequest ==
    [op |-> "none", user |-> None, conv |-> None, message |-> None, at |-> 0,
     fetched |-> {}, context |-> <<>>, older |-> <<>>, basis |-> <<>>,
     summary |-> <<>>, memory |-> NoItems, form |-> {}]

ChatTypeOK ==
    /\ sent \in [Messages -> Message \cup {None}]
    /\ keys \in SUBSET Messages
    /\ cache \in [Conversations -> [Messages -> Cached \cup {None}]]
    /\ summary \in [Conversations -> Seq(Messages)]
    /\ enabled \in [Users -> BOOLEAN]
    /\ memory \in [Users -> Items]
    /\ cards \in SUBSET Messages
    /\ pc \in [Sessions -> Labels]
    /\ req \in [Sessions -> Request]
    /\ now \in Nat
    /\ asked \in [Messages -> Nat]
    /\ seenOn \in [Sessions -> BOOLEAN]

Init ==
    /\ sent = [m \in Messages |-> None]
    /\ keys = {}
    /\ cache = [c \in Conversations |-> [m \in Messages |-> None]]
    /\ summary = [c \in Conversations |-> <<>>]
    /\ enabled = [u \in Users |-> TRUE]
    /\ memory = [u \in Users |-> NoItems]
    /\ cards = {}
    /\ pc = [s \in Sessions |-> "idle"]
    /\ req = [s \in Sessions |-> NoRequest]
    /\ now = 0
    /\ asked = [m \in Messages |-> 0]
    /\ seenOn = [s \in Sessions |-> FALSE]
-----------------------------------------------------------------------------
(* Helpers *)

Lines(q) == {q[i] : i \in DOMAIN q}

(* The sequence (there is one) of the elements of S that respects order.    *)
Arranged(S, order) ==
    {q \in [1..Cardinality(S) -> S] :
        \A i, j \in 1..Cardinality(S) : i < j => <<q[i], q[j]>> \in order}

Newest(S, n) == {m \in S : Cardinality({k \in S : k > m}) < n}

Last(q, n) == SubSeq(q, IF Len(q) > n THEN Len(q) - n + 1 ELSE 1, Len(q))

(* The lines of q without those that come again in later, then later:      *)
(* _dedupe_keep_last.                                                      *)
Position(q, m) == CHOOSE i \in DOMAIN q : q[i] = m

Extended(q, later) ==
    LET old == Lines(q) \ Lines(later)
        new == Lines(later)
    IN  Arranged(old \cup new,
            (old \X new)
            \cup {p \in old \X old : Position(q, p[1]) < Position(q, p[2])}
            \cup {p \in new \X new : Position(later, p[1]) < Position(later, p[2])})

Blocked == \E s \in Sessions : req[s].op = "click"

(* The worker's loop serves nothing else while a memory card is at work.   *)
MayRun(s) == req[s].op = "message" => ~Blocked

At(s, label) == pc[s] = label /\ MayRun(s)

Goto(s, label) == pc' = [pc EXCEPT ![s] = label]

Begin(s, label, request) ==
    /\ pc[s] = "idle"
    /\ Goto(s, label)
    /\ req' = [req EXCEPT ![s] = request]
    /\ seenOn' = [seenOn EXCEPT ![s] = enabled[request.user]]

Return(s) ==
    /\ Goto(s, "idle")
    /\ req' = [req EXCEPT ![s] = NoRequest]
    /\ seenOn' = [seenOn EXCEPT ![s] = FALSE]

(* The step changes only what its session knows.                           *)
Know(s, label, request) ==
    /\ Goto(s, label)
    /\ req' = [req EXCEPT ![s] = request]
    /\ UNCHANGED seenOn

Step(s, label) == Know(s, label, req[s])
-----------------------------------------------------------------------------
(* Messages and questions *)

Send(m, u, c, kind) ==
    /\ sent[m] = None
    /\ \A n \in Messages : n < m => sent[n] # None
    /\ c \in Groups \cup {u}
    /\ sent' = [sent EXCEPT ![m] = [user |-> u, conv |-> c, kind |-> kind, at |-> now]]
    /\ UNCHANGED <<tables, cards, pc, req, now, asked, seenOn>>

(* Statements and memory commands are answered in private only: in a group *)
(* the handler says so and returns.                                        *)
OnlyInPrivate(m) == sent[m].kind # "question" /\ ~Private(sent[m].conv)

Refuse(m) ==
    /\ ~Blocked
    /\ sent[m] # None /\ OnlyInPrivate(m)
    /\ UNCHANGED vars

(* An event reaches the worker, for the first time or again.               *)
Deliver(s, m) ==
    /\ ~Blocked
    /\ sent[m] # None /\ ~OnlyInPrivate(m)
    /\ LET kind == sent[m].kind IN
       Begin(s, CASE kind = "question"  -> "remember_key"
                  [] kind = "statement" -> "may_offer"
                  [] kind = "remember"  -> "may_save",
             [NoRequest EXCEPT !.op = "message", !.user = sent[m].user,
                               !.conv = sent[m].conv, !.message = m])
    /\ UNCHANGED <<tables, chat, now, asked>>

RememberKey(s) ==
    /\ At(s, "remember_key")
    /\ keys' = keys \cup {req[s].message}
    /\ \/ req[s].message \notin keys /\ Step(s, "prune")
       \/ req[s].message \in keys /\ Return(s)
    /\ UNCHANGED <<cache, summary, enabled, memory, chat, now, asked>>

(* A question that refers to what was said ("the one above") skips the     *)
(* look at the age of the cache.                                           *)
Prune(s) ==
    /\ At(s, "prune")
    /\ cache' = [c \in Conversations |-> [m \in Messages |->
                    IF cache[c][m] # None /\ cache[c][m].cached < now - CacheTtl
                        THEN None ELSE cache[c][m]]]
    /\ \E next \in {"fetch", "cache_age"} : Know(s, next, [req[s] EXCEPT !.at = now])
    /\ UNCHANGED <<keys, summary, enabled, memory, chat, now, asked>>

(* The cache of the conversation has been written lately.                  *)
FreshlyCached(c, at) ==
    \E m \in Messages : cache[c][m] # None /\ at - cache[c][m].cached < Refresh

CacheAge(s) ==
    /\ At(s, "cache_age")
    /\ Step(s, IF FreshlyCached(req[s].conv, req[s].at) THEN "list" ELSE "fetch")
    /\ UNCHANGED <<tables, chat, now, asked>>

History(c, since) == {m \in Messages : /\ sent[m] # None
                                       /\ sent[m].conv = c
                                       /\ sent[m].at >= since}

AfterContext(c) == IF Private(c) THEN "may_use" ELSE "ask"

(* Feishu's list, or its refusal: the question goes on without a context.  *)
Fetch(s) ==
    /\ At(s, "fetch")
    /\ \/ Know(s, "upsert",
               [req[s] EXCEPT !.fetched =
                    Newest(History(req[s].conv, req[s].at - Recent), Limit)
                    \ {req[s].message}])
       \/ Know(s, AfterContext(req[s].conv), [req[s] EXCEPT !.at = 0])
    /\ UNCHANGED <<tables, chat, now, asked>>

Upsert(s) ==
    /\ At(s, "upsert")
    /\ cache' = [cache EXCEPT ![req[s].conv] = [m \in Messages |->
                    IF m \in req[s].fetched THEN [created |-> sent[m].at, cached |-> now]
                                            ELSE @[m]]]
    /\ Know(s, "list", [req[s] EXCEPT !.fetched = {}])
    /\ UNCHANGED <<keys, summary, enabled, memory, chat, now, asked>>

(* The cached messages of the time window, the newest Limit of them, in    *)
(* the order of their time and then of their identifier.                   *)
Listed(c, since) ==
    LET found == {m \in Messages : cache[c][m] # None /\ cache[c][m].created >= since}
        earlier == {p \in found \X found :
                       \/ cache[c][p[1]].created < cache[c][p[2]].created
                       \/ /\ cache[c][p[1]].created = cache[c][p[2]].created
                          /\ p[1] < p[2]}
    IN  {Last(q, Limit) : q \in Arranged(found, earlier)}

(* The newest messages go into the question, as many as its budget allows  *)
(* (one at least), the others are older.                                   *)
List(s) ==
    /\ At(s, "list")
    /\ \E all \in Listed(req[s].conv, req[s].at - Recent) : \E n \in 1..Window :
           /\ n = 1 \/ n <= Len(all)
           /\ Know(s, "get_summary",
                   [req[s] EXCEPT !.at = 0, !.context = Last(all, n),
                                  !.older = SubSeq(all, 1, Len(all) - n)])
    /\ UNCHANGED <<tables, chat, now, asked>>

(* mutant of Rolled: the summary starts anew with every request            *)
RolledAnew(previous, older) == {Last(older, SummaryMax)}

(* _build_conversation_summary                                             *)
Rolled(previous, older) == {Last(q, SummaryMax) : q \in Extended(previous, older)}

GetSummary(s) ==
    /\ At(s, "get_summary")
    /\ LET stored == summary[req[s].conv] IN
       \/ /\ req[s].older # <<>>
          /\ \E new \in Rolled(stored, req[s].older) :
                 Know(s, "save_summary",
                      [req[s] EXCEPT !.older = <<>>, !.basis = stored, !.summary = new])
       \/ /\ req[s].older = <<>>
          /\ Know(s, "cache_current", [req[s] EXCEPT !.summary = stored])
    /\ UNCHANGED <<tables, chat, now, asked>>

SaveSummary(s) ==
    /\ At(s, "save_summary")
    /\ summary' = [summary EXCEPT ![req[s].conv] = req[s].summary]
    /\ Know(s, "cache_current", [req[s] EXCEPT !.basis = <<>>])
    /\ UNCHANGED <<keys, cache, enabled, memory, chat, now, asked>>

(* mutant of AfterCaching: a group's summary becomes a memory of the asker *)
AfterCachingAnywhere(r) ==
    IF r.summary # <<>> THEN "may_summarize" ELSE AfterContext(r.conv)

AfterCaching(r) ==
    IF Private(r.conv) /\ r.summary # <<>> THEN "may_summarize" ELSE AfterContext(r.conv)

CacheCurrent(s) ==
    /\ At(s, "cache_current")
    /\ cache' = [cache EXCEPT ![req[s].conv][req[s].message] =
                    [created |-> now, cached |-> now]]
    /\ Step(s, AfterCaching(req[s]))
    /\ UNCHANGED <<keys, summary, enabled, memory, chat, now, asked>>

MaySummarizeUnchecked(s) ==  \* mutant of MaySummarize: memory is taken to be on
    /\ At(s, "may_summarize")
    /\ Step(s, "save_summary_item")
    /\ UNCHANGED <<tables, chat, now, asked>>

MaySummarize(s) ==
    /\ At(s, "may_summarize")
    /\ Step(s, IF enabled[req[s].user] THEN "save_summary_item" ELSE "may_use")
    /\ UNCHANGED <<tables, chat, now, asked>>

Store(u, k, text) == memory' = [memory EXCEPT ![u][k] = text]

SaveSummaryItem(s) ==
    /\ At(s, "save_summary_item")
    /\ Store(req[s].user, req[s].conv, Lines(req[s].summary))
    /\ Step(s, "may_use")
    /\ UNCHANGED <<keys, cache, summary, enabled, chat, now, asked>>

MayUse(s) ==
    /\ At(s, "may_use")
    /\ Step(s, IF enabled[req[s].user] THEN "list_items" ELSE "ask")
    /\ UNCHANGED <<tables, chat, now, asked>>

(* The item made of this very summary is left out when the summary itself  *)
(* goes into the question.                                                 *)
ListItems(s) ==
    /\ At(s, "list_items")
    /\ LET r == req[s] IN
       Know(s, "ask",
            [r EXCEPT !.memory = [k \in ItemKeys |->
                IF k = r.conv /\ r.summary # <<>> THEN {} ELSE memory[r.user][k]]])
    /\ UNCHANGED <<tables, chat, now, asked>>

Ask(s) ==
    /\ At(s, "ask")
    /\ asked' = [asked EXCEPT ![req[s].message] = @ + 1]
    /\ Return(s)
    /\ UNCHANGED <<tables, chat, now>>
-----------------------------------------------------------------------------
(* Commands, cards and the admin page *)

(* "Remember that I ...": a card is offered if memory is on.               *)
MayOffer(s) ==
    /\ At(s, "may_offer")
    /\ \/ enabled[req[s].user] /\ Step(s, "send_card")
       \/ ~enabled[req[s].user] /\ Return(s)
    /\ UNCHANGED <<tables, chat, now, asked>>

SendCard(s) ==
    /\ At(s, "send_card")
    /\ cards' = cards \cup {req[s].message}
    /\ Return(s)
    /\ UNCHANGED <<tables, sent, now, asked>>

(* The save button of a card, as often as the user likes.                  *)
ClickSave(s, m) ==
    /\ ~Blocked
    /\ m \in cards
    /\ Begin(s, "may_save",
             [NoRequest EXCEPT !.op = "click", !.user = sent[m].user,
                               !.conv = sent[m].conv, !.message = m])
    /\ UNCHANGED <<tables, chat, now, asked>>

(* _save_memory_command_text, _update_memory_command_text and              *)
(* confirm_memory_save                                                     *)
MaySave(s) ==
    /\ At(s, "may_save")
    /\ \/ enabled[req[s].user] /\ Step(s, "save_item")
       \/ ~enabled[req[s].user] /\ Return(s)
    /\ UNCHANGED <<tables, chat, now, asked>>

SaveItem(s) ==
    /\ At(s, "save_item")
    /\ Store(req[s].user, "explicit", {req[s].message})
    /\ Return(s)
    /\ UNCHANGED <<keys, cache, summary, enabled, chat, now, asked>>

Switch(u, on) ==
    /\ enabled' = [enabled EXCEPT ![u] = on]
    /\ seenOn' = [s \in Sessions |-> seenOn[s] \/ (on /\ req[s].user = u)]

(* Commands, menu entries and a card that are one store call each.  The    *)
(* card that asks "delete all?" is sent by a command and stays in the chat. *)
SetEnabled(u, on) ==
    /\ ~Blocked
    /\ Switch(u, on)
    /\ UNCHANGED <<keys, cache, summary, memory, chat, pc, req, now, asked>>

Forget(u) ==
    /\ ~Blocked
    /\ Store(u, "explicit", {})
    /\ UNCHANGED <<keys, cache, summary, enabled, chat, pc, req, now, asked, seenOn>>

Text(u) == UNION {memory[u][k] : k \in ItemKeys}

ClickDelete(u) ==
    /\ ~Blocked
    /\ memory' = [memory EXCEPT ![u] = NoItems]
    /\ UNCHANGED <<keys, cache, summary, enabled, chat, pc, req, now, asked, seenOn>>

(* What a user may have told the assistant in private.                     *)
Told(u) == History(u, 0)

(* The form comes with the text of the page, emptied or written anew.       *)
SubmitForm(s) ==
    /\ \E text \in {Text(Admin), {}, Told(Admin)} :
           Begin(s, "set_enabled",
                 [NoRequest EXCEPT !.op = "form", !.user = Admin, !.form = text])
    /\ UNCHANGED <<tables, chat, now, asked>>

FormSetEnabled(s) ==
    /\ At(s, "set_enabled")
    /\ \E on \in BOOLEAN : Switch(Admin, on)
    /\ Goto(s, "list_form")
    /\ UNCHANGED <<keys, cache, summary, memory, chat, req, now, asked>>

FormList(s) ==
    /\ At(s, "list_form")
    /\ \/ Text(Admin) = req[s].form /\ Return(s)
       \/ Text(Admin) # req[s].form /\ Step(s, "clear_form")
    /\ UNCHANGED <<tables, chat, now, asked>>

FormClear(s) ==
    /\ At(s, "clear_form")
    /\ memory' = [memory EXCEPT ![Admin] = NoItems]
    /\ \/ req[s].form = {} /\ Return(s)
       \/ req[s].form # {} /\ Step(s, "save_form")
    /\ UNCHANGED <<keys, cache, summary, enabled, chat, now, asked>>

FormSave(s) ==
    /\ At(s, "save_form")
    /\ Store(Admin, "form", req[s].form)
    /\ Return(s)
    /\ UNCHANGED <<keys, cache, summary, enabled, chat, now, asked>>

(* A call raises, or the process stops.                                    *)
Abort(s) ==
    /\ pc[s] # "idle"
    /\ Return(s)
    /\ UNCHANGED <<tables, chat, now, asked>>

Tick ==
    /\ now < MaxTime
    /\ now' = now + 1
    /\ UNCHANGED <<tables, chat, pc, req, asked, seenOn>>
-----------------------------------------------------------------------------
Load(s) ==
    Prune(s) \/ CacheAge(s) \/ Fetch(s) \/ Upsert(s) \/ List(s) \/ GetSummary(s)
    \/ SaveSummary(s) \/ CacheCurrent(s) \/ MaySummarize(s) \/ SaveSummaryItem(s)

Question(s) == RememberKey(s) \/ Load(s) \/ MayUse(s) \/ ListItems(s) \/ Ask(s)

Command(s) == MayOffer(s) \/ SendCard(s) \/ MaySave(s) \/ SaveItem(s)

Form(s) == FormSetEnabled(s) \/ FormList(s) \/ FormClear(s) \/ FormSave(s)

Work(s) == Question(s) \/ Command(s) \/ Form(s)

User(u) ==
    \/ \E on \in BOOLEAN : SetEnabled(u, on)
    \/ Forget(u) \/ ClickDelete(u)
    \/ \E m \in Messages, c \in Conversations, kind \in Kinds : Send(m, u, c, kind)

Next ==
    \/ \E u \in Users : User(u)
    \/ \E s \in Sessions :
           \/ \E m \in Messages : Deliver(s, m) \/ ClickSave(s, m)
           \/ SubmitForm(s) \/ Work(s) \/ Abort(s)
    \/ \E m \in Messages : Refuse(m)
    \/ Tick

Spec == Init /\ [][Next]_vars
-----------------------------------------------------------------------------
(* Properties *)

(* A conversation stays with itself: what a question carries, and what is  *)
(* kept of a conversation, was said in that conversation; the memory of a  *)
(* user holds only what he said in private, and only his own private       *)
(* conversations get to see it.                                            *)
NothingCrosses ==
    /\ \A c \in Conversations : Lines(summary[c]) \subseteq History(c, 0)
    /\ \A u \in Users, k \in ItemKeys : memory[u][k] \subseteq Told(u)
    /\ \A s \in Sessions : pc[s] = "ask" =>
           LET r == req[s] IN
           /\ Lines(r.context) \cup Lines(r.summary) \subseteq History(r.conv, 0)
           /\ r.memory # NoItems => r.conv = r.user
           /\ \A k \in ItemKeys : r.memory[k] \subseteq Told(r.user)

(* However often Feishu delivers a message and however the deliveries      *)
(* interleave, the assistant is asked once at most.                        *)
AskedOnce == \A m \in Messages : asked[m] <= 1

UsesMemory == {"save_item", "save_summary_item", "list_items", "send_card"}

FormUsesMemory == {"list_form", "clear_form", "save_form"}

(* Switched off is switched off, in the chat: a message, a command or a    *)
(* click during which memory was never on stores nothing in it, offers     *)
(* nothing and takes nothing out of it.  Only the form of the admin page   *)
(* reads, clears and stores memories whatever the switch says, also when   *)
(* it has just turned it off (admin.py:569), although README.md:203 and    *)
(* router.py:849 say that nothing is added while memory is off.            *)
OffMeansOff ==
    \A s \in Sessions :
        pc[s] \in UsesMemory \cup FormUsesMemory \/ req[s].memory # NoItems
            => seenOn[s] \/ req[s].op = "form"

(* A summary that is stored lacks a line of the one before only when it is *)
(* full (whichever lines were cut then), or when another request has       *)
(* stored one after this one read it.                                      *)
LinesAreKept ==
    [][\A c \in Conversations : summary'[c] # summary[c] =>
          \/ Lines(summary[c]) \subseteq Lines(summary'[c])
          \/ Len(summary'[c]) = SummaryMax
          \/ \E s \in Sessions : /\ pc[s] = "save_summary"
                                /\ req[s].conv = c
                                /\ req[s].basis # summary[c]]_vars
=============================================================================
