---------------------------- MODULE ChatMemoryInv ----------------------------
(***************************************************************************)
(* The inductive invariant behind the theorems of ChatMemoryProofs, in a   *)
(* module of its own so that TLC can check it.                             *)
(***************************************************************************)
EXTENDS ChatMemory

(* What is stored, and where it was said.                                  *)
StoreInv ==
    /\ \A m \in Messages : sent[m] # None => sent[m].conv \in Groups \cup {sent[m].user}
    /\ \A m \in cards : sent[m] # None /\ Private(sent[m].conv)
    /\ \A c \in Conversations, m \in Messages : cache[c][m] # None => m \in History(c, 0)
    /\ \A c \in Conversations : Lines(summary[c]) \subseteq History(c, 0)
    /\ \A u \in Users, k \in ItemKeys : memory[u][k] \subseteq Told(u)

LoadLabels ==
    {"prune", "cache_age", "fetch", "upsert", "list", "get_summary", "save_summary",
     "cache_current", "may_summarize", "save_summary_item"}

Answering == LoadLabels \cup {"may_use", "list_items", "ask"}

FormLabels == {"set_enabled", "list_form", "clear_form", "save_form"}

PrivateLabels ==
    {"may_summarize", "save_summary_item", "may_use", "list_items",
     "may_offer", "send_card", "may_save", "save_item"}

(* Where a session stands and what it carries: it works on the message it  *)
(* came with and carries nothing that was said elsewhere.                  *)
Honest(label, r) ==
    /\ r.op = "none" <=> label = "idle"
    /\ r.op = "form" <=> label \in FormLabels
    /\ r.op = "form" => r.user = Admin
    /\ r.op \in {"message", "click"} =>
           /\ r.message \in Messages
           /\ sent[r.message] # None
           /\ r.user = sent[r.message].user
           /\ r.conv = sent[r.message].conv
           /\ r.fetched \subseteq History(r.conv, 0)
           /\ Lines(r.context) \cup Lines(r.older) \cup Lines(r.summary)
                  \subseteq History(r.conv, 0)
    /\ label \in PrivateLabels => Private(r.conv)
    /\ r.form \subseteq Told(Admin)
    /\ r.memory # NoItems => label = "ask" /\ r.conv = r.user
    /\ \A k \in ItemKeys : r.memory[k] \subseteq Told(r.user)

SessionInv(s) == Honest(pc[s], req[s])

(* Who uses the memory, or may use it, has seen it on.                     *)
Seen(label, r, on) ==
    /\ label \in UsesMemory \/ r.memory # NoItems => on
    /\ r.op # "none" /\ enabled[r.user] => on

SeenInv(s) == Seen(pc[s], req[s], seenOn[s])

(* A message is being answered by the session that stored its key.         *)
OnceInv ==
    /\ \A m \in Messages : asked[m] \in {0, 1} /\ (asked[m] = 1 => m \in keys)
    /\ \A s \in Sessions : pc[s] \in Answering =>
           req[s].message \in keys /\ asked[req[s].message] = 0
    /\ \A s, t \in Sessions :
           /\ pc[s] \in Answering /\ pc[t] \in Answering
           /\ req[s].message = req[t].message
           => s = t

(* What a request is about to store holds what it read, or is full.        *)
RollInv ==
    \A s \in Sessions : pc[s] = "save_summary" =>
        \/ Lines(req[s].basis) \subseteq Lines(req[s].summary)
        \/ Len(req[s].summary) = SummaryMax

ChatIInv == /\ ChatTypeOK
            /\ StoreInv
            /\ \A s \in Sessions : SessionInv(s) /\ SeenInv(s)
            /\ OnceInv
=============================================================================
