--------------------------- MODULE AuthorizationInv ---------------------------
(***************************************************************************)
(* The inductive invariant behind the theorems of AuthorizationProofs, in  *)
(* a module of its own so that TLC can check it.                           *)
(***************************************************************************)
EXTENDS Authorization

(* What a request carries, by the step it has reached.                     *)
Entering == {"read_owner", "set_owner", "save_token"}
Checking == {"read_state", "consume_state"}
OnPage   == {"exchange"} \cup Entering \cup Checking
OnToken  == {"read_status", "read_token", "refresh", "save_refreshed", "reread"}

Carries(r) ==
    /\ pc[r] # "idle" => req[r].subject # None
    /\ pc[r] \in OnToken => req[r].purpose \in {"link", "status", "user", "any"}
    /\ pc[r] \in OnPage => /\ req[r].purpose \in {"page", "login"}
                           /\ req[r].link # None
                           /\ links[req[r].link] # None
                           /\ req[r].purpose = "login" => req[r].subject \in Users
    /\ pc[r] \in {"refresh", "save_refreshed"} \cup Entering => req[r].token # None
    /\ pc[r] \in {"refresh", "save_refreshed"} => req[r].token.refresh
    /\ pc[r] \in OnToken /\ req[r].access => pc[r] = "reread"
    /\ pc[r] = "reread" /\ req[r].access => tokens[req[r].subject] # None
    /\ pc[r] \in {"read_owner", "set_owner"} => req[r].purpose = "login"
    /\ pc[r] = "save_token" /\ req[r].purpose = "login" => owner # None
    /\ pc[r] \in {"exchange"} \cup Entering =>
           req[r].purpose = "page" \/ links[req[r].link].subject = Admin

(* Which authorization the tokens that are stored, or about to be, are of. *)
Descends(r) ==
    pc[r] \in {"refresh", "save_refreshed"} =>
        /\ tokens[req[r].subject] # None
        /\ req[r].token.grant <= latest[req[r].subject]
        /\ req[r].subject \notin overtaken =>
               req[r].token.grant = latest[req[r].subject]

AuthIInv ==
    /\ AuthTypeOK
    /\ \A r \in Requests : Carries(r) /\ Descends(r)
    /\ \A u \in Subjects : tokens[u] # None => tokens[u].grant <= latest[u]
    /\ LatestGrantStands
    /\ SessionsAreCompared
=============================================================================
