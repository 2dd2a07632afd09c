----------------------------- MODULE Authorization -----------------------------
(***************************************************************************)
(* How a user lets Flago act for him, and what becomes of that grant:      *)
(* the one-time links of /authorize and of the admin page, the callbacks   *)
(* that turn a link into a stored token, the access tokens handed to the   *)
(* Feishu client and refreshed when they run out, and the owner of the     *)
(* admin page, who is the first user to log in there.                      *)
(*                                                                         *)
(* A request is one coroutine.  Each of its steps is one store call or one *)
(* call to Feishu's token endpoint; requests interleave between them.      *)
(***************************************************************************)
EXTENDS Integers, FiniteSets

CONSTANTS
    Users,      \* open_ids of Feishu users
    Admin,      \* ADMIN_LOGIN_SUBJECT, the subject of the admin page's links
    Links,      \* values of oauth_states.state (token_urlsafe)
    Requests,   \* coroutines that may be in flight at the same time
    Scopes,     \* OAuth scopes a user may grant
    Required,   \* oauth_required_scope_list
    Needs,      \* what calls require: sets of groups of alternative scopes
    Lives,      \* access token lifetimes in Feishu's answers, None if not given
    RefreshLives,  \* the same for refresh tokens
    LinkTtl,    \* oauth_state_ttl_seconds, in ticks
    Margin,     \* the 60 s by which a token counts as expired early
    MaxTime,    \* bound on the clock
    None        \* SQL NULL, Python None

VARIABLES
    links,      \* oauth_states
    tokens,     \* oauth_tokens
    owner,      \* the setting admin_owner_open_id
    admins,     \* users whose browser holds a session of the admin page
    pc,         \* the next step of each request
    req,        \* what each request works for
    answer,     \* what the last step answered, if it ended a request
    now,        \* the wall clock
    revoked,    \* users who have withdrawn their grant in Feishu
    latest,     \* how many authorizations of each subject have been stored
    overtaken,  \* subjects authorized anew while an old token was refreshed
    uses        \* how often each link was taken as valid

tables == <<links, tokens, owner, admins>>
history == <<latest, overtaken, uses>>
vars == <<tables, pc, req, answer, now, revoked, history>>
-----------------------------------------------------------------------------
Subjects == Users \cup {Admin}

Link == [subject : Subjects, expires : Nat, consumed : BOOLEAN]

(* grant says which authorization of the subject the token descends from.  *)
Token ==
    [grant : Nat, expires : Nat \cup {None}, refresh : BOOLEAN,
     refreshExpires : Nat \cup {None}, scope : SUBSET Scopes]

Labels ==
    {"idle", "read_status", "read_token", "refresh", "save_refreshed", "reread",
     "save_state", "read_state", "consume_state", "exchange", "read_owner",
     "set_owner", "save_token"}

(* "link" is /authorize, "status" its status form, "user" a call of the    *)
(* Feishu client that needs the user's own token, "any" one that may fall  *)
(* back to the tenant's, "page" and "login" the two OAuth callbacks.       *)
Purposes == {"link", "status", "user", "any", "page", "login"}

Answers ==
    {"none", "link", "usable", "token", "tenant", "missing", "unauthorized",
     "refused", "unreachable", "invalid", "forbidden", "authorized", "entered"}

ASSUME ConstantsAssumption ==
    /\ None \notin Subjects \cup Links \cup Nat \cup Link \cup Token
    /\ Admin \notin Users
    /\ Required \subseteq Scopes
    /\ \A need \in Needs : need \subseteq SUBSET Scopes
    /\ Lives \cup RefreshLives \subseteq Nat \cup {None}
    /\ LinkTtl \in Nat /\ Margin \in Nat /\ MaxTime \in Nat

Request ==
    [subject : Subjects \cup {None}, purpose : Purposes \cup {None},
     need : Needs \cup {{}}, link : Links \cup {None},
     token : Token \cup {None}, access : BOOLEAN]

NoRequest ==
    [subject |-> None, purpose |-> None, need |-> {}, link |-> None,
     token |-> None, access |-> FALSE]

AuthTypeOK ==
    /\ links \in [Links -> Link \cup {None}]
    /\ tokens \in [Subjects -> Token \cup {None}]
    /\ owner \in Users \cup {None}
    /\ admins \in SUBSET Users
    /\ pc \in [Requests -> Labels]
    /\ req \in [Requests -> Request]
    /\ answer \in Answers
    /\ now \in Nat
    /\ revoked \in SUBSET Subjects
    /\ latest \in [Subjects -> Nat]
    /\ overtaken \in SUBSET Subjects
    /\ uses \in [Links -> Nat]

Init ==
    /\ links = [l \in Links |-> None]
    /\ tokens = [u \in Subjects |-> None]
    /\ owner = None
    /\ admins = {}
    /\ pc = [r \in Requests |-> "idle"]
    /\ req = [r \in Requests |-> NoRequest]
    /\ answer = "none"
    /\ now = 0
    /\ revoked = {}
    /\ latest = [u \in Subjects |-> 0]
    /\ overtaken = {}
    /\ uses = [l \in Links |-> 0]
-----------------------------------------------------------------------------
(* Steps of a request *)

Goto(r, label) == pc' = [pc EXCEPT ![r] = label] /\ answer' = "none"

Begin(r, label, request) ==
    /\ pc[r] = "idle"
    /\ pc' = [pc EXCEPT ![r] = label]
    /\ req' = [req EXCEPT ![r] = request]
    /\ answer' = "none"
    /\ UNCHANGED <<tables, now, revoked, history>>

Answer(r, a) ==
    /\ pc' = [pc EXCEPT ![r] = "idle"]
    /\ req' = [req EXCEPT ![r] = NoRequest]
    /\ answer' = a

(* Not _is_expired: a time that is not given never passes.                 *)
Fresh(expires) == expires = None \/ expires > now + Margin

Until(life) == IF life = None THEN None ELSE now + life

Covers(token, need) == \A group \in need : group = {} \/ group \cap token.scope # {}

(* What an answer of the token endpoint may contain.                       *)
Answered(grant) ==
    {[grant |-> grant, expires |-> Until(life), refresh |-> refresh,
      refreshExpires |-> IF refresh THEN Until(refreshLife) ELSE None, scope |-> scope] :
        life \in Lives, refreshLife \in RefreshLives, refresh \in BOOLEAN,
        scope \in SUBSET Scopes}

MergeAnswerOnly(previous, token) == token  \* mutant of Merge: stores the answer as it is

(* _merge_refreshed_token: what the answer leaves out stays as it was.     *)
Merge(previous, token) ==
    [token EXCEPT
        !.refresh = @ \/ previous.refresh,
        !.refreshExpires = IF @ = None THEN previous.refreshExpires ELSE @,
        !.scope = IF @ = {} THEN previous.scope ELSE @]
-----------------------------------------------------------------------------
(* Requests *)

Ask(r) ==
    \E u \in Users, purpose \in {"link", "status"} :
        Begin(r, "read_status",
              [NoRequest EXCEPT !.subject = u, !.purpose = purpose])

Call(r) ==
    \E u \in Users, purpose \in {"user", "any"}, need \in Needs :
        Begin(r, "read_token",
              [NoRequest EXCEPT !.subject = u, !.purpose = purpose, !.need = need])

(* GET /oauth/feishu/start and the menu entry that hands out a link.       *)
StartLink(r) ==
    \E u \in Subjects :
        Begin(r, "save_state",
              [NoRequest EXCEPT !.subject = u, !.purpose = "link"])

AdminLogin(r) ==
    Begin(r, "save_state",
          [NoRequest EXCEPT !.subject = Admin, !.purpose = "login"])

(* The browser of a user who went through Feishu's page comes back with a  *)
(* code and the link's state, perhaps twice, perhaps to the other page.    *)
Callback(r) ==
    \E u \in Users, l \in Links, purpose \in {"page", "login"} :
        /\ links[l] # None
        /\ Begin(r, "read_state",
                 [NoRequest EXCEPT !.subject = u, !.purpose = purpose, !.link = l])
-----------------------------------------------------------------------------
(* get_valid_access_token, with what its callers make of the result *)

NoToken(r) ==
    \/ /\ req[r].purpose \in {"link", "status"}
       /\ Goto(r, "reread")
       /\ UNCHANGED req
    \/ /\ req[r].purpose = "user"
       /\ Answer(r, "unauthorized")
    \/ /\ req[r].purpose = "any"
       /\ \E a \in {"tenant", "refused", "unreachable"} : Answer(r, a)

Granted(r, token) ==
    \/ /\ req[r].purpose \in {"link", "status"}
       /\ Goto(r, "reread")
       /\ req' = [req EXCEPT ![r].access = TRUE]
    \/ /\ req[r].purpose \in {"user", "any"}
       /\ Answer(r, IF Covers(token, req[r].need) THEN "token" ELSE "missing")

ReadToken(r) ==
    LET token == tokens[req[r].subject] IN
    /\ pc[r] = "read_token"
    /\ \/ token = None /\ NoToken(r)
       \/ token # None /\ Fresh(token.expires) /\ Granted(r, token)
       \/ /\ token # None /\ ~Fresh(token.expires)
          /\ IF token.refresh /\ Fresh(token.refreshExpires)
             THEN /\ Goto(r, "refresh")
                  /\ req' = [req EXCEPT ![r].token = token]
             ELSE NoToken(r)
    /\ UNCHANGED <<tables, now, revoked, history>>

(* Feishu refuses a withdrawn grant, and may refuse or not answer at all.  *)
Refresh(r) ==
    LET previous == req[r].token IN
    /\ pc[r] = "refresh"
    /\ \/ /\ req[r].subject \notin revoked
          /\ \E token \in Answered(previous.grant) :
                 req' = [req EXCEPT ![r].token = Merge(previous, token)]
          /\ Goto(r, "save_refreshed")
       \/ \E a \in {"refused", "unreachable"} : Answer(r, a)
    /\ UNCHANGED <<tables, now, revoked, history>>

(* Its audit event, of which no later step takes notice, may fail after it.*)
SaveRefreshed(r) ==
    /\ pc[r] = "save_refreshed"
    /\ tokens' = [tokens EXCEPT ![req[r].subject] = req[r].token]
    /\ Granted(r, req[r].token) \/ Answer(r, "none")
    /\ UNCHANGED <<links, owner, admins, now, revoked, history>>
-----------------------------------------------------------------------------
(* authorization_status and the link that follows it *)

ReadStatus(r) ==
    /\ pc[r] = "read_status"
    /\ Goto(r, IF tokens[req[r].subject] = None THEN "save_state" ELSE "read_token")
    /\ UNCHANGED <<tables, req, now, revoked, history>>

Reread(r) ==
    LET usable == req[r].access /\ Required \subseteq tokens[req[r].subject].scope IN
    /\ pc[r] = "reread"
    /\ IF req[r].purpose = "status" /\ usable
       THEN Answer(r, "usable")
       ELSE Goto(r, "save_state") /\ UNCHANGED req
    /\ UNCHANGED <<tables, now, revoked, history>>

SaveState(r) ==
    /\ pc[r] = "save_state"
    /\ \E l \in Links :
           /\ links[l] = None
           /\ links' = [links EXCEPT ![l] =
                  [subject |-> req[r].subject, expires |-> now + LinkTtl,
                   consumed |-> FALSE]]
    /\ \E a \in {"link", "none"} : Answer(r, a)
    /\ UNCHANGED <<tokens, owner, admins, now, revoked, history>>
-----------------------------------------------------------------------------
(* The callbacks *)

ReadStateAgain(r) ==  \* mutant of ReadState: no look at consumed_at
    LET link == links[req[r].link] IN
    /\ pc[r] = "read_state"
    /\ IF link.expires <= now
       THEN Answer(r, "invalid")
       ELSE Goto(r, "consume_state") /\ UNCHANGED req
    /\ UNCHANGED <<tables, now, revoked, history>>

(* consume_oauth_state: the SELECT, then the UPDATE.                       *)
ReadState(r) ==
    LET link == links[req[r].link] IN
    /\ pc[r] = "read_state"
    /\ IF link.consumed \/ link.expires <= now
       THEN Answer(r, "invalid")
       ELSE Goto(r, "consume_state") /\ UNCHANGED req
    /\ UNCHANGED <<tables, now, revoked, history>>

(* The user page stores the token for the link's subject, the admin page   *)
(* for the user who logs in, and only through a link of its own.           *)
ConsumeState(r) ==
    LET l == req[r].link IN
    /\ pc[r] = "consume_state"
    /\ links' = [links EXCEPT ![l].consumed = TRUE]
    /\ uses' = [uses EXCEPT ![l] = @ + 1]
    /\ \/ /\ req[r].purpose = "page"
          /\ Goto(r, "exchange")
          /\ req' = [req EXCEPT ![r].subject = links[l].subject]
       \/ /\ req[r].purpose = "login" /\ links[l].subject = Admin
          /\ Goto(r, "exchange")
          /\ UNCHANGED req
       \/ /\ req[r].purpose = "login" /\ links[l].subject # Admin
          /\ Answer(r, "invalid")
    /\ UNCHANGED <<tokens, owner, admins, now, revoked, latest, overtaken>>

(* exchange_code and, for a login, the request for the user's open_id.     *)
Exchange(r) ==
    /\ pc[r] = "exchange"
    /\ \/ /\ \E token \in Answered(0) : req' = [req EXCEPT ![r].token = token]
          /\ Goto(r, IF req[r].purpose = "login" THEN "read_owner" ELSE "save_token")
          /\ revoked' = revoked \ {req[r].subject}
       \/ /\ \E a \in {"refused", "unreachable"} : Answer(r, a)
          /\ UNCHANGED revoked
    /\ UNCHANGED <<tables, now, history>>

ReadOwnerUnread(r) ==  \* mutant of ReadOwner: every login binds
    /\ pc[r] = "read_owner"
    /\ Goto(r, "set_owner")
    /\ UNCHANGED <<req, tables, now, revoked, history>>

ReadOwner(r) ==
    /\ pc[r] = "read_owner"
    /\ \/ owner = None /\ Goto(r, "set_owner") /\ UNCHANGED req
       \/ owner = req[r].subject /\ Goto(r, "save_token") /\ UNCHANGED req
       \/ owner \notin {None, req[r].subject} /\ Answer(r, "forbidden")
    /\ UNCHANGED <<tables, now, revoked, history>>

SetOwner(r) ==
    /\ pc[r] = "set_owner"
    /\ owner' = req[r].subject
    /\ Goto(r, "save_token")
    /\ UNCHANGED <<links, tokens, admins, req, now, revoked, history>>

Refreshing(u) ==
    {r \in Requests : pc[r] \in {"refresh", "save_refreshed"} /\ req[r].subject = u}

SaveTokenOnce(r) ==  \* mutant of SaveToken: INSERT OR IGNORE
    LET u == req[r].subject IN
    /\ pc[r] = "save_token"
    /\ tokens' = [tokens EXCEPT ![u] =
           IF @ = None THEN [req[r].token EXCEPT !.grant = latest[u] + 1] ELSE @]
    /\ latest' = [latest EXCEPT ![u] = @ + 1]
    /\ overtaken' = IF Refreshing(u) = {} THEN overtaken \ {u} ELSE overtaken \cup {u}
    /\ \/ /\ req[r].purpose = "login"
          /\ Answer(r, "entered")
          /\ admins' = admins \cup {u}
       \/ /\ req[r].purpose = "page"
          /\ \E a \in {"authorized", "none"} : Answer(r, a)
          /\ UNCHANGED admins
    /\ UNCHANGED <<links, owner, now, revoked, uses>>

SaveToken(r) ==
    LET u == req[r].subject IN
    /\ pc[r] = "save_token"
    /\ tokens' = [tokens EXCEPT ![u] = [req[r].token EXCEPT !.grant = latest[u] + 1]]
    /\ latest' = [latest EXCEPT ![u] = @ + 1]
    /\ overtaken' = IF Refreshing(u) = {} THEN overtaken \ {u} ELSE overtaken \cup {u}
    /\ \/ /\ req[r].purpose = "login"
          /\ Answer(r, "entered")
          /\ admins' = admins \cup {u}
       \/ /\ req[r].purpose = "page"
          /\ \E a \in {"authorized", "none"} : Answer(r, a)
          /\ UNCHANGED admins
    /\ UNCHANGED <<links, owner, now, revoked, uses>>

-----------------------------------------------------------------------------
(* A store call raises, or the process stops: the request is gone.         *)
Abort(r) ==
    /\ pc[r] # "idle"
    /\ Answer(r, "none")
    /\ UNCHANGED <<tables, now, revoked, history>>

Withdraw ==
    /\ \E u \in Users \ revoked : tokens[u] # None /\ revoked' = revoked \cup {u}
    /\ answer' = "none"
    /\ UNCHANGED <<tables, pc, req, now, history>>

Tick ==
    /\ now < MaxTime
    /\ now' = now + 1
    /\ answer' = "none"
    /\ UNCHANGED <<tables, pc, req, revoked, history>>

Arrive(r) == Ask(r) \/ Call(r) \/ StartLink(r) \/ AdminLogin(r) \/ Callback(r)

Proceed(r) ==
    \/ ReadToken(r) \/ Refresh(r) \/ SaveRefreshed(r)
    \/ ReadStatus(r) \/ Reread(r) \/ SaveState(r)
    \/ ReadState(r) \/ ConsumeState(r) \/ Exchange(r)
    \/ ReadOwner(r) \/ SetOwner(r) \/ SaveToken(r)

Next ==
    \/ Tick
    \/ Withdraw
    \/ \E r \in Requests : Arrive(r) \/ Proceed(r) \/ Abort(r)

Spec == Init /\ [][Next]_vars
-----------------------------------------------------------------------------
(* A link is spent for good once the requests that found it unused are     *)
(* through: none that comes later is let in with it.                       *)
Taking(l) == {r \in Requests : pc[r] = "consume_state" /\ req[r].link = l}

LinkSettles ==
    [][\A l \in Links :
          links[l] # None /\ links[l].consumed /\ Taking(l) = {} =>
              links'[l] = links[l] /\ uses'[l] = uses[l] /\ Taking(l)' = {}]_vars

(* The admin page has one owner for good once the logins that found none   *)
(* are through.                                                            *)
Binding == {r \in Requests : pc[r] = "set_owner"}

OwnerSettles ==
    [][owner # None /\ Binding = {} => owner' = owner /\ Binding' = {}]_vars

(* Whoever holds a session of the admin page went through a link of that   *)
(* page, and there is an owner to compare him with on every later request: *)
(* _require_admin_user admits any session while there is none.             *)
SessionsAreCompared ==
    /\ admins # {} => owner # None
    /\ \A r \in Requests :
           pc[r] \in {"read_owner", "set_owner"} => links[req[r].link].subject = Admin

(* The stored token descends from the last authorization, so a user who    *)
(* grants more scopes keeps them; unless the token of an older one was     *)
(* being refreshed at that moment, whose answer is stored over it.         *)
LatestGrantStands ==
    \A u \in Subjects \ overtaken :
        tokens[u] # None => tokens[u].grant = latest[u]

(* A refresh never costs the user the refresh token, not even when two     *)
(* refreshes of one token cross or Feishu's answer leaves it out: he need  *)
(* not authorize again before it runs out.                                 *)
RefreshTokenStays ==
    [][\A u \in Subjects : tokens[u] # None =>
          /\ tokens'[u] # None
          /\ tokens'[u].grant = tokens[u].grant /\ tokens[u].refresh =>
                 tokens'[u].refresh]_tokens
=============================================================================
