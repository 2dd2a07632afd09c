-------------------------- MODULE AuthorizationProofs --------------------------
(***************************************************************************)
(* Theorems about Authorization for every set of users, links, requests    *)
(* and scopes, every lifetime and every bound on the clock.                *)
(***************************************************************************)
EXTENDS AuthorizationInv, TLAPS

LEMMA UntilType ==
    ASSUME now \in Nat, NEW life \in Lives \cup RefreshLives
    PROVE  Until(life) \in Nat \cup {None}
  BY ConstantsAssumption DEF Until

LEMMA AnsweredType ==
    ASSUME now \in Nat, NEW grant \in Nat, NEW token \in Answered(grant)
    PROVE  token \in Token /\ token # None /\ token.grant = grant
  <1>1. token \in Token /\ token.grant = grant
    BY UntilType DEF Answered, Token
  <1>2. QED BY <1>1, ConstantsAssumption

(* The stored token of a refresh has what the old one or the answer has.   *)
LEMMA MergeType ==
    ASSUME NEW previous \in Token, NEW token \in Token
    PROVE  /\ Merge(previous, token) \in Token
           /\ Merge(previous, token) # None
           /\ Merge(previous, token).grant = token.grant
           /\ previous.refresh => Merge(previous, token).refresh
  <1>1. /\ Merge(previous, token) \in Token
        /\ Merge(previous, token).grant = token.grant
        /\ previous.refresh => Merge(previous, token).refresh
    BY DEF Merge, Token
  <1>2. QED BY <1>1, ConstantsAssumption

-----------------------------------------------------------------------------
LEMMA NoRequestType == NoRequest \in Request
  BY DEF NoRequest, Request

(* A step that writes no table keeps the invariant if the request that     *)
(* takes it carries what its next step needs.                              *)
LEMMA LocalStep ==
    ASSUME AuthIInv, NEW r \in Requests, NEW label \in Labels, NEW request \in Request,
           NEW a \in Answers,
           pc' = [pc EXCEPT ![r] = label], req' = [req EXCEPT ![r] = request], answer' = a,
           now' = now, revoked' \in SUBSET Subjects, UNCHANGED <<tables, history>>,
           Carries(r)', Descends(r)'
    PROVE  AuthIInv'
  <1> USE DEF AuthIInv, AuthTypeOK, tables, history
  <1>1. AuthTypeOK'
    OBVIOUS
  <1>2. /\ pc'[r] = label /\ req'[r] = request
        /\ \A q \in Requests \ {r} : pc'[q] = pc[q] /\ req'[q] = req[q]
    OBVIOUS
  <1>3. \A q \in Requests : Carries(q)' /\ Descends(q)'
    BY <1>2 DEF Carries, Descends
  <1>4. LatestGrantStands'
    BY DEF LatestGrantStands
  <1>5. SessionsAreCompared'
    BY <1>3 DEF SessionsAreCompared, Carries, Entering
  <1>6. QED BY <1>1, <1>3, <1>4, <1>5

LEMMA AnswerStep ==
    ASSUME AuthIInv, NEW r \in Requests, NEW a \in Answers, Answer(r, a),
           revoked' \in SUBSET Subjects, now' = now, UNCHANGED <<tables, history>>
    PROVE  AuthIInv'
  <1>1. pc'[r] = "idle"
    BY DEF Answer, AuthIInv, AuthTypeOK
  <1>2. Carries(r)' /\ Descends(r)'
    BY <1>1 DEF Carries, Descends, OnToken, OnPage, Entering, Checking
  <1>3. QED
    BY <1>2, LocalStep, NoRequestType DEF Answer, Labels

LEMMA ArriveStep ==
    ASSUME AuthIInv, NEW r \in Requests, Arrive(r)
    PROVE  AuthIInv'
  <1>1. ASSUME NEW request \in Request, NEW label \in {"read_status", "read_token"},
               Begin(r, label, request), request.subject # None, ~request.access,
               request.purpose \in {"link", "status", "user", "any"}
        PROVE  AuthIInv'
    <2>1. pc'[r] = label /\ req'[r] = request
      BY <1>1 DEF Begin, AuthIInv, AuthTypeOK
    <2>2. Carries(r)' /\ Descends(r)'
      BY <1>1, <2>1 DEF Carries, Descends, OnToken, OnPage, Entering, Checking
    <2>3. QED
      BY <1>1, <2>2, LocalStep DEF Begin, Labels, Answers, AuthIInv, AuthTypeOK
  <1>2. CASE Ask(r)
    <2>1. PICK u \in Users, purpose \in {"link", "status"} :
              Begin(r, "read_status",
                    [NoRequest EXCEPT !.subject = u, !.purpose = purpose])
      BY <1>2 DEF Ask
    <2> DEFINE request == [NoRequest EXCEPT !.subject = u, !.purpose = purpose]
    <2>2. /\ request \in Request /\ request.subject # None /\ ~request.access
          /\ request.purpose \in {"link", "status", "user", "any"}
      BY ConstantsAssumption DEF NoRequest, Request, Subjects, Purposes
    <2>3. QED BY <2>1, <2>2, <1>1
  <1>3. CASE Call(r)
    <2>1. PICK u \in Users, purpose \in {"user", "any"}, need \in Needs :
              Begin(r, "read_token",
                    [NoRequest EXCEPT !.subject = u, !.purpose = purpose, !.need = need])
      BY <1>3 DEF Call
    <2> DEFINE request == [NoRequest EXCEPT !.subject = u, !.purpose = purpose, !.need = need]
    <2>2. /\ request \in Request /\ request.subject # None /\ ~request.access
          /\ request.purpose \in {"link", "status", "user", "any"}
      BY ConstantsAssumption DEF NoRequest, Request, Subjects, Purposes
    <2>3. QED BY <2>1, <2>2, <1>1
  <1>4. CASE StartLink(r) \/ AdminLogin(r)
    <2>1. PICK u \in Subjects, purpose \in {"link", "login"} :
              Begin(r, "save_state",
                    [NoRequest EXCEPT !.subject = u, !.purpose = purpose])
      BY <1>4 DEF StartLink, AdminLogin, Subjects
    <2> DEFINE request == [NoRequest EXCEPT !.subject = u, !.purpose = purpose]
    <2>2. request \in Request /\ request.subject # None
      BY ConstantsAssumption DEF NoRequest, Request, Subjects, Purposes
    <2>3. pc'[r] = "save_state" /\ req'[r] = request
      BY <2>1 DEF Begin, AuthIInv, AuthTypeOK
    <2>4. Carries(r)' /\ Descends(r)'
      BY <2>2, <2>3 DEF Carries, Descends, OnToken, OnPage, Entering, Checking
    <2>5. QED
      BY <2>1, <2>2, <2>4, LocalStep DEF Begin, Labels, Answers, AuthIInv, AuthTypeOK
  <1>5. CASE Callback(r)
    <2>1. PICK u \in Users, l \in Links, purpose \in {"page", "login"} :
              /\ links[l] # None
              /\ Begin(r, "read_state",
                       [NoRequest EXCEPT !.subject = u, !.purpose = purpose, !.link = l])
      BY <1>5 DEF Callback
    <2> DEFINE request == [NoRequest EXCEPT !.subject = u, !.purpose = purpose, !.link = l]
    <2>2. /\ request \in Request /\ request.subject = u /\ request.purpose = purpose
          /\ request.link = l /\ u # None /\ l # None
      BY ConstantsAssumption DEF NoRequest, Request, Subjects, Purposes
    <2>3. pc'[r] = "read_state" /\ req'[r] = request /\ UNCHANGED links
      BY <2>1 DEF Begin, tables, AuthIInv, AuthTypeOK
    <2>4. Carries(r)' /\ Descends(r)'
      BY <2>1, <2>2, <2>3 DEF Carries, Descends, OnToken, OnPage, Entering, Checking
    <2>5. QED
      BY <2>1, <2>2, <2>4, LocalStep DEF Begin, Labels, Answers, AuthIInv, AuthTypeOK
  <1>6. QED BY <1>2, <1>3, <1>4, <1>5 DEF Arrive
-----------------------------------------------------------------------------
(* The steps that read, and those that talk to Feishu                      *)

LEMMA MoveStep ==
    ASSUME AuthIInv, NEW r \in Requests, NEW label \in Labels, NEW request \in Request,
           Goto(r, label), req' = [req EXCEPT ![r] = request],
           revoked' \in SUBSET Subjects, now' = now, UNCHANGED <<tables, history>>,
           Carries(r)', Descends(r)'
    PROVE  AuthIInv'
  BY LocalStep DEF Goto, Answers

LEMMA ReadTokenStep ==
    ASSUME AuthIInv, NEW r \in Requests, ReadToken(r)
    PROVE  AuthIInv'
  <1> DEFINE u == req[r].subject
  <1> USE DEF ReadToken
  <1>1. /\ UNCHANGED <<tables, history>> /\ revoked' \in SUBSET Subjects /\ now' = now
        /\ pc \in [Requests -> Labels] /\ req \in [Requests -> Request]
        /\ u \in Subjects /\ Carries(r) /\ pc[r] = "read_token"
    BY DEF AuthIInv, AuthTypeOK, Carries, Request
  <1>2. CASE \E a \in Answers : Answer(r, a)
    BY <1>1, <1>2, AnswerStep
  <1>3. ASSUME NEW request \in Request, NEW label \in {"reread", "refresh"},
               Goto(r, label), req' = [req EXCEPT ![r] = request],
               request.subject = u, request.purpose = req[r].purpose,
               request.access => label = "reread" /\ tokens[u] # None,
               label = "refresh" => /\ tokens[u] # None /\ tokens[u].refresh
                                    /\ request.token = tokens[u]
        PROVE  AuthIInv'
    <2>1. pc'[r] = label /\ req'[r] = request
      BY <1>1, <1>3 DEF Goto
    <2>2. Carries(r)'
      BY <1>1, <1>3, <2>1 DEF Carries, OnToken, OnPage, Entering, Checking, tables
    <2>3. Descends(r)'
      BY <1>1, <1>3, <2>1
      DEF Descends, AuthIInv, LatestGrantStands, tables, history
    <2>4. label \in Labels
      BY DEF Labels
    <2>5. QED
      <3> HIDE DEF ReadToken
      <3> QED BY <1>1, <1>3, <2>2, <2>3, <2>4, MoveStep
  <1>4. CASE NoToken(r)
    <2>1. CASE Goto(r, "reread") /\ UNCHANGED req
      <3>1. req' = [req EXCEPT ![r] = req[r]] /\ ~req[r].access
        BY <1>1, <2>1 DEF Carries, OnToken
      <3>2. QED BY <1>1, <1>3, <2>1, <3>1
    <2>2. QED BY <1>2, <1>4, <2>1 DEF NoToken, Answers
  <1>5. CASE tokens[u] # None /\ Granted(r, tokens[u])
    <2>1. CASE Goto(r, "reread") /\ req' = [req EXCEPT ![r].access = TRUE]
      <3> DEFINE request == [req[r] EXCEPT !.access = TRUE]
      <3>1. /\ request \in Request /\ request.subject = u
            /\ request.purpose = req[r].purpose
        BY <1>1 DEF Request
      <3>2. req' = [req EXCEPT ![r] = request]
        BY <2>1
      <3>3. QED BY <1>3, <1>5, <2>1, <3>1, <3>2
    <2>2. QED BY <1>2, <1>5, <2>1 DEF Granted, Answers
  <1>6. CASE /\ tokens[u] # None /\ tokens[u].refresh
             /\ Goto(r, "refresh") /\ req' = [req EXCEPT ![r].token = tokens[u]]
    <2> DEFINE request == [req[r] EXCEPT !.token = tokens[u]]
    <2>1. /\ request \in Request /\ request.subject = u
          /\ request.purpose = req[r].purpose /\ request.token = tokens[u]
          /\ ~request.access
      BY <1>1 DEF Request, AuthIInv, AuthTypeOK, Carries, OnToken
    <2>2. req' = [req EXCEPT ![r] = request]
      BY <1>6
    <2>3. QED BY <1>3, <1>6, <2>1, <2>2
  <1>7. QED BY <1>4, <1>5, <1>6

LEMMA RefreshStep ==
    ASSUME AuthIInv, NEW r \in Requests, Refresh(r)
    PROVE  AuthIInv'
  <1> USE DEF Refresh
  <1>1. CASE \E a \in {"refused", "unreachable"} : Answer(r, a)
    BY <1>1, AnswerStep DEF Answers, AuthIInv, AuthTypeOK
  <1>2. ASSUME NEW token \in Answered(req[r].token.grant),
               req' = [req EXCEPT ![r].token = Merge(req[r].token, token)],
               Goto(r, "save_refreshed")
        PROVE  AuthIInv'
    <2> DEFINE merged == Merge(req[r].token, token)
               request == [req[r] EXCEPT !.token = merged]
    <2>1. /\ req[r] \in Request /\ req[r].token \in Token /\ req[r].token.refresh
          /\ req[r].token.grant \in Nat
      BY DEF AuthIInv, Carries, AuthTypeOK, Request, Token
    <2>2. token \in Token /\ token.grant = req[r].token.grant
      BY <2>1, AnsweredType DEF AuthIInv, AuthTypeOK
    <2>3. /\ merged \in Token /\ merged # None
          /\ merged.grant = req[r].token.grant /\ merged.refresh
      BY <2>1, <2>2, MergeType
    <2> HIDE DEF merged
    <2>4. /\ request \in Request /\ request.token = merged
          /\ request.subject = req[r].subject /\ request.purpose = req[r].purpose
      BY <2>1, <2>3 DEF Request
    <2>5. req' = [req EXCEPT ![r] = request]
      BY <1>2 DEF merged
    <2>6. pc'[r] = "save_refreshed" /\ req'[r] = request
      BY <1>2, <2>5 DEF Goto, AuthIInv, AuthTypeOK
    <2>7. Carries(r)' /\ Descends(r)'
      BY <2>3, <2>4, <2>6
      DEF AuthIInv, Carries, Descends, OnToken, OnPage, Entering, Checking, tables, history
    <2>8. QED
      BY <1>2, <2>4, <2>5, <2>7, MoveStep DEF Labels, AuthIInv, AuthTypeOK
  <1>3. QED BY <1>1, <1>2

LEMMA ReadStep ==
    ASSUME AuthIInv, NEW r \in Requests,
           ReadStatus(r) \/ Reread(r) \/ ReadState(r) \/ ReadOwner(r)
    PROVE  AuthIInv'
  <1>1. /\ UNCHANGED <<tables, history>> /\ revoked' \in SUBSET Subjects /\ now' = now
        /\ pc \in [Requests -> Labels] /\ req \in [Requests -> Request]
    BY DEF AuthIInv, AuthTypeOK, ReadStatus, Reread, ReadState, ReadOwner
  <1>2. CASE \E a \in Answers : Answer(r, a)
    BY <1>1, <1>2, AnswerStep
  <1>3. ASSUME NEW label \in Labels, Goto(r, label), UNCHANGED req, Carries(r)', Descends(r)'
        PROVE  AuthIInv'
    <2>1. req' = [req EXCEPT ![r] = req[r]]
      BY <1>1, <1>3
    <2>2. QED BY <1>1, <1>3, <2>1, MoveStep
  <1> USE DEF Carries, Descends, OnToken, OnPage, Entering, Checking, Labels
  <1>4. ASSUME NEW label \in Labels, Goto(r, label), UNCHANGED req PROVE pc'[r] = label
    BY <1>1, <1>4 DEF Goto
  <1>5. CASE ReadStatus(r)
    BY <1>1, <1>3, <1>4, <1>5 DEF ReadStatus, AuthIInv, Goto
  <1>6. CASE Reread(r)
    BY <1>1, <1>2, <1>3, <1>4, <1>6 DEF Reread, AuthIInv, Answers
  <1>7. CASE ReadState(r)
    BY <1>1, <1>2, <1>3, <1>4, <1>7 DEF ReadState, AuthIInv, Answers, tables
  <1>8. CASE ReadOwner(r)
    <2>1. CASE Answer(r, "forbidden")
      BY <1>2, <2>1 DEF Answers
    <2>2. ASSUME NEW label \in {"set_owner", "save_token"}, Goto(r, label), UNCHANGED req,
                 label = "save_token" => owner = req[r].subject
          PROVE  AuthIInv'
      <3>1. pc'[r] = label /\ req'[r] = req[r]
        BY <1>1, <2>2 DEF Goto
      <3>2. Carries(r) /\ pc[r] = "read_owner"
        BY <1>8 DEF ReadOwner, AuthIInv
      <3>3. Carries(r)'
        BY <1>1, <2>2, <3>1, <3>2 DEF tables
      <3>4. Descends(r)'
        BY <3>1
      <3>5. label \in Labels
        OBVIOUS
      <3> HIDE DEF Carries, Descends, Labels
      <3>6. QED BY <1>3, <2>2, <3>3, <3>4, <3>5
    <2>3. QED BY <1>8, <2>1, <2>2 DEF ReadOwner
  <1>9. QED BY <1>5, <1>6, <1>7, <1>8
-----------------------------------------------------------------------------
(* The steps that write a table *)

(* What the other requests carry survives a table that keeps what they     *)
(* look at: the rows that exist, the subject of a link, and an owner.      *)
LEMMA OthersCarry ==
    ASSUME AuthIInv, NEW r \in Requests,
           \A q \in Requests \ {r} : pc'[q] = pc[q] /\ req'[q] = req[q],
           \A l \in Links : links[l] # None =>
               links'[l] # None /\ links'[l].subject = links[l].subject,
           \A u \in Subjects : tokens[u] # None => tokens'[u] # None,
           owner # None => owner' # None
    PROVE  \A q \in Requests \ {r} : Carries(q)'
  <1> SUFFICES ASSUME NEW q \in Requests \ {r} PROVE Carries(q)'
    OBVIOUS
  <1>1. Carries(q) /\ req[q] \in Request
    BY DEF AuthIInv, AuthTypeOK
  <1>2. QED BY <1>1 DEF Carries, OnToken, OnPage, Entering, Checking, Request

(* A link saved or spent. *)
LEMMA LinkStep ==
    ASSUME AuthIInv, NEW r \in Requests, NEW label \in {"idle", "exchange"},
           NEW request \in Request, NEW a \in Answers,
           NEW l \in Links, NEW link \in Link,
           pc' = [pc EXCEPT ![r] = label], req' = [req EXCEPT ![r] = request], answer' = a,
           links' = [links EXCEPT ![l] = link],
           links[l] # None => link.subject = links[l].subject,
           uses' \in [Links -> Nat],
           UNCHANGED <<tokens, owner, admins, now, revoked, latest, overtaken>>,
           label = "exchange" =>
               /\ request.link = l /\ request.subject # None
               /\ \/ request.purpose = "page"
                  \/ /\ request.purpose = "login" /\ request.subject \in Users
                     /\ link.subject = Admin
    PROVE  AuthIInv'
  <1> USE DEF AuthIInv, AuthTypeOK
  <1>1. link # None
    BY ConstantsAssumption
  <1>2. /\ links'[l] = link
        /\ \A k \in Links : links[k] # None =>
               links'[k] # None /\ links'[k].subject = links[k].subject
    BY <1>1
  <1>3. AuthTypeOK'
    BY DEF Labels
  <1>4. /\ pc'[r] = label /\ req'[r] = request
        /\ \A q \in Requests \ {r} : pc'[q] = pc[q] /\ req'[q] = req[q]
    OBVIOUS
  <1>5. \A q \in Requests \ {r} : Carries(q)'
    BY <1>2, <1>4, OthersCarry
  <1>6. l # None
    BY ConstantsAssumption
  <1>7. Carries(r)'
    BY <1>1, <1>2, <1>4, <1>6 DEF Carries, OnToken, OnPage, Entering, Checking
  <1>8. \A q \in Requests : Descends(q)'
    BY <1>4 DEF Descends
  <1>9. LatestGrantStands'
    BY DEF LatestGrantStands
  <1>10. SessionsAreCompared'
    BY <1>5, <1>7 DEF SessionsAreCompared, Carries, Entering
  <1>11. QED BY <1>3, <1>5, <1>7, <1>8, <1>9, <1>10

LEMMA SaveStateStep ==
    ASSUME AuthIInv, NEW r \in Requests, SaveState(r)
    PROVE  AuthIInv'
  <1> USE DEF AuthIInv, AuthTypeOK
  <1>1. PICK l \in Links :
            /\ links[l] = None
            /\ links' = [links EXCEPT ![l] =
                   [subject |-> req[r].subject, expires |-> now + LinkTtl,
                    consumed |-> FALSE]]
    BY DEF SaveState
  <1>2. now + LinkTtl \in Nat
    BY ConstantsAssumption
  <1>3. req[r].subject \in Subjects
    BY DEF SaveState, Carries, Request
  <1> DEFINE link == [subject |-> req[r].subject, expires |-> now + LinkTtl,
                      consumed |-> FALSE]
  <1>4. link \in Link
    BY <1>2, <1>3 DEF Link
  <1> HIDE DEF link
  <1>5. links' = [links EXCEPT ![l] = link]
    BY <1>1 DEF link
  <1>6. PICK a \in {"link", "none"} : Answer(r, a)
    BY DEF SaveState
  <1>7. a \in Answers
    BY DEF Answers
  <1>8. /\ uses' \in [Links -> Nat]
        /\ UNCHANGED <<tokens, owner, admins, now, revoked, latest, overtaken>>
    BY DEF SaveState, history
  <1>9. /\ pc' = [pc EXCEPT ![r] = "idle"] /\ req' = [req EXCEPT ![r] = NoRequest]
        /\ answer' = a
    BY <1>6 DEF Answer
  <1>10. QED
    BY <1>1, <1>4, <1>5, <1>7, <1>8, <1>9, NoRequestType, LinkStep

LEMMA ConsumeStateStep ==
    ASSUME AuthIInv, NEW r \in Requests, ConsumeState(r)
    PROVE  AuthIInv'
  <1>1. /\ req[r].link \in Links /\ links[req[r].link] \in Link
        /\ links[req[r].link] # None /\ req[r] \in Request
        /\ req[r].purpose = "login" => req[r].subject \in Users
        /\ req[r].subject # None
    BY DEF AuthIInv, AuthTypeOK, ConsumeState, Carries, OnPage, Checking, Request
  <1>2. PICK l \in Links, link \in Link :
            /\ l = req[r].link /\ link = [links[l] EXCEPT !.consumed = TRUE]
            /\ link.subject = links[l].subject
    <2>1. [links[req[r].link] EXCEPT !.consumed = TRUE] \in Link
      BY <1>1 DEF Link
    <2>2. [links[req[r].link] EXCEPT !.consumed = TRUE].subject = links[req[r].link].subject
      BY <1>1 DEF Link
    <2>3. QED BY <1>1, <2>1, <2>2
  <1>3. links' = [links EXCEPT ![l] = link]
    BY <1>1, <1>2 DEF ConsumeState, AuthIInv, AuthTypeOK
  <1>4. /\ uses' \in [Links -> Nat]
        /\ UNCHANGED <<tokens, owner, admins, now, revoked, latest, overtaken>>
    BY <1>1 DEF ConsumeState, AuthIInv, AuthTypeOK
  <1>5. ASSUME NEW label \in {"idle", "exchange"}, NEW request \in Request, NEW a \in Answers,
               pc' = [pc EXCEPT ![r] = label], req' = [req EXCEPT ![r] = request], answer' = a,
               label = "exchange" =>
                   /\ request.link = l /\ request.subject # None
                   /\ \/ request.purpose = "page"
                      \/ /\ request.purpose = "login" /\ request.subject \in Users
                         /\ link.subject = Admin
        PROVE  AuthIInv'
    BY <1>2, <1>3, <1>4, <1>5, LinkStep
  <1>6. CASE Answer(r, "invalid")
    BY <1>5, <1>6, NoRequestType DEF Answer, Answers
  <1>7. CASE /\ req[r].purpose = "page" /\ Goto(r, "exchange")
             /\ req' = [req EXCEPT ![r].subject = links[l].subject]
    <2>1. links[l].subject \in Subjects /\ links[l].subject # None
      BY <1>1, <1>2, ConstantsAssumption DEF Link
    <2>2. PICK request \in Request :
              /\ request = [req[r] EXCEPT !.subject = links[l].subject]
              /\ request.link = l /\ request.purpose = "page"
              /\ request.subject = links[l].subject
      <3> DEFINE request == [req[r] EXCEPT !.subject = links[l].subject]
      <3>1. /\ request \in Request /\ request.link = l /\ request.purpose = "page"
            /\ request.subject = links[l].subject
        BY <1>1, <1>2, <1>7, <2>1 DEF Request
      <3>2. QED BY <3>1
    <2>3. req' = [req EXCEPT ![r] = request]
      BY <1>7, <2>2
    <2>4. pc' = [pc EXCEPT ![r] = "exchange"] /\ answer' = "none" /\ "none" \in Answers
      BY <1>7 DEF Goto, Answers
    <2>5. QED BY <1>5, <2>1, <2>2, <2>3, <2>4
  <1>8. CASE /\ req[r].purpose = "login" /\ links[l].subject = Admin
             /\ Goto(r, "exchange") /\ UNCHANGED req
    <2>1. req' = [req EXCEPT ![r] = req[r]]
      BY <1>8 DEF AuthIInv, AuthTypeOK
    <2>2. pc' = [pc EXCEPT ![r] = "exchange"] /\ answer' = "none" /\ "none" \in Answers
      BY <1>8 DEF Goto, Answers
    <2>3. QED BY <1>1, <1>2, <1>5, <1>8, <2>1, <2>2
  <1>9. QED BY <1>2, <1>6, <1>7, <1>8 DEF ConsumeState

LEMMA ExchangeStep ==
    ASSUME AuthIInv, NEW r \in Requests, Exchange(r)
    PROVE  AuthIInv'
  <1>1. /\ UNCHANGED <<tables, history>> /\ revoked' \in SUBSET Subjects /\ now' = now
        /\ req[r] \in Request /\ Carries(r) /\ pc[r] = "exchange"
    BY DEF AuthIInv, AuthTypeOK, Exchange
  <1>2. CASE \E a \in {"refused", "unreachable"} : Answer(r, a)
    BY <1>1, <1>2, AnswerStep DEF Answers
  <1>3. ASSUME NEW token \in Answered(0), req' = [req EXCEPT ![r].token = token],
               Goto(r, IF req[r].purpose = "login" THEN "read_owner" ELSE "save_token")
        PROVE  AuthIInv'
    <2>1. token \in Token /\ token # None
      BY AnsweredType DEF AuthIInv, AuthTypeOK
    <2>2. PICK request \in Request :
              /\ request = [req[r] EXCEPT !.token = token]
              /\ request.token = token /\ request.link = req[r].link
              /\ request.purpose = req[r].purpose /\ request.subject = req[r].subject
      <3> DEFINE request == [req[r] EXCEPT !.token = token]
      <3>1. /\ request \in Request
            /\ request.token = token /\ request.link = req[r].link
            /\ request.purpose = req[r].purpose /\ request.subject = req[r].subject
        BY <1>1, <2>1 DEF Request
      <3>2. QED BY <3>1
    <2>3. req' = [req EXCEPT ![r] = request]
      BY <1>3, <2>2
    <2>4. PICK label \in {"read_owner", "save_token"} :
              /\ label = (IF req[r].purpose = "login" THEN "read_owner" ELSE "save_token")
              /\ Goto(r, label)
      BY <1>3
    <2>5. pc'[r] = label /\ req'[r] = request
      BY <2>3, <2>4 DEF Goto, AuthIInv, AuthTypeOK
    <2>6. Carries(r)' /\ Descends(r)'
      BY <1>1, <2>1, <2>2, <2>4, <2>5
      DEF Carries, Descends, OnToken, OnPage, Entering, Checking, tables
    <2>7. QED BY <1>1, <2>3, <2>4, <2>6, MoveStep DEF Labels
  <1>4. QED BY <1>2, <1>3 DEF Exchange

LEMMA SetOwnerStep ==
    ASSUME AuthIInv, NEW r \in Requests, SetOwner(r)
    PROVE  AuthIInv'
  <1> USE DEF AuthIInv, AuthTypeOK, SetOwner, Goto
  <1>1. /\ pc'[r] = "save_token" /\ UNCHANGED <<req, links, tokens>>
        /\ \A q \in Requests \ {r} : pc'[q] = pc[q]
    OBVIOUS
  <1>2. owner' \in Users /\ owner' # None
    BY ConstantsAssumption DEF Carries, OnPage, Entering, Subjects
  <1>3. \A q \in Requests \ {r} : Carries(q)'
    BY <1>1, <1>2, OthersCarry
  <1>4. Carries(r)'
    BY <1>1, <1>2 DEF Carries, OnToken, OnPage, Entering, Checking
  <1>5. AuthTypeOK'
    BY <1>2 DEF history, Labels, Answers
  <1>6. \A q \in Requests : Descends(q)'
    BY <1>1 DEF Descends, history
  <1>7. LatestGrantStands'
    BY DEF LatestGrantStands, history
  <1>8. SessionsAreCompared'
    BY <1>2, <1>3, <1>4 DEF SessionsAreCompared, Carries, Entering
  <1>9. QED BY <1>3, <1>4, <1>5, <1>6, <1>7, <1>8 DEF history
(* A token stored: of the last authorization, unless the subject is marked *)
(* as overtaken, and then so are the tokens that are being refreshed.      *)
LEMMA TokenStep ==
    ASSUME AuthIInv, NEW r \in Requests, NEW label \in {"idle", "reread"},
           NEW request \in Request, NEW a \in Answers, NEW u \in Subjects, NEW token \in Token,
           pc' = [pc EXCEPT ![r] = label], req' = [req EXCEPT ![r] = request], answer' = a,
           tokens' = [tokens EXCEPT ![u] = token],
           latest' \in [Subjects -> Nat], overtaken' \in SUBSET Subjects,
           admins' \in SUBSET Users, admins' # {} => owner # None,
           UNCHANGED <<links, owner, now, revoked, uses>>,
           \A v \in Subjects \ {u} : /\ latest'[v] = latest[v]
                                     /\ v \in overtaken' <=> v \in overtaken,
           latest[u] <= latest'[u], token.grant <= latest'[u],
           u \notin overtaken' =>
               /\ token.grant = latest'[u]
               /\ \A q \in Refreshing(u) \ {r} : req[q].token.grant = latest'[u],
           label = "reread" => /\ request.subject = u
                               /\ request.purpose \in {"link", "status"}
    PROVE  AuthIInv'
  <1> USE DEF AuthIInv, AuthTypeOK
  <1>1. /\ pc'[r] = label /\ req'[r] = request
        /\ \A q \in Requests \ {r} : pc'[q] = pc[q] /\ req'[q] = req[q]
    OBVIOUS
  <1>2. token # None /\ u # None
    BY ConstantsAssumption
  <1>3. AuthTypeOK'
    BY DEF Labels
  <1>4. \A q \in Requests \ {r} : Carries(q)'
    BY <1>1, <1>2, OthersCarry
  <1>5. Carries(r)'
    BY <1>1, <1>2 DEF Carries, OnToken, OnPage, Entering, Checking
  <1>6. ASSUME NEW q \in Requests, pc'[q] \in {"refresh", "save_refreshed"}
        PROVE  /\ tokens'[req'[q].subject] # None
               /\ req'[q].token.grant <= latest'[req'[q].subject]
               /\ req'[q].subject \notin overtaken' =>
                      req'[q].token.grant = latest'[req'[q].subject]
    <2>1. q # r /\ pc'[q] = pc[q] /\ req'[q] = req[q]
      BY <1>1, <1>6
    <2>2. Descends(q) /\ Carries(q) /\ req[q] \in Request
      BY <2>1
    <2> DEFINE v == req[q].subject
    <2>3. v \in Subjects /\ req[q].token \in Token
      BY <1>6, <2>1, <2>2 DEF Carries, Request
    <2>4. req[q].token.grant \in Nat
      BY <2>3 DEF Token
    <2>5. CASE v = u
      <3>1. q \in Refreshing(u) \ {r}
        BY <1>6, <2>1, <2>5 DEF Refreshing
      <3>2. req[q].token.grant <= latest[u]
        BY <1>6, <2>1, <2>2, <2>5 DEF Descends
      <3>3. latest[u] \in Nat /\ latest'[u] \in Nat
        OBVIOUS
      <3>4. req[q].token.grant <= latest'[u]
        BY <2>4, <3>2, <3>3
      <3>5. tokens'[u] # None
        BY <1>2
      <3>6. QED BY <2>1, <2>5, <3>1, <3>4, <3>5
    <2>6. CASE v # u
      BY <1>6, <2>1, <2>2, <2>3, <2>6 DEF Descends
    <2>7. QED BY <2>5, <2>6
  <1>7. \A q \in Requests : Descends(q)'
    BY <1>6 DEF Descends
  <1>8. \A v \in Subjects : tokens'[v] # None => tokens'[v].grant <= latest'[v]
    OBVIOUS
  <1>9. LatestGrantStands'
    BY DEF LatestGrantStands
  <1>10. SessionsAreCompared'
    BY <1>4, <1>5 DEF SessionsAreCompared, Carries, Entering
  <1>11. QED BY <1>3, <1>4, <1>5, <1>7, <1>8, <1>9, <1>10

LEMMA SaveRefreshedStep ==
    ASSUME AuthIInv, NEW r \in Requests, SaveRefreshed(r)
    PROVE  AuthIInv'
  <1>1. PICK u \in Subjects, token \in Token : u = req[r].subject /\ token = req[r].token
    BY DEF AuthIInv, AuthTypeOK, SaveRefreshed, Carries, Request
  <1>2. /\ token.grant \in Nat /\ token.grant <= latest[u]
        /\ u \notin overtaken => token.grant = latest[u]
    BY <1>1 DEF AuthIInv, SaveRefreshed, Descends, Token
  <1>3. u \notin overtaken => \A q \in Refreshing(u) : req[q].token.grant = latest[u]
    BY <1>1 DEF AuthIInv, Descends, Refreshing
  <1>4. ASSUME NEW label \in {"idle", "reread"}, NEW request \in Request, NEW a \in Answers,
               pc' = [pc EXCEPT ![r] = label], req' = [req EXCEPT ![r] = request], answer' = a,
               label = "reread" => /\ request.subject = u
                                   /\ request.purpose \in {"link", "status"}
        PROVE  AuthIInv'
    <2>1. /\ tokens' = [tokens EXCEPT ![u] = token]
          /\ UNCHANGED <<links, owner, now, revoked, uses>>
          /\ admins' = admins /\ latest' = latest /\ overtaken' = overtaken
      BY <1>1 DEF SaveRefreshed, history
    <2>2. /\ latest' = latest /\ overtaken' = overtaken
          /\ latest \in [Subjects -> Nat] /\ overtaken \in SUBSET Subjects
          /\ admins \in SUBSET Users /\ (admins # {} => owner # None)
      BY <2>1 DEF AuthIInv, AuthTypeOK, SessionsAreCompared
    <2>3. latest[u] \in Nat
      BY <2>2
    <2>4. /\ latest' \in [Subjects -> Nat]
          /\ overtaken' \in SUBSET Subjects
      BY <2>2
    <2>8. admins' \in SUBSET Users /\ (admins' # {} => owner # None)
      BY <2>1, <2>2
    <2>9. \A v \in Subjects \ {u} : /\ latest'[v] = latest[v]
                                    /\ v \in overtaken' <=> v \in overtaken
      BY <2>2
    <2>10. token.grant <= latest'[u]
      BY <1>2, <2>2
    <2>7. latest[u] <= latest'[u]
      BY <2>2, <2>3
    <2>5. u \notin overtaken' =>
               /\ token.grant = latest'[u]
               /\ \A q \in Refreshing(u) \ {r} : req[q].token.grant = latest'[u]
      BY <1>2, <1>3, <2>2
    <2>6. QED BY <1>4, <2>1, <2>4, <2>5, <2>7, <2>8, <2>9, <2>10, TokenStep
  <1>5. ASSUME NEW a \in Answers, Answer(r, a) PROVE AuthIInv'
    BY <1>4, <1>5, NoRequestType DEF Answer
  <1>6. CASE /\ req[r].purpose \in {"link", "status"} /\ Goto(r, "reread")
             /\ req' = [req EXCEPT ![r].access = TRUE]
    <2>1. PICK request \in Request :
              /\ request = [req[r] EXCEPT !.access = TRUE]
              /\ request.subject = u /\ request.purpose \in {"link", "status"}
      <3> DEFINE request == [req[r] EXCEPT !.access = TRUE]
      <3>1. request \in Request /\ request.subject = u /\ request.purpose = req[r].purpose
        BY <1>1 DEF AuthIInv, AuthTypeOK, Request
      <3>2. QED BY <1>6, <3>1
    <2>2. /\ req' = [req EXCEPT ![r] = request] /\ pc' = [pc EXCEPT ![r] = "reread"]
          /\ answer' = "none" /\ "none" \in Answers
      BY <1>6, <2>1 DEF Goto, Answers
    <2>3. QED BY <1>4, <2>1, <2>2
  <1>7. QED BY <1>5, <1>6 DEF SaveRefreshed, Granted, Answers

LEMMA SaveTokenStep ==
    ASSUME AuthIInv, NEW r \in Requests, SaveToken(r)
    PROVE  AuthIInv'
  <1>1. /\ req[r].subject \in Subjects /\ req[r].token \in Token /\ pc[r] = "save_token"
        /\ req[r].purpose = "login" => req[r].subject \in Users /\ owner # None
    BY DEF AuthIInv, AuthTypeOK, SaveToken, Carries, OnPage, Entering, Request
  <1>2. PICK u \in Subjects, token \in Token :
            u = req[r].subject /\ token = [req[r].token EXCEPT !.grant = latest[u] + 1]
    <2>1. [req[r].token EXCEPT !.grant = latest[req[r].subject] + 1] \in Token
      BY <1>1 DEF AuthIInv, AuthTypeOK, Token
    <2>2. QED BY <1>1, <2>1
  <1>3. latest[u] \in Nat /\ token.grant = latest[u] + 1
    BY <1>1, <1>2 DEF AuthIInv, AuthTypeOK, Token
  <1>4. /\ tokens' = [tokens EXCEPT ![u] = token]
        /\ latest' = [latest EXCEPT ![u] = @ + 1]
        /\ overtaken' = IF Refreshing(u) = {} THEN overtaken \ {u} ELSE overtaken \cup {u}
        /\ UNCHANGED <<links, owner, now, revoked, uses>>
    BY <1>2 DEF SaveToken
  <1>5. /\ latest' \in [Subjects -> Nat] /\ latest'[u] = latest[u] + 1
        /\ overtaken' \in SUBSET Subjects
        /\ \A v \in Subjects \ {u} : /\ latest'[v] = latest[v]
                                     /\ v \in overtaken' <=> v \in overtaken
        /\ u \notin overtaken' => Refreshing(u) = {}
    BY <1>4 DEF AuthIInv, AuthTypeOK
  <1>6. PICK a \in Answers : Answer(r, a)
    BY DEF SaveToken, Answers
  <1>7. admins' \in SUBSET Users /\ (admins' # {} => owner # None)
    BY <1>1 DEF SaveToken, AuthIInv, AuthTypeOK, SessionsAreCompared
  <1>8. /\ pc' = [pc EXCEPT ![r] = "idle"] /\ req' = [req EXCEPT ![r] = NoRequest]
        /\ answer' = a
    BY <1>6 DEF Answer
  <1>9. /\ latest[u] <= latest'[u] /\ token.grant <= latest'[u]
        /\ token.grant = latest'[u]
    BY <1>3, <1>5
  <1>10. QED
    BY <1>4, <1>5, <1>7, <1>8, <1>9, NoRequestType, TokenStep
-----------------------------------------------------------------------------
LEMMA WorldStep ==
    ASSUME AuthIInv, Tick \/ Withdraw \/ UNCHANGED vars
    PROVE  AuthIInv'
  <1>1. /\ UNCHANGED <<links, tokens, owner, admins, pc, req, latest, overtaken, uses>>
        /\ answer' \in Answers /\ now' \in Nat /\ revoked' \in SUBSET Subjects
    BY DEF Tick, Withdraw, vars, tables, history, AuthIInv, AuthTypeOK, Answers, Subjects
  <1>2. AuthTypeOK'
    BY <1>1 DEF AuthIInv, AuthTypeOK
  <1>3. QED
    BY <1>1, <1>2 DEF AuthIInv, Carries, Descends, LatestGrantStands, SessionsAreCompared

LEMMA AuthStep ==
    ASSUME AuthIInv, [Next]_vars
    PROVE  AuthIInv'
  <1>1. ASSUME NEW r \in Requests, Abort(r) PROVE AuthIInv'
    BY <1>1, AnswerStep DEF Abort, Answers, AuthIInv, AuthTypeOK
  <1>2. ASSUME NEW r \in Requests, Proceed(r) PROVE AuthIInv'
    BY <1>2, ReadTokenStep, RefreshStep, SaveRefreshedStep, ReadStep, SaveStateStep,
       ConsumeStateStep, ExchangeStep, SetOwnerStep, SaveTokenStep DEF Proceed
  <1>3. QED BY <1>1, <1>2, ArriveStep, WorldStep DEF Next

THEOREM AuthInductive == Spec => []AuthIInv
  <1>1. Init => AuthIInv
    BY DEF Init, AuthIInv, AuthTypeOK, Carries, Descends, OnToken, OnPage, Entering, Checking,
           LatestGrantStands, SessionsAreCompared, NoRequest, Request, Labels, Answers
  <1>2. AuthIInv /\ [Next]_vars => AuthIInv'
    BY AuthStep
  <1>3. QED BY <1>1, <1>2, PTL DEF Spec
-----------------------------------------------------------------------------
(* Every state of Authorization is well typed.                             *)
THEOREM AuthTypeCorrect == Spec => []AuthTypeOK
  <1>1. AuthIInv => AuthTypeOK
    BY DEF AuthIInv
  <1>2. QED BY AuthInductive, <1>1, PTL

(* A refresh that is not crossed by an authorization never stores a token  *)
(* of an older one.                                                        *)
THEOREM LatestGrants == Spec => []LatestGrantStands
  <1>1. AuthIInv => LatestGrantStands
    BY DEF AuthIInv
  <1>2. QED BY AuthInductive, <1>1, PTL

(* Every session of the admin page is compared with an owner.              *)
THEOREM AdminsAreCompared == Spec => []SessionsAreCompared
  <1>1. AuthIInv => SessionsAreCompared
    BY DEF AuthIInv
  <1>2. QED BY AuthInductive, <1>1, PTL
-----------------------------------------------------------------------------
(* A step of r leaves the step of every other request alone, and moves r   *)
(* to "idle" or on.                                                        *)
LEMMA OneMoves ==
    ASSUME AuthIInv, NEW r \in Requests, Arrive(r) \/ Proceed(r) \/ Abort(r)
    PROVE  /\ \A q \in Requests \ {r} : pc'[q] = pc[q] /\ req'[q] = req[q]
           /\ pc'[r] = "consume_state" => ReadState(r)
           /\ pc'[r] = "set_owner" => ReadOwner(r)
  <1> USE DEF AuthIInv, AuthTypeOK
  <1>1. CASE Arrive(r)
    BY <1>1 DEF Arrive, Ask, Call, StartLink, AdminLogin, Callback, Begin
  <1>2. CASE ReadToken(r) \/ Refresh(r) \/ SaveRefreshed(r)
    BY <1>2 DEF ReadToken, Refresh, SaveRefreshed, NoToken, Granted, Goto, Answer
  <1>3. CASE ReadStatus(r) \/ Reread(r) \/ SaveState(r)
    BY <1>3 DEF ReadStatus, Reread, SaveState, Goto, Answer
  <1>4. CASE ReadState(r) \/ ConsumeState(r) \/ Exchange(r)
    BY <1>4 DEF ReadState, ConsumeState, Exchange, Goto, Answer
  <1>5. CASE ReadOwner(r) \/ SetOwner(r) \/ SaveToken(r)
    BY <1>5 DEF ReadOwner, SetOwner, SaveToken, Goto, Answer
  <1>6. CASE Abort(r)
    BY <1>6 DEF Abort, Answer
  <1>7. QED BY <1>1, <1>2, <1>3, <1>4, <1>5, <1>6 DEF Proceed

(* The links and the owner change in three steps only.                     *)
LEMMA WritersOfTables ==
    ASSUME AuthIInv, [Next]_vars
    PROVE  /\ \/ UNCHANGED <<links, uses>>
              \/ \E r \in Requests : SaveState(r) \/ ConsumeState(r)
           /\ owner' = owner \/ \E r \in Requests : SetOwner(r)
  <1> USE DEF tables, history
  <1>1. CASE Tick \/ Withdraw \/ UNCHANGED vars
    BY <1>1 DEF Tick, Withdraw, vars
  <1>2. ASSUME NEW r \in Requests, Arrive(r) \/ Abort(r)
        PROVE  UNCHANGED <<links, uses, owner>>
    BY <1>2 DEF Arrive, Ask, Call, StartLink, AdminLogin, Callback, Begin, Abort
  <1>3. ASSUME NEW r \in Requests, Proceed(r)
        PROVE  /\ UNCHANGED <<links, uses>> \/ SaveState(r) \/ ConsumeState(r)
               /\ owner' = owner \/ SetOwner(r)
    BY <1>3 DEF Proceed, ReadToken, Refresh, SaveRefreshed, ReadStatus, Reread, SaveState,
                ReadState, ConsumeState, Exchange, ReadOwner, SetOwner, SaveToken
  <1>4. QED BY <1>1, <1>2, <1>3 DEF Next

(* A link that was consumed, and that no request is about to consume, lets *)
(* nobody in any more: the SELECT and the UPDATE of consume_oauth_state    *)
(* leave a window, and that is the whole of it.                            *)
THEOREM LinksSettle == Spec => LinkSettles
  <1>1. ASSUME AuthIInv, [Next]_vars, NEW l \in Links,
               links[l] # None, links[l].consumed, Taking(l) = {}
        PROVE  links'[l] = links[l] /\ uses'[l] = uses[l] /\ Taking(l)' = {}
    <2>1. UNCHANGED <<links, uses>> => links'[l] = links[l] /\ uses'[l] = uses[l]
      OBVIOUS
    <2>2. ASSUME NEW r \in Requests, SaveState(r)
          PROVE  links'[l] = links[l] /\ uses'[l] = uses[l]
      BY <1>1, <2>2 DEF SaveState, history, AuthIInv, AuthTypeOK
    <2>3. ASSUME NEW r \in Requests, ConsumeState(r)
          PROVE  links'[l] = links[l] /\ uses'[l] = uses[l]
      <3>1. req[r].link # l
        BY <1>1, <2>3 DEF ConsumeState, Taking
      <3>2. QED BY <1>1, <2>3, <3>1 DEF ConsumeState, AuthIInv, AuthTypeOK
    <2>4. ASSUME NEW q \in Requests, pc'[q] = "consume_state", req'[q].link = l
          PROVE  FALSE
      <3>1. CASE Tick \/ Withdraw \/ UNCHANGED vars
        BY <1>1, <2>4, <3>1 DEF Tick, Withdraw, vars, tables, Taking
      <3>2. ASSUME NEW r \in Requests, Arrive(r) \/ Proceed(r) \/ Abort(r)
            PROVE  FALSE
        <4>1. q # r => pc[q] = "consume_state" /\ req[q].link = l
          BY <1>1, <2>4, <3>2, OneMoves
        <4>2. q = r => ReadState(r)
          BY <1>1, <2>4, <3>2, OneMoves
        <4>3. ASSUME q = r, ReadState(r) PROVE FALSE
          <5>1. CASE Answer(r, "invalid")
            BY <1>1, <2>4, <4>3, <5>1 DEF Answer, AuthIInv, AuthTypeOK
          <5>2. CASE ~links[req[r].link].consumed /\ UNCHANGED req
            BY <1>1, <2>4, <4>3, <5>2
          <5>3. QED BY <4>3, <5>1, <5>2 DEF ReadState
        <4>4. QED BY <1>1, <4>1, <4>2, <4>3 DEF Taking
      <3>3. QED BY <1>1, <3>1, <3>2 DEF Next
    <2>5. links'[l] = links[l] /\ uses'[l] = uses[l]
      BY <1>1, <2>1, <2>2, <2>3, WritersOfTables
    <2>6. QED BY <2>4, <2>5 DEF Taking
  <1>2. AuthIInv /\ [Next]_vars =>
            [\A l \in Links :
                links[l] # None /\ links[l].consumed /\ Taking(l) = {} =>
                    links'[l] = links[l] /\ uses'[l] = uses[l] /\ Taking(l)' = {}]_vars
    BY <1>1
  <1>3. QED BY <1>2, AuthInductive, PTL DEF Spec, LinkSettles

(* Once the logins that found no owner are through, the admin page has the *)
(* same owner for ever.                                                    *)
THEOREM OwnerIsFinal == Spec => OwnerSettles
  <1>1. ASSUME AuthIInv, [Next]_vars, owner # None, Binding = {}
        PROVE  owner' = owner /\ Binding' = {}
    <2>1. owner' = owner
      BY <1>1, WritersOfTables DEF SetOwner, Binding
    <2>2. ASSUME NEW q \in Requests, pc'[q] = "set_owner" PROVE FALSE
      <3>1. CASE Tick \/ Withdraw \/ UNCHANGED vars
        BY <1>1, <2>2, <3>1 DEF Tick, Withdraw, vars, tables, Binding
      <3>2. ASSUME NEW r \in Requests, Arrive(r) \/ Proceed(r) \/ Abort(r)
            PROVE  FALSE
        <4>1. q # r => pc[q] = "set_owner"
          BY <1>1, <2>2, <3>2, OneMoves
        <4>2. q = r => ReadOwner(r)
          BY <1>1, <2>2, <3>2, OneMoves
        <4>3. ASSUME q = r, ReadOwner(r) PROVE FALSE
          BY <1>1, <2>2, <4>3 DEF ReadOwner, Goto, Answer, AuthIInv, AuthTypeOK
        <4>4. QED BY <1>1, <4>1, <4>2, <4>3 DEF Binding
      <3>3. QED BY <1>1, <3>1, <3>2 DEF Next
    <2>3. QED BY <2>1, <2>2 DEF Binding
  <1>2. AuthIInv /\ [Next]_vars =>
            [owner # None /\ Binding = {} => owner' = owner /\ Binding' = {}]_vars
    BY <1>1
  <1>3. QED BY <1>2, AuthInductive, PTL DEF Spec, OwnerSettles

(* However refreshes cross and whatever Feishu leaves out of its answers,  *)
(* a stored refresh token is only ever replaced by another.                *)
THEOREM RefreshTokensStay == Spec => RefreshTokenStays
  <1>1. ASSUME AuthIInv, [Next]_vars, NEW u \in Subjects, tokens[u] # None
        PROVE  /\ tokens'[u] # None
               /\ tokens'[u].grant = tokens[u].grant /\ tokens[u].refresh =>
                      tokens'[u].refresh
    <2>1. CASE tokens' = tokens
      BY <1>1, <2>1
    <2>2. ASSUME NEW r \in Requests, SaveRefreshed(r)
          PROVE  /\ tokens'[u] # None
                 /\ tokens[u].refresh => tokens'[u].refresh
      <3>1. /\ req[r].token # None /\ req[r].token.refresh
            /\ tokens' = [tokens EXCEPT ![req[r].subject] = req[r].token]
        BY <1>1, <2>2 DEF SaveRefreshed, AuthIInv, Carries
      <3>2. QED BY <1>1, <3>1 DEF AuthIInv, AuthTypeOK
    <2>3. ASSUME NEW r \in Requests, SaveToken(r)
          PROVE  /\ tokens'[u] # None
                 /\ req[r].subject = u => tokens'[u].grant # tokens[u].grant
                 /\ req[r].subject # u => tokens'[u] = tokens[u]
      <3>1. /\ req[r].subject \in Subjects /\ req[r].token \in Token
        BY <1>1, <2>3 DEF SaveToken, AuthIInv, AuthTypeOK, Carries, Entering, OnPage, Request
      <3>2. PICK token \in Token :
                /\ tokens' = [tokens EXCEPT ![req[r].subject] = token]
                /\ token.grant = latest[req[r].subject] + 1
        <4> DEFINE t == [req[r].token EXCEPT !.grant = latest[req[r].subject] + 1]
        <4>1. t \in Token /\ t.grant = latest[req[r].subject] + 1
          BY <1>1, <3>1 DEF AuthIInv, AuthTypeOK, Token
        <4>2. tokens' = [tokens EXCEPT ![req[r].subject] = t]
          BY <2>3 DEF SaveToken
        <4>3. QED BY <4>1, <4>2
      <3>3. token # None
        BY ConstantsAssumption
      <3>4. tokens[u].grant <= latest[u] /\ latest[u] \in Nat /\ tokens[u] \in Token
        BY <1>1 DEF AuthIInv, AuthTypeOK
      <3>5. tokens[u].grant \in Nat
        BY <3>4 DEF Token
      <3>6. latest[u] + 1 # tokens[u].grant
        BY <3>4, <3>5
      <3>7. QED BY <1>1, <3>1, <3>2, <3>3, <3>6 DEF AuthIInv, AuthTypeOK
    <2>4. \/ tokens' = tokens
          \/ \E r \in Requests : SaveRefreshed(r) \/ SaveToken(r)
      <3> USE DEF tables
      <3>1. CASE Tick \/ Withdraw \/ UNCHANGED vars
        BY <3>1 DEF Tick, Withdraw, vars
      <3>2. ASSUME NEW r \in Requests, Arrive(r) \/ Abort(r) PROVE tokens' = tokens
        BY <3>2 DEF Arrive, Ask, Call, StartLink, AdminLogin, Callback, Begin, Abort
      <3>3. ASSUME NEW r \in Requests, Proceed(r)
            PROVE  tokens' = tokens \/ SaveRefreshed(r) \/ SaveToken(r)
        BY <3>3 DEF Proceed, ReadToken, Refresh, ReadStatus, Reread, SaveState,
                    ReadState, ConsumeState, Exchange, ReadOwner, SetOwner
      <3>4. QED BY <1>1, <3>1, <3>2, <3>3 DEF Next
    <2>5. QED BY <1>1, <2>1, <2>2, <2>3, <2>4
  <1>2. AuthIInv /\ [Next]_vars =>
            [\A u \in Subjects : tokens[u] # None =>
                /\ tokens'[u] # None
                /\ tokens'[u].grant = tokens[u].grant /\ tokens[u].refresh =>
                       tokens'[u].refresh]_tokens
    BY <1>1
  <1>3. QED BY <1>2, AuthInductive, PTL DEF Spec, RefreshTokenStays
=============================================================================
