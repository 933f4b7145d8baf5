------------------------- MODULE ScopedRequestsProofs -------------------------
(***************************************************************************)
(* Proofs about ScopedRequests, for any number of requests, scopes, people *)
(* and tokens.                                                             *)
(***************************************************************************)
EXTENDS ScopedRequests, TLAPS

(***************************************************************************)
(* Owned: whoever is signed in owns the current scope; a request, once it  *)
(* has asked, belongs to a scope that exists, and carries the credentials  *)
(* of its owner or none.                                                   *)
(***************************************************************************)
UserOwns ==
    /\ user = NoUser \/ user.subject \in Subjects
    /\ user # NoUser => owner[gen] = user.subject /\ user.token \in 1..tokens

Belongs(r) ==
    /\ reqs[r].phase # "idle" => reqs[r].scope \in 1..gen
    /\ reqs[r].subject # None => reqs[r].scope \in 1..gen /\ owner[reqs[r].scope] = reqs[r].subject

Kept(entry) ==
    /\ entry[1] \in 1..gen
    /\ entry[2] # None => owner[entry[1]] = entry[2]

Owned ==
    /\ UserOwns
    /\ \A r \in Requests : Belongs(r)
    /\ \A entry \in cache : Kept(entry)
    /\ CallbacksInScope

(***************************************************************************)
(* Fenced: the revision tells the present credentials from earlier ones.   *)
(* It moves on when a renewal starts, so that what was sent before it is   *)
(* told apart from what is sent with the renewed token, although the token *)
(* itself only changes when the renewal arrives.                           *)
(***************************************************************************)
Private(r) ==
    /\ reqs[r].phase \in {"sent", "answered"} /\ reqs[r].kind # "public"
    /\ Current(r)

Renewing == refreshing # None /\ refreshing.scope = gen /\ refreshing.token = user.token

Fenced ==
    /\ \A r \in Requests : reqs[r].rev <= serial
    /\ \A r \in Requests : Private(r) /\ reqs[r].rev = serial => reqs[r].token = user.token
    /\ Renewing => user.aged /\ \A r \in Requests : Private(r) => reqs[r].rev < serial
    /\ refreshing # None => refreshing.scope <= gen
    /\ LateRefusalHarmless

(***************************************************************************)
(* Unspent: a refresh token that is still held was not presented, unless   *)
(* by the renewal that is under way for it.                                *)
(***************************************************************************)
Unspent ==
    /\ PresentedOnce
    /\ \A t \in 1..MaxTokens : t > tokens => presented[t] = 0
    /\ user # NoUser /\ ~ Renewing => presented[user.token] = 0

Inv == TypeOK /\ Owned /\ Fenced /\ Unspent

-------------------------------------------------------------------------------
LEMMA InitInv == Init => Inv
<1> SUFFICES ASSUME Init PROVE Inv
  OBVIOUS
<1> USE RequestsAssumption DEF Init
<1>1. TypeOK
  BY DEF TypeOK, Leased, Idle, Phases, NoUser
<1>2. Owned
  BY DEF Owned, UserOwns, Belongs, Kept, CallbacksInScope, Idle, NoUser
<1>3. Fenced
  BY DEF Fenced, Private, Current, Renewing, LateRefusalHarmless, Idle, NoUser
<1>4. Unspent
  BY DEF Unspent, PresentedOnce, NoUser, Renewing
<1> QED BY <1>1, <1>2, <1>3, <1>4 DEF Inv

\* What a step leaves of the session and the rest while one request moves on.
LEMMA Moves ==
    ASSUME Inv, NEW r \in Requests, NEW q \in Leased, Becomes(r, q),
           UNCHANGED session, q.rev <= serial,
           q.phase # "idle" => q.scope \in 1..gen,
           q.subject # None => q.scope \in 1..gen /\ owner[q.scope] = q.subject,
           \/ q.phase \notin {"sent", "answered"} \/ q.kind = "public"
           \/ q.scope # gen
           \/ /\ ~ Renewing \/ q.rev < serial
              /\ q.rev = serial => q.token = user.token
    PROVE  /\ TypeOK' /\ Fenced' /\ Unspent' /\ UserOwns'
           /\ \A p \in Requests : Belongs(p)'
<1> USE DEF Inv, Becomes, session
<1>1. reqs' \in [Requests -> Leased] /\ reqs'[r] = q
  BY DEF TypeOK
<1>2. \A p \in Requests : p # r => reqs'[p] = reqs[p]
  BY DEF TypeOK
<1>3. TypeOK'
  BY <1>1 DEF TypeOK
<1>4. Fenced'
  BY <1>1, <1>2 DEF TypeOK, Fenced, Private, Current, Renewing, LateRefusalHarmless
<1>5. Unspent'
  BY DEF Unspent, PresentedOnce, Renewing
<1>6. UserOwns'
  BY DEF Owned, UserOwns
<1>7. \A p \in Requests : Belongs(p)'
  BY <1>1, <1>2 DEF Owned, Belongs
<1> QED BY <1>3, <1>4, <1>5, <1>6, <1>7

\* A request that is over stands in nobody's way.
LEMMA Settles ==
    ASSUME Inv, NEW r \in Requests, reqs[r].phase # "idle", Settled(r), UNCHANGED session
    PROVE  /\ TypeOK' /\ Fenced' /\ Unspent' /\ UserOwns'
           /\ \A p \in Requests : Belongs(p)'
<1> DEFINE q == [reqs[r] EXCEPT !.phase = "settled"]
<1>1. reqs[r] \in Leased
  BY DEF Inv, TypeOK
<1>2. q \in Leased /\ q.phase = "settled" /\ q.scope = reqs[r].scope
      /\ q.subject = reqs[r].subject /\ q.rev = reqs[r].rev
  BY <1>1 DEF Leased, Phases
<1>3. Belongs(r) /\ reqs[r].rev <= serial
  BY DEF Inv, Owned, Fenced
<1> HIDE DEF q
<1>4. Becomes(r, q)
  BY DEF Settled, q
<1> QED BY <1>2, <1>3, <1>4, Moves DEF Belongs

\* The scope is replaced: what belonged to it still does, and nobody is in it.
LEMMA Ends ==
    ASSUME Inv, EndSession, UNCHANGED <<tokens, presented>>,
           reqs' \in [Requests -> Leased],
           refreshing' \in {refreshing, None},
           \A p \in Requests :
               /\ reqs'[p].scope = reqs[p].scope /\ reqs'[p].subject = reqs[p].subject
               /\ reqs'[p].rev = reqs[p].rev
               /\ reqs[p].phase = "idle" => reqs'[p].phase = "idle",
           LateRefusalHarmless'
    PROVE  /\ TypeOK' /\ Fenced' /\ Unspent' /\ UserOwns'
           /\ \A p \in Requests : Belongs(p)'
           /\ \A e \in cache : Kept(e)'
<1>1. /\ gen \in Nat /\ gen' = gen + 1 /\ gen' \in 1..MaxGen
      /\ serial \in Nat /\ serial' = serial + 1 /\ user' = NoUser
      /\ \A g \in 1..gen : owner'[g] = owner[g]
  BY RequestsAssumption DEF Inv, TypeOK, EndSession, Rescope
<1>2. TypeOK'
  BY <1>1, RequestsAssumption DEF Inv, TypeOK, NoUser, EndSession, Rescope
<1>3. ASSUME NEW p \in Requests PROVE Belongs(p)' /\ ~ Private(p)' /\ reqs'[p].rev <= serial'
  <2>1. Belongs(p) /\ reqs[p].rev <= serial /\ reqs[p].rev \in Nat
    BY DEF Inv, Owned, Fenced, TypeOK, Leased
  <2>2. /\ reqs'[p].scope = reqs[p].scope /\ reqs'[p].subject = reqs[p].subject
        /\ reqs'[p].rev = reqs[p].rev
        /\ reqs[p].phase = "idle" => reqs'[p].phase = "idle"
    OBVIOUS
  <2>3. Belongs(p)'
    BY <1>1, <2>1, <2>2 DEF Belongs
  <2>4. ~ Private(p)'
    BY <1>1, <2>1, <2>2 DEF Belongs, Private, Current
  <2> QED BY <1>1, <2>1, <2>2, <2>3, <2>4
<1>4. ~ Renewing' /\ (refreshing' # None => refreshing'.scope <= gen')
  <2>1. refreshing' # None => refreshing' = refreshing /\ refreshing.scope <= gen /\ refreshing.scope \in Nat
    BY DEF Inv, Fenced, TypeOK, Renewals
  <2> QED BY <1>1, <2>1 DEF Renewing
<1>5. Fenced'
  BY <1>3, <1>4 DEF Fenced
<1>6. Unspent'
  BY <1>1 DEF Inv, Unspent, PresentedOnce
<1>7. UserOwns'
  BY <1>1 DEF UserOwns
<1>8. \A e \in cache : Kept(e)'
  BY <1>1 DEF Inv, Owned, Kept
<1> QED BY <1>2, <1>3, <1>5, <1>6, <1>7, <1>8

-------------------------------------------------------------------------------
LEMMA SignInInv == ASSUME Inv, NEW s \in Subjects, SignIn(s) PROVE Inv'
<1> USE RequestsAssumption DEF Inv, SignIn, Rescope
<1>1. gen' = gen + 1 /\ gen' \in 1..MaxGen /\ tokens' = tokens + 1 /\ tokens' \in 1..MaxTokens
  BY DEF TypeOK
<1>2. /\ owner'[gen'] = s /\ user' # NoUser
      /\ user'.subject = s /\ user'.token = tokens + 1
  BY <1>1 DEF TypeOK, NoUser
<1>3. \A g \in 1..gen : owner'[g] = owner[g]
  BY DEF TypeOK
<1>4. TypeOK'
  BY <1>1 DEF TypeOK
<1>5. serial \in Nat /\ serial' = serial + 1 /\ gen \in Nat
  BY DEF TypeOK
<1>6. ASSUME NEW p \in Requests PROVE Belongs(p)' /\ ~ Private(p)' /\ reqs'[p].rev <= serial'
  <2>1. Belongs(p) /\ reqs[p].rev <= serial /\ reqs[p].rev \in Nat /\ reqs' = reqs
    BY DEF Owned, Fenced, TypeOK, Leased
  <2>2. Belongs(p)' /\ ~ Private(p)'
    BY <1>1, <1>3, <1>5, <2>1 DEF Belongs, Private, Current
  <2> QED BY <1>5, <2>1, <2>2
<1>7. \A e \in cache : Kept(e)'
  BY <1>1, <1>3 DEF TypeOK, Owned, Kept
<1>8. Owned'
  BY <1>1, <1>2, <1>6, <1>7 DEF Owned, UserOwns, CallbacksInScope
<1>9. ~ Renewing' /\ (refreshing' # None => refreshing'.scope <= gen')
  <2>1. refreshing' = refreshing /\ (refreshing # None => refreshing.scope <= gen /\ refreshing.scope \in Nat)
    BY DEF Fenced, TypeOK, Renewals
  <2> QED BY <1>1, <1>5, <2>1 DEF Renewing
<1>10. Fenced'
  BY <1>6, <1>9 DEF Fenced, LateRefusalHarmless
<1>11. Unspent'
  BY <1>1, <1>2 DEF TypeOK, Unspent, PresentedOnce
<1> QED BY <1>4, <1>8, <1>10, <1>11

LEMMA LeaveInv == ASSUME Inv, Leave PROVE Inv'
<1>1. /\ TypeOK' /\ Fenced' /\ Unspent' /\ UserOwns'
      /\ \A p \in Requests : Belongs(p)'
      /\ \A e \in cache : Kept(e)'
  <2>1. LateRefusalHarmless' /\ reqs' \in [Requests -> Leased]
    BY DEF Inv, Fenced, Leave, LateRefusalHarmless, TypeOK
  <2> QED BY <2>1, Ends DEF Leave
<1> QED BY <1>1 DEF Inv, Owned, Leave, CallbacksInScope

LEMMA AgeInv == ASSUME Inv, Age PROVE Inv'
<1> USE DEF Inv, Age
<1>1. /\ user' \in [subject : Subjects \cup {None}, token : 0..MaxTokens, aged : BOOLEAN]
      /\ user'.subject = user.subject /\ user'.token = user.token /\ user'.aged
  BY DEF TypeOK
<1>2. user' # NoUser
  BY <1>1 DEF NoUser
<1>3. TypeOK'
  BY <1>1 DEF TypeOK
<1>4. Owned'
  BY <1>1, <1>2 DEF Owned, UserOwns, Belongs, Kept, CallbacksInScope, NoUser
<1>5. Fenced'
  BY <1>1 DEF Fenced, Private, Current, Renewing, LateRefusalHarmless
<1>6. Unspent'
  BY <1>1, <1>2 DEF Unspent, PresentedOnce, Renewing
<1> QED BY <1>3, <1>4, <1>5, <1>6

-------------------------------------------------------------------------------
LEMMA SendInv == ASSUME Inv, NEW r \in Requests, Send(r) PROVE Inv'
<1> DEFINE public == reqs[r].kind = "public"
           q == [reqs[r] EXCEPT !.phase = "sent",
                     !.rev = IF public THEN 0 ELSE serial,
                     !.token = IF public THEN 0 ELSE user.token,
                     !.subject = IF public THEN None ELSE user.subject]
<1>1. reqs[r] \in Leased /\ user \in [subject : Subjects \cup {None}, token : 0..MaxTokens, aged : BOOLEAN]
      /\ serial \in Nat /\ gen \in Nat
  BY RequestsAssumption DEF Inv, TypeOK
<1>2. /\ q \in Leased /\ q.phase = "sent" /\ q.scope = gen /\ q.kind = reqs[r].kind
      /\ q.rev = (IF public THEN 0 ELSE serial)
      /\ q.token = (IF public THEN 0 ELSE user.token)
      /\ q.subject = (IF public THEN None ELSE user.subject)
  <2> DEFINE a == [reqs[r] EXCEPT !.phase = "sent"]
             b == [a EXCEPT !.rev = IF public THEN 0 ELSE serial]
             c == [b EXCEPT !.token = IF public THEN 0 ELSE user.token]
  <2>1. reqs[r].scope = gen
    BY DEF Send, Leasing, Current
  <2>2. a \in Leased /\ a.phase = "sent" /\ a.scope = gen /\ a.kind = reqs[r].kind
    BY <1>1, <2>1 DEF Leased, Phases
  <2>3. /\ b \in Leased /\ b.phase = "sent" /\ b.scope = gen /\ b.kind = reqs[r].kind
        /\ b.rev = (IF public THEN 0 ELSE serial)
    <3> HIDE DEF a
    <3> QED BY <1>1, <2>2 DEF Leased
  <2>4. /\ c \in Leased /\ c.phase = "sent" /\ c.scope = gen /\ c.kind = reqs[r].kind
        /\ c.rev = (IF public THEN 0 ELSE serial)
        /\ c.token = (IF public THEN 0 ELSE user.token)
    <3> HIDE DEF b
    <3> QED BY <1>1, <2>3, RequestsAssumption DEF Leased
  <2>5. q = [c EXCEPT !.subject = IF public THEN None ELSE user.subject]
    OBVIOUS
  <2> HIDE DEF c, q
  <2> QED BY <1>1, <2>4, <2>5 DEF Leased
<1>3. reqs[r].scope \in 1..gen
  BY DEF Inv, Owned, Belongs, Send, Leasing
<1>4. ~ public => ~ Renewing /\ owner[gen] = user.subject
  BY <1>1 DEF Inv, Fenced, Owned, UserOwns, Send, Leasing
<1>5. Becomes(r, q)
  BY DEF Send, Sent
<1> HIDE DEF q
<1>6. /\ TypeOK' /\ Fenced' /\ Unspent' /\ UserOwns'
      /\ \A p \in Requests : Belongs(p)'
  <2>1. /\ q.rev <= serial
        /\ q.phase # "idle" => q.scope \in 1..gen
        /\ q.subject # None => q.scope \in 1..gen /\ owner[q.scope] = q.subject
        /\ \/ q.phase \notin {"sent", "answered"} \/ q.kind = "public"
           \/ q.scope # gen
           \/ /\ ~ Renewing \/ q.rev < serial
              /\ q.rev = serial => q.token = user.token
    BY <1>1, <1>2, <1>3, <1>4
  <2> QED BY <1>2, <1>5, <2>1, Moves DEF Send
<1> QED BY <1>6 DEF Inv, Owned, Send, session, Kept, CallbacksInScope

LEMMA RenewInv == ASSUME Inv, NEW r \in Requests, Renew(r) PROVE Inv'
<1> USE DEF Inv, Renew, Leasing
<1> DEFINE q == [reqs[r] EXCEPT !.phase = "waiting"]
<1>1. q \in Leased /\ q.phase = "waiting" /\ q.scope = reqs[r].scope /\ q.rev = reqs[r].rev /\ q.subject = reqs[r].subject
  BY DEF TypeOK, Leased, Phases
<1>2. reqs' = [reqs EXCEPT ![r] = q]
  BY DEF Becomes
<1> HIDE DEF q
<1>3. reqs' \in [Requests -> Leased] /\ reqs'[r] = q /\ \A p \in Requests : p # r => reqs'[p] = reqs[p]
  BY <1>1, <1>2 DEF TypeOK
<1>4. user.token \in 1..MaxTokens /\ gen \in 1..MaxGen /\ user.token <= tokens
  BY RequestsAssumption DEF TypeOK, Owned, UserOwns
<1>5. \A p \in Requests : Belongs(p)'
  BY <1>1, <1>3 DEF Owned, Belongs
<1>6. Owned'
  BY <1>5 DEF Owned, UserOwns, Kept, CallbacksInScope
<1>7. \A p \in Requests : reqs'[p].rev <= serial
  BY <1>1, <1>3 DEF Fenced
<1>8. \A p \in Requests : Private(p)' => p # r /\ Private(p)
  BY <1>1, <1>3 DEF Private, Current
<1>9. CASE refreshing = None
  <2>1. /\ refreshing' = [scope |-> gen, token |-> user.token]
        /\ refreshing' \in Renewals /\ refreshing' # None /\ Renewing'
        /\ serial' = serial + 1 /\ serial \in Nat
    BY <1>4, <1>9, RequestsAssumption DEF Renewals, Renewing, TypeOK
  <2>2. /\ presented' = [presented EXCEPT ![user.token] = @ + 1]
        /\ presented[user.token] = 0
        /\ presented'[user.token] = 1
        /\ \A t \in 1..MaxTokens : t # user.token => presented'[t] = presented[t]
        /\ presented' \in [1..MaxTokens -> Nat]
    <3>1. presented \in [1..MaxTokens -> Nat] /\ presented' = [presented EXCEPT ![user.token] = @ + 1]
      BY <1>9 DEF TypeOK
    <3>2. presented[user.token] = 0
      BY <1>9 DEF Unspent, Renewing
    <3> QED BY <1>4, <3>1, <3>2
  <2>3. TypeOK'
    BY <1>3, <2>1, <2>2 DEF TypeOK
  <2>4. \A p \in Requests : reqs'[p].rev < serial'
    BY <1>3, <1>7, <2>1 DEF Leased
  <2>5. Fenced'
    BY <1>3, <1>4, <2>1, <2>4 DEF Fenced, LateRefusalHarmless, Leased
  <2>6. Unspent'
    BY <1>4, <2>1, <2>2 DEF Unspent, PresentedOnce, TypeOK
  <2> QED BY <1>6, <2>3, <2>5, <2>6
<1>10. CASE refreshing # None
  <2>1. TypeOK'
    BY <1>3, <1>10 DEF TypeOK
  <2>2. Fenced'
    BY <1>3, <1>7, <1>8, <1>10 DEF Fenced, Renewing, LateRefusalHarmless
  <2>3. Unspent'
    BY <1>10 DEF Unspent, PresentedOnce, Renewing
  <2> QED BY <1>6, <2>1, <2>2, <2>3
<1> QED BY <1>9, <1>10

-------------------------------------------------------------------------------
\* The requests that wait change their phase and nothing else.
LEMMA WaitersMove ==
    ASSUME TypeOK, NEW phase \in {"leasing", "settled"}, Waiters(phase)
    PROVE  /\ reqs' \in [Requests -> Leased]
           /\ \A p \in Requests :
                /\ reqs'[p].scope = reqs[p].scope /\ reqs'[p].subject = reqs[p].subject
                /\ reqs'[p].rev = reqs[p].rev /\ reqs'[p].token = reqs[p].token /\ reqs'[p].kind = reqs[p].kind
                /\ reqs[p].phase = "idle" => reqs'[p].phase = "idle"
                /\ reqs'[p].phase \in {"sent", "answered"} => reqs'[p].phase = reqs[p].phase
<1> SUFFICES ASSUME NEW p \in Requests
    PROVE  /\ reqs'[p] \in Leased
           /\ reqs'[p].scope = reqs[p].scope /\ reqs'[p].subject = reqs[p].subject
           /\ reqs'[p].rev = reqs[p].rev /\ reqs'[p].token = reqs[p].token /\ reqs'[p].kind = reqs[p].kind
           /\ reqs[p].phase = "idle" => reqs'[p].phase = "idle"
           /\ reqs'[p].phase \in {"sent", "answered"} => reqs'[p].phase = reqs[p].phase
  BY DEF Waiters
<1>1. reqs[p] \in Leased
  BY DEF TypeOK
<1> QED BY <1>1 DEF Waiters, Leased, Phases

LEMMA RenewalArrivesInv == ASSUME Inv, RenewalArrives PROVE Inv'
<1> USE DEF Inv, RenewalArrives
<1>1. /\ reqs' \in [Requests -> Leased]
      /\ \A p \in Requests :
            /\ reqs'[p].scope = reqs[p].scope /\ reqs'[p].subject = reqs[p].subject
            /\ reqs'[p].rev = reqs[p].rev /\ reqs'[p].kind = reqs[p].kind
            /\ reqs[p].phase = "idle" => reqs'[p].phase = "idle"
            /\ reqs'[p].phase \in {"sent", "answered"} => reqs'[p].phase = reqs[p].phase
  BY WaitersMove
<1>2. /\ user' \in [subject : Subjects \cup {None}, token : 0..MaxTokens, aged : BOOLEAN]
      /\ user'.subject = user.subject /\ user'.token = tokens + 1
      /\ tokens' = tokens + 1 /\ tokens' \in 1..MaxTokens
  <2>1. user \in [subject : Subjects \cup {None}, token : 0..MaxTokens, aged : BOOLEAN]
        /\ tokens' = tokens + 1 /\ tokens' \in 1..MaxTokens
    BY RequestsAssumption DEF TypeOK
  <2> DEFINE v == [user EXCEPT !.token = tokens + 1]
  <2>2. /\ v \in [subject : Subjects \cup {None}, token : 0..MaxTokens, aged : BOOLEAN]
        /\ v.subject = user.subject /\ v.token = tokens + 1
    BY <2>1
  <2>3. user' = [v EXCEPT !.aged = FALSE]
    OBVIOUS
  <2> HIDE DEF v
  <2> QED BY <2>1, <2>2, <2>3
<1>3. user # NoUser /\ user'.subject \in Subjects /\ user' # NoUser
  <2>1. refreshing \in Renewals
    BY DEF TypeOK
  <2>2. user # NoUser
    BY <2>1, RequestsAssumption DEF Renewals, NoUser
  <2> QED BY <1>2, <2>2, RequestsAssumption DEF Owned, UserOwns, NoUser
<1>4. Renewing
  BY DEF Renewing
<1>5. TypeOK'
  BY <1>1, <1>2 DEF TypeOK
<1>6. \A p \in Requests : Belongs(p)'
  BY <1>1 DEF Owned, Belongs
<1>7. Owned'
  BY <1>2, <1>3, <1>6 DEF Owned, UserOwns, Kept, CallbacksInScope, TypeOK
<1>8. \A p \in Requests : Private(p)' => reqs'[p].rev < serial
  BY <1>1, <1>4 DEF Fenced, Private, Current
<1>9. Fenced'
  BY <1>1, <1>8 DEF Fenced, Renewing, LateRefusalHarmless, TypeOK, Leased
<1>10. Unspent'
  BY <1>2, <1>3 DEF Unspent, PresentedOnce, Renewing, TypeOK
<1> QED BY <1>5, <1>7, <1>9, <1>10

LEMMA RenewalFailsInv == ASSUME Inv, RenewalFails PROVE Inv'
<1>1. /\ TypeOK' /\ Fenced' /\ Unspent' /\ UserOwns'
      /\ \A p \in Requests : Belongs(p)'
      /\ \A e \in cache : Kept(e)'
  <2>1. LateRefusalHarmless'
    BY DEF Inv, Fenced, RenewalFails, LateRefusalHarmless
  <2>2. /\ reqs' \in [Requests -> Leased]
        /\ \A p \in Requests :
               /\ reqs'[p].scope = reqs[p].scope /\ reqs'[p].subject = reqs[p].subject
               /\ reqs'[p].rev = reqs[p].rev
               /\ reqs[p].phase = "idle" => reqs'[p].phase = "idle"
    BY WaitersMove DEF Inv, RenewalFails
  <2> QED BY <2>1, <2>2, Ends DEF RenewalFails
<1> QED BY <1>1 DEF Inv, Owned, RenewalFails, CallbacksInScope

LEMMA RenewalStaleInv == ASSUME Inv, RenewalStale PROVE Inv'
<1> USE DEF Inv, RenewalStale
<1>1. /\ reqs' \in [Requests -> Leased]
      /\ \A p \in Requests :
            /\ reqs'[p].scope = reqs[p].scope /\ reqs'[p].subject = reqs[p].subject
            /\ reqs'[p].rev = reqs[p].rev /\ reqs'[p].token = reqs[p].token /\ reqs'[p].kind = reqs[p].kind
            /\ reqs[p].phase = "idle" => reqs'[p].phase = "idle"
            /\ reqs'[p].phase \in {"sent", "answered"} => reqs'[p].phase = reqs[p].phase
  BY WaitersMove
<1>2. ~ Renewing /\ ~ Renewing'
  BY DEF Renewing
<1>3. TypeOK'
  BY <1>1 DEF TypeOK
<1>4. \A p \in Requests : Belongs(p)'
  BY <1>1 DEF Owned, Belongs
<1>5. Owned'
  BY <1>4 DEF Owned, UserOwns, Kept, CallbacksInScope
<1>6. Fenced'
  BY <1>1, <1>2 DEF Fenced, Private, Current, LateRefusalHarmless
<1>7. Unspent'
  BY <1>2 DEF Unspent, PresentedOnce
<1> QED BY <1>3, <1>5, <1>6, <1>7

-------------------------------------------------------------------------------
\* A request as it starts to ask, and to ask again.
LEMMA Asked ==
    ASSUME NEW kind, NEW g
    PROVE  /\ [Idle EXCEPT !.phase = "leasing", !.kind = kind, !.scope = g]
                = [phase |-> "leasing", kind |-> kind, scope |-> g, rev |-> 0, token |-> 0,
                   subject |-> None, tries |-> 0, answer |-> None]
           /\ [Idle EXCEPT !.phase = "leasing", !.kind = kind, !.scope = g, !.tries = 1]
                = [phase |-> "leasing", kind |-> kind, scope |-> g, rev |-> 0, token |-> 0,
                   subject |-> None, tries |-> 1, answer |-> None]
<1> DEFINE a == [Idle EXCEPT !.phase = "leasing"]
           b == [a EXCEPT !.kind = kind]
           c == [b EXCEPT !.scope = g]
<1>1. a = [phase |-> "leasing", kind |-> None, scope |-> 0, rev |-> 0, token |-> 0,
           subject |-> None, tries |-> 0, answer |-> None]
  BY DEF Idle
<1>2. b = [phase |-> "leasing", kind |-> kind, scope |-> 0, rev |-> 0, token |-> 0,
           subject |-> None, tries |-> 0, answer |-> None]
  <2> HIDE DEF a
  <2> QED BY <1>1
<1>3. c = [phase |-> "leasing", kind |-> kind, scope |-> g, rev |-> 0, token |-> 0,
           subject |-> None, tries |-> 0, answer |-> None]
  <2> HIDE DEF b
  <2> QED BY <1>2
<1>4. [c EXCEPT !.tries = 1] = [phase |-> "leasing", kind |-> kind, scope |-> g, rev |-> 0, token |-> 0,
                                subject |-> None, tries |-> 1, answer |-> None]
  <2> HIDE DEF c
  <2> QED BY <1>3
<1> QED BY <1>3, <1>4, Zenon

LEMMA AskInv == ASSUME Inv, NEW r \in Requests, NEW kind \in Kinds, Ask(r, kind) PROVE Inv'
<1> DEFINE q == [phase |-> "leasing", kind |-> kind, scope |-> gen, rev |-> 0, token |-> 0,
                 subject |-> None, tries |-> 0, answer |-> None]
<1>1. /\ q \in Leased /\ q.phase = "leasing" /\ q.scope = gen /\ q.rev = 0 /\ q.subject = None
      /\ gen \in 1..gen /\ 0 <= serial
  BY RequestsAssumption DEF Leased, Phases, Inv, TypeOK
<1>2. Becomes(r, q) /\ UNCHANGED session
  <2>1. [Idle EXCEPT !.phase = "leasing", !.kind = kind, !.scope = gen] = q
    BY Asked
  <2> QED BY <2>1 DEF Ask
<1> HIDE DEF q
<1>3. /\ TypeOK' /\ Fenced' /\ Unspent' /\ UserOwns'
      /\ \A p \in Requests : Belongs(p)'
  BY <1>1, <1>2, Moves
<1> QED BY <1>3 DEF Inv, Owned, Ask, session, Kept, CallbacksInScope

LEMMA AnswerInv == ASSUME Inv, NEW r \in Requests, NEW a \in Answers, Answer(r, a) PROVE Inv'
<1> DEFINE q == [reqs[r] EXCEPT !.phase = "answered", !.answer = a]
<1>1. /\ q \in Leased /\ q.phase = "answered" /\ q.scope = reqs[r].scope /\ q.rev = reqs[r].rev
      /\ q.subject = reqs[r].subject /\ q.kind = reqs[r].kind /\ q.token = reqs[r].token
  BY DEF Leased, Phases, Inv, TypeOK
<1> HIDE DEF q
<1>2. Becomes(r, q) /\ UNCHANGED session
  BY DEF Answer, q
<1>3. /\ q.rev <= serial
      /\ q.scope \in 1..gen
      /\ q.subject # None => owner[q.scope] = q.subject
  BY <1>1 DEF Inv, Fenced, Owned, Belongs, Answer
<1>4. \/ q.kind = "public" \/ q.scope # gen
      \/ /\ ~ Renewing \/ q.rev < serial
         /\ q.rev = serial => q.token = user.token
  BY <1>1 DEF Inv, Fenced, Private, Current, Answer
<1>5. /\ TypeOK' /\ Fenced' /\ Unspent' /\ UserOwns'
      /\ \A p \in Requests : Belongs(p)'
  BY <1>1, <1>2, <1>3, <1>4, Moves
<1> QED BY <1>5 DEF Inv, Owned, Answer, session, Kept, CallbacksInScope

LEMMA SucceedInv == ASSUME Inv, NEW r \in Requests, Succeed(r) PROVE Inv'
<1>1. /\ TypeOK' /\ Fenced' /\ Unspent' /\ UserOwns'
      /\ \A p \in Requests : Belongs(p)'
  BY Settles DEF Succeed, Read
<1>2. Belongs(r) /\ reqs[r].scope = gen /\ reqs[r].phase # "idle"
  BY DEF Inv, Owned, Succeed, Read, Current
<1>3. \A e \in cache' : Kept(e)'
  BY <1>2 DEF Inv, Owned, Kept, Belongs, Succeed, session
<1>4. CallbacksInScope'
  BY <1>2 DEF Inv, Owned, CallbacksInScope, Succeed
<1> QED BY <1>1, <1>3, <1>4 DEF Inv, Owned

LEMMA UnauthorizedInv == ASSUME Inv, NEW r \in Requests, Unauthorized(r) PROVE Inv'
<1> USE DEF Unauthorized, Read
<1>1. CASE reqs[r].kind # "public" /\ reqs[r].rev = serial
  <2> DEFINE q == [reqs[r] EXCEPT !.phase = "settled"]
  <2>1. /\ q \in Leased /\ q.phase = "settled" /\ q.scope = reqs[r].scope
        /\ q.subject = reqs[r].subject /\ q.rev = reqs[r].rev
    BY DEF Inv, TypeOK, Leased, Phases
  <2> HIDE DEF q
  <2>2. reqs' = [reqs EXCEPT ![r] = q]
    BY DEF Settled, Becomes, q
  <2>3. /\ reqs' \in [Requests -> Leased]
        /\ \A p \in Requests :
               /\ reqs'[p].scope = reqs[p].scope /\ reqs'[p].subject = reqs[p].subject
               /\ reqs'[p].rev = reqs[p].rev
               /\ reqs[p].phase = "idle" => reqs'[p].phase = "idle"
    BY <2>1, <2>2 DEF Inv, TypeOK
  <2>4. reqs[r].token = user.token
    BY <1>1 DEF Inv, Fenced, Private
  <2>5. LateRefusalHarmless'
    BY <1>1, <2>4 DEF Inv, Fenced, LateRefusalHarmless
  <2>6. /\ TypeOK' /\ Fenced' /\ Unspent' /\ UserOwns'
        /\ \A p \in Requests : Belongs(p)'
        /\ \A e \in cache : Kept(e)'
    BY <1>1, <2>3, <2>5, Ends
  <2> QED BY <2>6 DEF Inv, Owned, CallbacksInScope
<1>2. CASE ~ (reqs[r].kind # "public" /\ reqs[r].rev = serial)
  <2>1. /\ TypeOK' /\ Fenced' /\ Unspent' /\ UserOwns'
        /\ \A p \in Requests : Belongs(p)'
    BY <1>2, Settles DEF session
  <2> QED BY <1>2, <2>1 DEF Inv, Owned, Kept, CallbacksInScope
<1> QED BY <1>1, <1>2

LEMMA FailInv == ASSUME Inv, NEW r \in Requests, Fail(r) PROVE Inv'
<1>1. reqs[r].phase = "answered" /\ reqs[r].scope = gen /\ gen \in 1..gen
  BY RequestsAssumption DEF Fail, Read, Current, Inv, TypeOK
<1>2. /\ TypeOK' /\ Fenced' /\ Unspent' /\ UserOwns'
      /\ \A p \in Requests : Belongs(p)'
  <2>1. CASE Retryable(r)
    <3> DEFINE q == [phase |-> "leasing", kind |-> "query", scope |-> gen, rev |-> 0, token |-> 0,
                     subject |-> None, tries |-> 1, answer |-> None]
    <3>1. /\ q \in Leased /\ q.phase = "leasing" /\ q.scope = gen /\ q.rev = 0 /\ q.subject = None
          /\ 0 <= serial
      BY <1>1, RequestsAssumption DEF Leased, Phases, Kinds, Inv, TypeOK
    <3>2. Becomes(r, q) /\ UNCHANGED session
      <4>1. [Idle EXCEPT !.phase = "leasing", !.kind = "query", !.scope = reqs[r].scope, !.tries = 1] = q
        BY <1>1, Asked
      <4> QED BY <2>1, <4>1 DEF Fail
    <3> HIDE DEF q
    <3> QED BY <1>1, <3>1, <3>2, Moves
  <2>2. CASE ~ Retryable(r)
    BY <1>1, <2>2, Settles DEF Fail
  <2> QED BY <2>1, <2>2
<1> QED BY <1>2 DEF Inv, Owned, Fail, session, Kept, CallbacksInScope

LEMMA StaleInv == ASSUME Inv, NEW r \in Requests, Stale(r) PROVE Inv'
<1>1. /\ TypeOK' /\ Fenced' /\ Unspent' /\ UserOwns'
      /\ \A p \in Requests : Belongs(p)'
  BY Settles DEF Stale
<1> QED BY <1>1 DEF Inv, Owned, Stale, session, Kept, CallbacksInScope

-------------------------------------------------------------------------------
LEMMA StepInv == Inv /\ [Next]_vars => Inv'
<1> SUFFICES ASSUME Inv, [Next]_vars PROVE Inv'
  OBVIOUS
<1>1. ASSUME NEW r \in Requests, Going(r) PROVE Inv'
  BY <1>1, SendInv, RenewInv, StaleInv, SucceedInv, UnauthorizedInv, FailInv DEF Going
<1>2. ASSUME NEW r \in Requests, Serving(r) PROVE Inv'
  BY <1>2, AnswerInv DEF Serving
<1>3. ASSUME NEW r \in Requests, NEW kind \in Kinds, Ask(r, kind) PROVE Inv'
  BY <1>3, AskInv
<1>4. CASE UNCHANGED vars
  <2>1. TypeOK'
    BY <1>4 DEF vars, Inv, TypeOK
  <2>2. Owned'
    BY <1>4 DEF vars, Inv, Owned, UserOwns, Belongs, Kept, CallbacksInScope
  <2>3. Fenced' /\ Unspent'
    BY <1>4 DEF vars, Inv, Fenced, Private, Current, Renewing, LateRefusalHarmless, Unspent, PresentedOnce
  <2> QED BY <2>1, <2>2, <2>3 DEF Inv
<1> QED BY <1>1, <1>2, <1>3, <1>4, SignInInv, LeaveInv, AgeInv, RenewalArrivesInv, RenewalFailsInv,
           RenewalStaleInv DEF Next

LEMMA InvAlways == Spec => []Inv
BY InitInv, StepInv, PTL DEF Spec

(***************************************************************************)
(* Whatever the session is replaced by, the credentials, cached data and   *)
(* callbacks of a request stay with the scope it was asked in.             *)
(***************************************************************************)
THEOREM ScopesAreFenced == Spec => []ScopeFenced
<1>1. Inv => ScopeFenced
  BY DEF Inv, Owned, Belongs, Kept, ScopeFenced, CredentialsOfScope
<1> QED BY <1>1, InvAlways, PTL

(***************************************************************************)
(* A refusal ends a session only when the refused token is the one it      *)
(* holds: the revision a request was sent under tells the two apart.       *)
(***************************************************************************)
THEOREM RefusalsAreOfThePresent == Spec => []LateRefusalHarmless
<1>1. Inv => LateRefusalHarmless
  BY DEF Inv, Fenced
<1> QED BY <1>1, InvAlways, PTL

(***************************************************************************)
(* However many requests find the credentials near their end, a refresh    *)
(* token is presented once.                                                *)
(***************************************************************************)
THEOREM TokensArePresentedOnce == Spec => []PresentedOnce
<1>1. Inv => PresentedOnce
  BY DEF Inv, Unspent
<1> QED BY <1>1, InvAlways, PTL
===============================================================================
