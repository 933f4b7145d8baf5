---------------------------- MODULE ScopedRequests ----------------------------
(***************************************************************************)
(* Requests of the signed-in application.  Each keeps the scope it was     *)
(* asked in, leases credentials for it, and is checked against it again    *)
(* after every await.  Credentials near their end are renewed once for all *)
(* the requests that need them; a refusal ends the session only if it is   *)
(* of the credentials the session still holds.                             *)
(***************************************************************************)
EXTENDS Integers, FiniteSets

CONSTANTS
    Requests,           \* requests the application may make
    Subjects,           \* people who may sign in, one after the other
    MaxGen,             \* bound: scopes
    MaxTokens,          \* bound: access tokens issued
    None

Renewals == [scope : 1..MaxGen, token : 1..MaxTokens]

ASSUME RequestsAssumption ==
    /\ MaxGen \in Nat \ {0} /\ MaxTokens \in Nat
    /\ None \notin Subjects \cup Renewals

VARIABLES
    gen,                \* the current scope
    owner,              \* whose scope each generation is
    user,               \* the account adapter's user: subject, token, age
    serial,             \* its credential revision
    refreshing,         \* the one renewal under way: its scope and token
    tokens,             \* access tokens issued so far
    reqs,               \* the requests
    cache,              \* what query caches hold: scope and whose data
    ran,                \* mutation callbacks: scope they belong to, scope they ran in
    presented,          \* how often each refresh token was presented
    refused             \* refusals that ended a session: token refused, token held

vars == <<gen, owner, user, serial, refreshing, tokens, reqs, cache, ran, presented, refused>>
session == <<gen, owner, user, serial, refreshing, tokens, presented, refused>>

Kinds == {"query", "mutation", "public"}
NoUser == [subject |-> None, token |-> 0, aged |-> FALSE]
Idle == [phase |-> "idle", kind |-> None, scope |-> 0, rev |-> 0, token |-> 0, subject |-> None, tries |-> 0,
         answer |-> None]

Current(r) == reqs[r].scope = gen
Becomes(r, q) == reqs' = [reqs EXCEPT ![r] = q]
Settled(r) == Becomes(r, [reqs[r] EXCEPT !.phase = "settled"])

(***************************************************************************)
(* The session around the requests.                                        *)
(***************************************************************************)
Init ==
    /\ gen = 1 /\ owner = [g \in 1..MaxGen |-> None]
    /\ user = NoUser /\ serial = 0 /\ refreshing = None /\ tokens = 0
    /\ reqs = [r \in Requests |-> Idle]
    /\ cache = {} /\ ran = {} /\ refused = {}
    /\ presented = [t \in 1..MaxTokens |-> 0]

Rescope(s) ==
    /\ gen < MaxGen
    /\ gen' = gen + 1
    /\ owner' = [owner EXCEPT ![gen + 1] = s]

SignIn(s) ==
    /\ user = NoUser /\ tokens < MaxTokens
    /\ gen + 2 <= MaxGen     \* bound: leaves the session a scope to end in
    /\ Rescope(s)
    /\ tokens' = tokens + 1
    /\ user' = [subject |-> s, token |-> tokens + 1, aged |-> FALSE]
    /\ serial' = serial + 1
    /\ UNCHANGED <<refreshing, reqs, cache, ran, presented, refused>>

\* The scope is replaced before the credentials go.
EndSession ==
    /\ Rescope(None)
    /\ user' = NoUser /\ serial' = serial + 1

Leave ==
    /\ user # NoUser
    /\ EndSession
    /\ UNCHANGED <<refreshing, tokens, reqs, cache, ran, presented, refused>>

\* Less than a minute of the access token is left.
Age ==
    /\ user # NoUser /\ ~ user.aged
    /\ user' = [user EXCEPT !.aged = TRUE]
    /\ UNCHANGED <<gen, owner, serial, refreshing, tokens, reqs, cache, ran, presented, refused>>

(***************************************************************************)
(* Credentials.                                                            *)
(***************************************************************************)
Ask(r, kind) ==
    /\ reqs[r].phase = "idle" /\ owner[gen] # None
    /\ Becomes(r, [Idle EXCEPT !.phase = "leasing", !.kind = kind, !.scope = gen])
    /\ UNCHANGED <<session, cache, ran>>

\* The scope it was asked in is gone: nothing of it goes on.
Stale(r) ==
    /\ reqs[r].phase \in {"leasing", "waiting", "answered"} /\ ~ Current(r)
    /\ Settled(r)
    /\ UNCHANGED <<session, cache, ran>>

Leasing(r) == reqs[r].phase = "leasing" /\ Current(r)

Sent(r) ==
    LET public == reqs[r].kind = "public"
    IN  Becomes(r, [reqs[r] EXCEPT !.phase = "sent",
                        !.rev = IF public THEN 0 ELSE serial,
                        !.token = IF public THEN 0 ELSE user.token,
                        !.subject = IF public THEN None ELSE user.subject])

Send(r) ==
    /\ Leasing(r)
    /\ reqs[r].kind = "public" \/ (user # NoUser /\ ~ user.aged)
    /\ Sent(r)
    /\ UNCHANGED <<session, cache, ran>>

Renew_EachOne(r) ==
    /\ Leasing(r)
    /\ reqs[r].kind # "public" /\ user # NoUser /\ user.aged
    /\ Becomes(r, [reqs[r] EXCEPT !.phase = "waiting"])
    /\ refreshing' = [scope |-> gen, token |-> user.token]
    /\ serial' = serial + 1
    /\ presented' = [presented EXCEPT ![user.token] = @ + 1]
    /\ UNCHANGED <<gen, owner, user, tokens, cache, ran, refused>>

\* The first to need it starts the renewal; refusals of the old token are
\* fenced off from that moment.  The others wait for the same one.
Renew(r) ==
    /\ Leasing(r)
    /\ reqs[r].kind # "public" /\ user # NoUser /\ user.aged
    /\ Becomes(r, [reqs[r] EXCEPT !.phase = "waiting"])
    /\ IF refreshing = None
       THEN /\ refreshing' = [scope |-> gen, token |-> user.token]
            /\ serial' = serial + 1
            /\ presented' = [presented EXCEPT ![user.token] = @ + 1]
       ELSE UNCHANGED <<refreshing, serial, presented>>
    /\ UNCHANGED <<gen, owner, user, tokens, cache, ran, refused>>

\* What becomes of the requests that wait for the renewal.
Waiters(phase) ==
    reqs' = [r \in Requests |-> IF reqs[r].phase = "waiting" THEN [reqs[r] EXCEPT !.phase = phase] ELSE reqs[r]]

RenewalArrives ==
    /\ refreshing # None
    /\ refreshing.scope = gen /\ user.token = refreshing.token
    /\ tokens < MaxTokens
    /\ tokens' = tokens + 1
    /\ user' = [user EXCEPT !.token = tokens + 1, !.aged = FALSE]
    /\ refreshing' = None
    /\ Waiters("leasing")
    /\ UNCHANGED <<gen, owner, serial, cache, ran, presented, refused>>

\* Refused, malformed, not rotated, or ten seconds gone by: one attempt only.
RenewalFails ==
    /\ refreshing # None /\ refreshing.scope = gen
    /\ EndSession
    /\ refreshing' = None
    /\ Waiters("settled")
    /\ UNCHANGED <<tokens, cache, ran, presented, refused>>

RenewalStale_Forgotten ==
    /\ refreshing # None /\ refreshing.scope # gen
    /\ refreshing' = None
    /\ UNCHANGED <<gen, owner, user, serial, tokens, reqs, cache, ran, presented, refused>>

\* Its answer is for a session that has been replaced; it touches nothing.
RenewalStale ==
    /\ refreshing # None /\ refreshing.scope # gen
    /\ refreshing' = None
    /\ Waiters("settled")
    /\ UNCHANGED <<gen, owner, user, serial, tokens, cache, ran, presented, refused>>

(***************************************************************************)
(* Answers.                                                                *)
(***************************************************************************)
Answers == {"ok", "unauthorized", "refused", "failed", "lost"}

Answer(r, a) ==
    /\ reqs[r].phase = "sent"
    /\ Becomes(r, [reqs[r] EXCEPT !.phase = "answered", !.answer = a])
    /\ UNCHANGED <<session, cache, ran>>

Read_Unfenced(r, a) == reqs[r].phase = "answered" /\ reqs[r].answer = a

Read(r, a) == reqs[r].phase = "answered" /\ reqs[r].answer = a /\ Current(r)

\* The data goes to the cache of the scope; a mutation's callbacks run in it.
Succeed(r) ==
    /\ Read(r, "ok")
    /\ Settled(r)
    /\ cache' = IF reqs[r].kind = "query" THEN cache \cup {<<reqs[r].scope, reqs[r].subject>>} ELSE cache
    /\ ran' = IF reqs[r].kind = "mutation" THEN ran \cup {<<reqs[r].scope, gen>>} ELSE ran
    /\ UNCHANGED session

Unauthorized_AnyRevision(r) ==
    /\ Read(r, "unauthorized")
    /\ Settled(r)
    /\ IF reqs[r].kind # "public"
       THEN /\ EndSession
            /\ refused' = refused \cup {<<reqs[r].token, user.token>>}
       ELSE UNCHANGED <<gen, owner, user, serial, refused>>
    /\ UNCHANGED <<refreshing, tokens, cache, ran, presented>>

\* Only a refusal of the present credentials, by their revision, counts.
Unauthorized(r) ==
    /\ Read(r, "unauthorized")
    /\ Settled(r)
    /\ IF reqs[r].kind # "public" /\ reqs[r].rev = serial
       THEN /\ EndSession
            /\ refused' = refused \cup {<<reqs[r].token, user.token>>}
       ELSE UNCHANGED <<gen, owner, user, serial, refused>>
    /\ UNCHANGED <<refreshing, tokens, cache, ran, presented>>

\* A query is tried once more if the server failed or was not reached.
Retryable(r) ==
    /\ reqs[r].kind = "query" /\ reqs[r].tries < 1
    /\ reqs[r].answer \in {"failed", "lost"}

Fail(r) ==
    /\ \E a \in {"refused", "failed", "lost"} : Read(r, a)
    /\ IF Retryable(r)
       THEN Becomes(r, [Idle EXCEPT !.phase = "leasing", !.kind = "query", !.scope = reqs[r].scope, !.tries = 1])
       ELSE Settled(r)
    /\ UNCHANGED <<session, cache, ran>>

-----------------------------------------------------------------------------
Serving(r) == \E a \in Answers : Answer(r, a)
Going(r) ==
    Send(r) \/ Renew(r) \/ Stale(r) \/ Succeed(r) \/ Unauthorized(r) \/ Fail(r)

Next ==
    \/ \E s \in Subjects : SignIn(s)
    \/ Leave \/ Age
    \/ \E r \in Requests : (\E kind \in Kinds : Ask(r, kind)) \/ Going(r) \/ Serving(r)
    \/ RenewalArrives \/ RenewalFails \/ RenewalStale

Spec == Init /\ [][Next]_vars

\* The browser runs what is ready; the network, and the renewal's deadline, answer.
FairSpec ==
    /\ Spec
    /\ \A r \in Requests : WF_vars(Going(r)) /\ WF_vars(Serving(r))
    /\ WF_vars(RenewalFails \/ RenewalStale)

-----------------------------------------------------------------------------
Phases == {"idle", "leasing", "waiting", "sent", "answered", "settled"}

Leased == [phase : Phases, kind : Kinds \cup {None}, scope : 0..MaxGen, rev : Nat, token : 0..MaxTokens,
           subject : Subjects \cup {None}, tries : 0..1, answer : Answers \cup {None}]

TypeOK ==
    /\ gen \in 1..MaxGen /\ owner \in [1..MaxGen -> Subjects \cup {None}]
    /\ user \in [subject : Subjects \cup {None}, token : 0..MaxTokens, aged : BOOLEAN]
    /\ serial \in Nat /\ tokens \in 0..MaxTokens
    /\ refreshing \in Renewals \cup {None}
    /\ reqs \in [Requests -> Leased]
    /\ presented \in [1..MaxTokens -> Nat]

(***************************************************************************)
(* No request leaves with another person's credentials than those of the   *)
(* scope it was asked in, and no cache holds another person's data.        *)
(***************************************************************************)
CredentialsOfScope ==
    /\ \A r \in Requests : reqs[r].subject # None => owner[reqs[r].scope] = reqs[r].subject
    /\ \A entry \in cache : entry[2] # None => owner[entry[1]] = entry[2]

(***************************************************************************)
(* A session that a refusal ended was still holding the refused token: a   *)
(* late answer about an older one never signs anybody out.                 *)
(***************************************************************************)
LateRefusalHarmless == \A pair \in refused : pair[1] = pair[2]

(***************************************************************************)
(* A refresh token is presented to the provider at most once: neither two  *)
(* requests at a time nor a retry after a lost answer present it again.    *)
(***************************************************************************)
PresentedOnce == \A t \in 1..MaxTokens : presented[t] <= 1

(***************************************************************************)
(* A mutation's callbacks run only in the scope it was made in.            *)
(***************************************************************************)
CallbacksInScope == \A pair \in ran : pair[1] = pair[2]

(***************************************************************************)
(* Whatever the session is replaced by: credentials, cached data and       *)
(* callbacks stay with the scope they belong to.                           *)
(***************************************************************************)
ScopeFenced == CredentialsOfScope /\ CallbacksInScope

(***************************************************************************)
(* Every request that was asked is settled: answered, refused, or dropped  *)
(* with its scope, also when it waits for a renewal another one started.   *)
(***************************************************************************)
EveryRequestSettles ==
    \A r \in Requests : reqs[r].phase # "idle" ~> reqs[r].phase = "settled"
===============================================================================
