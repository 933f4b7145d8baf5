--------------------------- MODULE DemoProvisioning ---------------------------
(***************************************************************************)
(* POST /demo-sessions: a temporary workspace is reserved under the        *)
(* caller's idempotency key and within the budgets of its day and minute,  *)
(* seeded, and marked READY; a failed one is marked FAILED, and only then  *)
(* what was seeded is cleaned up.  A request to the table may fail, may be *)
(* applied although its answer is lost, or be applied later still.         *)
(*                                                                         *)
(* A call makes at most one workspace, which has the call's name.  A unit  *)
(* of time is a minute; what the table forgets by itself it forgets at any *)
(* time after the deadline.                                                *)
(***************************************************************************)
EXTENDS Integers, FiniteSets

CONSTANTS
    Seekers,            \* calls, and the workspaces they reserve
    Keys,               \* idempotency keys
    Parts,              \* records a workspace is seeded with
    Ttl, Retention,     \* minutes: of a workspace, of its key beyond that
    DayLength,          \* minutes of a day
    Budgets,            \* what an operator may allow a day, and a minute
    MaxTime, MaxVersion, MaxLate,   \* bounds: minutes, versions of the policy, requests that linger
    Nobody

Times == 0..MaxTime
Day(t) == t \div DayLength
Days == {Day(t) : t \in Times}
Policies == [version : 1..MaxVersion, enabled : BOOLEAN, budget : Budgets]
Provisioned == {"PROVISIONING", "READY", "FAILED"}
Records == [ws : Seekers, state : Provisioned]

ASSUME DemoAssumption ==
    /\ Parts \in Nat /\ Ttl \in Nat /\ Retention \in Nat /\ DayLength \in Nat \ {0}
    /\ MaxTime \in Nat /\ MaxVersion \in Nat \ {0} /\ MaxLate \in Nat
    /\ Budgets \subseteq [daily : Nat, minute : Nat]
    /\ Nobody \notin Seekers \cup Keys \cup Records \cup Policies
    /\ IsFiniteSet(Seekers)

VARIABLES
    clock, policy,
    daily, minutely,    \* the counters: reservations of each day, of each minute
    record,             \* each key's reservation
    state,              \* each workspace's marker, and what it was before it went
    parts,              \* what is seeded of it
    pc, key, at,        \* each call: where it is, its key, when it was made
    work,               \* what it has in hand
    answer,             \* what it answered, and of which workspace
    late                \* requests given up that the table may still apply

demoVars == <<clock, policy, daily, minutely, record, state, parts, pc, key, at, work, answer, late>>
table == <<daily, minutely, record, state, parts>>
outside == <<clock, policy>>
whose == <<key, at>>

Deadline(w) == at[w] + Ttl

Fresh == [why |-> "first",                              \* what it looks its key up for
          look |-> Nobody,                              \* the record it found
          policy |-> Nobody, day |-> 0, minute |-> 0,   \* what it was admitted by
          made |-> 0,                                   \* how many parts it knows it wrote
          doomed |-> {}]                                \* what it is going to clean up

DemoInit ==
    /\ clock = 0 /\ policy \in {p \in Policies : p.version = 1}
    /\ daily = [d \in Days |-> 0] /\ minutely = [m \in Times |-> 0]
    /\ record = [k \in Keys |-> Nobody]
    /\ state = [c \in Seekers |-> "none"] /\ parts = [c \in Seekers |-> {}]
    /\ pc = [c \in Seekers |-> "idle"] /\ key = [c \in Seekers |-> Nobody] /\ at = [c \in Seekers |-> 0]
    /\ work = [c \in Seekers |-> Fresh]
    /\ answer = [c \in Seekers |-> <<"none", Nobody>>]
    /\ late = {}

Goes(c, to, w) ==
    /\ pc' = [pc EXCEPT ![c] = to] /\ work' = [work EXCEPT ![c] = w]
    /\ UNCHANGED answer

Answers(c, kind, w) ==
    /\ pc' = [pc EXCEPT ![c] = "done"] /\ work' = [work EXCEPT ![c] = Fresh]
    /\ answer' = [answer EXCEPT ![c] = <<kind, w>>]

Start(c, k) ==
    /\ pc[c] = "idle"
    /\ Goes(c, "find", Fresh)
    /\ key' = [key EXCEPT ![c] = k] /\ at' = [at EXCEPT ![c] = clock]
    /\ UNCHANGED <<outside, table, late>>

(***************************************************************************)
(* find_reservation: the key's record, then the workspace it names.  It is *)
(* asked for before anything else, when the budget is used up, and when    *)
(* the reservation did not succeed.                                        *)
(***************************************************************************)
\* A read that fails, or finds what does not fit together.
Unreadable(c) ==
    Answers(c, IF work[c].why \in {"first", "quota"} THEN "unavailable" ELSE "uncertain", Nobody)

NoReservation(c) ==
    CASE work[c].why = "first" -> Goes(c, "policy", work[c])
      [] work[c].why = "quota" -> Answers(c, "quota", Nobody)
      [] work[c].why = "cancelled" -> Goes(c, "explain", work[c])
      [] work[c].why = "definite" -> Answers(c, "unavailable", Nobody)
      [] work[c].why = "unclear" -> Answers(c, "uncertain", Nobody)

FindRecord(c) ==
    /\ pc[c] = "find"
    /\ LET found == record[key[c]] IN
       IF found = Nobody THEN NoReservation(c)
       ELSE IF Deadline(found.ws) <= at[c] THEN Answers(c, "conflict", Nobody)
       ELSE Goes(c, "compare", [work[c] EXCEPT !.look = found])
    /\ UNCHANGED <<outside, table, whose, late>>

FindWorkspace(c) ==
    /\ pc[c] = "compare"
    /\ LET found == work[c].look IN
       IF found.state # state[found.ws] THEN Unreadable(c)
       ELSE CASE found.state = "PROVISIONING" -> Answers(c, "progress", Nobody)
              [] found.state = "FAILED" -> Answers(c, "conflict", Nobody)
              [] found.state = "READY" -> Answers(c, "session", found.ws)
    /\ UNCHANGED <<outside, table, whose, late>>

FindFails(c) ==
    /\ pc[c] \in {"find", "compare"}
    /\ Unreadable(c)
    /\ UNCHANGED <<outside, table, whose, late>>

(***************************************************************************)
(* Admission: the policy, and the counters of the call's day and minute.   *)
(***************************************************************************)
Exhausted(p, day, minute) == day >= p.budget.daily \/ minute >= p.budget.minute

ReadPolicy(c) ==
    /\ pc[c] = "policy"
    /\ IF policy.enabled THEN Goes(c, "day", [work[c] EXCEPT !.policy = policy]) ELSE Answers(c, "paused", Nobody)
    /\ UNCHANGED <<outside, table, whose, late>>

ReadDay(c) ==
    /\ pc[c] = "day"
    /\ Goes(c, "minute", [work[c] EXCEPT !.day = daily[Day(at[c])]])
    /\ UNCHANGED <<outside, table, whose, late>>

ReadMinute(c) ==
    /\ pc[c] = "minute"
    /\ IF Exhausted(work[c].policy, work[c].day, minutely[at[c]])
       THEN Goes(c, "find", [Fresh EXCEPT !.why = "quota"])
       ELSE Goes(c, "reserve", [work[c] EXCEPT !.minute = minutely[at[c]]])
    /\ UNCHANGED <<outside, table, whose, late>>

AdmissionFails(c) ==
    /\ pc[c] \in {"policy", "day", "minute", "explain"}
    /\ Answers(c, "unavailable", Nobody)
    /\ UNCHANGED <<outside, table, whose, late>>

\* A cancelled transaction does not say why: what the call was admitted by
\* is read again.
Explain(c) ==
    /\ pc[c] = "explain"
    /\ Answers(c, IF ~ policy.enabled THEN "paused"
                  ELSE IF policy = work[c].policy /\ Exhausted(policy, daily[Day(at[c])], minutely[at[c]])
                  THEN "quota" ELSE "unavailable", Nobody)
    /\ UNCHANGED <<outside, table, whose, late>>

(***************************************************************************)
(* The reservation: one transaction, on the condition that the policy and  *)
(* both counters are as they were read and that the key is new.            *)
(***************************************************************************)
Admissible_AnyCount(c, w) ==
    /\ policy = w.policy
    /\ record[key[c]] = Nobody /\ state[c] = "none"

Admissible_AnyKey(c, w) ==
    /\ policy = w.policy /\ daily[Day(at[c])] = w.day /\ minutely[at[c]] = w.minute
    /\ state[c] = "none"

Admissible(c, w) ==
    /\ policy = w.policy /\ daily[Day(at[c])] = w.day /\ minutely[at[c]] = w.minute
    /\ record[key[c]] = Nobody /\ state[c] = "none"

Reserves(c, w) ==
    /\ Admissible(c, w)
    /\ state' = [state EXCEPT ![c] = "PROVISIONING"]
    /\ record' = [record EXCEPT ![key[c]] = [ws |-> c, state |-> "PROVISIONING"]]
    /\ daily' = [daily EXCEPT ![Day(at[c])] = w.day + 1]
    /\ minutely' = [minutely EXCEPT ![at[c]] = w.minute + 1]
    /\ UNCHANGED parts

Reserve(c) ==
    /\ pc[c] = "reserve"
    /\ Reserves(c, work[c])
    /\ Goes(c, "seed", Fresh)
    /\ UNCHANGED <<outside, whose, late>>

\* Refused for certain: a condition does not hold, or another code says so.
ReserveRefused(c) ==
    /\ pc[c] = "reserve"
    /\ \E code \in {"cancelled", "definite"} : Goes(c, "find", [Fresh EXCEPT !.why = code, !.policy = work[c].policy])
    /\ UNCHANGED <<outside, table, whose, late>>

\* What a lost answer leaves: applied, not applied, or still to be applied.
AnswerLost(c, what, applied) ==
    \/ applied /\ UNCHANGED late
    \/ UNCHANGED <<table, late>>
    \/ Cardinality(late) < MaxLate /\ UNCHANGED table /\ late' = late \cup {<<what, c, work[c]>>}

ReserveUnheard(c) ==
    /\ pc[c] = "reserve"
    /\ AnswerLost(c, "reserve", Reserves(c, work[c]))
    /\ Goes(c, "find", [Fresh EXCEPT !.why = "unclear"])
    /\ UNCHANGED <<outside, whose>>

(***************************************************************************)
(* Seeding, part after part, and the end of it.                            *)
(***************************************************************************)
Writes(c, w) ==
    /\ parts' = [parts EXCEPT ![c] = @ \cup {w.made + 1}]
    /\ UNCHANGED <<daily, minutely, record, state>>

Seed(c) ==
    /\ pc[c] = "seed" /\ work[c].made < Parts
    /\ Writes(c, work[c])
    /\ Goes(c, "seed", [work[c] EXCEPT !.made = @ + 1])
    /\ UNCHANGED <<outside, whose, late>>

SeedFails(c) ==
    /\ pc[c] = "seed" /\ work[c].made < Parts
    /\ AnswerLost(c, "part", Writes(c, work[c]))
    /\ Goes(c, "fail", work[c])
    /\ UNCHANGED <<outside, whose>>

\* The marker and the key's record change together, from PROVISIONING only.
Marks(c, to) ==
    /\ state[c] = "PROVISIONING" /\ record[key[c]] = [ws |-> c, state |-> "PROVISIONING"]
    /\ state' = [state EXCEPT ![c] = to]
    /\ record' = [record EXCEPT ![key[c]] = [ws |-> c, state |-> to]]
    /\ UNCHANGED <<daily, minutely, parts>>

MarkReady(c) ==
    /\ pc[c] = "seed" /\ work[c].made = Parts
    /\ \/ Marks(c, "READY") /\ Answers(c, "session", c) /\ UNCHANGED late
       \/ AnswerLost(c, "ready", Marks(c, "READY")) /\ Goes(c, "confirm", work[c])
    /\ UNCHANGED <<outside, whose>>

\* The answer was an error: the marker itself says what became of it.
ConfirmReady(c) ==
    /\ pc[c] = "confirm"
    /\ \/ state[c] = "READY" /\ Answers(c, "session", c)
       \/ Goes(c, "fail", work[c])
    /\ UNCHANGED <<outside, table, whose, late>>

MarkFailed(c) ==
    /\ pc[c] = "fail"
    /\ \/ Marks(c, "FAILED") /\ Goes(c, "marker", work[c]) /\ UNCHANGED late
       \/ AnswerLost(c, "failed", Marks(c, "FAILED")) /\ Goes(c, "confirmFailed", work[c])
    /\ UNCHANGED <<outside, whose>>

ConfirmFailed_Anyway(c) ==
    /\ pc[c] = "confirmFailed"
    /\ Answers(c, "failed", Nobody)
    /\ UNCHANGED <<outside, table, whose, late>>

\* Without a committed FAILED nothing may be cleaned up, nor called failed.
ConfirmFailed(c) ==
    /\ pc[c] = "confirmFailed"
    /\ \/ state[c] = "FAILED" /\ Goes(c, "marker", work[c])
       \/ Answers(c, "uncertain", Nobody)
    /\ UNCHANGED <<outside, table, whose, late>>

(***************************************************************************)
(* Cleanup, as far as it gets: what was created for certain and whatever   *)
(* of the rest a lagging index shows, each under the FAILED marker.        *)
(***************************************************************************)
Inventory(c) ==
    /\ pc[c] = "marker" /\ state[c] = "FAILED"
    /\ LET known == parts[c] \cap (1..work[c].made) IN
       \E found \in SUBSET (parts[c] \ known) : Goes(c, "cleanup", [work[c] EXCEPT !.doomed = known \cup found])
    /\ UNCHANGED <<outside, table, whose, late>>

Delete(c) ==
    /\ pc[c] = "cleanup" /\ state[c] = "FAILED"
    /\ \E p \in work[c].doomed :
        /\ parts' = [parts EXCEPT ![c] = @ \ {p}]
        /\ Goes(c, "cleanup", [work[c] EXCEPT !.doomed = @ \ {p}])
    /\ UNCHANGED <<outside, daily, minutely, record, state, whose, late>>

\* All deleted, a request failed, or the bounds on its work are reached.
CleanupEnds(c) ==
    /\ pc[c] \in {"marker", "cleanup"}
    /\ Answers(c, "failed", Nobody)
    /\ UNCHANGED <<outside, table, whose, late>>

Crash(c) ==
    /\ pc[c] \notin {"idle", "done"}
    /\ Goes(c, "done", Fresh)
    /\ UNCHANGED <<outside, table, whose, late>>

(***************************************************************************)
(* The table by itself, time, and the operator.                            *)
(***************************************************************************)
Arrives(request) ==
    LET c == request[2] w == request[3] IN
    /\ late' = late \ {request}
    /\ CASE request[1] = "reserve" -> Reserves(c, w)
         [] request[1] = "part" -> Writes(c, w)
         [] request[1] = "ready" -> Marks(c, "READY")
         [] request[1] = "failed" -> Marks(c, "FAILED")
    /\ UNCHANGED <<outside, whose, pc, work, answer>>

\* A FAILED marker's deadline was shortened.
Expire(w) ==
    /\ state[w] = "FAILED" \/ (state[w] \in {"PROVISIONING", "READY"} /\ clock >= Deadline(w))
    /\ state' = [state EXCEPT ![w] = "gone"]
    /\ UNCHANGED <<outside, daily, minutely, record, parts, whose, pc, work, answer, late>>

Forget(k) ==
    /\ record[k] # Nobody /\ clock >= Deadline(record[k].ws) + Retention
    /\ record' = [record EXCEPT ![k] = Nobody]
    /\ UNCHANGED <<outside, daily, minutely, state, parts, whose, pc, work, answer, late>>

Tick ==
    /\ clock < MaxTime
    /\ clock' = clock + 1
    /\ UNCHANGED <<policy, table, whose, pc, work, answer, late>>

SetPolicy ==
    /\ policy.version < MaxVersion
    /\ policy' \in {p \in Policies : p.version = policy.version + 1}
    /\ UNCHANGED <<clock, table, whose, pc, work, answer, late>>

-----------------------------------------------------------------------------
SeekerNext(c) ==
    \/ \E k \in Keys : Start(c, k)
    \/ FindRecord(c) \/ FindWorkspace(c) \/ FindFails(c)
    \/ ReadPolicy(c) \/ ReadDay(c) \/ ReadMinute(c) \/ AdmissionFails(c) \/ Explain(c)
    \/ Reserve(c) \/ ReserveRefused(c) \/ ReserveUnheard(c)
    \/ Seed(c) \/ SeedFails(c) \/ MarkReady(c) \/ ConfirmReady(c)
    \/ MarkFailed(c) \/ ConfirmFailed(c)
    \/ Inventory(c) \/ Delete(c) \/ CleanupEnds(c)
    \/ Crash(c)
    \/ Expire(c)

DemoNext ==
    \/ \E c \in Seekers : SeekerNext(c)
    \/ \E request \in late : Arrives(request)
    \/ \E k \in Keys : Forget(k)
    \/ Tick \/ SetPolicy

DemoSpec == DemoInit /\ [][DemoNext]_demoVars

-----------------------------------------------------------------------------
States == Provisioned \cup {"none", "gone"}
Places == {"idle", "find", "compare", "policy", "day", "minute", "explain", "reserve", "seed", "confirm", "fail",
           "confirmFailed", "marker", "cleanup", "done"}
Reasons == {"first", "quota", "cancelled", "definite", "unclear"}
Kinds == {"none", "session", "progress", "conflict", "quota", "paused", "unavailable", "uncertain", "failed"}
Works == [why : Reasons, look : Records \cup {Nobody}, policy : Policies \cup {Nobody},
          day : Nat, minute : Nat, made : 0..Parts, doomed : SUBSET (1..Parts)]

DemoTypeOK ==
    /\ clock \in Times /\ policy \in Policies
    /\ daily \in [Days -> Nat] /\ minutely \in [Times -> Nat]
    /\ record \in [Keys -> Records \cup {Nobody}]
    /\ state \in [Seekers -> States] /\ parts \in [Seekers -> SUBSET (1..Parts)]
    /\ pc \in [Seekers -> Places] /\ key \in [Seekers -> Keys \cup {Nobody}] /\ at \in [Seekers -> Times]
    /\ work \in [Seekers -> Works]
    /\ answer \in [Seekers -> Kinds \X (Seekers \cup {Nobody})]
    /\ late \subseteq {"reserve", "part", "ready", "failed"} \X Seekers \X Works

Reserved(c) == state[c] # "none"

(***************************************************************************)
(* Whatever is made concurrently, sent twice, lost or late, a workspace is *)
(* only reserved while issuing is enabled and within the budgets then in   *)
(* force of the day and the minute it was asked for.                       *)
(***************************************************************************)
WithinBudget ==
    [][\A c \in Seekers : ~ Reserved(c) /\ Reserved(c)' =>
          /\ policy.enabled
          /\ Cardinality({x \in Seekers : Reserved(x)' /\ Day(at[x]) = Day(at[c])}) <= policy.budget.daily
          /\ Cardinality({x \in Seekers : Reserved(x)' /\ at[x] = at[c]}) <= policy.budget.minute]_demoVars

(***************************************************************************)
(* A key never has two demos at a time, whichever of the calls with it     *)
(* overlapped, were repeated or given up.                                  *)
(***************************************************************************)
Live(w) == state[w] \in {"PROVISIONING", "READY"} /\ clock < Deadline(w)

OneDemoPerKey == \A v, w \in Seekers : Live(v) /\ Live(w) /\ key[v] = key[w] => v = w

(***************************************************************************)
(* What a call answered is so, and remains so: the session is of a whole   *)
(* workspace, made for the same key, until it expires; what is called      *)
(* failed never becomes ready; and a refusal that lets the caller forget   *)
(* the key has reserved nothing.                                           *)
(***************************************************************************)
Whole(w) == state[w] = "READY" /\ parts[w] = 1..Parts

DemoAnswersTrue ==
    \A c \in Seekers : LET kind == answer[c][1] ws == answer[c][2] IN
        /\ kind = "session" => key[ws] = key[c] /\ (Whole(ws) \/ (state[ws] = "gone" /\ clock >= Deadline(ws)))
        /\ kind = "failed" => state[c] \in {"FAILED", "gone"}
        /\ kind \in {"quota", "paused", "unavailable"} => state[c] = "none"
===============================================================================
